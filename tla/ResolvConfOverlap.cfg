\* Programs with marks of their own; close runs beside any other call.
SPECIFICATION Spec
CONSTANTS
  h1 = h1
  h2 = h2
  oa = oa
  ob = ob
  Handle = {h1, h2}
  Owner = {oa, ob}
  Server = {s1}
  OwnersOf <- DistinctOwners
  User = {u1, u2, stub}
  Stub = {stub}
  LinkKinds = {"file", "resolved", "elsewhere"}
  MountKinds = {TRUE, FALSE}
  Overlap = "close"
  Edits = "between"
  Mishaps = {"io", "crash", "forget"}
  Absent = Absent
  Torn = Torn
  None = None
INVARIANTS
  LiveActive
  IdleMeansRestored
PROPERTIES
  ImplementsUndoLog
  CloseSucceeds
  FailedApplyLeavesNothing
  ResolvedKept
