\* Two programs apply at the same time.
SPECIFICATION Spec
CONSTANTS
  h1 = h1
  h2 = h2
  oa = oa
  ob = ob
  Handle = {h1, h2}
  Owner = {oa, ob}
  Server = {s1}
  OwnersOf <- DistinctOwners
  User = {u1, u2, stub}
  Stub = {stub}
  LinkKinds = {"file", "elsewhere"}
  MountKinds = {FALSE}
  Overlap = "any"
  Edits = "never"
  Mishaps = {}
  Absent = Absent
  Torn = Torn
  None = None
INVARIANTS
  IdleMeansRestored
