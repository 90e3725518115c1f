\* One call at a time, others edit between calls, every mishap.
SPECIFICATION Spec
CONSTANTS
  h1 = h1
  h2 = h2
  oa = oa
  ob = ob
  Handle = {h1, h2}
  Owner = {oa, ob}
  Server = {s1}
  OwnersOf <- AnyOwner
  User = {u1, u2, stub}
  Stub = {stub}
  LinkKinds = {"file", "resolved", "elsewhere"}
  MountKinds = {TRUE, FALSE}
  Overlap = "none"
  Edits = "between"
  Mishaps = {"io", "crash", "forget"}
  Absent = Absent
  Torn = Torn
  None = None
INVARIANTS
  TypeOK
  UserConfigKept
  IInv
PROPERTIES
  CloseRestores
