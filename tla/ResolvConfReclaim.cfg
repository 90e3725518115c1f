\* One program that is run again after each crash or forget.
SPECIFICATION FairSpec
CONSTANTS
  h1 = h1
  h2 = h2
  oa = oa
  ob = ob
  Handle = {h1}
  Owner = {oa, ob}
  Server = {s1}
  OwnersOf <- OneOwner
  User = {u1, u2, stub}
  Stub = {stub}
  LinkKinds = {"file", "resolved", "elsewhere"}
  MountKinds = {FALSE}
  Overlap = "close"
  Edits = "between"
  Mishaps = {"crash", "forget"}
  Absent = Absent
  Torn = Torn
  None = None
PROPERTIES
  OwnedIsReclaimed
