\* A crash between the backup and the rename.
SPECIFICATION FairSpec
CONSTANTS
  h1 = h1
  h2 = h2
  oa = oa
  ob = ob
  Handle = {h1}
  Owner = {oa, ob}
  Server = {s1}
  OwnersOf <- OneOwner
  User = {u1, u2, stub}
  Stub = {stub}
  LinkKinds = {"file", "elsewhere"}
  MountKinds = {FALSE}
  Overlap = "close"
  Edits = "never"
  Mishaps = {"crash", "forget"}
  Absent = Absent
  Torn = Torn
  None = None
PROPERTIES
  BackupIsReclaimed
