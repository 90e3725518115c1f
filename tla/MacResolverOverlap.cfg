\* Two programs with domains of their own, any overlap of their calls, every
\* mishap, and an administrator between calls.
SPECIFICATION Spec
CONSTANTS
  h1 = h1
  h2 = h2
  oa = oa
  ob = ob
  d1 = d1
  d2 = d2
  d3 = d3
  Handle = {h1, h2}
  Owner = {oa, ob}
  Domain = {d1, d2, d3}
  OwnersOf <- DistinctOwners
  WantedBy <- OwnDomains
  Edits = TRUE
  Mishaps = {"io", "crash", "forget"}
  Foreign = Foreign
  Empty = Empty
  Absent = Absent
INVARIANTS
  TypeOK
PROPERTIES
  OthersFilesKept
  CloseLeavesNothing
  CloseSucceeds
  ApplyCleansUp
