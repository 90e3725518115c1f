\* Two programs, every overlap of their calls, every mishap.
SPECIFICATION Spec
CONSTANTS
  h1 = h1
  h2 = h2
  oa = oa
  ob = ob
  ka = ka
  kb = kb
  Handle = {h1, h2}
  Owner = {oa, ob}
  RuleId = {r1, r2, r3, r4, r5}
  Key = {ka, kb}
  KeyOf <- OwnKeys
  OwnersOf <- DistinctOwners
  Chunks = {1, 2}
  Mishaps = {"io", "close", "crash", "forget"}
  Nobody = Nobody
\* Leaked rules use up RuleId, and then nobody is called any more.
CHECK_DEADLOCK FALSE
SYMMETRY RuleSymmetry
INVARIANTS
  TypeOK
  LeftRulesExplained
PROPERTIES
  OthersRulesKept
  CloseSucceeds
  ForgottenRulesRemoved
