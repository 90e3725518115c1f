\* Every back end, good or bad, in both modes, with and without a TUN device.
CONSTANTS
  up = up
  other = other
  stub = stub
  self = self
  Name <- MCName
  Overlay <- MCOverlay
  Address <- MCAddress
  LeadsBack <- MCLeadsBack
  Stub <- MCStub
  Self = self
  Room = 1
  Late = 1
  Nothing = Nothing
  Modes = {"global", "split"}
  Tuns = {TRUE, FALSE}
  ParentLists <- MCParentLists
  Attempts = 2
  Sends = 2
SPECIFICATION MCSpec
INVARIANTS
  TypeOK
  AnswersMatch
  PassIsEarned
  NoFalseAlarm
  EchoIsUnnoticed
PROPERTIES
  RunEnds
CHECK_DEADLOCK FALSE
