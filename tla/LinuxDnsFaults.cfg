\* Two programs with links of their own; any D-Bus call may fail.
SPECIFICATION Spec
CONSTANTS
  h1 = h1
  h2 = h2
  l1 = l1
  l2 = l2
  Handle = {h1, h2}
  Link = {l1, l2}
  TargetsOf <- OwnLinks
  NoDevice = NoDevice
  Unset = Unset
  Other = Other
INVARIANTS
  LiveInForce
PROPERTIES
  CloseOkReverts
