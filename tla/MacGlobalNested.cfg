\* Two programs, every overlap, any call failing, others commit at any time.
SPECIFICATION Spec
CONSTANTS
  h1 = h1
  h2 = h2
  s1 = s1
  s2 = s2
  en0 = en0
  en1 = en1
  utun0 = utun0
  u1 = u1
  o1 = o1
  Handle = {h1, h2}
  Service = {s1, s2}
  InterfaceOf <- Interfaces
  DeviceOf <- Devices
  Tunnel = {utun0}
  UserDns <- Entries
  NoDns = NoDns
  NoKeys = NoKeys
  Gone = Gone
  NoDevice = NoDevice
  NoService = NoService
  Nobody = Nobody
  Nested = TRUE
  ErrorsEnd = TRUE
  Faults = {"find", "lock", "set", "commit", "apply", "unlock", "flush", "resolver",
            "vanish"}
  Editable = {s2}
  Edits = {"dns", "remove", "primary"}
INVARIANTS
  TypeOK
  TopmostInForce
  AnswersAreFresh
PROPERTIES
  OthersCommitsKept
  CloseRestores
