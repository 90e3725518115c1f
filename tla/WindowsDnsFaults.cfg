\* Two nested handles of one interface; every call may fail.
SPECIFICATION Spec
CONSTANTS
  Handle = {h1, h2}
  WantedBy <- AnyFamilies
  UserValue = {u1, NoValue}
  NoValue = NoValue
  Nested = TRUE
  Faults = {"open", "misread", "set", "nrpt", "restore", "remove"}
INVARIANTS
  TypeOK
  TopmostInForce
  LeftRulesAreReported
PROPERTIES
  NestedCloseRestores
