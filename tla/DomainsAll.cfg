\* Every short string, and every list of up to three related names.
SPECIFICATION Spec
CONSTANTS
  Inputs <- AllInputs
  IsDnsName <- ShortLabels
\* The loop ends.
CHECK_DEADLOCK FALSE
INVARIANTS
  RejectsMalformed
  OutermostKept
