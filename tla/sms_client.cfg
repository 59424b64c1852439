SPECIFICATION Spec
CONSTANTS
  MaxKeys = 2
  Handlers = {h1}
  MaxTries = 3
  MaxAttempts = 2
  MaxAccidents = 0
  MaxStalls = 0
  ForgetsKeys = FALSE
CHECK_DEADLOCK FALSE
INVARIANTS
  OneMessage
