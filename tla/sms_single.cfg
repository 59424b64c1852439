SPECIFICATION FairSpec
CONSTANTS
  MaxKeys = 1
  Handlers = {h1, h2}
  MaxTries = 3
  MaxAttempts = 3
  MaxAccidents = 2
  MaxStalls = 0
  ForgetsKeys = TRUE
CHECK_DEADLOCK FALSE
INVARIANTS
  TypeOK
  StoredSuccessIsPaid
PROPERTIES
  ImplementsMetering
  AcceptedIsCharged
