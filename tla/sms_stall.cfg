SPECIFICATION Spec
CONSTANTS
  MaxKeys = 2
  Handlers = {h1, h2}
  MaxTries = 2
  MaxAttempts = 2
  MaxAccidents = 1
  MaxStalls = 1
  ForgetsKeys = TRUE
CHECK_DEADLOCK FALSE
SYMMETRY HandlerSymmetry
VIEW BooksAndHandlers
INVARIANTS
  OneOpenUsage
  OpenUsageIsFound
PROPERTIES
  ClosedUsageIsFinal
