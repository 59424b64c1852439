SPECIFICATION FairSpec
CONSTANTS
  Tenants = {t1}
  NoTenant = NoTenant
  Keys = {}
  NoKey = NoKey
  Workers = {w1, w2}
  MaxAttempts = 2
  Concurrency = 1
  Limit = 2
  MaxRows = 3
  MaxCrashes = 1
  MaxStalls = 1
CHECK_DEADLOCK FALSE
INVARIANTS
  InOrder
  AttemptsWithinBudget
PROPERTIES
  ImplementsPromise
  EveryEventSettles
