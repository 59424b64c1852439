SPECIFICATION Spec
CONSTANTS
  Tenants = {t1, t2}
  NoTenant = NoTenant
  Keys = {k1}
  NoKey = NoKey
  Workers = {w1, w2}
  MaxAttempts = 2
  Concurrency = 1
  Limit = 2
  MaxRows = 2
  MaxCrashes = 1
  MaxStalls = 0
CHECK_DEADLOCK FALSE
SYMMETRY WorkerSymmetry
INVARIANTS
  TypeOK
  OwnerWritesOutcome
PROPERTIES
  ImplementsPromise
