SPECIFICATION Spec
CONSTANTS
  Usages = {u1, u2}
  Plans = {"monthly"}
  Allowance <- SmallAllowance
  Openings = {0, 2}
  Payments = {2}
  Deltas <- SmallDeltas
  Edits <- SmallEdits
  MaxPrice = 2
  MaxCredits = 2
  Total <- SumOfUsages
SYMMETRY UsageSymmetry
CHECK_DEADLOCK FALSE
INVARIANTS
  TypeOK
  LedgerBelowBalance
  CacheIsCurrent
PROPERTIES
  EntriesMatchBalance
  MeteringStaysCovered
