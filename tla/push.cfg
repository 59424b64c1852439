SPECIFICATION FairSpec
CONSTANTS
  Events = {e1}
  Subs = {s1, s2}
  Users = {a, b}
  None = None
  Dispatchers = {w1, w2}
  MaxAttempts = 2
  MaxChanges = 1
  MaxFaults = 1
CHECK_DEADLOCK FALSE
INVARIANTS
  TypeOK
  ClosedEventHasNoWork
  AttemptsWithinBudget
PROPERTIES
  SentOnlyToEntitled
  EveryEventCloses
  ImplementsNotifications
