SPECIFICATION Spec
CONSTANTS
  Workers = {w1}
  Slow = {}
  None = None
  MaxRows = 1
  MaxAttempts = 2
  Threshold = 2
  MaxRetries = 0
  MaxPosts = 2
  MaxAccidents = 0
CHECK_DEADLOCK FALSE
INVARIANT PublishedIsCharged
