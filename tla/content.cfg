SPECIFICATION FairSpec
CONSTANTS
  Workers = {w1, w2}
  Slow = {w1}
  None = None
  MaxRows = 1
  MaxAttempts = 2
  Threshold = 1
  MaxRetries = 1
  MaxPosts = 2
  MaxAccidents = 1
CHECK_DEADLOCK FALSE
INVARIANTS
  TypeOK
  SecondPostNeedsDoubt
  CreditsFollowPost
  ActiveBelowThreshold
PROPERTIES
  EveryPublicationSettles
  ImplementsPublications
