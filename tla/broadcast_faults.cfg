CONSTANTS
    Recipients <- TwoRecipients
    BatchSize = 1
    BaseUnit = 0
    Models <- AllModels
    Estimates = {"pending", "not_charged", "rate_missing"}
    Verdicts = {"final", "rate_missing"}
    MaxFaults = 1
SPECIFICATION FairSpec
INVARIANTS
    TypeOK
    ChargeFollowsStatuses
    NothingForgotten
PROPERTIES
    ImplementsBill
    EveryJobSettles
CHECK_DEADLOCK FALSE
