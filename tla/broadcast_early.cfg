CONSTANTS
    Recipients <- TwoRecipients
    BatchSize = 2
    BaseUnit = 0
    Models = {"meta_cost_plus_credits"}
    Estimates = {"pending"}
    Verdicts = {"final"}
    MaxFaults = 0
SPECIFICATION Spec
INVARIANT SettledAfterStatuses
CHECK_DEADLOCK FALSE
