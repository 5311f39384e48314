SPECIFICATION Spec
CONSTANTS
    Targets = {1}
    MaxDelegateRetries = 1
    MaxRecoveryAttempts = 1
    MaxIterations = 3
    MaxResets = 2
    MaxRequests = 1
INVARIANTS TypeOK WorkIsScheduled ConservativeGap
PROPERTIES MergeKeepsStrength PublishesAccepted CatchesUp
CHECK_DEADLOCK FALSE
