SPECIFICATION Spec
CONSTANTS
    Targets = {1}
    MaxDelegateRetries = 1
    MaxRecoveryAttempts = 1
    MaxIterations = 12
    MaxResets = 2
    MaxRequests = 0
INVARIANT QuiescingFlushes
CHECK_DEADLOCK FALSE
