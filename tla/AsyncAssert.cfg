SPECIFICATION Spec
CONSTANTS
    NLabels = 2
    T0 = T0
    c1 = c1
    Queues = {c1}
    Workloads <- RacingOnly
    MaxTx = 2
    MaxBusyRetries = 0
    MaxATRetries = 0
    MaxPendingRetries = 1
    MaxResets = 0
INVARIANT NeverAsserts
CHECK_DEADLOCK FALSE
