SPECIFICATION Spec
CONSTANTS
    NLabels = 1
    T0 = T0
    c1 = c1
    Queues = {c1}
    Workloads <- Everything
    MaxTx = 1
    MaxBusyRetries = 1
    MaxATRetries = 1
    MaxPendingRetries = 1
    MaxResets = 1
PROPERTY EveryPostedAnswered
CHECK_DEADLOCK FALSE
