SPECIFICATION Spec
CONSTANTS
    NLabels = 2
    T0 = T0
    c1 = c1
    Queues = {c1}
    Workloads <- RacingAndSerial
    MaxTx = 2
    MaxBusyRetries = 0
    MaxATRetries = 0
    MaxPendingRetries = 1
    MaxResets = 1
INVARIANTS TypeOK Exclusive AnsweredOnce LabelsAgree LiveIsCurrent AnswerMatches
PROPERTY TracksRequests
CHECK_DEADLOCK FALSE
