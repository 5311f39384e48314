SPECIFICATION Spec
CONSTANTS
    Channels = {0, 1}
    MaxUnits = 2
    Units = 1
    MaxRetries = 1
    MaxTimeoutRetries = 1
    MaxStreams = 2
    MaxResets = 1
    MaxLosses = 1
    MaxForeign = 2
INVARIANTS TypeOK HeldIsBacked NothingLeaks
PROPERTY OwnerReturns
CHECK_DEADLOCK FALSE
