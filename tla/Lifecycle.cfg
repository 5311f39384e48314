SPECIFICATION Spec
CONSTANTS
    MaxAttempts = 2
INVARIANTS
    TypeOK ScopeHoldsProvider OneTeardown QuiescedIsDetached LedgerCoversProvider
    StoppedIsReleased
PROPERTIES TeardownTerminates RevocationStops
CHECK_DEADLOCK FALSE
