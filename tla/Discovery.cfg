SPECIFICATION Spec
CONSTANTS
    Devices = {1, 2}
    Storage = {2}
    Nodes = {1, 2}
    Local = 0
    Layouts <- MCLayouts
    MaxInflight = 1
    PerStepRetries = 1
    ReadyRetries = 1
    TopSpeed = 0
    MaxDetailReads = 2
    MaxResets = 1
    MaxManual = 1
    CountFailures = TRUE
    MaxRootFailures = 1
INVARIANTS TypeOK NoNodeStranded TablesAgree SettledIsBound
PROPERTIES TokenNeverRevives ScanEnds
CHECK_DEADLOCK FALSE
