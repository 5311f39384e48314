SPECIFICATION Spec
CONSTANTS
    Devices = {1, 2}
    Storage = {2}
    Nodes = {1, 2}
    Local = 0
    Layouts <- MCLayouts
    MaxInflight = 1
    PerStepRetries = 1
    ReadyRetries = 1
    TopSpeed = 0
    MaxDetailReads = 2
    MaxResets = 0
    MaxManual = 0
    CountFailures = FALSE
    MaxRootFailures = 1
CHECK_DEADLOCK FALSE
PROPERTY ScanEnds
