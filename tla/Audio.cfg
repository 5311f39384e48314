CONSTANTS
    Profiles = {"dice", "avc", "cmp"}
    MaxEvents = 4
SPECIFICATION Spec
INVARIANTS TypeOK RunningIsTrue StopReleases
CHECK_DEADLOCK FALSE
