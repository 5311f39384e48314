CONSTANTS
    Profiles = {"dice"}
    MaxEvents = 4
SPECIFICATION Spec
INVARIANT PickHonoured
CHECK_DEADLOCK FALSE
