SPECIFICATION Spec
CONSTANTS
    Capacity = 2
    SequenceMod = 4
    Creators = {"consumer"}
    Oversized = {}
    EarlyOpen = TRUE
    MaxRings = 1
    MaxMessages = 1
    MaxCrashes = 0
    MaxDamage = 0
PROPERTIES AcceptedStays
CHECK_DEADLOCK FALSE
