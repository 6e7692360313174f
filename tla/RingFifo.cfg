SPECIFICATION Spec
CONSTANTS
    Capacity = 2
    SequenceMod = 4
    Creators = {"producer", "consumer"}
    Oversized = {4}
    EarlyOpen = FALSE
    MaxRings = 2
    MaxMessages = 5
    MaxCrashes = 1
    MaxDamage = 1
INVARIANTS RingSafe
PROPERTIES IsBoundedFifo Drained
CHECK_DEADLOCK FALSE
