SPECIFICATION Spec
CONSTANTS
    NumLanes = 2
    Request <- MovedRequests
    Routes <- MCRoutes
    UnitCost <- MCUnitCost
    ReserveNs = 0
    WorkQuantum = 1
    MaxU64 = 15
    Session = {0}
    QueueCapacity = 2
    MaxSessions = 2
    InteractiveReserve = 0
    CriticalReserve = 0
    MigrationCapacity = 1
    FailureThreshold = 0
    Calls = {"cancel", "drain", "release"}
    Faults = {"export"}
    CancelGenerations = {2}
    MaxTime = 1
INVARIANTS
    TypeOK
    CancelReaches
    OnePlace
    NoStrandedWork
    WatermarkCovers
    WorkPreserved
    NoLostWakeup
PROPERTIES
    DecidedOnce
