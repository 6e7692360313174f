SPECIFICATION FairSpec
CONSTANTS
    NumLanes = 2
    Request <- TwoRequests
    Routes <- MCRoutes
    UnitCost <- MCUnitCost
    ReserveNs = 0
    WorkQuantum = 1
    MaxU64 = 15
    Session = {0}
    QueueCapacity = 2
    MaxSessions = 2
    InteractiveReserve = 0
    CriticalReserve = 0
    MigrationCapacity = 1
    FailureThreshold = 0
    Calls = {"drain", "stop"}
    Faults = {}
    CancelGenerations = {}
    MaxTime = 1
ACTION_CONSTRAINT
    StopEarly
PROPERTIES
    Answered
    DrainCompletes
    StopReturns
CHECK_DEADLOCK FALSE
