SPECIFICATION Spec
CONSTANTS
    NumLanes = 2
    Request <- QueuedRequests
    Routes <- MCRoutes
    UnitCost <- MCUnitCost
    ReserveNs = 0
    WorkQuantum = 1
    MaxU64 = 15
    Session = {0, 1}
    QueueCapacity = 2
    MaxSessions = 2
    InteractiveReserve = 0
    CriticalReserve = 1
    MigrationCapacity = 0
    FailureThreshold = 1
    Calls = {"drain"}
    Faults = {"advance", "bind", "start"}
    CancelGenerations = {}
    MaxTime = 2
INVARIANTS
    QueueServed
PROPERTIES
    QuarantineHolds
