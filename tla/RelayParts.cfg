SPECIFICATION PartSpec
CONSTANTS
  ControlDim = 2 StepCount = 3
  OverlapSteps = 2 StepPeriod = 2 MaxSourceAge = 6
  Lower <- LowerValue Upper <- UpperValue MaxDelta <- DeltaValue
  TimeMax = 15
  Times = {1, 2, 3, 5, 6, 8}
  Starts = {0, 4}
  Actions <- OfferedActions
  Chunks <- OfferedChunks
  Names <- RingNames
  Commands <- Invocations
  SlotBytes <- Builds
  NeededBytes = 2
  MaxLives = 2
  MaxPayload = 2
  NfeMax = 7
  Width = 3
  Published <- PublishedActions
  MaxRecords = 3
  JobEvents <- MetricEvents
  Conditions <- Asked
  Events <- JobEvent
  MaxUnits = 2
  MaxLog = 4
  MaxFailures = 1
  Capacity = 2
  NanosecondsPerNfe = 2
  ReserveNs = 2
  Top = 31
  Lanes = {1, 2}
  Offered <- MCOffered
  MaxNow = 12
  IntMax = 9999 Day = 86 MaxTokens = 600 Millisecond = 100 SentAt = 150
  Arguments <- TriedArguments
  Cpus = {0, 1, 2, 3}
  NumaNodes = {0, 1}
  MaxWorkers = 5
INVARIANTS
  StartsSound MetricsAgree TraceFaithful MessagesSound
PROPERTIES GateSafe AdmissionHolds
CHECK_DEADLOCK FALSE
