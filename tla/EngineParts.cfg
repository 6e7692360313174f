SPECIFICATION PartSpec
CONSTANTS
  MaxPayload = 4
  NfeMax = 7
  Lanes = {1, 2}
  Adapters <- ThreeAdapters
  RegistrySize = 1
  Requests <- Streams
  Vocabulary = {"x", "y"}
  Budgets = {2}
  Generations = {0, 2}
  StateHeader = 1
  ResultSize = 1
  SnapshotSize = 1
  CapsuleOverhead = 2
  MaxBinds = 3
  MaxDamages = 1
  Kinds = {"mamba", "transformer_flow"}
  MaxRows = 1
  Solves <- TriedSolves
  MaxGeneration = 2
  Portfolios <- TriedPortfolios
  Contexts <- TriedContexts
  Latencies = {0, 10, 110}
  kMaxPlans = 3
  max = 255
  Heads <- TriedHeads
  Steps = {1, 2, 5, 7}
  Offsets = {0, 15}
  kMaxStages = 8
  SizeMax = 4000
  Shapes <- TriedShapes
  Lengths = {1, 5, 512}
  kPoolBytes = 448
  Files <- TriedFiles
  Texts <- TriedTexts
  kMax = 63
  kMaxTensors = 2
  kSimdAlign = 4
INVARIANTS
  JobExact GenerationsHold StateExact EstimateInRange ContractsHold HeadSound SlabLasts LoadSound
CHECK_DEADLOCK FALSE
