SPECIFICATION JobSpec
CONSTANTS
  MaxPayload = 4
  NfeMax = 7
  Lanes = {1, 2}
  Adapters <- ThreeAdapters
  RegistrySize = 1
  Requests <- Streams
  Vocabulary = {"x", "y"}
  Budgets = {2}
  Generations = {0, 2}
  StateHeader = 1
  ResultSize = 1
  SnapshotSize = 1
  CapsuleOverhead = 2
  MaxBinds = 3
  MaxDamages = 1
INVARIANT CapsuleFits
CHECK_DEADLOCK FALSE
