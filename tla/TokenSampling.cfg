SPECIFICATION ArenaSpec
CONSTANTS
  Shapes <- TransformerFlowShapes
  Lengths = {1, 5, 40, 512}
  kPoolBytes = 448
INVARIANTS
  TokenSamplingFits
