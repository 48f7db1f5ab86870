CONSTANTS
  block_rows = 2
  block_cols = 2
  FullMatrices <- MCFullMatrices
  Thresholds <- MCThresholds
  NoModel = NoModel
  CostModels <- MCCostModels
  SliceHeights = {1, 2, 4}
SPECIFICATION Spec
INVARIANTS
  Partition
  GateMinimises
  FormatsKeepEntries
