CONSTANTS
  block_rows = 2
  block_cols = 2
  CsrMatrices <- MCCsrMatrices
SPECIFICATION Spec
INVARIANTS
  Converted
  FailsOnDuplicates
PROPERTIES
  RacingWritesAgree
