CONSTANTS
  Tokens <- MCTokens
  Matrices <- MCMatrices
  DictSmall = 2
  DictLarge = 4
  MaxOptions = 3
SPECIFICATION Spec
INVARIANTS
  GateMeansSmallError
