\* Every interleaving of the fill threads and of the warps, over all small
\* matrices, two layouts (the second over the flags of the first) and two calls.
SPECIFICATION Spec
CONSTANTS
  kSpmv8x4BlockRows = 2
  MCRows = 5
  MCBlocks = 4
  Matrices <- MCMatrices
  ChunkBlocks = {0, 1, 2, 4}
  SplitThresholds = {1, 3}
  MaxLayouts = 2
  MaxCalls = 2
INVARIANT TypeOK
INVARIANT FillStaysInRow
INVARIANT LayoutTiles
INVARIANT FlagsFit
INVARIANT ExactlyOnce
PROPERTY ImplementsSpmvCall
