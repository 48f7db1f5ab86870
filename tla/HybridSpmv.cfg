\* Both modes on every split of a 3-row matrix (two block rows, the second
\* ragged), with rows whose residual is empty, short or long.
SPECIFICATION Spec
CONSTANTS
  kSpmv8x4BlockRows = 2
  chunk_nnz = 2
  MCRows = 3
  MCBlocks = 3
  Splits <- MCSplits
  ChunkBlocks = {1, 2}
  SplitThresholds = {1, 2}
  LongRowSplits = {0, 2}
  MaxCalls = 2
INVARIANT RaceFree
INVARIANT ExactlyOnce
PROPERTY ImplementsSpmvCall
