CONSTANTS
  block_rows = 8
  block_cols = 4
  kK256ValueCodebookSize = 17
  kSpmvDict256ValueCodebookSize = 18
  kSpmvDict65536ValueCodebookSize = 21
  OutlierShare = 3
  ScalarCentres <- MCCentres
  LogCentres <- MCCentres
  Probe <- MCProbe
  DeltaU8 = 0
  DeltaU16 = 1
  NoMatrix = NoMatrix
  NotANumber = NotANumber
  Matrices <- MCMatrices
  Arguments <- MCArguments
  MaxArguments = 3
  DefaultWarmup = 1
  DefaultIterations = 1
  CalibratedBlocks <- MCCalibratedBlocks
  CalibratedAverage <- MCCalibratedAverage
SPECIFICATION Spec
CHECK_DEADLOCK FALSE
INVARIANTS
  LosslessIsExact
  LossyErrorBounded
  CallSumsDecodedValues
  AutoSelectionRuns
  AutoSavesBytes
  PromotionMatchesPolicy
  AnalysisForetellsBuilders
  ReportFitsMatrix
