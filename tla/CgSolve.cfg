CONSTANTS
  Specs <- MCSpecs
  Weights <- MCWeights
  One = 4
  Largest = 5
  Margin = 1
  Tols <- MCTols
  Window = 1
  MaxIter = 6
  KInner = 2
  MaxOuter = 2
  Jobs <- MCJobs
SPECIFICATION Spec
INVARIANTS
  CurveReportsHistory
  PlateauMeansNoProgress
  VerdictIsOfSolution
  WorkCounted
  SyntheticIsPositiveDefinite
