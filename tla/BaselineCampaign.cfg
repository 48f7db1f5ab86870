CONSTANTS
  Plans <- MCPlans
  FileSize <- MCFileSize
  Gpus = {1, 2}
  MaxLosses = 1
SPECIFICATION FairSpec
INVARIANTS
  CombinedComplete
  ReportsAgree
  DoneRowsDurable
  ShardsBalanced
PROPERTIES
  CampaignEnds
CHECK_DEADLOCK FALSE
