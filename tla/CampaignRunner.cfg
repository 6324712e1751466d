SPECIFICATION FairSpec
CONSTANTS
  NaN = NaN
  None = None
  BadFile = BadFile
  Campaigns <- MCCampaigns
  Scenarios <- MCScenarios
  Overrides <- MCOverrides
  MaxMilliseconds = 10
  Messages <- MCMessages
  MaxEdits = 1
CHECK_DEADLOCK FALSE
INVARIANTS
  TypeOK
  RecordsMatchPlan
  ExitZeroMeansAllPassed
  RunIsBaseWithOneValue
PROPERTIES
  CampaignEnds
