SPECIFICATION FairSpec
CONSTANTS
  NaN = NaN
  None = None
  BadFile = BadFile
  Campaigns <- Harmless
  Scenarios <- OnlyScan
  Overrides <- MCOverrides
  MaxMilliseconds = 10
  Messages <- MCMessages
  MaxEdits = 0
CHECK_DEADLOCK FALSE
INVARIANT
  SubsequentRunsContinue
