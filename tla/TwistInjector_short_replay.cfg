SPECIFICATION Spec
CONSTANTS
  f1 = f1
  f2 = f2
  NoCommand = NoCommand
  Speeds <- MCSpeeds
  Scenarios <- MCScenarios
  Values <- MCValues
  ReplayFallback = 2
  IntMax = 2147483647
  MaxChanges = 1
  Delays <- MCDelays
  FlushPeriod = 2
  MaxLate = 0
  MaxTime = 5
  MaxMessages = 3
PROPERTIES
  ReplayWithinConfiguredAge
