SPECIFICATION FairSpec
CONSTANTS
  a1 = a1
  a2 = a2
  f1 = f1
  f2 = f2
  NoTime = NoTime
  NaN = NaN
  Assertions <- MCAssertions
  FaultIds <- MCFaultIds
  Configs <- MCConfigs
  Startups <- MCStartups
  Depth = 2
  Period = 2
  Sleep = 1
  MaxLate = 1
  Timeout = 6
  MaxTime = 9
  MaxEvents = 2
  MaxMessages = 3
INVARIANTS
  TypeOK
  AnnouncedOnce
  VerdictsJustified
  RateWasMeasured
  VerdictsAgree
PROPERTIES
  RunEnds
