SPECIFICATION FairSpec
CONSTANTS
  Delays <- MCDelays
  FlushPeriod = 3
  MaxLate = 1
  MaxTime = 8
  MaxMessages = 4
INVARIANTS
  TypeOK
  ExactlyOnce
  InOrder
  NeverEarly
  NotMuchLater
PROPERTIES
  EveryHeldIsPublished
