SPECIFICATION FairSpec
CONSTANTS
  TriggerWithin = 1
  Within = 1
  Duration = 3
  MaxGap = 2
  MaxPendingMessages = 2
  NoTime = NoTime
  MaxTime = 6
  MaxMessages = 4
  MaxEvents = 2
INVARIANTS
  TypeOK
  VerdictIsRight
PROPERTIES
  Decided
