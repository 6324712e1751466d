SPECIFICATION FairSpec
CONSTANTS
  WorkerCounts <- OneOrTwo
  Delays <- MCDelays
  DiscoveryTimeout = 1
  AnswerTimeout = 2
  NoAnswer = NoAnswer
  MaxTime = 8
  MaxCalls = 2
  MaxChanges = 2
INVARIANTS
  TypeOK
  SuccessIsGenuine
  TwoThreadsForward
PROPERTIES
  EveryCallAnswered
