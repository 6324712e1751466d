SPECIFICATION Spec
CONSTANTS
  WorkerCounts <- OneThread
  Delays <- NoDelay
  DiscoveryTimeout = 1
  AnswerTimeout = 2
  NoAnswer = NoAnswer
  MaxTime = 8
  MaxCalls = 2
  MaxChanges = 0
INVARIANTS
  NoFalseTimeout
