SPECIFICATION FairSpec
CONSTANTS
  NumRows = 2
  Limits <- OneOrDefault
  DefaultLimit = 2
  MaxAttempts = 3
  BaseDelay = 2
  MaxDelay = 5
  WordBits = 5
  TicksPerSecond = 2
  MaxFaults = 1
INVARIANTS
  TypeOK
  DeadAfterMaxAttempts
  BackoffRespected
  CountsAreFailures
PROPERTIES
  EventuallySettled
  OldestVisited
