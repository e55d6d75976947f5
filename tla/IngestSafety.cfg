SPECIFICATION Spec
CONSTANTS
  d1 = d1
  d2 = d2
  d3 = d3
  s1 = s1
  s2 = s2
  w1 = w1
  w2 = w2
  None = None
  Deliveries <- ThreeDeliveries
  SNs <- OneSN
  EventTimes <- OneTime
  Writers <- TwoWriters
  BatchSize = 2
  TicksPerMs = 1
  TicksPerSecond = 2
  MaxTime = 2
  LastArrival = 1
  Faults <- FaultKinds
  MaxFaults = 2
SYMMETRY Symmetry
INVARIANTS
  TypeOK
  AcceptedIsStored
  QueuedIsUnclaimed
  NoDoubleClaim
  AttemptsCountClaims
  OrphanBound
PROPERTIES
  StatusMovesForward
  ImplementsLifecycle
