SPECIFICATION Spec
CONSTANTS
  d1 = d1
  d2 = d2
  d3 = d3
  s1 = s1
  s2 = s2
  w1 = w1
  w2 = w2
  None = None
  Deliveries <- TwoDeliveries
  SNs <- OneSN
  EventTimes <- OneTime
  Writers <- OneWriter
  BatchSize = 1
  TicksPerMs = 1
  TicksPerSecond = 2
  MaxTime = 2
  LastArrival = 1
  Faults <- NoFaults
  MaxFaults = 0
INVARIANTS
  DoneWasClaimed
