SPECIFICATION Spec
CONSTANTS
  b1 = b1
  b2 = b2
  b3 = b3
  s1 = s1
  s2 = s2
  p1 = p1
  p2 = p2
  None = None
  Beats <- ThreeBeats
  SNs <- OneSN
  Pods <- TwoPods
  Contents <- MixedBeats
  PageLimit = 1
  MaxTime = 1
  Faults <- FaultKinds
  MaxFaults = 1
SYMMETRY Symmetry
INVARIANTS
  TypeOK
  RealTimeOrder
  AcknowledgedIsRecorded
  HistoryHasStatus
  PageShowsAcknowledged
  GaugeRealTimeOrder
  CounterMatchesRequests
PROPERTIES
  ImplementsRegister
