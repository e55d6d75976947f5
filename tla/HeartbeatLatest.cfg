SPECIFICATION Spec
CONSTANTS
  b1 = b1
  b2 = b2
  b3 = b3
  s1 = s1
  s2 = s2
  p1 = p1
  p2 = p2
  None = None
  Beats <- TwoBeats
  SNs <- OneSN
  Pods <- OnePod
  Contents <- FullBeats
  PageLimit = 1
  MaxTime = 1
  Faults <- NoFaults
  MaxFaults = 0
INVARIANTS
  StatusIsLatest
