SPECIFICATION FairSpec
CONSTANTS
  a1 = a1
  w1 = w1
  r1 = r1
  r2 = r2
  r3 = r3
  None = None
  Pods <- ApiAndWriter
  Writers <- OneWriter
  Requests <- ThreeRequests
  MaxOpen = 2
  MaxIdle = 1
  MaxConnections = 5
  Others = 1
  Intervals <- SomeIntervals
  DefaultInterval = 1
  Batches <- SomeBatches
  DefaultBatch = 1
INVARIANTS
  TypeOK
  WaitersWaitForWork
PROPERTIES
  AllAnswered
  EventuallyServing
