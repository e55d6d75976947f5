SPECIFICATION FairSpec
CONSTANTS
  RetentionDays = 3
  MirrorRetries = 1
INVARIANTS
  TypeOK
  OffsiteInTime
PROPERTIES
  NeverEmptied
  PrunedIsOffsite
  OnlyCommandsHold
