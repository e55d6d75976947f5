SPECIFICATION Spec
CONSTANTS
  SNs <- FourSNs
  DefaultLimit = 2
  MaxLimit = 3
  Asked <- SmallAsked
  None = None
INVARIANTS
  TypeOK
  NothingSkipped
  ListedIsFetched
PROPERTY WalkEnds
