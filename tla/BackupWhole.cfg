SPECIFICATION Spec
CONSTANTS
  RetentionDays = 2
  MirrorRetries = 1
INVARIANTS
  SuccessIsWhole
