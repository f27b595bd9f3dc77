CONSTANTS
  Revolution = 3
  SampleSize = 2
  Stalls = TRUE
  MaxBytes = 16
  None = None
SPECIFICATION Spec
CHECK_DEADLOCK FALSE
INVARIANT ScansAreComplete
