SPECIFICATION Spec
CONSTANTS
  MaxData <- OneEach
  NetCap = 1
  MaxLosses = 0
  TargetReads = TRUE
CHECK_DEADLOCK FALSE
INVARIANT HalfCloseWhole
