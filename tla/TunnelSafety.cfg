SPECIFICATION FairSpec
CONSTANTS
  MaxData <- TwoDown
  NetCap = 2
  MaxLosses = 1
  TargetReads = TRUE
CHECK_DEADLOCK FALSE
INVARIANTS InOrder EndWhole
PROPERTIES TunnelEnds
