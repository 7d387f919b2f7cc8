SPECIFICATION FairSpec
CONSTANTS
  MaxData <- TwoUp
  NetCap = 1
  MaxLosses = 0
  TargetReads = FALSE
CHECK_DEADLOCK FALSE
PROPERTY TunnelEnds
