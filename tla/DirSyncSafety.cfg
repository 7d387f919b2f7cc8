SPECIFICATION FairSpec
CONSTANTS
  Files <- TwoFiles
  Data = {"x", "y"}
  None = None
  Short = Short
  NetCap = 1
  Faults <- Readable
CHECK_DEADLOCK FALSE
INVARIANTS TypeOK GivenNoneShort OnlyDelta SyncComplete
PROPERTIES CopyDeletedIfUnpacked AnsweredIfUnpacked
