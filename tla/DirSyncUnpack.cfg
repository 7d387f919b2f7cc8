SPECIFICATION FairSpec
CONSTANTS
  Files <- OneFile
  Data = {"x"}
  None = None
  Short = Short
  NetCap = 1
  Faults <- Unpacks
CHECK_DEADLOCK FALSE
PROPERTIES CopyDeleted
