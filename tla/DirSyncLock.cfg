SPECIFICATION Spec
CONSTANTS
  Files <- TwoFiles
  Data = {"x", "y"}
  None = None
  Short = Short
  NetCap = 1
  Faults <- Ignored
CHECK_DEADLOCK FALSE
INVARIANTS EverythingBack OnlyTouched
