SPECIFICATION Spec
CONSTANTS
  Files <- TwoFiles
  Data = {"x"}
  None = None
  Short = Short
  NetCap = 1
  Faults <- Skips
CHECK_DEADLOCK FALSE
INVARIANTS GivenWhole
