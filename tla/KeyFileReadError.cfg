SPECIFICATION Spec
CONSTANTS
  a = a
  b = b
  Procs <- OneProc
  Absent = Absent
  Partial = Partial
  MaxOps = 2
  MaxFaults = 1
CHECK_DEADLOCK FALSE
PROPERTIES ReplacedOnlyByOwner
