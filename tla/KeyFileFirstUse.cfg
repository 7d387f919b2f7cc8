SPECIFICATION Spec
CONSTANTS
  a = a
  b = b
  Procs <- TwoProcs
  Absent = Absent
  Partial = Partial
  MaxOps = 2
  MaxFaults = 0
CHECK_DEADLOCK FALSE
INVARIANTS LoadersAgree JoinSticks
