SPECIFICATION Spec
CONSTANTS
  a = a
  b = b
  Procs <- TwoProcs
  Absent = Absent
  Partial = Partial
  MaxOps = 4
  MaxFaults = 2
CHECK_DEADLOCK FALSE
INVARIANTS NeverPartial ResultCurrent
PROPERTIES NeverMissing
SYMMETRY Interchangeable
