SPECIFICATION Spec
CONSTANTS
  t1 = t1
  t2 = t2
  Terminals <- OneTerminal
  Pids <- FewPids
  NoPid = 0
  Ops <- Background
  MaxOps = 2
  MaxDeaths = 0
  MaxOthers = 0
  MaxFaults = 0
  MaxCuts = 0
CHECK_DEADLOCK FALSE
INVARIANTS OnWellKnownPort
