SPECIFICATION Spec
CONSTANTS
  t1 = t1
  t2 = t2
  Terminals <- OneTerminal
  Pids <- FewPids
  NoPid = 0
  Ops <- Detached
  MaxOps = 2
  MaxDeaths = 1
  MaxOthers = 1
  MaxFaults = 0
  MaxCuts = 0
CHECK_DEADLOCK FALSE
INVARIANTS NoStranger
