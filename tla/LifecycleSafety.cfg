SPECIFICATION FairSpec
CONSTANTS
  t1 = t1
  t2 = t2
  Terminals <- OneTerminal
  Pids <- FewPids
  NoPid = 0
  Ops <- Everything
  MaxOps = 4
  MaxDeaths = 2
  MaxOthers = 1
  MaxFaults = 0
  MaxCuts = 1
CHECK_DEADLOCK FALSE
INVARIANTS TypeOK OneInBackground DownStops
PROPERTIES ServiceReturns
