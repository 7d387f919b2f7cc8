SPECIFICATION Spec
CONSTANTS
  s = s
  m1 = m1
  a1 = a1
  a2 = a2
  a3 = a3
  c1 = c1
  c2 = c2
  Machines <- TwoMachines
  Self = s
  Nowhere = Nowhere
  NoName = NoName
  Addrs = {a1, a2, a3}
  Link <- Links
  LocalLink = 9
  Cmds <- TwoCmds
  Me = c1
  Scenes <- AllScenes
  Tie = 1
  NoCores = 100
  CacheTTL = 1
  BrowseTime = 1
CHECK_DEADLOCK FALSE
INVARIANTS TypeOK ClearWinner StaysHome DriftBounded
PROPERTIES CacheFresh
