SPECIFICATION Spec
CONSTANTS
  p1 = p1
  p2 = p2
  k1 = k1
  k2 = k2
  Peers <- TwoPeers
  Fresh = Fresh
  NoPeer = NoPeer
  NoKey = NoKey
  OldAgents <- NoOld
  Keys <- OneKey
  ProbeBudget = 1
  DialTimeout = 2
  HandshakeTimeout = 3
  ReuseIdle = 3
  MaxFaults = 1
  MaxRotations = 0
CHECK_DEADLOCK FALSE
INVARIANTS ProbeWithinBudget
