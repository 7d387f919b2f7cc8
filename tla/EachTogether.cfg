SPECIFICATION FairSpec
CONSTANTS
  Ranks <- TwoRanks
  Emits <- Silent
  Letter = Letter
  NL = NL
  MaxOut = 3
  ExitCodes = {0, 137}
  Together = TRUE
  Faults <- Dial
CHECK_DEADLOCK FALSE
PROPERTIES EachAlwaysEnds
