SPECIFICATION FairSpec
CONSTANTS
  Ranks <- TwoRanks
  Emits <- OneThere
  Letter = Letter
  NL = NL
  MaxOut = 3
  ExitCodes = {0, 126, 137}
  Together = TRUE
  Faults <- AnyFault
CHECK_DEADLOCK FALSE
INVARIANTS OutputWhole WorstCode
PROPERTIES EachEnds
