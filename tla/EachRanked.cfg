SPECIFICATION Spec
CONSTANTS
  Ranks <- TwoRanks
  Emits <- Silent
  Letter = Letter
  NL = NL
  MaxOut = 3
  ExitCodes = {0, 137}
  Together = TRUE
  Faults <- Env
CHECK_DEADLOCK FALSE
INVARIANTS AllRanked LinesNamed
