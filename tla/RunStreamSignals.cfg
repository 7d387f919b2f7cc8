SPECIFICATION FairSpec
CONSTANTS
  MaxOut = 0
  MaxIn = 2
  MaxSig = 1
  NetCap = 1
  PipeCap = 1
  ExitCodes = {3}
  Signals = {2}
  Commands <- OutputCommands
  ExitDisconnected = 124
CHECK_DEADLOCK FALSE
PROPERTIES SignalReaches
