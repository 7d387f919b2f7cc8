SPECIFICATION FairSpec
CONSTANTS
  MaxOut = 1
  MaxIn = 2
  MaxSig = 0
  NetCap = 1
  PipeCap = 1
  ExitCodes = {3}
  Signals = {2}
  Commands <- ReapCommands
  ExitDisconnected = 124
CHECK_DEADLOCK FALSE
PROPERTIES CommandReaped ExitRelayed
