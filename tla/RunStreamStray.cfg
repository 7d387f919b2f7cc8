SPECIFICATION Spec
CONSTANTS
  MaxOut = 0
  MaxIn = 0
  MaxSig = 1
  NetCap = 1
  PipeCap = 1
  ExitCodes = {3}
  Signals = {2}
  Commands <- PlainCommands
  ExitDisconnected = 124
CHECK_DEADLOCK FALSE
INVARIANTS NoStray
