SPECIFICATION Spec
CONSTANTS
  MaxOut = 0
  MaxIn = 0
  MaxSig = 0
  NetCap = 1
  PipeCap = 1
  ExitCodes = {3}
  Signals = {2}
  Commands <- DaemonCommands
  ExitDisconnected = 124
CHECK_DEADLOCK FALSE
INVARIANTS GroupReaped
