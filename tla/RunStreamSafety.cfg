SPECIFICATION Spec
CONSTANTS
  MaxOut = 2
  MaxIn = 2
  MaxSig = 0
  NetCap = 1
  PipeCap = 1
  ExitCodes = {3}
  Signals = {2}
  Commands <- SafetyCommands
  ExitDisconnected = 124
CHECK_DEADLOCK FALSE
INVARIANTS TypeOK OutputComplete EofIsClients NoSpuriousKill
PROPERTIES RemoteRunSpec
