SPECIFICATION PowerUpSpec
CONSTANTS
  Main = main
  Downloads = {}
  Callers = {main}
  SerialCalls = FALSE
  Versions = {v1, bad}
  Bootable = {v1}
  Torn = torn
  FaultKinds = {"crash", "glitch", "flash", "connect", "nvs"}
  UserUpdates = FALSE
  MaxFaults = 2
  MaxDownloads = 0
  ZbFaultKinds = {"init", "form", "steer", "refuse", "wifi"}
  MaxZbFaults = 2
  Known <- MCKnown
  Kconfig <- MCKconfig
  None <- MCNone
INVARIANT GatewayHolds
PROPERTIES NetworksKept TrustsRunning ComesBack 
CHECK_DEADLOCK FALSE
