SPECIFICATION RecoverySpec
CONSTANTS
  Main = main
  Downloads = {}
  Callers = {main}
  SerialCalls = TRUE
  Versions = {v1, bad}
  Bootable = {v1}
  Torn = torn
  FaultKinds = {"crash", "glitch", "flash", "connect", "nvs"}
  UserUpdates = TRUE
  MaxFaults = 3
  MaxDownloads = 0
INVARIANTS EntersCurrent HandleAgrees
PROPERTIES Recovers ImplementsChoice
CHECK_DEADLOCK FALSE
