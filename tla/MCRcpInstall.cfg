SPECIFICATION InstallSpec
CONSTANTS
  Main = main
  Downloads = {ota}
  Callers = {main, ota}
  SerialCalls = FALSE
  Versions = {v1, v2, bad}
  Bootable = {v1, v2}
  Torn = torn
  FaultKinds = {"crash", "flash"}
  UserUpdates = FALSE
  MaxFaults = 2
  MaxDownloads = 2
INVARIANTS AppliedIsWhole WayBack RunsCurrent StoreTypeOK
PROPERTIES CurrentIntact Recovers
CHECK_DEADLOCK FALSE
