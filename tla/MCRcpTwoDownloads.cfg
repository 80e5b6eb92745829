SPECIFICATION DeliveredSpec
CONSTANTS
  Main = main
  Downloads = {ota1, ota2}
  Callers = {main, ota1, ota2}
  SerialCalls = FALSE
  Versions = {v1, v2}
  Bootable = {v1, v2}
  Torn = torn
  FaultKinds = {}
  UserUpdates = FALSE
  MaxFaults = 0
  MaxDownloads = 2
INVARIANT AppliedIsWhole
CHECK_DEADLOCK FALSE
