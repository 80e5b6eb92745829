SPECIFICATION DeliveredSpec
CONSTANTS
  Main = main
  Downloads = {ota}
  Callers = {main, ota}
  SerialCalls = FALSE
  Versions = {v1, v2}
  Bootable = {v1, v2}
  Torn = torn
  FaultKinds = {"glitch"}
  UserUpdates = FALSE
  MaxFaults = 1
  MaxDownloads = 1
PROPERTY RecoversWithImage
CHECK_DEADLOCK FALSE
