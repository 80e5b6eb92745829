SPECIFICATION RunSpec
CONSTANTS
  Networks <- MCNetworks
  Kconfig <- MCKconfig
  None = None
  MaxRetry = 1
  MaxWifi = 2
  Datasets = {d1}
  AutoDataset = d0
  NoDataset = NoDataset
  MaxRequests = 2
  MaxFound = 1
  MaxResults = 1
  MaxRestarts = 1
  MaxWork = 3
  ScratchSize = 4
  MaxHandled = 2
  MaxAddresses = 2
INVARIANTS WifiInv StateTrue   ChosenKept
PROPERTIES JoinHonest 
CHECK_DEADLOCK FALSE
