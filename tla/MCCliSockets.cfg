SPECIFICATION SocketsSpec
CONSTANTS
  MaxOpens = 2
  MaxConnects = 3
  Losses = TRUE
  MaxBinds = 2
  MaxServers = 2
  MaxUdp = 2
  MaxWorkers = 2
INVARIANTS SocketsOwned SocketsInv
PROPERTIES DeletedUntouched GroupsUntouched TasksEnd
CHECK_DEADLOCK FALSE
