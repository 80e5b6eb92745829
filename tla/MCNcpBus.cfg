SPECIFICATION NcpSpec
CONSTANTS
  QueueLen = 2
  BufSize = 5
  Sizes = {2, 3}
  RequestSizes = {2}
  Kinds = {"cmd", "poll", "unknown"}
  MaxRequests = 2
  MaxInds = 2
  SLIP_END = END
  SLIP_ESC = ESC
  SLIP_ESC_END = ESC_END
  SLIP_ESC_ESC = ESC_ESC
  Other = Other
  MaxLen = 5
  Masks = {m1}
  ApsQueueLen = 1
  MaxCmds = 2
  MaxAps = 2
  MaxSetbacks = 1
INVARIANTS NcpHolds AnswersInOrder SlipCoding
PROPERTIES EventsInOrder 
CHECK_DEADLOCK FALSE
