SPECIFICATION FairSpec
CONSTANTS
  Handles = {ota}
  InfoSize = 2
  HeaderSize = 4
  RcpSize = 5
  ImageSize = 7
  BufSize = 3
  OldValid = TRUE
INVARIANTS HttpInv RestartsWhole
 
CHECK_DEADLOCK FALSE
