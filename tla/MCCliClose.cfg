SPECIFICATION FairSpec
CONSTANTS
  MaxOpens = 1
  MaxConnects = 1
  Losses = TRUE

PROPERTY Closes
CHECK_DEADLOCK FALSE
