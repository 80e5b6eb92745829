SPECIFICATION RunSpec
CONSTANTS
  Endpoints = {e1}
  Clusters = {c1}
  Attrs = {a1}
  HaClusters = {c1}
  None = None
  Duration = 2
  MaxCommands = 4
  MaxPages = 1
  MaxAnswers = 2
  MaxStarts = 1
  MaxKeys = 2
  MaxPresses = 4
  MaxMoves = 2
INVARIANTS InterfacesHold OwnResult AlarmsMatch
PROPERTIES  EditsSafe
CHECK_DEADLOCK FALSE
