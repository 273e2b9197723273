CONSTANTS
  t = "t"
  w = "w"
  Nameless = Nameless
  BackendOrder <- MCBackends
  ToolLists <- MCToolLists
  CallNames <- MCCallNames
  MaxLines = 1
SPECIFICATION FairSpec
PROPERTY CancelStops
CHECK_DEADLOCK FALSE
