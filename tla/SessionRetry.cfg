CONSTANTS
  t = "t"
  w = "w"
  Nameless = Nameless
  BackendOrder <- MCBackends
  ToolLists <- MCToolLists
  CallNames <- MCCallNames
  MaxLines = 1
SPECIFICATION Spec
INVARIANT RetriesAggregation
CHECK_DEADLOCK FALSE
