CONSTANTS
  t = "t"
  w = "w"
  Nameless = Nameless
  BackendOrder <- MCBackends
  ToolLists <- MCToolLists
  CallNames <- MCCallNames
  MaxLines = 2
SPECIFICATION FairSpec
INVARIANT SessionTypeOK
INVARIANT ListedIsRouted
INVARIANT NothingLost
INVARIANT CallMeansListed
INVARIANT AnsweredInTurn
PROPERTY ToolsFixed
PROPERTY RequestsAnswered
CHECK_DEADLOCK FALSE
