CONSTANTS
  init = init
  list = list
  call = call
  Callers = {init, list, call}
  Initializers = {init}
  Bounded = {call}
  MaxRedeploys = 1
SPECIFICATION FairSpec
INVARIANT HttpTypeOK
INVARIANT RefusedOnlyAfterRedeploy
PROPERTY CallsReturn
PROPERTY AnswerEndsWait
PROPERTY ServiceSpec
CHECK_DEADLOCK FALSE
