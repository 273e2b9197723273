CONSTANTS
  Callers = {t1, t2}
  Nobody = Nobody
  BackoffBase = 2
  BackoffMax = 3
  Calls <- MCCalls
  Initialized = Initialized
  Noise = Noise
  Oversized = Oversized
  Initializers = {t2}
  Bounded = {t1}
  MaxConns = 1
  PipeCap = 1
  MaxChatter = 0
  MaxExpiries = 9
SPECIFICATION FairSpec
PROPERTY EveryCallReturns
CHECK_DEADLOCK FALSE
