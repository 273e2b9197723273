CONSTANTS
  Callers = {t1}
  Nobody = Nobody
  BackoffBase = 2
  BackoffMax = 3
  Calls <- MCCalls
  Initialized = Initialized
  Noise = Noise
  Oversized = Oversized
  Initializers = {}
  Bounded = {t1}
  MaxConns = 2
  PipeCap = 1
  MaxChatter = 0
  MaxExpiries = 9
SPECIFICATION ReadingSpec
PROPERTY EveryCallReturns
PROPERTY MutexReleased
PROPERTY DeathDetected
CHECK_DEADLOCK FALSE
