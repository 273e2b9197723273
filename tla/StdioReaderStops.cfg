CONSTANTS
  k1 = k1
  k2 = k2
  Calls <- MCCalls2
  MaxConns = 1
  PipeCap = 1
  MaxChatter = 1
  Initialized = Initialized
  Noise = Noise
  Oversized = Oversized
SPECIFICATION ConnSpec
INVARIANT ReaderEndsWithChild
CHECK_DEADLOCK FALSE
