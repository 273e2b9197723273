CONSTANTS
  Callers = {t1, t2}
  Nobody = Nobody
  BackoffBase = 2
  BackoffMax = 3
  Calls <- MCCalls
  Initialized = Initialized
  Noise = Noise
  Oversized = Oversized
  Initializers = {t2}
  Bounded = {t1}
  MaxConns = 2
  PipeCap = 1
  MaxChatter = 1
  MaxExpiries = 1
SPECIFICATION Spec
INVARIANT TypeOK
INVARIANT OwnAnswer
INVARIANT SendNeverBlocks
INVARIANT TableIsExact
INVARIANT DeadMeansGone
INVARIANT NoOrphanChild
INVARIANT HandshakeFirst
INVARIANT RetryOnlyAcrossRestart
INVARIANT ConnectedMeansNoBackoff
PROPERTY SpawnOnlyWhenDown
PROPERTY WorkingConnKept
PROPERTY ServiceSpec
CHECK_DEADLOCK FALSE
