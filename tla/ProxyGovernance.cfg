CONSTANTS
  c1 = c1
  Calls = {c1}
  SlugIds = {"crm", "bq"}
  OtherIds = {""}
  Settings <- MCSettings
  PdpAnswers <- PdpReplies
  EngineAnswers <- EngineReplies
  LateResults = {"gaveUp", "lost"}
SPECIFICATION FairSpec
INVARIANT ProxyTypeOK
INVARIANT GovernedExecution
INVARIANT NoUnseenPII
INVARIANT OneTrueRow
INVARIANT RefusedNeverRuns
INVARIANT RefusalTellsCause
PROPERTY GovernedSpec
PROPERTY EveryCallAnswered
CHECK_DEADLOCK FALSE
