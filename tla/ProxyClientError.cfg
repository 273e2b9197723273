CONSTANTS
  c1 = c1
  Calls = {c1}
  SlugIds = {"crm", "bq"}
  OtherIds = {""}
  Settings <- MCSettings
  PdpAnswers <- PdpReplies
  EngineAnswers <- EngineReplies
  LateResults = {"gaveUp", "lost"}
SPECIFICATION Spec
INVARIANT ClientErrorNeverForwards
CHECK_DEADLOCK FALSE
