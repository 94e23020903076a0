SPECIFICATION MeteredSpec
CONSTANTS
  c1 = c1
  c2 = c2
  Calls = {c1, c2}
  CommandOf <- MCCommandOf
  Speaks = "client"
  CanCrash = TRUE
  CanClose = TRUE
  MaxResets = 2
INVARIANTS
  MetricsTypeOK
  AnswerIsItsOwn
  NobodyForgotten
  NoLeftovers
  MetricsTellCalls
  TotalsCoverCommands
PROPERTY
  CallsSettle
CHECK_DEADLOCK FALSE
