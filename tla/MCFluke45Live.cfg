\* Two callers, two timeouts, a port that stays but may hold a stale prompt.
CONSTANTS
  a1 = a1
  a2 = a2
  Askers = {a1, a2}
  Runner = Runner
  MaxCalls = 2
  MaxCancels = 2
  MayDrop = FALSE
  StaleMarks = {"?"}
SPECIFICATION FairSpec
INVARIANT OwnAnswer
PROPERTY SubmittedReturns
PROPERTY CancelledReturns
CHECK_DEADLOCK FALSE
