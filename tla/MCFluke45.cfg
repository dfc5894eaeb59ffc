\* Two callers that may time out, on a port that may vanish.
CONSTANTS
  a1 = a1
  a2 = a2
  Askers = {a1, a2}
  Runner = Runner
  MaxCalls = 2
  MaxCancels = 2
  MayDrop = TRUE
  StaleMarks = {}
SPECIFICATION Spec
SYMMETRY Symmetry
INVARIANT TypeOK
INVARIANT AwaitsPending
INVARIANT AnswerOnTheWay
INVARIANT HandshakeFirst
INVARIANT DriftBounded
INVARIANT WokenWhenReady
PROPERTY TakesTurns
CHECK_DEADLOCK FALSE
