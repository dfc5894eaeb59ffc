\* One caller with one timeout, as test_trigger: is the line in step afterwards?
CONSTANTS
  a1 = a1
  a2 = a2
  Askers = {a1}
  Runner = Runner
  MaxCalls = 2
  MaxCancels = 1
  MayDrop = FALSE
  StaleMarks = {}
SPECIFICATION Spec
INVARIANT HappyPlace
CHECK_DEADLOCK FALSE
