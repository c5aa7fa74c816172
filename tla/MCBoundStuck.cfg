SPECIFICATION Spec
CONSTANTS
  M = 1
  MaxFan = 2
  Owners = {o1}
  Verdicts = {"pass", "fail", "nothing"}
  NULL = NULL
CHECK_DEADLOCK FALSE
PROPERTY ResetReturns
