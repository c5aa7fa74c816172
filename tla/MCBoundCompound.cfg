SPECIFICATION MCSpec
CONSTANTS
  M = 3
  MaxFan = 2
  Owners = {o1, o2}
  Verdicts = {"pass", "fail", "nothing"}
  NULL = NULL
CHECK_DEADLOCK FALSE
INVARIANTS
  NoLeftover
  ValuesAreWheels
PROPERTIES
  DeliversProduct
  CallsReturn
