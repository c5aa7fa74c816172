SPECIFICATION MCSpec
CONSTANTS
  Owners = {o1, o2}
  Values = {v, w}
  NoQuotient <- MCNoQuotient
  MaxLen = 2
  NULL = NULL
  Keys = {0, 1, 2, 5}
  Contents <- MCContents
  Selections <- MCSelections
  All = All
  Fan = 2
CHECK_DEADLOCK FALSE
INVARIANTS
  Paired
  YieldsSelected
  KeyOfElement
  Delivers
  StopsForArguments
