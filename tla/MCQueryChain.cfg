SPECIFICATION MCSpec
CONSTANTS
  N = 3
  MaxFan = 2
  Events = {1, 2}
  NULL = NULL
INVARIANTS
  TypeInv
  WalkInv
  KeyNamesResult
  YieldOnOwner
PROPERTY Enumerates
