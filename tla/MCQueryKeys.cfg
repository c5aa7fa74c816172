SPECIFICATION KeySpec
CONSTANTS
  Keys = {k1, k2}
  KeyedQueries <- MCQueries
  Rounds = {r1, r2}
  Blocks = {1, 2, 3, 4, 5, 6, 7, 8, 9, 10, 11, 12, 13, 14, 15, 16, 17, 18, 19, 20, 21, 22, 23, 24}
  MaxFaults = 2
SYMMETRY MCSymmetry
CHECK_DEADLOCK FALSE
INVARIANTS
  OwnedOnce
  ViewNamesResult
  KeysRunThrough
