SPECIFICATION Spec
CONSTANTS
  Keys = {k1, k2, k3}
  Values = {v1, v2}
  NULL = NULL
  Hashes = {0, 1, 5}
  DftCaps = {0, 1}
  MaxCap = 5
  MaxSize = 4
CONSTRAINT Explored
SYMMETRY ValueSymmetry
INVARIANTS
  EntriesInPlace
  NoLeak
  HintHolds
  IterComplete
PROPERTIES
  IsMap
