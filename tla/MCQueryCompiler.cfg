SPECIFICATION Spec
CONSTANTS
  Names = {a, b}
  x = x
  h = h
  MaxDepth = 3
  MaxObjects = 15
  MaxChain = 3
  MaxArgs = 2
  MaxFailed = 6
  MaxCompiled = 12
CONSTRAINT Explored
SYMMETRY Symmetry
CHECK_DEADLOCK FALSE
INVARIANTS
  OneOwner
  LiveRefs
  ScopesInStep
  LeavesNothing
