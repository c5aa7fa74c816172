SPECIFICATION MCSpec
CONSTANTS
  Depth = 2
  TypeNames = {"int", "float", "byte"}
  MaxTypes = 2
  Promotions <- MCPromotions
  Keys = {1, 2, 3}
  Funcs = {"f", "g"}
  Increment = 2
  FunctionNames = {"sum"}
  Sorts = {"int", "float", "text"}
  Constructors <- MCConstructors
  MaxFrames = 3
  ConstantNames = {"pi"}
  Values = {0, 1, 4}
  Bits <- MCBits
  NULL = NULL
  Registries = {"types", "converters", "functions", "constants"}
CHECK_DEADLOCK FALSE
INVARIANTS
  TablesInOrder
  DefinedIsSeen
PROPERTIES
  MeaningsStay
  FoundStays
  Overloads
  KnownReturns
