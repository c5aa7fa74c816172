SPECIFICATION Spec
CONSTANTS
  Owners = {o1, o2}
  MaxLen = 2
  Functions = {"sum", "prod", "min", "max", "all", "any", "count", "mean", "len", "empty"}
  Signatures <- MCSignatures
  Sample <- MCSample
  Rounded <- MCRounded
  NULL = NULL
CHECK_DEADLOCK FALSE
INVARIANTS
  ResultOfArguments
  StopsExactlyThere
PROPERTIES
  EvaluationEnds
