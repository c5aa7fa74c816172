SPECIFICATION CursorSpec
CONSTANTS
  Queries = {"hits", "tracks"}
  Cursors = {c1, c2}
  Objects = {"event", "empty", "track"}
  Rooted = {"event", "empty"}
  Count <- MCCount
  Types = {"float", "double", "Hit", "Track"}
  Compounds = {"Hit", "Track"}
  Virtual = {}
  Known = {"float", "double", "Hit"}
  Conversions <- MCConversions
  ResultType <- MCResultType
  None = None
SYMMETRY MCSymmetry
CHECK_DEADLOCK FALSE
INVARIANTS
  OneCursor
  NothingLeft
