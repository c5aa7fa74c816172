SPECIFICATION Spec
CONSTANTS
  Requests <- MCRequests
  MaxRecords = 3
CHECK_DEADLOCK FALSE
INVARIANTS
  RowsMatchHeader
  Released
  RunsThrough
