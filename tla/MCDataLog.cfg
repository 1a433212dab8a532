SPECIFICATION Spec
CONSTANTS
  Capacity = 1
  MaxRows = 3
INVARIANTS RowsKept FiledInOrder ClosedMeansStopped
PROPERTY RowsReachFile
CHECK_DEADLOCK FALSE
