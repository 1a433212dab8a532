SPECIFICATION Spec
CONSTANTS
  Capacity = 1
  MaxRows = 1
PROPERTY CloseReturns
CHECK_DEADLOCK FALSE
