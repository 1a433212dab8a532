SPECIFICATION Spec
CONSTANTS
  KeepTime = 7
  Cutoff = 6
  Fresh = 1
  MaxLate = 3
  MaxLag = 2
  MaxQueue = 3
INVARIANTS NoGhosts AppearsInTime
