SPECIFICATION Spec
CONSTANTS
  Prios <- MCPrios
  Ages <- MCAges
  MaxSize = 2
  PruneAbove = 3
  MaxClock = 1
  MaxPuts = 5
INVARIANTS TypeOK QueueOrder WithinLimit
PROPERTY BufferSpec
