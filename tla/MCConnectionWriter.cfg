SPECIFICATION Spec
CONSTANTS
  Prios <- MCPrios
  Heartbeat <- MCHeartbeat
  MaxAge = 0
  MaxSize = 1
  PruneAbove = 2
  Kinds = {"udp", "tcp"}
INVARIANTS TypeOK NoLostWakeup
PROPERTIES HeldBackIsRetried ClosedIsCleanedUp
CHECK_DEADLOCK FALSE
