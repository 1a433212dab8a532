SPECIFICATION Spec
CONSTANTS
  Conns = {c1, c2, c3}
  NoConn = NoConn
  SharedQueue = FALSE
  Prompt = TRUE
INVARIANTS TypeOK NoOrphan
PROPERTIES ClosedWritersEnd ServedAgain
