SPECIFICATION Spec
CONSTANTS
  Conns = {c1, c2, c3}
  NoConn = NoConn
  SharedQueue = TRUE
  Prompt = TRUE
PROPERTY ServedAgain
