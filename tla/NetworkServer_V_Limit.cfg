SPECIFICATION Spec
CONSTANTS
  NULL = NULL
  Zk = Zk
  Conns = {c1, c2}
  MaxClients = 1
  MaxInputs = 1
  MaxSignals = 0
  MayFail = FALSE
INVARIANT LimitHolds
CHECK_DEADLOCK FALSE
