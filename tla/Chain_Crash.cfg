SPECIFICATION FairSpec
CONSTANTS
  NULL = NULL
  CRASH = CRASH
  FETCH = FETCH
  Main = Main
  Zk = Zk
  Free = Free
  AnoAtual = 2002
  MaxItems = 3
  N = 3
  Boot = 3
  Clients = {c1}
  Requests = {"add_golf"}
  Message <- MCMessage
  Faults = {"crash"}
  MaxFaults = 2
INVARIANTS
  AtMostOnce
PROPERTIES
  EveryRequestAnswered
  ChainHeals
