SPECIFICATION Spec
CONSTANTS
  NULL = NULL
  CRASH = CRASH
  FETCH = FETCH
  Main = Main
  Zk = Zk
  Free = Free
  AnoAtual = 2002
  MaxItems = 3
  N = 2
  Boot = 1
  Clients = {c1}
  Requests = {"add_golf"}
  Message <- MCMessage
  Faults = {}
  MaxFaults = 0
CHECK_DEADLOCK FALSE
PROPERTIES
  LocalOnlyAtTail
