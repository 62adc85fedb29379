SPECIFICATION FairSpec
CONSTANTS
  NULL = NULL
  CRASH = CRASH
  FETCH = FETCH
  Main = Main
  Zk = Zk
  Free = Free
  AnoAtual = 2002
  MaxItems = 3
  N = 3
  Boot = 3
  Clients = {c1, c2}
  Requests = {"add_golf", "add_golf_old", "remove_golf", "add_clio", "ordered"}
  Message <- MCMessage
  Faults = {}
  MaxFaults = 0
INVARIANTS
  SuccessorLeadsByOne
  AckedIsEverywhere
  SameOrder
  ReplicasHoldSameModels
PROPERTIES
  EveryRequestAnswered
  ImplementsListService
