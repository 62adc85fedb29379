SPECIFICATION Spec
CONSTANTS
  NULL = NULL
  CRASH = CRASH
  FETCH = FETCH
  Main = Main
  Zk = Zk
  Free = Free
  AnoAtual = 2002
  MaxItems = 1
  N = 3
  Boot = 1
  Clients = {c1}
  Requests = {r1, r2}
  Message <- MCSameMessage
  Faults = {"crash", "stop", "busy", "zk", "expire"}
  MaxFaults = 2
CHECK_DEADLOCK FALSE
SYMMETRY RequestSymmetry
CONSTRAINTS
  ThirdServerAlone
  LastRequestAlone
INVARIANTS
  TypeOK
  LocksAreOwned
  LinksGoUp
  LinksAreCurrent
  NoLinkIsMissing
  AnswersMatchRequests
  AtMostOnce
