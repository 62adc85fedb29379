SPECIFICATION FairSpec
CONSTANTS
  NULL = NULL
  Zk = Zk
  Conns = {c1, c2}
  MaxClients = 1
  MaxInputs = 2
  MaxSignals = 1
  MayFail = TRUE
INVARIANTS
  TypeOK
  SlotsMatchThreads
  CounterCountsSlots
PROPERTIES
  BusyOnlyWhenFull
  EveryConnectionAnswered
  EveryThreadEnds
  CloseReturns
CHECK_DEADLOCK FALSE
