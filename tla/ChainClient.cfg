SPECIFICATION FairSpec
CONSTANTS
  N = 2
  Boot = 1
  Faults = {"zk", "busy", "expire"}
  MaxFaults = 2
  MaxCmds = 1
  MaxSignals = 1
  Main = Main
  Zk = Zk
  Free = Free
INVARIANTS
  TypeOK
  FreedOnlyUnderLock
  EndsAreCurrent
PROPERTIES
  CommandKeepsItsLink
  EveryCommandReturns
  QuitEnds
CHECK_DEADLOCK FALSE
