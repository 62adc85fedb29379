SPECIFICATION FairSpec
CONSTANTS
  NULL = NULL
  Threads = {t1, t2}
  Lines <- MCLines
  MaxLines = 4
  MayFail = TRUE
CHECK_DEADLOCK FALSE
INVARIANTS
  TypeOK
  NoLineIsLost
  FileFollowsQueue
  NoLostWakeup
PROPERTIES
  LinesAreTaken
  CloseReturns
