\* An invalid cron expression: the element fetched for it is lost.
CONSTANTS
  e1 = e1
  e2 = e2
  e3 = e3
  n1 = n1
  n2 = n2
  TVR_SIZE = 2
  TVN_SIZE = 2
  WORD = 128
  Node = {n1}
  Id = {1}
  Elem = {e1, e2}
  NULL = NULL
  Requests <- FewRequests
  CronGaps <- LifeGaps
  BadCron = TRUE
  CallbackThrows = FALSE
  CopyInCallback = FALSE
  MaxNow = 3
SPECIFICATION Spec

INVARIANTS
  PoolFullAtShutdown
CHECK_DEADLOCK FALSE
