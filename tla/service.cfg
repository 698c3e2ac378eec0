\* One node, two ids, a main loop that goes on: the order in which Run
\* executes timers, the rhythm of exact and of other timers when Run is
\* late, and that everything due is done in the end.
CONSTANTS
  e1 = e1
  e2 = e2
  e3 = e3
  n1 = n1
  n2 = n2
  TVR_SIZE = 2
  TVN_SIZE = 2
  WORD = 128
  Node = {n1}
  Id = {1, 2}
  Elem = {e1, e2}
  NULL = NULL
  Requests <- OrderRequests
  CronGaps <- LifeGaps
  BadCron = FALSE
  CallbackThrows = FALSE
  CopyInCallback = FALSE
  MaxNow = 4
SPECIFICATION FairSpec
PROPERTIES
  Implements
  RunTerminates
  DueTimersFire
  ErasedIsReleased
CHECK_DEADLOCK FALSE
