\* Two nodes with two ids: copies of timers, with three elements for up to
\* four timers.
CONSTANTS
  e1 = e1
  e2 = e2
  e3 = e3
  n1 = n1
  n2 = n2
  TVR_SIZE = 2
  TVN_SIZE = 2
  WORD = 128
  Node = {n1, n2}
  Id = {1, 2}
  Elem = {e1, e2, e3}
  NULL = NULL
  Requests <- FewRequests
  CronGaps <- LifeGaps
  BadCron = FALSE
  CallbackThrows = FALSE
  CopyInCallback = FALSE
  MaxNow = 2
SPECIFICATION Spec
SYMMETRY Symmetry
INVARIANTS
  NoLeak
  PoolFullAtShutdown
PROPERTIES
  Implements
CHECK_DEADLOCK FALSE
