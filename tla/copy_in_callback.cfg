\* A node copied in a callback: a copied timer that is due now is missed.
CONSTANTS
  e1 = e1
  e2 = e2
  e3 = e3
  n1 = n1
  n2 = n2
  TVR_SIZE = 2
  TVN_SIZE = 2
  WORD = 128
  Node = {n1, n2}
  Id = {1}
  Elem = {e1, e2}
  NULL = NULL
  Requests <- FewRequests
  CronGaps <- NoGaps
  BadCron = FALSE
  CallbackThrows = FALSE
  CopyInCallback = TRUE
  MaxNow = 5
SPECIFICATION Spec

INVARIANTS
  RunExecutesAllExpired
CHECK_DEADLOCK FALSE
