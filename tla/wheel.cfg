\* One timer of one node, with times that reach every vector of the wheel.
CONSTANTS
  e1 = e1
  e2 = e2
  e3 = e3
  n1 = n1
  n2 = n2
  TVR_SIZE = 2
  TVN_SIZE = 2
  WORD = 256
  Node = {n1}
  Id = {1}
  Elem = {e1}
  NULL = NULL
  Requests <- WheelRequests
  CronGaps <- NoGaps
  BadCron = FALSE
  CallbackThrows = FALSE
  CopyInCallback = FALSE
  MaxNow = 36
SPECIFICATION Spec
INVARIANTS
  FiresOnItsTick
  WheelInv
  RunExecutesAllExpired
CHECK_DEADLOCK FALSE
