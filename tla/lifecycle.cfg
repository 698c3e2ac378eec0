\* Two nodes, one id, three elements: setting, killing, copying, destroying,
\* between Runs and inside callbacks, with an exhausted pool, callbacks that
\* throw and invalid cron expressions.
CONSTANTS
  e1 = e1
  e2 = e2
  e3 = e3
  n1 = n1
  n2 = n2
  TVR_SIZE = 2
  TVN_SIZE = 2
  WORD = 128
  Node = {n1, n2}
  Id = {1}
  Elem = {e1, e2, e3}
  NULL = NULL
  Requests <- LifeRequests
  CronGaps <- LifeGaps
  BadCron = TRUE
  CallbackThrows = TRUE
  CopyInCallback = TRUE
  MaxNow = 3
SPECIFICATION Spec
SYMMETRY Symmetry
INVARIANTS
  TypeOK
  Ownership
  RegisteredIsLive
  LiveIsRegistered
PROPERTIES
  KilledTimersStaySilent
CHECK_DEADLOCK FALSE
