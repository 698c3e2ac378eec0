CONSTANTS
  STOP = 2
  MaxNow = 5
  MaxSignals = 3
  NULL = NULL
SPECIFICATION FairSpec
INVARIANTS AppTypeOK WorkerWithinLifetimes ModuleOutlivesNodes CloseOnce
PROPERTIES NoCrashWhileStarted InterruptEnds StopTimerEnds
