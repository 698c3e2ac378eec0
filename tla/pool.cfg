\* Three slots in a pool, one pool added: every order of taking and giving
\* back, with the pool exhausted.
CONSTANTS
  SIZE = 3
  INDEX = 1
  NULL = NULL
SPECIFICATION Spec
INVARIANTS
  PoolTypeOK
  FreeListThreadsFree
  UsedIsOut
PROPERTIES
  ImplementsAllocator
\* The module's end is the pool's.
CHECK_DEADLOCK FALSE
