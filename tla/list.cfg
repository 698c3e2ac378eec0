CONSTANTS
  Slot = {s1, s2}
  Local = {l1, l2}
  Entry = {a, b, c}
  NULL = NULL
  POISON = POISON
SPECIFICATION FairSpec
INVARIANTS ListTypeOK RingInv WalkInv
PROPERTIES ImplementsQueues CascadeEnds
