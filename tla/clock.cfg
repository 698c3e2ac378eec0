\* Two wraps of the counter, every pattern of readings and changes of speed.
CONSTANTS
  TICK_WORD = 8
  SPEED_DEFAULT = 4
  Speeds <- AllSpeeds
  Starts <- AllStarts
  MaxReal = 17
SPECIFICATION Spec
INVARIANTS
  ClockTypeOK
  DriftBounded
PROPERTIES
  WholeMultiplesExact
CHECK_DEADLOCK FALSE
