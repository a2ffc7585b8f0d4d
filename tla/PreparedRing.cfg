SPECIFICATION Spec
CONSTANTS
  Capacity = 2
  Depth = 1
  Blocks <- AroundZero
  Cells = {a, b}
  NoBlock = none
  Silence = silence
  Attempts = 2
  LoadsInOrder = TRUE
  MaxMixes = 2
INVARIANTS WholeBlock WindowSound
PROPERTIES UnderrunExcused ReadsAtOnce
CHECK_DEADLOCK FALSE
