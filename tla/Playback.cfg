SPECIFICATION Spec
CONSTANTS
  Depth = 1
  Capacity = 3
  Targets = {1}
  Rates <- Backwards
  Workers = {w1}
  Serial = {"leaf"}
  Faulty = {"leaf", "nest"}
  PoolOutlives = FALSE
  None = none
  MaxEvents = 2
  MaxFrames = 1
INVARIANTS WindowFresh CursorIsClock PoolServes
CHECK_DEADLOCK FALSE
