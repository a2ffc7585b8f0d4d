SPECIFICATION Spec
CONSTANTS
  Nodes = {n1, n2}
  Records = {}
  Writer = w
  Readers = {r}
  Keeper = k
  MaxCreates = 2
INVARIANTS SlotsSound FlushDrains
PROPERTIES ListedReclaimed FlushReturns
CHECK_DEADLOCK FALSE
