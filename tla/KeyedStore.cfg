CONSTANTS
  Contents = {c1, c2}
  Revisions = {1, 2}
  Classes = {0, 4}
  Sizes = {1, 2}
  Holders = {h1, h2}
  Budget = 3
  MaxTick = 4
SPECIFICATION Spec
INVARIANTS Accounted
PROPERTIES OverBudgetOnlyPinned EvictsInOrder
CHECK_DEADLOCK FALSE
