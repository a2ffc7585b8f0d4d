SPECIFICATION Spec
CONSTANTS
  MaxId = 2
  MaxSerial = 4
  MaxRevision = 4
  Keys = {0, 7}
  Budgets = {2, 100}
  k_no_budget = 100
  MaxReopens = 1
  Overlap = FALSE
  TrimsUndone = FALSE
INVARIANTS NavigationReturns StampsIdentify HistorySound
PROPERTY RevisionAdvances
CHECK_DEADLOCK FALSE
