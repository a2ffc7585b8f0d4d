SPECIFICATION Spec
CONSTANTS
  Workers = {w1, w2}
  Owners = {p, q}
  Frames = {p}
  Contents = {s}
  NotThreadSafe = {s}
  Async = {s}
  Job = job
  MaxTasks = 2
INVARIANTS GatesSound DeadOwnerUntouched TasksAccounted NoStolenWake
PROPERTIES QueuedRuns DrainReturns
CHECK_DEADLOCK FALSE
