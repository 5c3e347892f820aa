SPECIFICATION Spec
CONSTANTS
  Cores = {c1, c2}
  BSP = c1
  MaxThreads = 3
  NULL = NULL
  MaxNesting = 1
  Backend = "tsc"
  Slice = 2
  SleepTicks = {}
  Calls = {"yield", "reschedule", "park", "park_null", "park_fail", "create", "wakeup"}
INVARIANTS ArmedWhileTimersRemain SliceNeverLost
PROPERTIES RunnableRuns
CHECK_DEADLOCK FALSE
