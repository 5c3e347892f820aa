SPECIFICATION Spec
CONSTANTS
  Cores = {c1}
  BSP = c1
  MaxThreads = 2
  NULL = NULL
  MaxNesting = 1
  Backend = "lapic"
  Slice = 2
  SleepTicks = {0}
  Calls = {"sleep", "create"}
INVARIANT ArmedWhileTimersRemain
CHECK_DEADLOCK FALSE
