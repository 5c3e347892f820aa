SPECIFICATION Spec
CONSTANTS
  Cores = {c1}
  BSP = c1
  MaxThreads = 2
  NULL = NULL
  MaxNesting = 1
  Backend = "tsc"
  Slice = 2
  SleepTicks = {}
  Calls = {"create", "wakeup", "exit"}
PROPERTY ExitCompletes
CHECK_DEADLOCK FALSE
