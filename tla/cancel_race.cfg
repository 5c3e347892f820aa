SPECIFICATION Spec
CONSTANTS
  Cores = {c1}
  BSP = c1
  MaxThreads = 2
  NULL = NULL
  MaxNesting = 1
  Backend = "tsc"
  Slice = 2
  SleepTicks = {}
  Calls = {"yield"}
INVARIANT DispatchAssertHolds
CHECK_DEADLOCK FALSE
