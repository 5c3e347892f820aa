SPECIFICATION Spec
CONSTANTS
  Cores = {c1}
  BSP = c1
  MaxThreads = 3
  NULL = NULL
  MaxNesting = 1
  Backend = "lapic"
  Slice = 2
  SleepTicks = {0, 1, 3}
  Calls = {"yield", "reschedule", "park", "park_null", "park_fail", "sleep",
           "exit", "create", "wakeup"}
INVARIANTS KernelTypeOK NoDanglingTimer
PROPERTIES SleepsLongEnough
CHECK_DEADLOCK FALSE
