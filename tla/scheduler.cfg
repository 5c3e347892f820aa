SPECIFICATION SchedSpec
CONSTANTS
  Cores = {c1, c2}
  BSP = c1
  MaxThreads = 3
  NULL = NULL
  MaxNesting = 2
  Calls = {"yield", "reschedule", "park", "park_null", "park_fail", "sleep",
           "exit", "create", "wakeup", "preempt"}
INVARIANTS TypeOK NoLostWakeup AssertionsHold OnlyBootCoreRuns
CHECK_DEADLOCK FALSE
