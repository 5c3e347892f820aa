SPECIFICATION SchedSpec
CONSTANTS
  Cores = {c1}
  BSP = c1
  MaxThreads = 2
  NULL = NULL
  MaxNesting = 1
  Calls = {"preempt"}
INVARIANT RescheduleNotForgotten
CHECK_DEADLOCK FALSE
