SPECIFICATION BusySpec
CONSTANTS
  Cores = {c1, c2}
  BSP = c1
  MaxThreads = 3
  NULL = NULL
  MaxNesting = 0
  Calls = {"park", "park_fail", "exit", "create", "wakeup"}
INVARIANTS RunsOnOneCore RunnableIsQueuedOnce WaitingHasOneWaker BlockHasOneOwner
CHECK_DEADLOCK FALSE
