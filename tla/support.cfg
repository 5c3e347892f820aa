SPECIFICATION Spec
CONSTANTS
  NULL = NULL
  Nodes = {1, 2, 3, 4, 5, 6, 7, 8, 9, 10}
  Key <- EqualPairs
  After <- AllBefore
  Callers = {1, 2}
  MinShift <- SmallShift
  OrderCount <- SmallOrders
  IntBits = 6
  RegionBytes = 4
  HeapBase <- SmallBase
  AllocSizes = {0, 2, 3, 5}
  MaxBlocks = 2
  StackBytes = 8
  SymCells = 2
  SymAddrs = {1, 2, 4}
  SymSizes = {0, 1, 2}
  FileSymbols = 3
  MaxSymbols = 5
  SlotPages = 3
  Slots = 4
  GcSlots = {2}
  KernelAt = 1
  JitAt = 2
  Kernels <- SmallKernels
  MemMaps <- SmallMaps
INVARIANTS RbTypeOK RedBlackTree Walks HandedOutOnce DataIntact TableIsSorted LookupFinds ShadowFollows CodeIsReadOnly
PROPERTIES ImplementsTimerQueue
CHECK_DEADLOCK FALSE
