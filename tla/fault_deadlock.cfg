SPECIFICATION Spec
CONSTANTS
  c1 = c1
  c2 = c2
  NULL = NULL
  Cores = {c1, c2}
  Pages = {p1, p2, p3, p4, p5, p6}
  JitPages = 2
  Virt <- MCVirt
  Area <- MCArea
  Path <- MCPath
  Touch <- StackOnly
  Ops <- MCOps
  Growth <- RangeGrows
INVARIANT NoLockCycle
CHECK_DEADLOCK FALSE
