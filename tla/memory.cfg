SPECIFICATION Spec
CONSTANTS
  c1 = c1
  c2 = c2
  NULL = NULL
  Cores = {c1, c2}
  Pages = {p1, p2, p3, p4, p5}
  JitPages = 2
  Virt <- MCVirt
  Area <- MCArea
  Path <- MCPath
  Touch <- MCTouch
  Ops <- MCOps
  Growth <- AllocGrows
INVARIANTS MemoryTypeOK PageHasOneOwner NoSelfDeadlock LocksAreHeld
SYMMETRY Interchangeable
CHECK_DEADLOCK FALSE
