SPECIFICATION Spec
CONSTANTS
  LEVELS = 4
  FIRST = 1
  PAGE = 2
  SizeBits = 5
  RegionSize = 2
  MemMap <- SmallMap
  Sizes = {1, 8}
  FreeLevels = {0, 2}
INVARIANT MetadataIsTrue
CHECK_DEADLOCK FALSE
