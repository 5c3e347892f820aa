SPECIFICATION Spec
CONSTANTS
  LEVELS = 4
  FIRST = 1
  PAGE = 1
  SizeBits = 5
  RegionSize = 2
  MemMap <- SmallMap
  Sizes = {1, 4, 6, 16, 17}
  FreeLevels = {1, 2, 3}
INVARIANTS BuddyTypeOK NothingLostOrShared MetadataIsTrue NoSpuriousFailure
PROPERTIES ImplementsPhysSpec
CHECK_DEADLOCK FALSE
