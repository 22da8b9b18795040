SPECIFICATION MCFairSpec
CONSTANTS
  MemSize = 20
  ShiftMargin = 8
  InMargin = 6
  Chunk = 6
  HdrSize = 3
  SyncOff = 1
  MinPacket = 4
  MaxNext = 5
  MaxPacket = 6
  MaxCount = 7
  Sizes = {4, 5}
  SyncKinds = {TRUE}
  MayVanish = FALSE
  MaxPackets = 4
INVARIANTS
  TypeOK
  InBounds
  HoldsLatestBytes
  OnlyWholePackets
PROPERTY
  WellBehavedImplements
CHECK_DEADLOCK FALSE
