SPECIFICATION MCFairSpec
CONSTANTS
  MemSize = 14
  ShiftMargin = 8
  InMargin = 7
  Chunk = 7
  HdrSize = 3
  SyncOff = 1
  MinPacket = 4
  MaxNext = 5
  MaxPacket = 6
  MaxCount = 7
  Sizes = {4, 6}
  WholePackets = FALSE
  MayVanish = TRUE
  MaxPackets = 3
INVARIANTS
  Inv
  NeverStuck
PROPERTIES
  QueuedIsProcessed
  WholeImplements
CHECK_DEADLOCK FALSE
