SPECIFICATION FairSpec
CONSTANTS
  MaxPackets = 1
  MaxMsgs = 1
INVARIANTS
  Inv
PROPERTY
  ShutDownEnds
CHECK_DEADLOCK FALSE
