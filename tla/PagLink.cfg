SPECIFICATION LiveSpec
CONSTANTS
  RetryTicks = 2
  RetryCount = 2
  MayFail = TRUE
  MaxPackets = 2
  MaxCloses = 1
  MaxMsgs = 2
INVARIANTS
  Inv
  ConnectedMeansOpen
PROPERTIES
  Drains
  Reopens
CHECK_DEADLOCK FALSE
