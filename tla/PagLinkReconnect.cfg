SPECIFICATION LiveSpec
CONSTANTS
  RetryTicks = 2
  RetryCount = 2
  MayFail = FALSE
  MaxPackets = 2
  MaxCloses = 1
  MaxMsgs = 2
PROPERTY
  Reconnects
CHECK_DEADLOCK FALSE
