SPECIFICATION MCSpec
CONSTANTS
  MaxSeq = 3
  Chnls = 8
  Ascans = 16
  SeqPerPacket = 32
  Modulos = {1, 2, 3}
  Faults = {}
  MaxFaults = 0
  Modulo = 4
  MaxPuts = 10
  Words = 4
  UInt = 8
  Byte = 4
  Gap = 5
  Paps = {"P1", "P2"}
  PacketsEach = 3
  MaxPresses = 4
  WallDepth = 3
  MaxNx = 2
  WordMax = 9
  WallAscans = 2
  Readings = {0, 1, 3}
  WallParams <- SomeParams
  FlawDepth = 4
  Amps = {0, 18, 20, 25}
  FlawDefault <- ConstructorParams
  FlawParams <- SomeFlawParams
  Drives <- SomeDrives
  HighestNumber = 4
  Tried = 2
  MaxFiles = 2
  MaxServers = 2
  Values = {1, 2}
  MaxEdits = 1
  MaxCrashes = 1
  Arrows <- DialogFields
  TypedTexts <- DialogTexts
  Blasts <- SomeBlasts
  MaxChanges = 2
INVARIANTS
  MCTypeOK
  WallIsRight
  FlawsAreRight
  SteadyWhole
  NeverOverfull
  Accounted
  QueueUntilOverflow
  CountsLosses
  ConfigurationKept
  OffersArrive
  ShownIsSent
  StartsAndStops
  RecordIsWhole
PROPERTY
  StickWins
CHECK_DEADLOCK FALSE
