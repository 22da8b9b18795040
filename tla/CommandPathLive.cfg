SPECIFICATION MCFairSpec
CONSTANTS
  Boards = {0}
  Kinds <- GoodKinds
  MaxTries = 2
  MayFail = TRUE
  Steady = FALSE
  MaxCommands = 2
  MaxAccepts = 2
  MaxPosts = 2
  MaxPieces = 0
PROPERTIES
  NoStagnation
  StayingBoardsGetEverything
CHECK_DEADLOCK FALSE
