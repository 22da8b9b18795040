SPECIFICATION FairSpec
CONSTANTS
  Boards = {0, 1}
  Kinds <- TwoBoards
  MaxTries = 2
  MayFail = FALSE
  Steady = FALSE
  MaxCommands = 2
  MaxAccepts = 2
  MaxPosts = 2
  MaxPieces = 0
PROPERTY
  NoStagnation
CHECK_DEADLOCK FALSE
