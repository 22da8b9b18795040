SPECIFICATION Spec
CONSTANTS
  Boards = {0}
  Kinds <- FewKinds
  MaxTries = 2
  MayFail = TRUE
  Steady = FALSE
  MaxCommands = 3
  MaxAccepts = 2
  MaxPosts = 2
  MaxPieces = 2
INVARIANTS
  Inv
  DeliveredInOrder
CHECK_DEADLOCK FALSE
