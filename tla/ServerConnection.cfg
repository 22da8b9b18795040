SPECIFICATION FairSpec
CONSTANT MaxConns = 2
INVARIANTS
  Inv
  NoStaleUse
PROPERTIES
  AcceptedIsServed
  ShutDownEnds
CHECK_DEADLOCK FALSE
