SPECIFICATION FairSpec
CONSTANTS
  Paps = {1, 2}
  Addresses = {11, 12, 13}
  MAX_CLIENTS_PER_SERVER = 2
  MaxConns = 4
  MaxMoving = 3
INVARIANTS
  Inv
  SteadyRightPap
PROPERTIES
  MapSettles
CHECK_DEADLOCK FALSE
