\* When every connection has been used up the system stops.
SPECIFICATION Spec
CONSTANTS
  Workers = {w1, w2}
  Sessions = {s1, s2}
  NoWorker = NoWorker
  NoSession = NoSession
  NoLock = NoLock
  Positions <- MCPositions
  ZONE_RANGE = 100
  MaxLogins = 2
  MaxConnections = 3
INVARIANTS
  RegisteredWhereItIs
  NoCrash
  RepliesReachTheirClient
  NoCircle
PROPERTIES
  FollowsLockOrder
SYMMETRY Symmetry
CHECK_DEADLOCK FALSE
