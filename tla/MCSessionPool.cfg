\* Every call may fail. A failed AcceptEx stops the main thread and leaked
\* sessions end every activity: the system really may stop.
SPECIFICATION Spec
CONSTANTS
  Sessions = {s1, s2}
  Workers = {w1, w2}
  Main = main
  NoThread = none
  Slots = {1, 2}
  Faults = {"AcceptEx", "Setup", "DisconnectEx", "WSARecvZero", "WSARecv"}
  CounterModulus = 4
INVARIANTS
  RefCountExact
  ContextsOwned
  ReturnedUnused
  PoolAccounting
  NoCrash
  OneReceiver
CHECK_DEADLOCK FALSE
