\* Two workers: one flushes a session that the other returns.
SPECIFICATION SendSpec
CONSTANTS
  Sessions = {s1}
  Workers = {w1, w2}
  Main = main
  NoThread = none
  Slots = {1, 2}
  Faults = {"WSASend"}
  CounterModulus = 2
  Capacity = 2
  MaxPosts = 2
INVARIANTS
  OnlySendsOverlap
  OneSendInFlight
  InFlightIsStored
CHECK_DEADLOCK FALSE
