\* Two workers: a send fails, the session is recycled.
SPECIFICATION SendSpec
CONSTANTS
  Sessions = {s1}
  Workers = {w1, w2}
  Main = main
  NoThread = none
  Slots = {1, 2}
  Faults = {"WSASend"}
  CounterModulus = 2
  Capacity = 2
  MaxPosts = 2
INVARIANTS
  PendingMeansSending
CHECK_DEADLOCK FALSE
