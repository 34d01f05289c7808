\* Two workers: the flush holds the last reference.
SPECIFICATION SendSpec
CONSTANTS
  Sessions = {s1}
  Workers = {w1, w2}
  Main = main
  NoThread = none
  Slots = {1, 2}
  Faults = {"WSASend"}
  CounterModulus = 2
  Capacity = 2
  MaxPosts = 2
INVARIANTS
  LockOrderKept
CHECK_DEADLOCK FALSE
