\* Two workers: a post while a send is pending.
SPECIFICATION SendSpec
CONSTANTS
  Sessions = {s1}
  Workers = {w1, w2}
  Main = main
  NoThread = none
  Slots = {1, 2}
  Faults = {"WSASend"}
  CounterModulus = 2
  Capacity = 2
  MaxPosts = 2
INVARIANTS
  UnsentIsScheduled
CHECK_DEADLOCK FALSE
