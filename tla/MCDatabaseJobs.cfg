\* The receives of data fail; liveness under the fairness of DbSpec, for one
\* session. Deadlock is checked: an accept or a receive is always pending.
SPECIFICATION DbSpec
CONSTANTS
  Sessions = {s1}
  Workers = {w1, w2}
  Main = main
  NoThread = none
  Slots = {1, 2}
  Faults = {"WSARecv"}
  CounterModulus = 2
  Requests <- MCRequests
INVARIANTS
  Watched
  RefCountWithJobs
  ResultReachesRequester
PROPERTIES
  Reclaimed
  JobsAnswered
