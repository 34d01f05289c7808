--------------------------- MODULE SerialExecutor ---------------------------
(***************************************************************************)
(* What the central executer promises: tasks are run one at a time, each   *)
(* once, in the order in which they were put in the queue.                 *)
(***************************************************************************)
EXTENDS Sequences

CONSTANTS Tasks, NoTask

VARIABLES waiting, running

vars == <<waiting, running>>

Init == waiting = <<>> /\ running = NoTask

Submit(t) ==
  /\ waiting' = Append(waiting, t)
  /\ UNCHANGED running

Start ==
  /\ running = NoTask /\ waiting # <<>>
  /\ running' = Head(waiting)
  /\ waiting' = Tail(waiting)

Finish ==
  /\ running # NoTask
  /\ running' = NoTask
  /\ UNCHANGED waiting

Next == (\E t \in Tasks : Submit(t)) \/ Start \/ Finish

Spec == Init /\ [][Next]_vars

\* What is submitted is started, and what is started returns.
Fairness == WF_vars(Start \/ Finish)
=============================================================================
