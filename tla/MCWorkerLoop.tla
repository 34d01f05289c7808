---------------------------- MODULE MCWorkerLoop ----------------------------
(***************************************************************************)
(* Instance for TLC: two workers, two players, two kinds of event.         *)
(***************************************************************************)
EXTENDS WorkerLoop
=============================================================================
