------------------------------- MODULE RWLock -------------------------------
(***************************************************************************)
(* What FastSpinlock promises to its callers: a shared/exclusive lock.     *)
(* FastSpinlock.tla is shown to implement it.                              *)
(***************************************************************************)
CONSTANT Threads

VARIABLES
  writers,   \* the threads inside the lock in exclusive mode
  readers    \* the threads inside the lock in shared mode

vars == <<writers, readers>>

Init ==
  /\ writers = {}
  /\ readers = {}

AcquireExclusive(t) ==
  /\ writers = {}
  /\ readers = {}
  /\ writers' = {t}
  /\ UNCHANGED readers

ReleaseExclusive(t) ==
  /\ t \in writers
  /\ writers' = writers \ {t}
  /\ UNCHANGED readers

AcquireShared(t) ==
  /\ writers = {}
  /\ t \notin readers
  /\ readers' = readers \cup {t}
  /\ UNCHANGED writers

ReleaseShared(t) ==
  /\ t \in readers
  /\ readers' = readers \ {t}
  /\ UNCHANGED writers

Next ==
  \E t \in Threads :
    \/ AcquireExclusive(t)
    \/ ReleaseExclusive(t)
    \/ AcquireShared(t)
    \/ ReleaseShared(t)

Spec == Init /\ [][Next]_vars
=============================================================================
