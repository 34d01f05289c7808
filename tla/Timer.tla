------------------------------- MODULE Timer --------------------------------
(***************************************************************************)
(* The timers of the IO workers: a worker's queue is its own, the objects  *)
(* whose jobs wait in it are shared and locked while a job runs            *)
(* (Timer.cpp, SyncExecutable.h).                                          *)
(*                                                                         *)
(* DoTimerJob keeps a C++ reference to the top of the queue while the job  *)
(* runs.  The reference is a place, not a job: if a job that the task      *)
(* pushes rises to the top, the lock released and the job popped           *)
(* afterwards are the ones of the new top.  So the queue is modelled as    *)
(* its top and the rest.                                                   *)
(***************************************************************************)
EXTENDS Integers, IoWorkers

CONSTANTS
  Owners,          \* SyncExecutable objects
  JobIds,          \* distinguishes the jobs that wait in one queue
  Delays,          \* the values of after
  NoJob, Nobody,
  MaxTick          \* bound: where the clock stops

ASSUME TimerAssumption ==
  /\ Delays \subseteq Nat
  /\ MaxTick \in Nat
  /\ Nobody \notin Workers

Jobs == [id : JobIds, owner : Owners, due : Nat]

ASSUME NoJobAssumption == NoJob \notin Jobs

VARIABLES
  clock,           \* GetTickCount64
  LTickCount,      \* each worker's copy of it
  top, rest,       \* mTimerJobQueue of each worker
  step,            \* where a worker is in DoTimerJob, or "out"
  running,         \* history: the job whose task was called and not yet popped
  ownerLock        \* the worker inside an owner's mLock

timerVars == <<clock, LTickCount, top, rest, step, running, ownerLock>>

At(w, from, to) == step[w] = from /\ step' = [step EXCEPT ![w] = to]

Waiting(w) == rest[w] \cup (IF top[w] = NoJob THEN {} ELSE {top[w]})
FreeIds(w) == {id \in JobIds : \A job \in Waiting(w) : job.id # id}

-----------------------------------------------------------------------------
Tick ==
  /\ clock < MaxTick
  /\ clock' = clock + 1
  /\ UNCHANGED <<LTickCount, top, rest, step, running, ownerLock>>

\* Mutant: the due time is not relative to the worker's tick.
DueTimeFromStart(w, after) == after

\* after + LTickCount: relative to the tick of the last DoTimerJob.
DueTime(w, after) == LTickCount[w] + after

\* priority_queue::push: the new job rises to the top only if it is due earlier.
PushTimerJob(w, owner, after) ==
  /\ step[w] \in {"out", "task"}
  /\ FreeIds(w) # {}
  /\ LET new == [id |-> CHOOSE id \in FreeIds(w) : TRUE,
                 owner |-> owner, due |-> DueTime(w, after)]
     IN  IF top[w] = NoJob
         THEN top' = [top EXCEPT ![w] = new] /\ UNCHANGED rest
         ELSE IF new.due < top[w].due
         THEN /\ top' = [top EXCEPT ![w] = new]
              /\ rest' = [rest EXCEPT ![w] = @ \cup {top[w]}]
         ELSE rest' = [rest EXCEPT ![w] = @ \cup {new}] /\ UNCHANGED top
  /\ UNCHANGED <<clock, LTickCount, step, running, ownerLock>>

-----------------------------------------------------------------------------
(***************************************************************************)
(* Timer::DoTimerJob                                                       *)
(***************************************************************************)
UpdateTick(w) ==
  /\ At(w, "out", "loop")
  /\ LTickCount' = [LTickCount EXCEPT ![w] = clock]
  /\ UNCHANGED <<clock, top, rest, running, ownerLock>>

\* The loop ends when the queue is empty or its top is not due.
TakeTop(w) ==
  /\ LET due == top[w] # NoJob /\ top[w].due <= LTickCount[w]
     IN  \/ due /\ At(w, "loop", "lock")
         \/ ~ due /\ At(w, "loop", "out")
  /\ UNCHANGED <<clock, LTickCount, top, rest, running, ownerLock>>

\* Mutant: the lock is not waited for.
EnterLockUntested(w) ==
  /\ At(w, "lock", "task")
  /\ ownerLock' = [ownerLock EXCEPT ![top[w].owner] = w]
  /\ running' = [running EXCEPT ![w] = top[w]]
  /\ UNCHANGED <<clock, LTickCount, top, rest>>

\* EnterLock, and the call of the task.
EnterLock(w) ==
  /\ At(w, "lock", "task")
  /\ ownerLock[top[w].owner] = Nobody
  /\ ownerLock' = [ownerLock EXCEPT ![top[w].owner] = w]
  /\ running' = [running EXCEPT ![w] = top[w]]
  /\ UNCHANGED <<clock, LTickCount, top, rest>>

\* The task has returned; LeaveLock through the reference to the top.
LeaveLock(w) ==
  /\ At(w, "task", "pop")
  /\ ownerLock' = [ownerLock EXCEPT ![top[w].owner] = Nobody]
  /\ UNCHANGED <<clock, LTickCount, top, rest, running>>

\* One of the jobs due first becomes the top.
NewTop(w) ==
  \/ rest[w] = {} /\ top' = [top EXCEPT ![w] = NoJob] /\ UNCHANGED rest
  \/ \E job \in rest[w] :
       /\ \A other \in rest[w] : job.due <= other.due
       /\ top' = [top EXCEPT ![w] = job]
       /\ rest' = [rest EXCEPT ![w] = @ \ {job}]

Pop(w) ==
  /\ At(w, "pop", "loop")
  /\ NewTop(w)
  /\ running' = [running EXCEPT ![w] = NoJob]
  /\ UNCHANGED <<clock, LTickCount, ownerLock>>

-----------------------------------------------------------------------------
TimerInit ==
  /\ clock = 0
  /\ LTickCount = [w \in Workers |-> 0]
  /\ top = [w \in Workers |-> NoJob]
  /\ rest = [w \in Workers |-> {}]
  /\ step = [w \in Workers |-> "out"]
  /\ running = [w \in Workers |-> NoJob]
  /\ ownerLock = [o \in Owners |-> Nobody]

DoTimerJob(w) ==
  UpdateTick(w) \/ TakeTop(w) \/ EnterLock(w) \/ LeaveLock(w) \/ Pop(w)

TimerNext ==
  \/ Tick
  \/ \E w \in Workers :
       \/ \E owner \in Owners, after \in Delays : PushTimerJob(w, owner, after)
       \/ DoTimerJob(w)

TimerSpec == TimerInit /\ [][TimerNext]_timerVars

-----------------------------------------------------------------------------
(***************************************************************************)
(* Properties                                                              *)
(***************************************************************************)
Steps == {"out", "loop", "lock", "task", "pop"}

\* The types; a queue without a top is empty, and a worker that takes, runs or
\* pops a job has one.
TimerTypeOK ==
  /\ clock \in Nat
  /\ LTickCount \in [Workers -> Nat]
  /\ top \in [Workers -> Jobs \cup {NoJob}]
  /\ rest \in [Workers -> SUBSET Jobs]
  /\ step \in [Workers -> Steps]
  /\ running \in [Workers -> Jobs \cup {NoJob}]
  /\ ownerLock \in [Owners -> Workers \cup {Nobody}]
  /\ \A w \in Workers :
       /\ top[w] = NoJob => rest[w] = {}
       /\ step[w] \in {"lock", "task", "pop"} => top[w] # NoJob

\* The reference that DoTimerJob keeps across the task still is the job it ran:
\* what the task pushes is never due before it (Timer.cpp:38-50).
TopIsRunning ==
  \A w \in Workers : step[w] \in {"task", "pop"} => top[w] = running[w]

\* A job runs inside the lock of its own object, and a worker that runs none
\* holds none.
OwnerLocked ==
  \A o \in Owners, w \in Workers :
    ownerLock[o] = w <=> step[w] = "task" /\ running[w].owner = o
=============================================================================
