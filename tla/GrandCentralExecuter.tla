------------------------ MODULE GrandCentralExecuter ------------------------
(***************************************************************************)
(* GrandCentralExecuter::DoDispatch: any worker may dispatch a task; the   *)
(* one that raises the count from zero runs its own task and whatever the  *)
(* others push meanwhile, until it lowers the count to zero.  The tasks of *)
(* this program (PlayerWideEvent.cpp) dispatch none themselves.            *)
(*                                                                         *)
(* mRemainTaskCount is raised before the task is in the queue and the      *)
(* decision to leave looks only at the count.                              *)
(***************************************************************************)
EXTENDS Integers, Sequences, FiniteSets, IoWorkers

CONSTANTS
  Tasks, NoTask,
  MaxTasks         \* bound: tasks counted at the same time

ASSUME ExecuterAssumption ==
  /\ NoTask \notin Tasks
  /\ MaxTasks \in Nat

VARIABLES
  mRemainTaskCount, mCentralTaskQueue,
  at,              \* where a worker is in DoDispatch, or "out"
  task             \* the task it was given, then the one it runs

gceVars == <<mRemainTaskCount, mCentralTaskQueue, at, task>>

Goto(w, from, to) == at[w] = from /\ at' = [at EXCEPT ![w] = to]

-----------------------------------------------------------------------------
\* Mutant: the result of the increment is not looked at.
IncrementUntested(w, t) ==
  /\ mRemainTaskCount < MaxTasks
  /\ mRemainTaskCount' = mRemainTaskCount + 1
  /\ Goto(w, "out", "pushFirst")
  /\ task' = [task EXCEPT ![w] = t]
  /\ UNCHANGED mCentralTaskQueue

\* Mutant: the result is taken for the value before the increment.
IncrementFetchFirst(w, t) ==
  /\ mRemainTaskCount < MaxTasks
  /\ mRemainTaskCount' = mRemainTaskCount + 1
  /\ Goto(w, "out", IF mRemainTaskCount + 1 > 0 THEN "push" ELSE "pushFirst")
  /\ task' = [task EXCEPT ![w] = t]
  /\ UNCHANGED mCentralTaskQueue

\* InterlockedIncrement64 and the test of its result.
Increment(w, t) ==
  /\ mRemainTaskCount < MaxTasks
  /\ mRemainTaskCount' = mRemainTaskCount + 1
  /\ Goto(w, "out", IF mRemainTaskCount + 1 > 1 THEN "push" ELSE "pushFirst")
  /\ task' = [task EXCEPT ![w] = t]
  /\ UNCHANGED mCentralTaskQueue

\* Mutant: the task overtakes the ones that wait.
PushInFront(w) ==
  /\ \/ Goto(w, "push", "out")
     \/ Goto(w, "pushFirst", "pop")
  /\ mCentralTaskQueue' = <<task[w]>> \o mCentralTaskQueue
  /\ task' = [task EXCEPT ![w] = NoTask]
  /\ UNCHANGED mRemainTaskCount

\* Somebody else is running tasks: push and return; otherwise stay and run.
Push(w) ==
  /\ \/ Goto(w, "push", "out")
     \/ Goto(w, "pushFirst", "pop")
  /\ mCentralTaskQueue' = Append(mCentralTaskQueue, task[w])
  /\ task' = [task EXCEPT ![w] = NoTask]
  /\ UNCHANGED mRemainTaskCount

\* try_pop, which fails, and is called again, while the queue is empty.
TryPop(w) ==
  /\ mCentralTaskQueue # <<>>
  /\ Goto(w, "pop", "run")
  /\ task' = [task EXCEPT ![w] = Head(mCentralTaskQueue)]
  /\ mCentralTaskQueue' = Tail(mCentralTaskQueue)
  /\ UNCHANGED mRemainTaskCount

\* Mutant: the worker leaves, and clears the count, when the queue is empty.
DecrementUntilEmpty(w) ==
  /\ mRemainTaskCount' =
       IF mCentralTaskQueue = <<>> THEN 0 ELSE mRemainTaskCount - 1
  /\ Goto(w, "run", IF mCentralTaskQueue = <<>> THEN "out" ELSE "pop")
  /\ task' = [task EXCEPT ![w] = NoTask]
  /\ UNCHANGED mCentralTaskQueue

\* The task returns; InterlockedDecrement64, and leave the loop at zero.
Decrement(w) ==
  /\ mRemainTaskCount' = mRemainTaskCount - 1
  /\ Goto(w, "run", IF mRemainTaskCount - 1 = 0 THEN "out" ELSE "pop")
  /\ task' = [task EXCEPT ![w] = NoTask]
  /\ UNCHANGED mCentralTaskQueue

-----------------------------------------------------------------------------
GCEInit ==
  /\ mRemainTaskCount = 0
  /\ mCentralTaskQueue = <<>>
  /\ at = [w \in Workers |-> "out"]
  /\ task = [w \in Workers |-> NoTask]

\* What a worker inside DoDispatch does next; the calls are Increment's.
Proceed(w) == Push(w) \/ TryPop(w) \/ Decrement(w)

GCENext ==
  \E w \in Workers :
    \/ \E t \in Tasks : Increment(w, t)
    \/ Proceed(w)

GCESpec == GCEInit /\ [][GCENext]_gceVars

\* A thread keeps running, and the tasks it runs return.
GCEFairness == \A w \in Workers : WF_gceVars(Proceed(w))

-----------------------------------------------------------------------------
(***************************************************************************)
(* Properties                                                              *)
(***************************************************************************)
Places == {"out", "push", "pushFirst", "pop", "run"}

\* The words and the places; a task is held exactly where one is needed.
GCETypeOK ==
  /\ mRemainTaskCount \in Nat
  /\ mCentralTaskQueue \in Seq(Tasks)
  /\ at \in [Workers -> Places]
  /\ task \in [Workers -> Tasks \cup {NoTask}]
  /\ \A w \in Workers :
       at[w] \in {"push", "pushFirst", "run"} => task[w] \in Tasks

Executers == {w \in Workers : at[w] \in {"pushFirst", "pop", "run"}}

\* Two tasks never run beside each other: the lists of buffs that the tasks
\* change have no lock of their own (GrandCentralExecuter.h:20-46).
OneExecuter == \A v, w \in Executers : v = w

\* Work that was counted is never left behind: while there is any, somebody is
\* in the loop, and whoever leaves the loop leaves nothing.
NothingStranded ==
  /\ mRemainTaskCount > 0 <=> Executers # {}
  /\ mCentralTaskQueue # <<>> => Executers # {}

Pushing == {w \in Workers : at[w] \in {"push", "pushFirst"}}
Running == {w \in Workers : at[w] = "run"}

\* The count is exactly the tasks that somebody is about to push, that wait and
\* that run, though it is raised before the push and lowered after the run
\* (GrandCentralExecuter.h:20, :41).

CountIsWork ==
  mRemainTaskCount =
    Len(mCentralTaskQueue) + Cardinality(Pushing) + Cardinality(Running)

RunningTask == IF Running = {} THEN NoTask ELSE task[CHOOSE w \in Running : TRUE]

SE == INSTANCE SerialExecutor WITH waiting <- mCentralTaskQueue, running <- RunningTask

\* The workers together are one executor that runs each task once, in order.
ImplementsSerialExecutor == SE!Spec

\* While a task waits or runs, the next one is started or that one returns: the
\* workers never go away and leave it (GrandCentralExecuter.h:32-45).
TasksKeepRunning == SE!Fairness
=============================================================================
