-------------------------- MODULE WorkerLoopProofs --------------------------
(***************************************************************************)
(* Theorems about GrandCentralExecuter, about Timer, and about the two     *)
(* components as WorkerLoop composes them, for any finite set of workers,  *)
(* any tasks, owners, job ids, delays and bounds.  Of the executer, two    *)
(* facts carry the rest: the count is positive exactly while somebody is   *)
(* in the loop, and it counts exactly the work there is.                   *)
(***************************************************************************)
EXTENDS WorkerLoop, FiniteSetTheorems, TLAPS

CountedMeansExecuted == mRemainTaskCount > 0 <=> Executers # {}

IInv == GCETypeOK /\ OneExecuter /\ CountedMeansExecuted /\ CountIsWork

\* A set of workers is finite, and one worker more or less changes its size by one.
LEMMA WorkerCounts ==
  ASSUME NEW A \in SUBSET Workers, NEW w
  PROVE  /\ Cardinality(A) \in Nat
         /\ w \notin A => Cardinality(A \cup {w}) = Cardinality(A) + 1
         /\ w \in A => Cardinality(A \ {w}) = Cardinality(A) - 1
<1>1. IsFiniteSet(A)
  BY WorkersAssumption, FS_Subset
<1> QED BY <1>1, FS_CardinalityType, FS_AddElement, FS_RemoveElement

\* What the four moves of a worker do to the two sets that CountIsWork counts.
LEMMA WorkMoves ==
  ASSUME GCETypeOK, NEW w \in Workers,
         NEW from \in Places, NEW to \in Places, Goto(w, from, to)
  PROVE  /\ Cardinality(Pushing) \in Nat /\ Cardinality(Running) \in Nat
         /\ from = "out" /\ to \in {"push", "pushFirst"} =>
              /\ Cardinality(Pushing') = Cardinality(Pushing) + 1
              /\ Cardinality(Running') = Cardinality(Running)
         /\ from \in {"push", "pushFirst"} /\ to \in {"out", "pop"} =>
              /\ Cardinality(Pushing') = Cardinality(Pushing) - 1
              /\ Cardinality(Running') = Cardinality(Running)
         /\ from = "pop" /\ to = "run" =>
              /\ Cardinality(Pushing') = Cardinality(Pushing)
              /\ Cardinality(Running') = Cardinality(Running) + 1
         /\ from = "run" /\ to \in {"out", "pop"} =>
              /\ Cardinality(Pushing') = Cardinality(Pushing)
              /\ Cardinality(Running') = Cardinality(Running) - 1
<1> USE DEF GCETypeOK, Goto, Pushing, Running
<1>1. Pushing \in SUBSET Workers /\ Running \in SUBSET Workers
  OBVIOUS
<1>2. ASSUME from = "out", to \in {"push", "pushFirst"}
      PROVE  Pushing' = Pushing \cup {w} /\ w \notin Pushing /\ Running' = Running
  BY <1>2
<1>3. ASSUME from \in {"push", "pushFirst"}, to \in {"out", "pop"}
      PROVE  Pushing' = Pushing \ {w} /\ w \in Pushing /\ Running' = Running
  BY <1>3
<1>4. ASSUME from = "pop", to = "run"
      PROVE  Pushing' = Pushing /\ Running' = Running \cup {w} /\ w \notin Running
  BY <1>4
<1>5. ASSUME from = "run", to \in {"out", "pop"}
      PROVE  Pushing' = Pushing /\ Running' = Running \ {w} /\ w \in Running
  BY <1>5
<1> HIDE DEF GCETypeOK, Goto, Pushing, Running
<1> QED BY <1>1, <1>2, <1>3, <1>4, <1>5, WorkerCounts

-----------------------------------------------------------------------------
\* The workers start outside DoDispatch, with nothing counted.
THEOREM InitEstablishes == GCEInit => IInv
<1> SUFFICES ASSUME GCEInit PROVE IInv
  OBVIOUS
<1>1. GCETypeOK
  BY DEF GCEInit, GCETypeOK, Places
<1>2. Executers = {} /\ Pushing = {} /\ Running = {}
  BY DEF GCEInit, Executers, Pushing, Running
<1>3. CountIsWork
  BY <1>2, FS_EmptySet DEF GCEInit, CountIsWork
<1> QED BY <1>1, <1>2, <1>3 DEF IInv, OneExecuter, CountedMeansExecuted, GCEInit

\* A dispatcher becomes the executer exactly when nobody is.
LEMMA IncrementPreserves ==
  ASSUME IInv, NEW w \in Workers, NEW t \in Tasks, Increment(w, t)
  PROVE  IInv'
<1> DEFINE to == IF mRemainTaskCount + 1 > 1 THEN "push" ELSE "pushFirst"
<1> USE DEF IInv
<1>1. Goto(w, "out", to) /\ to \in {"push", "pushFirst"}
  BY DEF Increment
<1>2. GCETypeOK'
  BY DEF Increment, GCETypeOK, Goto, Places
<1>3. ASSUME mRemainTaskCount > 0 PROVE OneExecuter' /\ CountedMeansExecuted'
  <2>1. Executers' = Executers
    BY <1>3 DEF Increment, Goto, GCETypeOK, Executers
  <2> QED BY <2>1, <1>3 DEF Increment, OneExecuter, CountedMeansExecuted, GCETypeOK
<1>4. ASSUME mRemainTaskCount = 0 PROVE OneExecuter' /\ CountedMeansExecuted'
  <2>1. Executers = {}
    BY <1>4 DEF CountedMeansExecuted
  <2>2. Executers' = {w}
    BY <2>1, <1>4 DEF Increment, Goto, GCETypeOK, Executers
  <2> QED BY <2>2, <1>4 DEF Increment, OneExecuter, CountedMeansExecuted
<1>5. OneExecuter' /\ CountedMeansExecuted'
  BY <1>3, <1>4 DEF GCETypeOK
<1>6. CountIsWork'
  <2>1. /\ Cardinality(Pushing) \in Nat /\ Cardinality(Running) \in Nat
        /\ Cardinality(Pushing') = Cardinality(Pushing) + 1
        /\ Cardinality(Running') = Cardinality(Running)
    BY <1>1, WorkMoves DEF Places
  <2> QED BY <2>1 DEF Increment, CountIsWork, GCETypeOK
<1> QED BY <1>2, <1>5, <1>6

\* A pushed task was counted before.
LEMMA PushPreserves ==
  ASSUME IInv, NEW w \in Workers, Push(w)
  PROVE  IInv'
<1> USE DEF IInv
<1>1. PICK from \in {"push", "pushFirst"}, to \in {"out", "pop"} :
        /\ Goto(w, from, to)
        /\ from = "pushFirst" <=> to = "pop"
  BY DEF Push
<1>2. task[w] \in Tasks
  BY <1>1 DEF Goto, GCETypeOK
<1>3. GCETypeOK'
  BY <1>1, <1>2 DEF Push, GCETypeOK, Goto, Places
<1>4. Executers' = Executers
  BY <1>1 DEF Goto, GCETypeOK, Executers
<1>5. OneExecuter' /\ CountedMeansExecuted'
  BY <1>4 DEF Push, OneExecuter, CountedMeansExecuted
<1>6. CountIsWork'
  <2>1. /\ Cardinality(Pushing) \in Nat /\ Cardinality(Running) \in Nat
        /\ Cardinality(Pushing') = Cardinality(Pushing) - 1
        /\ Cardinality(Running') = Cardinality(Running)
    BY <1>1, WorkMoves DEF Places
  <2>2. Len(mCentralTaskQueue') = Len(mCentralTaskQueue) + 1 /\ Len(mCentralTaskQueue) \in Nat
    BY <1>2 DEF Push, GCETypeOK
  <2> QED BY <2>1, <2>2 DEF Push, CountIsWork, GCETypeOK
<1> QED BY <1>3, <1>5, <1>6

\* The executer takes a task that stays counted while it runs.
LEMMA TryPopPreserves ==
  ASSUME IInv, NEW w \in Workers, TryPop(w)
  PROVE  IInv'
<1> USE DEF IInv
<1>1. Goto(w, "pop", "run")
  BY DEF TryPop
<1>2. /\ Head(mCentralTaskQueue) \in Tasks /\ Tail(mCentralTaskQueue) \in Seq(Tasks)
      /\ Len(Tail(mCentralTaskQueue)) = Len(mCentralTaskQueue) - 1
      /\ Len(mCentralTaskQueue) \in Nat
  BY DEF TryPop, GCETypeOK
<1>3. GCETypeOK'
  BY <1>1, <1>2 DEF TryPop, GCETypeOK, Goto, Places
<1>4. Executers' = Executers
  BY <1>1 DEF Goto, GCETypeOK, Executers
<1>5. OneExecuter' /\ CountedMeansExecuted'
  BY <1>4 DEF TryPop, OneExecuter, CountedMeansExecuted
<1>6. CountIsWork'
  <2>1. /\ Cardinality(Pushing) \in Nat /\ Cardinality(Running) \in Nat
        /\ Cardinality(Pushing') = Cardinality(Pushing)
        /\ Cardinality(Running') = Cardinality(Running) + 1
    BY <1>1, WorkMoves DEF Places
  <2> QED BY <2>1, <1>2 DEF TryPop, CountIsWork, GCETypeOK
<1> QED BY <1>3, <1>5, <1>6

\* The executer leaves exactly when the count says that it was the last task.
LEMMA DecrementPreserves ==
  ASSUME IInv, NEW w \in Workers, Decrement(w)
  PROVE  IInv'
<1> DEFINE to == IF mRemainTaskCount - 1 = 0 THEN "out" ELSE "pop"
<1> USE DEF IInv
<1>1. Goto(w, "run", to) /\ to \in {"out", "pop"}
  BY DEF Decrement
<1>2. Executers = {w} /\ mRemainTaskCount \in Nat /\ mRemainTaskCount > 0
  BY <1>1 DEF Goto, Executers, OneExecuter, CountedMeansExecuted, GCETypeOK
<1>3. GCETypeOK'
  BY <1>1, <1>2 DEF Decrement, GCETypeOK, Goto, Places
<1>4. Executers' = IF mRemainTaskCount' = 0 THEN {} ELSE {w}
  BY <1>2 DEF Decrement, Goto, GCETypeOK, Executers
<1>5. OneExecuter' /\ CountedMeansExecuted'
  BY <1>2, <1>4 DEF Decrement, OneExecuter, CountedMeansExecuted
<1>6. CountIsWork'
  <2>1. /\ Cardinality(Pushing) \in Nat /\ Cardinality(Running) \in Nat
        /\ Cardinality(Pushing') = Cardinality(Pushing)
        /\ Cardinality(Running') = Cardinality(Running) - 1
    BY <1>1, WorkMoves DEF Places
  <2>2. Len(mCentralTaskQueue) \in Nat
    BY DEF GCETypeOK
  <2> QED BY <2>1, <2>2 DEF Decrement, CountIsWork, GCETypeOK
<1> QED BY <1>3, <1>5, <1>6

\* No step of DoDispatch, in any interleaving, breaks the inductive invariant.
THEOREM StepPreserves == IInv /\ [GCENext]_gceVars => IInv'
<1> SUFFICES ASSUME IInv, [GCENext]_gceVars PROVE IInv'
  OBVIOUS
<1>1. CASE UNCHANGED gceVars
  BY <1>1 DEF gceVars, IInv, GCETypeOK, OneExecuter, CountedMeansExecuted, CountIsWork,
              Executers, Pushing, Running
<1> QED BY <1>1, IncrementPreserves, PushPreserves, TryPopPreserves, DecrementPreserves
        DEF GCENext, Proceed

\* Every reachable state satisfies IInv.
THEOREM Invariance == GCESpec => []IInv
BY InitEstablishes, StepPreserves, PTL DEF GCESpec

\* The types of DoDispatch's state.
THEOREM TypeInvariant == GCESpec => []GCETypeOK
BY Invariance, PTL DEF IInv

\* No two workers are in the loop of DoDispatch, so no two tasks run at once.
THEOREM OneExecuterInvariant == GCESpec => []OneExecuter
BY Invariance, PTL DEF IInv

\* The count that DoDispatch decides on is exactly the work there is.
THEOREM CountIsWorkInvariant == GCESpec => []CountIsWork
BY Invariance, PTL DEF IInv

\* Whoever leaves the loop leaves an empty queue, or another worker in it.
THEOREM NothingStrandedInvariant == GCESpec => []NothingStranded
<1>1. IInv => NothingStranded
  <2> SUFFICES ASSUME IInv PROVE NothingStranded
    OBVIOUS
  <2>1. mRemainTaskCount > 0 <=> Executers # {}
    BY DEF IInv, CountedMeansExecuted
  <2>2. ASSUME mCentralTaskQueue # <<>> PROVE mRemainTaskCount > 0
    <3>1. Len(mCentralTaskQueue) \in Nat /\ Len(mCentralTaskQueue) > 0
      BY <2>2 DEF IInv, GCETypeOK
    <3>2. Cardinality(Pushing) \in Nat /\ Cardinality(Running) \in Nat
      BY WorkerCounts DEF Pushing, Running
    <3> QED BY <3>1, <3>2 DEF IInv, CountIsWork
  <2> QED BY <2>1, <2>2 DEF NothingStranded
<1> QED BY <1>1, Invariance, PTL

-----------------------------------------------------------------------------
\* While a worker is in the loop, no other worker runs a task.
LEMMA RunningInLoop ==
  ASSUME IInv, NEW w \in Executers
  PROVE  /\ at[w] = "run" => Running = {w}
         /\ at[w] # "run" => Running = {}
BY DEF IInv, OneExecuter, Executers, Running

\* The workers together implement the executor that runs the tasks one by one, in
\* the order in which they were pushed, each once.
THEOREM Implementation == GCESpec => ImplementsSerialExecutor
<1>1. GCEInit => SE!Init
  BY DEF GCEInit, SE!Init, RunningTask, Running
<1>2. IInv /\ IInv' /\ [GCENext]_gceVars => [SE!Next]_SE!vars
  <2> SUFFICES ASSUME IInv, IInv', [GCENext]_gceVars PROVE [SE!Next]_SE!vars
    OBVIOUS
  <2>1. ASSUME NEW w \in Workers, NEW t \in Tasks, Increment(w, t)
        PROVE  UNCHANGED SE!vars
    <3>1. Running' = Running /\ \A v \in Running : task'[v] = task[v]
      BY <2>1 DEF Increment, Goto, IInv, GCETypeOK, Running
    <3>2. RunningTask' = RunningTask
      BY <3>1 DEF RunningTask
    <3> QED BY <2>1, <3>2 DEF Increment, SE!vars
  <2>2. ASSUME NEW w \in Workers, Push(w)
        PROVE  SE!Next
    <3>1. Running' = Running /\ \A v \in Running : task'[v] = task[v]
      BY <2>2 DEF Push, Goto, IInv, GCETypeOK, Running
    <3>2. RunningTask' = RunningTask
      BY <3>1 DEF RunningTask
    <3>3. task[w] \in Tasks
      BY <2>2 DEF Push, Goto, IInv, GCETypeOK
    <3> QED BY <2>2, <3>2, <3>3 DEF Push, SE!Next, SE!Submit
  <2>3. ASSUME NEW w \in Workers, TryPop(w)
        PROVE  SE!Next
    <3>1. /\ w \in Executers /\ at[w] = "pop"
          /\ at' = [at EXCEPT ![w] = "run"] /\ task'[w] = Head(mCentralTaskQueue)
      BY <2>3 DEF TryPop, Goto, IInv, GCETypeOK, Executers
    <3>2. Running = {} /\ Running' = {w}
      BY <3>1, RunningInLoop DEF Running, IInv, GCETypeOK
    <3>3. RunningTask = NoTask /\ RunningTask' = task'[w]
      BY <3>2 DEF RunningTask
    <3> QED BY <2>3, <3>1, <3>3 DEF TryPop, SE!Next, SE!Start
  <2>4. ASSUME NEW w \in Workers, Decrement(w)
        PROVE  SE!Next
    <3>1. w \in Executers /\ at[w] = "run" /\ task[w] \in Tasks
      BY <2>4 DEF Decrement, Goto, IInv, GCETypeOK, Executers
    <3>2. Running = {w} /\ Running' = {}
      <4>1. Running = {w}
        BY <3>1, RunningInLoop
      <4>2. \E to \in {"out", "pop"} : at' = [at EXCEPT ![w] = to]
        BY <2>4 DEF Decrement, Goto
      <4> QED BY <4>1, <4>2 DEF Running, IInv, GCETypeOK
    <3>3. RunningTask = task[w] /\ RunningTask' = NoTask
      BY <3>2 DEF RunningTask
    <3> QED BY <2>4, <3>1, <3>3, ExecuterAssumption DEF Decrement, SE!Next, SE!Finish
  <2>5. CASE UNCHANGED gceVars
    BY <2>5 DEF gceVars, SE!vars, RunningTask, Running
  <2> QED BY <2>1, <2>2, <2>3, <2>4, <2>5 DEF GCENext, Proceed
<1> QED BY <1>1, <1>2, Invariance, PTL DEF GCESpec, ImplementsSerialExecutor, SE!Spec

-----------------------------------------------------------------------------
\* A job that is taken is due, so nothing pushed from now on precedes it.
TakenIsDue ==
  \A w \in Workers : step[w] \in {"lock", "task", "pop"} => top[w].due <= LTickCount[w]

TimerIInv == TimerTypeOK /\ TakenIsDue /\ TopIsRunning /\ OwnerLocked

\* The clock starts at zero, with no timers and no lock held.
THEOREM TimerInitEstablishes == TimerInit => TimerIInv
BY TimerAssumption
   DEF TimerInit, TimerIInv, TimerTypeOK, TakenIsDue, TopIsRunning, OwnerLocked, Steps

\* A job that a worker waits to run, runs or pops is a job.
LEMMA TopIsJob ==
  ASSUME TimerTypeOK, NEW w \in Workers, top[w] # NoJob
  PROVE  top[w] \in Jobs /\ top[w].due \in Nat /\ top[w].owner \in Owners
BY DEF TimerTypeOK, Jobs

\* A job pushed outside a timer job may become the top; pushed by a task it does not.
LEMMA PushPreservesTimer ==
  ASSUME TimerIInv, NEW w \in Workers, NEW owner \in Owners, NEW after \in Delays,
         PushTimerJob(w, owner, after)
  PROVE  TimerIInv'
<1> DEFINE new == [id |-> CHOOSE id \in FreeIds(w) : TRUE,
                   owner |-> owner, due |-> DueTime(w, after)]
<1> USE DEF TimerIInv
<1>1. DueTime(w, after) \in Nat /\ LTickCount[w] <= DueTime(w, after)
  BY TimerAssumption DEF DueTime, TimerTypeOK
<1>2. new \in Jobs
  <2>1. (CHOOSE id \in FreeIds(w) : TRUE) \in JobIds
    BY DEF PushTimerJob, FreeIds
  <2> QED BY <2>1, <1>1 DEF Jobs
<1>3. new # NoJob /\ new.due = DueTime(w, after)
  BY <1>2, NoJobAssumption
<1> HIDE DEF new
<1>4. \/ top[w] = NoJob /\ top' = [top EXCEPT ![w] = new] /\ UNCHANGED rest
      \/ /\ top[w] # NoJob /\ new.due < top[w].due
         /\ top' = [top EXCEPT ![w] = new]
         /\ rest' = [rest EXCEPT ![w] = @ \cup {top[w]}]
      \/ /\ top[w] # NoJob
         /\ rest' = [rest EXCEPT ![w] = @ \cup {new}] /\ UNCHANGED top
  BY DEF PushTimerJob, new
<1>5. /\ step[w] \in {"out", "task"}
      /\ UNCHANGED <<clock, LTickCount, step, running, ownerLock>>
  BY DEF PushTimerJob
<1>6. TimerTypeOK'
  <2>1. top' \in [Workers -> Jobs \cup {NoJob}] /\ rest' \in [Workers -> SUBSET Jobs]
    BY <1>2, <1>4, TopIsJob DEF TimerTypeOK
  <2>2. \A v \in Workers : top'[v] = NoJob => rest'[v] = {} /\ top[v] = NoJob
    BY <1>3, <1>4 DEF TimerTypeOK
  <2> QED BY <2>1, <2>2, <1>5 DEF TimerTypeOK
<1>7. \A v \in Workers : step[v] \in {"lock", "task", "pop"} => top'[v] = top[v]
  <2>1. step[w] = "task" => top[w] # NoJob /\ ~ new.due < top[w].due
    BY <1>1, <1>3, TopIsJob DEF TakenIsDue, TimerTypeOK
  <2> QED BY <2>1, <1>4, <1>5 DEF TimerTypeOK
<1>8. TakenIsDue' /\ TopIsRunning'
  BY <1>5, <1>7 DEF TakenIsDue, TopIsRunning
<1>9. OwnerLocked'
  BY <1>5 DEF OwnerLocked
<1> QED BY <1>6, <1>8, <1>9

\* The lock is taken by a worker that held none, for the job it then runs.
LEMMA EnterLockPreserves ==
  ASSUME TimerIInv, NEW w \in Workers, EnterLock(w)
  PROVE  TimerIInv'
<1> USE DEF TimerIInv
<1>1. /\ step[w] = "lock" /\ step' = [step EXCEPT ![w] = "task"]
      /\ ownerLock[top[w].owner] = Nobody
      /\ ownerLock' = [ownerLock EXCEPT ![top[w].owner] = w]
      /\ running' = [running EXCEPT ![w] = top[w]]
      /\ UNCHANGED <<clock, LTickCount, top, rest>>
  BY DEF EnterLock, At
<1>2. top[w] # NoJob /\ top[w] \in Jobs /\ top[w].owner \in Owners
  BY <1>1, TopIsJob DEF TimerTypeOK
<1>3. TimerTypeOK'
  BY <1>1, <1>2 DEF TimerTypeOK, Steps
<1>4. TakenIsDue' /\ TopIsRunning'
  BY <1>1 DEF TimerTypeOK, TakenIsDue, TopIsRunning
<1>5. OwnerLocked'
  <2> SUFFICES ASSUME NEW o \in Owners, NEW v \in Workers
               PROVE  ownerLock'[o] = v <=> step'[v] = "task" /\ running'[v].owner = o
    BY DEF OwnerLocked
  <2>1. ownerLock[o] = v <=> step[v] = "task" /\ running[v].owner = o
    BY DEF OwnerLocked
  <2> QED BY <1>1, <1>2, <2>1, TimerAssumption DEF TimerTypeOK
<1> QED BY <1>3, <1>4, <1>5

\* The lock released through the reference to the top is the one that was taken.
LEMMA LeaveLockPreserves ==
  ASSUME TimerIInv, NEW w \in Workers, LeaveLock(w)
  PROVE  TimerIInv'
<1> USE DEF TimerIInv
<1>1. /\ step[w] = "task" /\ step' = [step EXCEPT ![w] = "pop"]
      /\ ownerLock' = [ownerLock EXCEPT ![top[w].owner] = Nobody]
      /\ UNCHANGED <<clock, LTickCount, top, rest, running>>
  BY DEF LeaveLock, At
<1>2. top[w] # NoJob /\ top[w] = running[w] /\ top[w].owner \in Owners
  BY <1>1, TopIsJob DEF TimerTypeOK, TopIsRunning
<1>3. TimerTypeOK'
  BY <1>1, <1>2 DEF TimerTypeOK, Steps
<1>4. TakenIsDue' /\ TopIsRunning'
  BY <1>1 DEF TimerTypeOK, TakenIsDue, TopIsRunning
<1>5. OwnerLocked'
  <2> SUFFICES ASSUME NEW o \in Owners, NEW v \in Workers
               PROVE  ownerLock'[o] = v <=> step'[v] = "task" /\ running'[v].owner = o
    BY DEF OwnerLocked
  <2>1. /\ ownerLock[o] = v <=> step[v] = "task" /\ running[v].owner = o
        /\ ownerLock[o] = w <=> step[w] = "task" /\ running[w].owner = o
    BY DEF OwnerLocked
  <2> QED BY <1>1, <1>2, <2>1, TimerAssumption DEF TimerTypeOK
<1> QED BY <1>3, <1>4, <1>5

\* The job that leaves the queue is the top, and the next one replaces it.
LEMMA PopPreserves ==
  ASSUME TimerIInv, NEW w \in Workers, Pop(w)
  PROVE  TimerIInv'
<1> USE DEF TimerIInv
<1>1. /\ step[w] = "pop" /\ step' = [step EXCEPT ![w] = "loop"]
      /\ running' = [running EXCEPT ![w] = NoJob]
      /\ UNCHANGED <<clock, LTickCount, ownerLock>>
  BY DEF Pop, At
<1>2. \/ rest[w] = {} /\ top' = [top EXCEPT ![w] = NoJob] /\ UNCHANGED rest
      \/ \E job \in rest[w] : /\ top' = [top EXCEPT ![w] = job]
                              /\ rest' = [rest EXCEPT ![w] = @ \ {job}]
  BY DEF Pop, NewTop
<1>3. TimerTypeOK'
  <2>1. top' \in [Workers -> Jobs \cup {NoJob}] /\ rest' \in [Workers -> SUBSET Jobs]
    BY <1>2 DEF TimerTypeOK
  <2>2. \A v \in Workers : top'[v] = NoJob => rest'[v] = {}
    BY <1>2, NoJobAssumption DEF TimerTypeOK
  <2>3. \A v \in Workers : step'[v] \in {"lock", "task", "pop"} => top'[v] # NoJob
    BY <1>1, <1>2 DEF TimerTypeOK
  <2> QED BY <1>1, <2>1, <2>2, <2>3 DEF TimerTypeOK, Steps
<1>4. \A v \in Workers : v # w => top'[v] = top[v]
  BY <1>2 DEF TimerTypeOK
<1>5. TakenIsDue' /\ TopIsRunning' /\ OwnerLocked'
  BY <1>1, <1>4 DEF TimerTypeOK, TakenIsDue, TopIsRunning, OwnerLocked
<1> QED BY <1>3, <1>5

\* Looking at the clock, or at the top, changes no job and no lock.
LEMMA LookPreserves ==
  ASSUME TimerIInv, NEW w \in Workers, UpdateTick(w) \/ TakeTop(w)
  PROVE  TimerIInv'
<1> USE DEF TimerIInv
<1>1. /\ step[w] \in {"out", "loop"}
      /\ \E to \in {"loop", "lock", "out"} : step' = [step EXCEPT ![w] = to]
      /\ UNCHANGED <<clock, top, rest, running, ownerLock>>
  BY DEF UpdateTick, TakeTop, At
<1>2. \/ step[w] = "out" /\ LTickCount' = [LTickCount EXCEPT ![w] = clock]
      \/ UNCHANGED LTickCount
  BY DEF UpdateTick, TakeTop, At
<1>3. step'[w] = "lock" => /\ top[w] # NoJob /\ top[w].due <= LTickCount[w]
                           /\ UNCHANGED LTickCount
  BY DEF UpdateTick, TakeTop, At, TimerTypeOK
<1>4. TimerTypeOK'
  BY <1>1, <1>2, <1>3 DEF TimerTypeOK, Steps
<1>5. TakenIsDue' /\ TopIsRunning' /\ OwnerLocked'
  BY <1>1, <1>2, <1>3 DEF TimerTypeOK, TakenIsDue, TopIsRunning, OwnerLocked
<1> QED BY <1>4, <1>5

\* No step of a timer, of any worker, breaks the inductive invariant.
THEOREM TimerStepPreserves == TimerIInv /\ [TimerNext]_timerVars => TimerIInv'
<1> SUFFICES ASSUME TimerIInv, [TimerNext]_timerVars PROVE TimerIInv'
  OBVIOUS
<1>1. CASE Tick
  BY <1>1 DEF Tick, TimerIInv, TimerTypeOK, TakenIsDue, TopIsRunning, OwnerLocked
<1>2. CASE UNCHANGED timerVars
  BY <1>2 DEF timerVars, TimerIInv, TimerTypeOK, TakenIsDue, TopIsRunning, OwnerLocked
<1> QED BY <1>1, <1>2, PushPreservesTimer, EnterLockPreserves, LeaveLockPreserves,
           PopPreserves, LookPreserves DEF TimerNext, DoTimerJob

\* Every reachable state of the timers satisfies TimerIInv.
THEOREM TimerInvariance == TimerSpec => []TimerIInv
BY TimerInitEstablishes, TimerStepPreserves, PTL DEF TimerSpec

-----------------------------------------------------------------------------
(***************************************************************************)
(* The composition.  That OnTick arms a tick only for the player whose job *)
(* runs needs to know when OnTick runs.                                    *)
(***************************************************************************)
OnTickIsTask ==
  /\ onTick \in [Workers -> {"none", "start", "decay", "arm", "done"}]
  /\ \A w \in Workers : onTick[w] # "none" <=> step[w] = "task"

WorkerIInv == TimerIInv /\ IInv /\ OnTickIsTask

\* A step of the worker loop is a step of the timers, or leaves them alone.
LEMMA TimerProjection ==
  ASSUME WorkerIInv, [WorkerNext]_workerVars
  PROVE  [TimerNext]_timerVars
<1>1. ASSUME NEW w \in Workers, ArmNextTick(w)
      PROVE  TimerNext
  <2>1. step[w] = "task" /\ top[w] # NoJob /\ top[w] = running[w]
    BY <1>1 DEF ArmNextTick, OnTickGoes, WorkerIInv, OnTickIsTask,
                TimerIInv, TimerTypeOK, TopIsRunning
  <2>2. running[w].owner \in Owners
    BY <2>1, TopIsJob DEF WorkerIInv, TimerIInv
  <2> QED BY <1>1, <2>2 DEF ArmNextTick, TimerNext
<1>2. ASSUME NEW w \in Workers,
             AcceptCompletion(w) \/ TimerStep(w) \/ StartTask(w) \/ EndTask(w)
      PROVE  TimerNext
  BY <1>2 DEF AcceptCompletion, TimerStep, StartTask, EndTask, TimerNext, DoTimerJob
<1>3. ASSUME NEW w \in Workers,
             DispatchBuff(w) \/ DispatchDecay(w) \/ ExecuterStep(w)
      PROVE  UNCHANGED timerVars
  BY <1>3 DEF DispatchBuff, DispatchDecay, ExecuterStep
<1> QED BY <1>1, <1>2, <1>3 DEF WorkerNext, workerVars, TimerNext

\* A step of the worker loop is a step of the executer, or leaves it alone.
LEMMA ExecuterProjection ==
  ASSUME [WorkerNext]_workerVars
  PROVE  [GCENext]_gceVars
<1>1. ASSUME NEW w \in Workers,
             DispatchBuff(w) \/ DispatchDecay(w) \/ ExecuterStep(w)
      PROVE  GCENext
  BY <1>1, EventsAssumption DEF DispatchBuff, DispatchDecay, ExecuterStep, GCENext
<1>2. ASSUME NEW w \in Workers, \/ AcceptCompletion(w) \/ TimerStep(w) \/ StartTask(w)
                                \/ ArmNextTick(w) \/ EndTask(w)
      PROVE  UNCHANGED gceVars
  BY <1>2 DEF AcceptCompletion, TimerStep, StartTask, ArmNextTick, EndTask
<1> QED BY <1>1, <1>2 DEF WorkerNext, workerVars

\* OnTick is under way exactly while the task of a timer job is.
LEMMA OnTickPreserved ==
  ASSUME WorkerIInv, [WorkerNext]_workerVars
  PROVE  OnTickIsTask'
<1> USE DEF WorkerIInv, OnTickIsTask
<1>0. step \in [Workers -> Steps]
  BY DEF TimerIInv, TimerTypeOK
<1>1. ASSUME NEW w \in Workers, StartTask(w)
      PROVE  OnTickIsTask'
  BY <1>0, <1>1 DEF StartTask, EnterLock, At, OnTickGoes
<1>2. ASSUME NEW w \in Workers, EndTask(w)
      PROVE  OnTickIsTask'
  BY <1>0, <1>2 DEF EndTask, LeaveLock, At, OnTickGoes
<1>3. ASSUME NEW w \in Workers, DispatchBuff(w) \/ DispatchDecay(w) \/ ArmNextTick(w)
      PROVE  OnTickIsTask'
  <2>1. /\ onTick[w] # "none" /\ UNCHANGED step
        /\ \E to \in {"decay", "arm", "done"} : onTick' = [onTick EXCEPT ![w] = to]
    BY <1>3 DEF DispatchBuff, DispatchDecay, ArmNextTick, OnTickGoes, PushTimerJob, timerVars
  <2> QED BY <2>1
<1>4. ASSUME NEW w \in Workers, TimerStep(w) \/ AcceptCompletion(w) \/ ExecuterStep(w)
      PROVE  OnTickIsTask'
  <2>1. UNCHANGED onTick
    BY <1>4 DEF TimerStep, AcceptCompletion, ExecuterStep
  <2>2. \A v \in Workers : step'[v] = "task" <=> step[v] = "task"
    BY <1>0, <1>4 DEF TimerStep, AcceptCompletion, ExecuterStep, UpdateTick, TakeTop, Pop,
                      At, PushTimerJob, timerVars
  <2> QED BY <2>1, <2>2
<1>5. CASE Tick /\ UNCHANGED <<gceVars, onTick>>
  BY <1>5 DEF Tick
<1>6. CASE UNCHANGED workerVars
  BY <1>6 DEF workerVars, timerVars
<1> QED BY <1>1, <1>2, <1>3, <1>4, <1>5, <1>6 DEF WorkerNext

\* Every reachable state of the worker loop satisfies both invariants.
THEOREM WorkerInvariance == WorkerSpec => []WorkerIInv
<1>1. WorkerInit => WorkerIInv
  <2>1. WorkerInit => OnTickIsTask
    BY DEF WorkerInit, TimerInit, OnTickIsTask
  <2> QED BY <2>1, TimerInitEstablishes, InitEstablishes DEF WorkerInit, WorkerIInv
<1>2. WorkerIInv /\ [WorkerNext]_workerVars => WorkerIInv'
  BY TimerProjection, ExecuterProjection, OnTickPreserved, TimerStepPreserves, StepPreserves
     DEF WorkerIInv
<1> QED BY <1>1, <1>2, PTL DEF WorkerSpec

\* The worker loop implements both components: what is proved of the timers and of
\* the executer by themselves holds of the loop that uses both.
THEOREM Composition == WorkerSpec => TimerSpec /\ GCESpec
<1>1. WorkerInit => TimerInit /\ GCEInit
  BY DEF WorkerInit
<1>2. WorkerIInv /\ [WorkerNext]_workerVars => [TimerNext]_timerVars /\ [GCENext]_gceVars
  BY TimerProjection, ExecuterProjection
<1> QED BY <1>1, <1>2, WorkerInvariance, PTL DEF WorkerSpec, TimerSpec, GCESpec

\* The reference that DoTimerJob keeps across a task still is the job it ran.
THEOREM TopIsRunningInvariant == WorkerSpec => []TopIsRunning
BY WorkerInvariance, PTL DEF WorkerIInv, TimerIInv

\* A job runs inside the lock of its own object, also while its worker runs the
\* events of everybody; and a worker that runs none holds no lock.
THEOREM OwnerLockedInvariant == WorkerSpec => []OwnerLocked
BY WorkerInvariance, PTL DEF WorkerIInv, TimerIInv

\* In the worker loop, too, the executer runs the events one by one, each once.
THEOREM WorkersImplementSerialExecutor == WorkerSpec => ImplementsSerialExecutor
BY Composition, Implementation, PTL
=============================================================================
