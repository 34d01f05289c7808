----------------------------- MODULE WorkerLoop -----------------------------
(***************************************************************************)
(* The timers and the central executer as the IO workers use them: the     *)
(* task of a timer job is Player::OnTick, which dispatches events to the   *)
(* central executer and arms the player's next tick.  So a worker that     *)
(* runs the events of everybody is still inside its timer job, and holds   *)
(* the lock of that job's player.                                          *)
(***************************************************************************)
EXTENDS Timer, GrandCentralExecuter

CONSTANTS Buff, Decay      \* AllPlayerBuffEvent, AllPlayerBuffDecay

ASSUME EventsAssumption == Buff \in Tasks /\ Decay \in Tasks

VARIABLE onTick            \* what a worker's call of Player::OnTick does next

workerVars == <<timerVars, gceVars, onTick>>

OnTickGoes(w, from, to) ==
  onTick[w] \in from /\ onTick' = [onTick EXCEPT ![w] = to]

-----------------------------------------------------------------------------
\* DoSyncAfter in AcceptCompletion, which a worker runs between two timer jobs.
AcceptCompletion(w) ==
  /\ step[w] = "out"
  /\ \E owner \in Owners, after \in Delays : PushTimerJob(w, owner, after)
  /\ UNCHANGED <<gceVars, onTick>>

StartTask(w) ==
  /\ EnterLock(w)
  /\ OnTickGoes(w, {"none"}, "start")
  /\ UNCHANGED gceVars

\* Sometimes a buff for all, and always a decay, if the player is alive.
DispatchBuff(w) ==
  /\ OnTickGoes(w, {"start"}, "decay")
  /\ Increment(w, Buff)
  /\ UNCHANGED timerVars

DispatchDecay(w) ==
  /\ OnTickGoes(w, {"start", "decay"}, "arm")
  /\ Increment(w, Decay)
  /\ UNCHANGED timerVars

\* DoSyncAfter: the next tick, inside DoTimerJob of this one.
ArmNextTick(w) ==
  /\ at[w] = "out"
  /\ OnTickGoes(w, {"arm"}, "done")
  /\ \E after \in Delays : PushTimerJob(w, running[w].owner, after)
  /\ UNCHANGED gceVars

\* OnTick returns at once for a player that is not alive, and arms nothing when
\* it has no heart beat.
EndTask(w) ==
  /\ at[w] = "out"
  /\ OnTickGoes(w, {"start", "arm", "done"}, "none")
  /\ LeaveLock(w)
  /\ UNCHANGED gceVars

TimerStep(w) ==
  /\ UpdateTick(w) \/ TakeTop(w) \/ Pop(w)
  /\ UNCHANGED <<gceVars, onTick>>

ExecuterStep(w) == Proceed(w) /\ UNCHANGED <<timerVars, onTick>>

-----------------------------------------------------------------------------
WorkerInit ==
  /\ TimerInit /\ GCEInit
  /\ onTick = [w \in Workers |-> "none"]

WorkerNext ==
  \/ Tick /\ UNCHANGED <<gceVars, onTick>>
  \/ \E w \in Workers :
       \/ AcceptCompletion(w) \/ TimerStep(w)
       \/ StartTask(w) \/ DispatchBuff(w) \/ DispatchDecay(w)
       \/ ArmNextTick(w) \/ EndTask(w)
       \/ ExecuterStep(w)

\* A thread that is inside DoDispatch keeps running, and the events return.
WorkerFairness == \A w \in Workers : WF_workerVars(ExecuterStep(w))

WorkerSpec == WorkerInit /\ [][WorkerNext]_workerVars /\ WorkerFairness
=============================================================================
