---------------------------- MODULE FastSpinlock ----------------------------
(***************************************************************************)
(* FastSpinlock.cpp: the shared/exclusive spin lock under every shared     *)
(* structure of the server.  The whole lock is one word, mLockFlag: bits   *)
(* 20..30 count the threads that added LF_WRITE_FLAG, bits 0..19 those     *)
(* that incremented it for reading.  One action is one access to that      *)
(* word (a plain read of a spin loop, or an interlocked operation).        *)
(*                                                                         *)
(* The LockOrderChecker calls at both ends touch only thread-local state.  *)
(***************************************************************************)
EXTENDS Integers, FiniteSets

CONSTANT Threads

\* The write field has 11 bits; the server starts a dozen threads
\* (ContentsConfig.h: MAX_IO_THREAD, MAX_DB_THREAD) besides the main one.
ASSUME ThreadsAssumption ==
  IsFiniteSet(Threads) /\ Cardinality(Threads) <= 2047

VARIABLES
  mLockFlag,
  pc           \* where each thread is in the four functions of the lock

vars == <<mLockFlag, pc>>

LF_WRITE_FLAG == 1048576                            \* 0x00100000

\* mLockFlag & LF_WRITE_MASK, in units of LF_WRITE_FLAG; mLockFlag & LF_READ_MASK
WriteField(flag) == flag \div LF_WRITE_FLAG
ReadField(flag)  == flag % LF_WRITE_FLAG

Locations ==
  {"idle",
   "wSpin", "wAdd", "wBackOff", "wDrain", "wHeld",  \* EnterWriteLock, then inside
   "rSpin", "rAdd", "rBackOff", "rHeld"}            \* EnterReadLock, then inside

Goto(t, from, to) ==
  /\ pc[t] = from
  /\ pc' = [pc EXCEPT ![t] = to]

Init ==
  /\ mLockFlag = 0
  /\ pc = [t \in Threads |-> "idle"]

-----------------------------------------------------------------------------
(***************************************************************************)
(* EnterWriteLock / LeaveWriteLock                                         *)
(***************************************************************************)
EnterWriteLock(t) ==
  /\ Goto(t, "idle", "wSpin")
  /\ UNCHANGED mLockFlag

\* while (mLockFlag & LF_WRITE_MASK) YieldProcessor();
WriteSpinExit(t) ==
  /\ WriteField(mLockFlag) = 0
  /\ Goto(t, "wSpin", "wAdd")
  /\ UNCHANGED mLockFlag

\* Mutant: the result of the addition is not tested.
WriteAddUntested(t) ==
  /\ mLockFlag' = mLockFlag + LF_WRITE_FLAG
  /\ Goto(t, "wAdd", "wDrain")

\* InterlockedAdd(&mLockFlag, LF_WRITE_FLAG): the thread that finds itself
\* alone in the write field owns the lock once the readers have left.
WriteAdd(t) ==
  /\ mLockFlag' = mLockFlag + LF_WRITE_FLAG
  /\ IF WriteField(mLockFlag') = 1
     THEN Goto(t, "wAdd", "wDrain")
     ELSE Goto(t, "wAdd", "wBackOff")

\* Mutant: the loser leaves its flag behind.
WriteBackOffKeepingFlag(t) ==
  /\ Goto(t, "wBackOff", "wSpin")
  /\ UNCHANGED mLockFlag

WriteBackOff(t) ==
  /\ Goto(t, "wBackOff", "wSpin")
  /\ mLockFlag' = mLockFlag - LF_WRITE_FLAG

\* Mutant: the owner does not wait for the readers.
WriteDrainedAtOnce(t) ==
  /\ Goto(t, "wDrain", "wHeld")
  /\ UNCHANGED mLockFlag

\* while (mLockFlag & LF_READ_MASK) YieldProcessor(); return;
WriteDrained(t) ==
  /\ ReadField(mLockFlag) = 0
  /\ Goto(t, "wDrain", "wHeld")
  /\ UNCHANGED mLockFlag

LeaveWriteLock(t) ==
  /\ Goto(t, "wHeld", "idle")
  /\ mLockFlag' = mLockFlag - LF_WRITE_FLAG

-----------------------------------------------------------------------------
(***************************************************************************)
(* EnterReadLock / LeaveReadLock                                           *)
(***************************************************************************)
EnterReadLock(t) ==
  /\ Goto(t, "idle", "rSpin")
  /\ UNCHANGED mLockFlag

ReadSpinExit(t) ==
  /\ WriteField(mLockFlag) = 0
  /\ Goto(t, "rSpin", "rAdd")
  /\ UNCHANGED mLockFlag

\* Mutant: a writer that was counted meanwhile is not noticed.
ReadAddUntested(t) ==
  /\ mLockFlag' = mLockFlag + 1
  /\ Goto(t, "rAdd", "rHeld")

\* InterlockedIncrement(&mLockFlag): inside unless a writer is counted.
ReadAdd(t) ==
  /\ mLockFlag' = mLockFlag + 1
  /\ IF WriteField(mLockFlag') = 0
     THEN Goto(t, "rAdd", "rHeld")
     ELSE Goto(t, "rAdd", "rBackOff")

\* Mutant: the reader leaves its increment behind.
ReadBackOffKeepingCount(t) ==
  /\ Goto(t, "rBackOff", "rSpin")
  /\ UNCHANGED mLockFlag

ReadBackOff(t) ==
  /\ Goto(t, "rBackOff", "rSpin")
  /\ mLockFlag' = mLockFlag - 1

LeaveReadLock(t) ==
  /\ Goto(t, "rHeld", "idle")
  /\ mLockFlag' = mLockFlag - 1

-----------------------------------------------------------------------------
\* The steps a running thread owes once it has called an Enter function: the
\* guards are scope objects (FastSpinlockGuard), so a holder always leaves.
Proceed(t) ==
  \/ WriteSpinExit(t) \/ WriteAdd(t) \/ WriteBackOff(t)
  \/ WriteDrained(t) \/ LeaveWriteLock(t)
  \/ ReadSpinExit(t) \/ ReadAdd(t) \/ ReadBackOff(t) \/ LeaveReadLock(t)

Next == \E t \in Threads : EnterWriteLock(t) \/ EnterReadLock(t) \/ Proceed(t)

Spec == Init /\ [][Next]_vars

\* Every thread that is inside the lock's code keeps being scheduled; nothing
\* makes a thread call Enter again.
Fairness == \A t \in Threads : WF_vars(Proceed(t))

FairSpec == Spec /\ Fairness

-----------------------------------------------------------------------------
(***************************************************************************)
(* Properties                                                              *)
(***************************************************************************)
Holding(t)  == pc[t] \in {"wHeld", "rHeld"}
Entering(t) == pc[t] \notin {"idle", "wHeld", "rHeld"}

\* The threads whose LF_WRITE_FLAG, or whose increment, is in mLockFlag now.
CountedWriters == {t \in Threads : pc[t] \in {"wBackOff", "wDrain", "wHeld"}}
CountedReaders == {t \in Threads : pc[t] \in {"rBackOff", "rHeld"}}

\* The thread the write field belongs to, waiting for the readers or inside.
Owners == {t \in Threads : pc[t] \in {"wDrain", "wHeld"}}

\* The word never goes below zero.
TypeOK ==
  /\ mLockFlag \in Nat
  /\ pc \in [Threads -> Locations]

\* The word is exactly the two counts: no interleaving of additions and
\* back-offs loses one, lets the read count carry into the write field or
\* leaves a residue that would block the lock for good (FastSpinlock.cpp:29-38,
\* 71-74).
FlagCounts ==
  mLockFlag = LF_WRITE_FLAG * Cardinality(CountedWriters)
                + Cardinality(CountedReaders)

\* A thread in exclusive mode is alone inside the lock, although the two
\* fields are tested one after the other (FastSpinlock.cpp:29, 32, 71).
MutualExclusion ==
  \A a, b \in Threads :
    a # b /\ pc[a] = "wHeld" => ~ Holding(b)

\* FastSpinlock implements the abstract lock.
RW == INSTANCE RWLock WITH
        writers <- {t \in Threads : pc[t] = "wHeld"},
        readers <- {t \in Threads : pc[t] = "rHeld"}

ImplementsRWLock == RW!Spec

\* From the moment a writer owns the write field no other thread enters, in
\* either mode, before that writer has left: late readers cannot overtake it.
NoOvertaking ==
  [][\A w, t \in Threads :
       w # t /\ w \in Owners /\ w \in Owners' => (Holding(t)' => Holding(t))]_vars

\* The lock never wedges: while some thread wants in, some thread gets in.
\* Losers that back off cannot keep each other out for ever (line 38, 74).
Progress ==
  (\E t \in Threads : Entering(t)) ~> (\E t \in Threads : Holding(t))

\* The owner's wait for the readers ends: readers that arrive meanwhile back
\* off and stay in their spin loop (line 32 against 60-74).
OwnerEnters ==
  \A t \in Threads : (pc[t] = "wDrain") ~> (pc[t] = "wHeld")
=============================================================================
