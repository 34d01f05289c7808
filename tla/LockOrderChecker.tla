-------------------------- MODULE LockOrderChecker --------------------------
(***************************************************************************)
(* LockOrderChecker and the locks it watches: every thread keeps a stack   *)
(* of the locks it has entered, pushed before it spins for the lock and    *)
(* popped after it has left it, and only a lock of a later class than the  *)
(* top may be pushed.  A lock of class LO_DONT_CARE is not watched.        *)
(*                                                                         *)
(* A step here is one of the calls with its CRASH_ASSERTs holding; a       *)
(* program that keeps the rule implements Spec.  FastSpinlock.tla opens    *)
(* the lock itself, which is one atomic step here.                         *)
(***************************************************************************)
EXTENDS Integers, Sequences

CONSTANTS
  Threads, Locks,
  mLockOrder,      \* the class of each lock
  NoThread, NoLock

LO_DONT_CARE == 0
LO_LUGGAGE_CLASS == 4          \* the last class
MAX_LOCK_DEPTH == 32

\* What the enumeration LockOrder makes of the constants.
LockClasses ==
  /\ mLockOrder \in [Locks -> LO_DONT_CARE .. LO_LUGGAGE_CLASS]
  /\ NoThread \notin Threads
  /\ NoLock \notin Locks

VARIABLES
  writer,          \* the thread inside the lock in exclusive mode
  readers,         \* the threads inside the lock in shared mode
  wants,           \* the lock a thread spins for
  mLockStack

lockVars == <<writer, readers, wants, mLockStack>>

Watched(l) == mLockOrder[l] # LO_DONT_CARE

-----------------------------------------------------------------------------
\* The assertions of Push and Pop.
PushAssert(t, l) ==
  Watched(l) =>
    /\ Len(mLockStack[t]) < MAX_LOCK_DEPTH
    /\ mLockStack[t] # <<>> =>
         mLockOrder[mLockStack[t][Len(mLockStack[t])]] < mLockOrder[l]

PopAssert(t, l) ==
  Watched(l) => mLockStack[t] # <<>> /\ mLockStack[t][Len(mLockStack[t])] = l

\* EnterWriteLock and EnterReadLock, as far as the spin loop.
Request(t, l) ==
  /\ wants[t] = NoLock
  /\ wants' = [wants EXCEPT ![t] = l]
  /\ mLockStack' = IF Watched(l) THEN [mLockStack EXCEPT ![t] = Append(@, l)]
                                 ELSE mLockStack
  /\ UNCHANGED <<writer, readers>>

AcquireWrite(t) ==
  /\ wants[t] # NoLock
  /\ writer[wants[t]] = NoThread /\ readers[wants[t]] = {}
  /\ writer' = [writer EXCEPT ![wants[t]] = t]
  /\ wants' = [wants EXCEPT ![t] = NoLock]
  /\ UNCHANGED <<readers, mLockStack>>

AcquireRead(t) ==
  /\ wants[t] # NoLock
  /\ writer[wants[t]] = NoThread
  /\ readers' = [readers EXCEPT ![wants[t]] = @ \cup {t}]
  /\ wants' = [wants EXCEPT ![t] = NoLock]
  /\ UNCHANGED <<writer, mLockStack>>

\* LeaveWriteLock or LeaveReadLock: the flag, then Pop.
Leave(t, l) ==
  /\ wants[t] = NoLock
  /\ \/ writer[l] = t
     \/ t \in readers[l]
  /\ writer' = [writer EXCEPT ![l] = IF @ = t THEN NoThread ELSE @]
  /\ readers' = [readers EXCEPT ![l] = @ \ {t}]
  /\ mLockStack' = IF Watched(l)
                   THEN [mLockStack EXCEPT ![t] = SubSeq(@, 1, Len(@) - 1)]
                   ELSE mLockStack
  /\ UNCHANGED wants

LockInit ==
  /\ writer = [l \in Locks |-> NoThread]
  /\ readers = [l \in Locks |-> {}]
  /\ wants = [t \in Threads |-> NoLock]
  /\ mLockStack = [t \in Threads |-> <<>>]

LockNext ==
  \E t \in Threads :
    \/ AcquireWrite(t) \/ AcquireRead(t)
    \/ \E l \in Locks :
         \/ PushAssert(t, l) /\ Request(t, l)
         \/ PopAssert(t, l) /\ Leave(t, l)

Spec == LockInit /\ [][LockNext]_lockVars

-----------------------------------------------------------------------------
(***************************************************************************)
(* Properties                                                              *)
(***************************************************************************)
LockTypeOK ==
  /\ writer \in [Locks -> Threads \cup {NoThread}]
  /\ readers \in [Locks -> SUBSET Threads]
  /\ wants \in [Threads -> Locks \cup {NoLock}]
  /\ mLockStack \in [Threads -> Seq(Locks)]

Inside(t, l) == writer[l] = t \/ t \in readers[l]

\* What the order is for: whoever waits for a watched lock waits for a thread
\* that, if it waits for a watched lock itself, waits for one of a later class.
\* So the watched locks are never in a circle of threads that wait for each
\* other (LockOrderChecker.cpp:16-22).
WaitsUpwards ==
  \A t, u \in Threads :
    /\ wants[t] # NoLock /\ Watched(wants[t]) /\ Inside(u, wants[t])
    /\ wants[u] # NoLock /\ Watched(wants[u])
    => mLockOrder[wants[t]] < mLockOrder[wants[u]]

\* The stack never gets deeper than there are classes, so the first assertion
\* of Push, MAX_LOCK_DEPTH, never fires (LockOrderChecker.cpp:14).
DepthBounded ==
  \A t \in Threads : Len(mLockStack[t]) <= LO_LUGGAGE_CLASS
=============================================================================
