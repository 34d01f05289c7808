----------------------- MODULE LockOrderCheckerProofs -----------------------
(***************************************************************************)
(* Theorems about LockOrderChecker, for any threads and locks and any      *)
(* classes.  The inductive invariant says that the stack of a thread goes  *)
(* strictly upwards, that every watched lock the thread is inside of is in *)
(* it, and that a watched lock it spins for is on top.                     *)
(***************************************************************************)
EXTENDS LockOrderChecker, TLAPS

StackGoesUp ==
  \A t \in Threads : \A i \in 1 .. Len(mLockStack[t]) :
    /\ i <= mLockOrder[mLockStack[t][i]]
    /\ \A j \in 1 .. Len(mLockStack[t]) :
         i < j => mLockOrder[mLockStack[t][i]] < mLockOrder[mLockStack[t][j]]

HeldInStack ==
  \A t \in Threads, l \in Locks :
    Watched(l) /\ Inside(t, l) =>
      \E i \in 1 .. Len(mLockStack[t]) : mLockStack[t][i] = l

WantedOnTop ==
  \A t \in Threads, l \in Locks :
    Watched(l) /\ wants[t] = l =>
      /\ mLockStack[t] # <<>>
      /\ mLockStack[t][Len(mLockStack[t])] = l
      /\ ~Inside(t, l)

IInv == LockTypeOK /\ StackGoesUp /\ HeldInStack /\ WantedOnTop

-----------------------------------------------------------------------------
\* A class is one of 0 to 4.
LEMMA OrderIsClass ==
  ASSUME LockClasses, NEW l \in Locks
  PROVE  /\ mLockOrder[l] \in Int /\ 0 <= mLockOrder[l] /\ mLockOrder[l] <= 4
         /\ l # NoLock
         /\ Watched(l) <=> mLockOrder[l] # 0
BY DEF LockClasses, LO_DONT_CARE, LO_LUGGAGE_CLASS, Watched

\* Appending a lock above the top keeps a stack that goes up going up.
LEMMA PushGoesUp ==
  ASSUME LockClasses, NEW s \in Seq(Locks), NEW l \in Locks, Watched(l),
         \A i \in 1 .. Len(s) :
           /\ i <= mLockOrder[s[i]]
           /\ \A j \in 1 .. Len(s) : i < j => mLockOrder[s[i]] < mLockOrder[s[j]],
         s # <<>> => mLockOrder[s[Len(s)]] < mLockOrder[l],
         NEW p, p = Append(s, l)
  PROVE  /\ \A i \in 1 .. Len(s) : mLockOrder[s[i]] < mLockOrder[l]
         /\ \A i \in 1 .. Len(p) :
              /\ i <= mLockOrder[p[i]]
              /\ \A j \in 1 .. Len(p) : i < j => mLockOrder[p[i]] < mLockOrder[p[j]]
<1> DEFINE n == Len(s)
<1>1. /\ n \in Nat /\ Len(p) = n + 1 /\ p[n + 1] = l
      /\ \A i \in 1 .. n : p[i] = s[i] /\ s[i] \in Locks
      /\ s # <<>> <=> n > 0
  OBVIOUS
<1>2. \A i \in 1 .. n : mLockOrder[s[i]] \in Int
  BY <1>1, OrderIsClass
<1>3. mLockOrder[l] \in Int /\ 1 <= mLockOrder[l]
  BY OrderIsClass
<1>4. \A i \in 1 .. n : mLockOrder[s[i]] < mLockOrder[l]
  <2> SUFFICES ASSUME NEW i \in 1 .. n PROVE mLockOrder[s[i]] < mLockOrder[l]
    OBVIOUS
  <2>1. n \in 1 .. n /\ mLockOrder[s[n]] < mLockOrder[l]
    BY <1>1
  <2>2. i = n \/ mLockOrder[s[i]] < mLockOrder[s[n]]
    BY <1>1, <2>1
  <2> QED BY <2>1, <2>2, <1>2, <1>3
<1>5. n + 1 <= mLockOrder[l]
  <2>1. CASE n = 0  BY <2>1, <1>3
  <2>2. CASE n # 0
    <3>1. n \in 1 .. n  BY <1>1, <2>2
    <3>2. n <= mLockOrder[s[n]] /\ mLockOrder[s[n]] < mLockOrder[l]
      BY <3>1, <1>4
    <3> QED BY <3>1, <3>2, <1>1, <1>2, <1>3
  <2> QED BY <2>1, <2>2
<1>6. ASSUME NEW i \in 1 .. n + 1
      PROVE  /\ i <= mLockOrder[p[i]]
             /\ \A j \in 1 .. n + 1 : i < j => mLockOrder[p[i]] < mLockOrder[p[j]]
  <2>1. CASE i = n + 1  BY <2>1, <1>1, <1>5
  <2>2. CASE i \in 1 .. n
    <3>1. i <= mLockOrder[p[i]]  BY <2>2, <1>1
    <3>2. ASSUME NEW j \in 1 .. n + 1, i < j
          PROVE  mLockOrder[p[i]] < mLockOrder[p[j]]
      <4>1. CASE j \in 1 .. n  BY <4>1, <2>2, <3>2, <1>1
      <4>2. CASE j = n + 1  BY <4>2, <2>2, <1>1, <1>4
      <4> QED BY <4>1, <4>2, <1>1
    <3> QED BY <3>1, <3>2
  <2> QED BY <2>1, <2>2, <1>1
<1> QED BY <1>1, <1>4, <1>6

-----------------------------------------------------------------------------
LEMMA InitHolds == ASSUME LockClasses, LockInit PROVE IInv
BY DEF LockClasses, LockInit, IInv, LockTypeOK, StackGoesUp, HeldInStack,
       WantedOnTop, Inside

LEMMA RequestKeeps ==
  ASSUME LockClasses, IInv, NEW t \in Threads, NEW l \in Locks,
         PushAssert(t, l), Request(t, l)
  PROVE  IInv'
<1> USE DEF IInv
<1>1. mLockStack[t] \in Seq(Locks)  BY DEF LockTypeOK
<1>2. LockTypeOK'
  <2>1. Append(mLockStack[t], l) \in Seq(Locks)  BY <1>1
  <2> QED BY <2>1 DEF LockTypeOK, Request
<1>3. CASE Watched(l)
  <2> DEFINE s == mLockStack[t]
             p == Append(s, l)
  <2>1. mLockStack' = [mLockStack EXCEPT ![t] = p] /\ mLockStack'[t] = p
    BY <1>3 DEF Request, LockTypeOK
  <2>2. \A u \in Threads \ {t} : mLockStack'[u] = mLockStack[u]
    BY <2>1 DEF LockTypeOK
  <2>3. /\ \A i \in 1 .. Len(s) : mLockOrder[s[i]] < mLockOrder[l]
        /\ \A i \in 1 .. Len(p) :
              /\ i <= mLockOrder[p[i]]
              /\ \A j \in 1 .. Len(p) : i < j => mLockOrder[p[i]] < mLockOrder[p[j]]
    <3> HIDE DEF p
    <3>1. \A i \in 1 .. Len(s) :
           /\ i <= mLockOrder[s[i]]
           /\ \A j \in 1 .. Len(s) : i < j => mLockOrder[s[i]] < mLockOrder[s[j]]
      BY DEF StackGoesUp
    <3>2. s # <<>> => mLockOrder[s[Len(s)]] < mLockOrder[l]
      BY <1>3 DEF PushAssert
    <3>3. p = Append(s, l)  BY DEF p
    <3> QED BY <3>1, <3>2, <3>3, <1>1, <1>3, PushGoesUp
  <2>4. StackGoesUp'
    BY <2>1, <2>2, <2>3 DEF StackGoesUp
  <2>5. Len(p) = Len(s) + 1 /\ p[Len(p)] = l /\ \A i \in 1 .. Len(s) : p[i] = s[i]
    BY <1>1
  <2>6. HeldInStack'
    <3> SUFFICES ASSUME NEW u \in Threads, NEW m \in Locks,
                        Watched(m), Inside(u, m)
                 PROVE  \E i \in 1 .. Len(mLockStack'[u]) : mLockStack'[u][i] = m
      BY DEF HeldInStack, Inside, Request, Watched
    <3>1. PICK i \in 1 .. Len(mLockStack[u]) : mLockStack[u][i] = m
      BY DEF HeldInStack
    <3>2. CASE u = t
      <4>1. i \in 1 .. Len(p) /\ p[i] = m  BY <3>1, <3>2, <2>5, <1>1
      <4> QED BY <4>1, <2>1, <3>2
    <3>3. CASE u # t  BY <3>1, <3>3, <2>2
    <3> QED BY <3>2, <3>3
  <2>7. ~Inside(t, l)
    <3> SUFFICES ASSUME Inside(t, l) PROVE FALSE  OBVIOUS
    <3>1. PICK i \in 1 .. Len(s) : s[i] = l  BY <1>3 DEF HeldInStack
    <3> QED BY <3>1, <2>3, OrderIsClass
  <2>8. WantedOnTop'
    <3> SUFFICES ASSUME NEW u \in Threads, NEW m \in Locks,
                        Watched(m), wants'[u] = m
                 PROVE  /\ mLockStack'[u] # <<>>
                        /\ mLockStack'[u][Len(mLockStack'[u])] = m
                        /\ ~Inside(u, m)
      BY DEF WantedOnTop, Inside, Request, Watched
    <3>1. CASE u = t
      <4>1. m = l  BY <3>1 DEF Request, LockTypeOK
      <4>2. p # <<>>  BY <1>1
      <4> QED BY <3>1, <4>1, <4>2, <2>1, <2>5, <2>7
    <3>2. CASE u # t
      <4>1. wants[u] = m  BY <3>2 DEF Request, LockTypeOK
      <4> QED BY <3>2, <4>1, <2>2 DEF WantedOnTop
    <3> QED BY <3>1, <3>2
  <2> QED BY <1>2, <2>4, <2>6, <2>8
<1>4. CASE ~Watched(l)
  <2>1. mLockStack' = mLockStack  BY <1>4 DEF Request
  <2>2. \A u \in Threads, m \in Locks :
          Watched(m) /\ wants'[u] = m => wants[u] = m
    BY <1>4 DEF Request, LockTypeOK
  <2> QED BY <1>2, <2>1, <2>2
          DEF StackGoesUp, HeldInStack, WantedOnTop, Inside, Request, Watched
<1> QED BY <1>3, <1>4

LEMMA AcquireKeeps ==
  ASSUME LockClasses, IInv, NEW t \in Threads, AcquireWrite(t) \/ AcquireRead(t)
  PROVE  IInv'
<1> USE DEF IInv
<1> DEFINE w == wants[t]
<1>1. w \in Locks /\ mLockStack' = mLockStack
      /\ wants' = [wants EXCEPT ![t] = NoLock]
  BY DEF AcquireWrite, AcquireRead, LockTypeOK
<1>2. LockTypeOK'
  <2>1. CASE AcquireWrite(t)  BY <2>1, <1>1 DEF LockTypeOK, AcquireWrite
  <2>2. CASE AcquireRead(t)
    <3>1. readers[w] \cup {t} \in SUBSET Threads  BY <1>1 DEF LockTypeOK
    <3> QED BY <2>2, <3>1, <1>1 DEF LockTypeOK, AcquireRead
  <2> QED BY <2>1, <2>2
<1>3. \A u \in Threads, m \in Locks :
        Inside(u, m)' => Inside(u, m) \/ (u = t /\ m = w)
  BY <1>1 DEF AcquireWrite, AcquireRead, LockTypeOK, Inside
<1>4. StackGoesUp'  BY <1>1 DEF StackGoesUp
<1>5. HeldInStack'
  <2> SUFFICES ASSUME NEW u \in Threads, NEW m \in Locks,
                      Watched(m), Inside(u, m)'
               PROVE  \E i \in 1 .. Len(mLockStack[u]) : mLockStack[u][i] = m
    BY <1>1 DEF HeldInStack, Watched
  <2>1. CASE Inside(u, m)  BY <2>1 DEF HeldInStack
  <2>2. CASE u = t /\ m = w
    <3>1. mLockStack[u] # <<>> /\ mLockStack[u][Len(mLockStack[u])] = m
      BY <2>2 DEF WantedOnTop
    <3>2. mLockStack[u] \in Seq(Locks)  BY DEF LockTypeOK
    <3>3. Len(mLockStack[u]) \in 1 .. Len(mLockStack[u])  BY <3>1, <3>2
    <3> QED BY <3>1, <3>3
  <2> QED BY <2>1, <2>2, <1>3
<1>6. WantedOnTop'
  <2> SUFFICES ASSUME NEW u \in Threads, NEW m \in Locks,
                      Watched(m), wants'[u] = m
               PROVE  /\ mLockStack[u] # <<>>
                      /\ mLockStack[u][Len(mLockStack[u])] = m
                      /\ ~Inside(u, m)'
    BY <1>1 DEF WantedOnTop, Watched
  <2>1. u # t /\ wants[u] = m
    BY <1>1, OrderIsClass DEF LockTypeOK
  <2>2. /\ mLockStack[u] # <<>> /\ mLockStack[u][Len(mLockStack[u])] = m
        /\ ~Inside(u, m)
    BY <2>1 DEF WantedOnTop
  <2> QED BY <2>1, <2>2, <1>3
<1> QED BY <1>2, <1>4, <1>5, <1>6

LEMMA LeaveKeeps ==
  ASSUME LockClasses, IInv, NEW t \in Threads, NEW l \in Locks,
         PopAssert(t, l), Leave(t, l)
  PROVE  IInv'
<1> USE DEF IInv
<1> DEFINE s == mLockStack[t]
           p == SubSeq(s, 1, Len(s) - 1)
<1>1. s \in Seq(Locks) /\ wants' = wants /\ wants[t] = NoLock
  BY DEF LockTypeOK, Leave
<1>2. \A u \in Threads, m \in Locks :
        /\ Inside(u, m)' => Inside(u, m)
        /\ ~Inside(t, l)'
  BY DEF Leave, LockTypeOK, LockClasses, Inside
<1>3. CASE Watched(l)
  <2>1. s # <<>> /\ s[Len(s)] = l  BY <1>3 DEF PopAssert
  <2>2. /\ Len(s) > 0 /\ Len(p) = Len(s) - 1 /\ p \in Seq(Locks)
        /\ \A i \in 1 .. Len(s) - 1 : p[i] = s[i]
    BY <1>1, <2>1
  <2>3. mLockStack' = [mLockStack EXCEPT ![t] = p] /\ mLockStack'[t] = p
    BY <1>3 DEF Leave, LockTypeOK
  <2>4. \A u \in Threads \ {t} : mLockStack'[u] = mLockStack[u]
    BY <2>3 DEF LockTypeOK
  <2>5. LockTypeOK'
    BY <2>2, <2>3 DEF LockTypeOK, Leave
  <2>6. StackGoesUp'
    <3>1. \A i \in 1 .. Len(p) :
              /\ i <= mLockOrder[p[i]]
              /\ \A j \in 1 .. Len(p) : i < j => mLockOrder[p[i]] < mLockOrder[p[j]]
      <4>1. \A i \in 1 .. Len(s) :
              /\ i <= mLockOrder[s[i]]
              /\ \A j \in 1 .. Len(s) : i < j => mLockOrder[s[i]] < mLockOrder[s[j]]
        BY DEF StackGoesUp
      <4>2. \A i \in 1 .. Len(p) : i \in 1 .. Len(s) /\ p[i] = s[i]
        <5> HIDE DEF p
        <5> QED BY <2>2, <1>1
      <4> HIDE DEF p, s
      <4> QED BY <4>1, <4>2
    <3> QED BY <3>1, <2>3, <2>4 DEF StackGoesUp
  <2>7. HeldInStack'
    <3> SUFFICES ASSUME NEW u \in Threads, NEW m \in Locks,
                        Watched(m), Inside(u, m)'
                 PROVE  \E i \in 1 .. Len(mLockStack'[u]) : mLockStack'[u][i] = m
      BY DEF HeldInStack, Watched
    <3>1. PICK i \in 1 .. Len(mLockStack[u]) : mLockStack[u][i] = m
      BY <1>2 DEF HeldInStack
    <3>2. CASE u = t
      <4>1. m # l  BY <1>2, <3>2
      <4>2. i # Len(s)  BY <4>1, <3>1, <3>2, <2>1
      <4>3. i \in 1 .. Len(p) /\ p[i] = m
        <5> HIDE DEF p
        <5> QED BY <4>2, <3>1, <3>2, <2>2, <1>1
      <4> QED BY <4>3, <3>2, <2>3
    <3>3. CASE u # t  BY <3>1, <3>3, <2>4
    <3> QED BY <3>2, <3>3
  <2>8. WantedOnTop'
    <3> SUFFICES ASSUME NEW u \in Threads, NEW m \in Locks,
                        Watched(m), wants[u] = m
                 PROVE  /\ mLockStack'[u] # <<>>
                        /\ mLockStack'[u][Len(mLockStack'[u])] = m
                        /\ ~Inside(u, m)'
      BY <1>1 DEF WantedOnTop, Watched
    <3>1. u # t  BY <1>1, OrderIsClass
    <3> QED BY <3>1, <2>4, <1>2 DEF WantedOnTop
  <2> QED BY <2>5, <2>6, <2>7, <2>8
<1>4. CASE ~Watched(l)
  <2>1. mLockStack' = mLockStack  BY <1>4 DEF Leave
  <2>2. LockTypeOK'  BY <2>1 DEF LockTypeOK, Leave
  <2>3. StackGoesUp' /\ HeldInStack' /\ WantedOnTop'
    BY <2>1, <1>1, <1>2 DEF StackGoesUp, HeldInStack, WantedOnTop, Watched
  <2> QED BY <2>2, <2>3
<1> QED BY <1>3, <1>4

LEMMA NextKeeps == ASSUME LockClasses, IInv, [LockNext]_lockVars PROVE IInv'
<1>1. CASE UNCHANGED lockVars
  BY <1>1 DEF lockVars, IInv, LockTypeOK, StackGoesUp, HeldInStack,
              WantedOnTop, Inside
<1>2. CASE LockNext
  BY <1>2, RequestKeeps, AcquireKeeps, LeaveKeeps DEF LockNext
<1> QED BY <1>1, <1>2

-----------------------------------------------------------------------------
LEMMA InvariantWaitsUpwards == ASSUME LockClasses, IInv PROVE WaitsUpwards
<1> SUFFICES ASSUME NEW t \in Threads, NEW u \in Threads,
                    wants[t] # NoLock, Watched(wants[t]), Inside(u, wants[t]),
                    wants[u] # NoLock, Watched(wants[u])
             PROVE  mLockOrder[wants[t]] < mLockOrder[wants[u]]
  BY DEF WaitsUpwards
<1> DEFINE s == mLockStack[u]
<1>1. wants[t] \in Locks /\ wants[u] \in Locks /\ s \in Seq(Locks)
  BY DEF IInv, LockTypeOK
<1>2. PICK i \in 1 .. Len(s) : s[i] = wants[t]
  BY <1>1 DEF IInv, HeldInStack
<1>3. s # <<>> /\ s[Len(s)] = wants[u] /\ wants[u] # wants[t]
  BY <1>1 DEF IInv, WantedOnTop
<1>4. Len(s) \in 1 .. Len(s) /\ i < Len(s)
  BY <1>1, <1>2, <1>3
<1> QED BY <1>2, <1>3, <1>4 DEF IInv, StackGoesUp

LEMMA InvariantDepth == ASSUME LockClasses, IInv PROVE DepthBounded
<1> SUFFICES ASSUME NEW t \in Threads
             PROVE  Len(mLockStack[t]) <= LO_LUGGAGE_CLASS
  BY DEF DepthBounded
<1> DEFINE s == mLockStack[t]
           n == Len(s)
<1>1. s \in Seq(Locks) /\ n \in Nat  BY DEF IInv, LockTypeOK
<1>2. CASE n = 0  BY <1>2 DEF LO_LUGGAGE_CLASS
<1>3. CASE n # 0
  <2>1. n \in 1 .. n /\ s[n] \in Locks  BY <1>1, <1>3
  <2>2. n <= mLockOrder[s[n]]  BY <2>1 DEF IInv, StackGoesUp
  <2>3. mLockOrder[s[n]] \in Int /\ mLockOrder[s[n]] <= 4  BY <2>1, OrderIsClass
  <2> QED BY <1>1, <2>2, <2>3 DEF LO_LUGGAGE_CLASS
<1> QED BY <1>2, <1>3

\* A program that keeps to the order of the classes never has watched locks in
\* a circle of waiting threads, however many threads and locks there are
\* (LockOrderChecker.cpp:16-22, FastSpinlock.h:3-10).
THEOREM KeepingTheOrder == LockClasses /\ Spec => []WaitsUpwards
<1> SUFFICES ASSUME LockClasses PROVE Spec => []WaitsUpwards
  OBVIOUS
<1>1. LockInit => IInv  BY InitHolds
<1>2. IInv /\ [LockNext]_lockVars => IInv'  BY NextKeeps
<1>3. IInv => WaitsUpwards  BY InvariantWaitsUpwards
<1> QED BY <1>1, <1>2, <1>3, PTL DEF Spec

\* The assertion on the depth of the stack cannot fire: five classes are far
\* fewer than the 32 places (LockOrderChecker.cpp:14).
THEOREM DepthNeverReached == LockClasses /\ Spec => []DepthBounded
<1> SUFFICES ASSUME LockClasses PROVE Spec => []DepthBounded
  OBVIOUS
<1>1. LockInit => IInv  BY InitHolds
<1>2. IInv /\ [LockNext]_lockVars => IInv'  BY NextKeeps
<1>3. IInv => DepthBounded  BY InvariantDepth
<1> QED BY <1>1, <1>2, <1>3, PTL DEF Spec

THEOREM LockTypesCorrect == LockClasses /\ Spec => []LockTypeOK
<1> SUFFICES ASSUME LockClasses PROVE Spec => []LockTypeOK
  OBVIOUS
<1>1. LockInit => IInv  BY InitHolds
<1>2. IInv /\ [LockNext]_lockVars => IInv'  BY NextKeeps
<1>3. IInv => LockTypeOK  BY DEF IInv
<1> QED BY <1>1, <1>2, <1>3, PTL DEF Spec
=============================================================================
