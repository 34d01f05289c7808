------------------------- MODULE FastSpinlockProofs -------------------------
(***************************************************************************)
(* Theorems about FastSpinlock, for any number of threads the write field  *)
(* can count.  The inductive invariant says that the word is the two       *)
(* counts, that the write field has at most one owner, and that an owner   *)
(* inside the lock has outlived every reader.                              *)
(***************************************************************************)
EXTENDS FastSpinlock, FiniteSetTheorems, TLAPS

OneOwner == \A a, b \in Owners : a = b

HeldExcludesReaders ==
  \A a, b \in Threads : pc[a] = "wHeld" => pc[b] # "rHeld"

IInv == TypeOK /\ FlagCounts /\ OneOwner /\ HeldExcludesReaders

LEMMA WriteFlagSize == LF_WRITE_FLAG \in Nat /\ LF_WRITE_FLAG > 2048
BY SMT DEF LF_WRITE_FLAG

\* A sum of two counts, the second below 2^20, is taken apart by the masks.
LEMMA FieldsOfSum ==
  ASSUME NEW w \in Nat, NEW r \in Nat, r < LF_WRITE_FLAG
  PROVE  /\ WriteField(LF_WRITE_FLAG * w + r) = w
         /\ ReadField(LF_WRITE_FLAG * w + r) = r
BY SMT DEF WriteField, ReadField, LF_WRITE_FLAG

\* A set of threads is finite and its count fits either field.
LEMMA CountFits ==
  ASSUME NEW S \in SUBSET Threads
  PROVE  IsFiniteSet(S) /\ Cardinality(S) \in Nat /\ Cardinality(S) <= 2047
<1>1. IsFiniteSet(S) /\ Cardinality(S) <= Cardinality(Threads)
  BY ThreadsAssumption, FS_Subset
<1>2. Cardinality(S) \in Nat /\ Cardinality(Threads) \in Nat
  BY <1>1, ThreadsAssumption, FS_CardinalityType
<1> QED BY <1>1, <1>2, ThreadsAssumption

LEMMA CountedAreThreads ==
  /\ CountedWriters \in SUBSET Threads /\ CountedReaders \in SUBSET Threads
  /\ CountedWriters' \in SUBSET Threads /\ CountedReaders' \in SUBSET Threads
BY DEF CountedWriters, CountedReaders

LEMMA CountsFit ==
  /\ IsFiniteSet(CountedWriters) /\ IsFiniteSet(CountedReaders)
  /\ Cardinality(CountedWriters) \in Nat
  /\ Cardinality(CountedReaders) \in Nat
BY CountFits, CountedAreThreads

\* While a word is two counts, the masks read the counts, and a field of zero
\* means that no thread is counted in it.
LEMMA FieldsAreCounts ==
  ASSUME NEW W \in SUBSET Threads, NEW R \in SUBSET Threads,
         NEW f, f = LF_WRITE_FLAG * Cardinality(W) + Cardinality(R)
  PROVE  /\ WriteField(f) = Cardinality(W)
         /\ ReadField(f) = Cardinality(R)
         /\ WriteField(f) = 0 => W = {}
         /\ ReadField(f) = 0 => R = {}
<1> DEFINE w == Cardinality(W)
           r == Cardinality(R)
<1>1. w \in Nat /\ r \in Nat /\ r < LF_WRITE_FLAG
  BY CountFits, WriteFlagSize
<1>2. f = LF_WRITE_FLAG * w + r
  OBVIOUS
<1>3. (w = 0 => W = {}) /\ (r = 0 => R = {})
  BY CountFits, FS_EmptySet
<1> HIDE DEF w, r
<1>4. /\ WriteField(LF_WRITE_FLAG * w + r) = w
      /\ ReadField(LF_WRITE_FLAG * w + r) = r
  BY <1>1, FieldsOfSum
<1> QED BY <1>2, <1>3, <1>4 DEF w, r

-----------------------------------------------------------------------------
THEOREM InitEstablishes == Init => IInv
<1> SUFFICES ASSUME Init PROVE IInv
  OBVIOUS
<1>1. TypeOK
  BY DEF Init, TypeOK, Locations
<1>2. CountedWriters = {} /\ CountedReaders = {} /\ Owners = {}
  BY DEF Init, CountedWriters, CountedReaders, Owners
<1>3. FlagCounts
  BY <1>2, FS_EmptySet, WriteFlagSize DEF Init, FlagCounts
<1> QED BY <1>1, <1>2, <1>3 DEF IInv, OneOwner, HeldExcludesReaders, Init

\* A step that only moves one thread between uncounted locations.
LEMMA UncountedStep ==
  ASSUME IInv, NEW t \in Threads, NEW from \in Locations, NEW to \in Locations,
         Goto(t, from, to), UNCHANGED mLockFlag,
         from \in {"idle", "wSpin", "rSpin"}, to \in {"wSpin", "wAdd", "rSpin", "rAdd"}
  PROVE  IInv'
<1> USE DEF IInv, TypeOK, Goto
<1>1. TypeOK'
  OBVIOUS
<1>2. CountedWriters' = CountedWriters /\ CountedReaders' = CountedReaders
  BY DEF CountedWriters, CountedReaders
<1>3. FlagCounts'
  BY <1>2 DEF FlagCounts
<1>4. OneOwner' /\ HeldExcludesReaders'
  BY DEF OneOwner, HeldExcludesReaders, Owners
<1> QED BY <1>1, <1>3, <1>4

-----------------------------------------------------------------------------
(***************************************************************************)
(* What the counted steps do to the word and to the two counts.            *)
(***************************************************************************)
LEMMA WordArithmetic ==
  ASSUME NEW w \in Nat, NEW r \in Nat
  PROVE  LET f == LF_WRITE_FLAG * w + r
         IN  /\ f \in Nat
             /\ f + LF_WRITE_FLAG = LF_WRITE_FLAG * (w + 1) + r
             /\ f - LF_WRITE_FLAG = LF_WRITE_FLAG * (w - 1) + r
             /\ f + 1 = LF_WRITE_FLAG * w + (r + 1)
             /\ f - 1 = LF_WRITE_FLAG * w + (r - 1)
BY SMT DEF LF_WRITE_FLAG

LEMMA WriterCounted ==
  ASSUME FlagCounts, NEW t \in Threads, t \notin CountedWriters,
         CountedWriters' = CountedWriters \cup {t},
         CountedReaders' = CountedReaders,
         mLockFlag' = mLockFlag + LF_WRITE_FLAG
  PROVE  FlagCounts' /\ mLockFlag' \in Nat
<1>1. Cardinality(CountedWriters') = Cardinality(CountedWriters) + 1
  <2>1. IsFiniteSet(CountedWriters)
    BY CountsFit
  <2>2. Cardinality(CountedWriters \cup {t}) = Cardinality(CountedWriters) + 1
    BY <2>1, FS_AddElement
  <2> QED BY <2>2
<1>2. Cardinality(CountedWriters) + 1 \in Nat
  BY CountsFit
<1> QED BY <1>1, <1>2, CountsFit, WordArithmetic DEF FlagCounts

LEMMA WriterUncounted ==
  ASSUME FlagCounts, NEW t \in Threads, t \in CountedWriters,
         CountedWriters' = CountedWriters \ {t},
         CountedReaders' = CountedReaders,
         mLockFlag' = mLockFlag - LF_WRITE_FLAG
  PROVE  FlagCounts' /\ mLockFlag' \in Nat
<1>1. Cardinality(CountedWriters') = Cardinality(CountedWriters) - 1
  <2>1. IsFiniteSet(CountedWriters)
    BY CountsFit
  <2>2. Cardinality(CountedWriters \ {t}) = Cardinality(CountedWriters) - 1
    BY <2>1, FS_RemoveElement
  <2> QED BY <2>2
<1>2. Cardinality(CountedWriters) - 1 \in Nat
  BY CountsFit, FS_EmptySet
<1> QED BY <1>1, <1>2, CountsFit, WordArithmetic DEF FlagCounts

LEMMA ReaderCounted ==
  ASSUME FlagCounts, NEW t \in Threads, t \notin CountedReaders,
         CountedReaders' = CountedReaders \cup {t},
         CountedWriters' = CountedWriters,
         mLockFlag' = mLockFlag + 1
  PROVE  FlagCounts' /\ mLockFlag' \in Nat
<1>1. Cardinality(CountedReaders') = Cardinality(CountedReaders) + 1
  <2>1. IsFiniteSet(CountedReaders)
    BY CountsFit
  <2>2. Cardinality(CountedReaders \cup {t}) = Cardinality(CountedReaders) + 1
    BY <2>1, FS_AddElement
  <2> QED BY <2>2
<1>2. Cardinality(CountedReaders) + 1 \in Nat
  BY CountsFit
<1> QED BY <1>1, <1>2, CountsFit, WordArithmetic DEF FlagCounts

LEMMA ReaderUncounted ==
  ASSUME FlagCounts, NEW t \in Threads, t \in CountedReaders,
         CountedReaders' = CountedReaders \ {t},
         CountedWriters' = CountedWriters,
         mLockFlag' = mLockFlag - 1
  PROVE  FlagCounts' /\ mLockFlag' \in Nat
<1>1. Cardinality(CountedReaders') = Cardinality(CountedReaders) - 1
  <2>1. IsFiniteSet(CountedReaders)
    BY CountsFit
  <2>2. Cardinality(CountedReaders \ {t}) = Cardinality(CountedReaders) - 1
    BY <2>1, FS_RemoveElement
  <2> QED BY <2>2
<1>2. Cardinality(CountedReaders) - 1 \in Nat
  BY CountsFit, FS_EmptySet
<1> QED BY <1>1, <1>2, CountsFit, WordArithmetic DEF FlagCounts

-----------------------------------------------------------------------------
(***************************************************************************)
(* The inductive step, one lemma per operation that touches the word.      *)
(***************************************************************************)
LEMMA WriteAddStep ==
  ASSUME IInv, NEW t \in Threads, WriteAdd(t)
  PROVE  IInv'
<1> USE DEF IInv
<1>1. /\ pc[t] = "wAdd"
      /\ mLockFlag' = mLockFlag + LF_WRITE_FLAG
      /\ \E to \in {"wDrain", "wBackOff"} : pc' = [pc EXCEPT ![t] = to]
  BY DEF WriteAdd, Goto
<1>2. /\ t \notin CountedWriters
      /\ CountedWriters' = CountedWriters \cup {t}
      /\ CountedReaders' = CountedReaders
  BY <1>1 DEF TypeOK, CountedWriters, CountedReaders
<1>3. FlagCounts' /\ mLockFlag' \in Nat
  BY <1>1, <1>2, WriterCounted
<1>4. TypeOK'
  BY <1>1, <1>3 DEF TypeOK, Locations
<1>5. OneOwner' /\ HeldExcludesReaders'
  <2>1. CASE WriteField(mLockFlag') = 1
    <3>1. WriteField(mLockFlag') = Cardinality(CountedWriters')
      BY <1>3, CountedAreThreads, FieldsAreCounts DEF FlagCounts
    <3>2. CountedWriters = {}
      <4>1. IsFiniteSet(CountedWriters) /\ Cardinality(CountedWriters) \in Nat
        BY CountsFit
      <4>2. Cardinality(CountedWriters \cup {t}) = Cardinality(CountedWriters) + 1
        BY <4>1, <1>2, FS_AddElement
      <4>3. Cardinality(CountedWriters \cup {t}) = 1
        BY <3>1, <2>1, <1>2
      <4>4. Cardinality(CountedWriters) = 0
        BY <4>1, <4>2, <4>3
      <4> QED BY <4>1, <4>4, FS_EmptySet
    <3> QED BY <1>1, <3>2
            DEF TypeOK, OneOwner, HeldExcludesReaders, Owners, CountedWriters
  <2>2. CASE WriteField(mLockFlag') # 1
    <3>1. pc' = [pc EXCEPT ![t] = "wBackOff"]
      BY <2>2 DEF WriteAdd, Goto
    <3> QED BY <1>1, <3>1 DEF TypeOK, OneOwner, HeldExcludesReaders, Owners
  <2> QED BY <2>1, <2>2
<1> QED BY <1>3, <1>4, <1>5

LEMMA WriterSubtracts ==
  ASSUME IInv, NEW t \in Threads, WriteBackOff(t) \/ LeaveWriteLock(t)
  PROVE  IInv'
<1> USE DEF IInv
<1>1. /\ pc[t] \in {"wBackOff", "wHeld"}
      /\ mLockFlag' = mLockFlag - LF_WRITE_FLAG
      /\ \E to \in {"idle", "wSpin"} : pc' = [pc EXCEPT ![t] = to]
  BY DEF WriteBackOff, LeaveWriteLock, Goto
<1>2. /\ t \in CountedWriters
      /\ CountedWriters' = CountedWriters \ {t}
      /\ CountedReaders' = CountedReaders
  BY <1>1 DEF TypeOK, CountedWriters, CountedReaders
<1>3. FlagCounts' /\ mLockFlag' \in Nat
  BY <1>1, <1>2, WriterUncounted
<1>4. TypeOK'
  BY <1>1, <1>3 DEF TypeOK, Locations
<1>5. OneOwner' /\ HeldExcludesReaders'
  BY <1>1 DEF TypeOK, OneOwner, HeldExcludesReaders, Owners
<1> QED BY <1>3, <1>4, <1>5

LEMMA WriteDrainedStep ==
  ASSUME IInv, NEW t \in Threads, WriteDrained(t)
  PROVE  IInv'
<1> USE DEF IInv
<1>1. /\ pc[t] = "wDrain" /\ pc' = [pc EXCEPT ![t] = "wHeld"]
      /\ ReadField(mLockFlag) = 0 /\ mLockFlag' = mLockFlag
  BY DEF WriteDrained, Goto
<1>2. CountedReaders = {}
  BY <1>1, CountedAreThreads, FieldsAreCounts DEF FlagCounts
<1>3. CountedWriters' = CountedWriters /\ CountedReaders' = CountedReaders
  BY <1>1 DEF TypeOK, CountedWriters, CountedReaders
<1>4. TypeOK' /\ FlagCounts'
  BY <1>1, <1>3 DEF TypeOK, FlagCounts, Locations
<1>5. OneOwner'
  BY <1>1 DEF TypeOK, OneOwner, Owners
<1>6. HeldExcludesReaders'
  BY <1>1, <1>2 DEF TypeOK, HeldExcludesReaders, CountedReaders
<1> QED BY <1>4, <1>5, <1>6

LEMMA ReadAddStep ==
  ASSUME IInv, NEW t \in Threads, ReadAdd(t)
  PROVE  IInv'
<1> USE DEF IInv
<1>1. /\ pc[t] = "rAdd"
      /\ mLockFlag' = mLockFlag + 1
      /\ \E to \in {"rHeld", "rBackOff"} : pc' = [pc EXCEPT ![t] = to]
  BY DEF ReadAdd, Goto
<1>2. /\ t \notin CountedReaders
      /\ CountedReaders' = CountedReaders \cup {t}
      /\ CountedWriters' = CountedWriters
  BY <1>1 DEF TypeOK, CountedWriters, CountedReaders
<1>3. FlagCounts' /\ mLockFlag' \in Nat
  BY <1>1, <1>2, ReaderCounted
<1>4. TypeOK'
  BY <1>1, <1>3 DEF TypeOK, Locations
<1>5. OneOwner'
  BY <1>1 DEF TypeOK, OneOwner, Owners
<1>6. HeldExcludesReaders'
  <2>1. CASE WriteField(mLockFlag') = 0
    <3>1. CountedWriters' = {}
      BY <1>3, <2>1, CountedAreThreads, FieldsAreCounts DEF FlagCounts
    <3> QED BY <3>1, <1>2 DEF HeldExcludesReaders, CountedWriters
  <2>2. CASE WriteField(mLockFlag') # 0
    <3>1. pc' = [pc EXCEPT ![t] = "rBackOff"]
      BY <2>2 DEF ReadAdd, Goto
    <3> QED BY <1>1, <3>1 DEF TypeOK, HeldExcludesReaders
  <2> QED BY <2>1, <2>2
<1> QED BY <1>3, <1>4, <1>5, <1>6

LEMMA ReaderSubtracts ==
  ASSUME IInv, NEW t \in Threads, ReadBackOff(t) \/ LeaveReadLock(t)
  PROVE  IInv'
<1> USE DEF IInv
<1>1. /\ pc[t] \in {"rBackOff", "rHeld"}
      /\ mLockFlag' = mLockFlag - 1
      /\ \E to \in {"idle", "rSpin"} : pc' = [pc EXCEPT ![t] = to]
  BY DEF ReadBackOff, LeaveReadLock, Goto
<1>2. /\ t \in CountedReaders
      /\ CountedReaders' = CountedReaders \ {t}
      /\ CountedWriters' = CountedWriters
  BY <1>1 DEF TypeOK, CountedWriters, CountedReaders
<1>3. FlagCounts' /\ mLockFlag' \in Nat
  BY <1>1, <1>2, ReaderUncounted
<1>4. TypeOK'
  BY <1>1, <1>3 DEF TypeOK, Locations
<1>5. OneOwner' /\ HeldExcludesReaders'
  BY <1>1 DEF TypeOK, OneOwner, HeldExcludesReaders, Owners
<1> QED BY <1>3, <1>4, <1>5

THEOREM StepPreserves == IInv /\ [Next]_vars => IInv'
<1> SUFFICES ASSUME IInv, [Next]_vars PROVE IInv'
  OBVIOUS
<1>1. ASSUME NEW t \in Threads,
             EnterWriteLock(t) \/ EnterReadLock(t) \/ WriteSpinExit(t) \/ ReadSpinExit(t)
      PROVE  IInv'
  <2>1. \E from \in {"idle", "wSpin", "rSpin"}, to \in {"wSpin", "wAdd", "rSpin", "rAdd"} :
           Goto(t, from, to) /\ UNCHANGED mLockFlag
    BY <1>1 DEF EnterWriteLock, EnterReadLock, WriteSpinExit, ReadSpinExit
  <2> QED BY <2>1, UncountedStep DEF Locations
<1>2. CASE UNCHANGED vars
  BY <1>2 DEF vars, IInv, TypeOK, FlagCounts, CountedWriters, CountedReaders,
              OneOwner, Owners, HeldExcludesReaders
<1> QED BY <1>1, <1>2, WriteAddStep, WriterSubtracts, WriteDrainedStep, ReadAddStep,
           ReaderSubtracts DEF Next, Proceed

THEOREM Invariance == Spec => []IInv
<1>1. Init => IInv
  BY InitEstablishes
<1>2. IInv /\ [Next]_vars => IInv'
  BY StepPreserves
<1> QED BY <1>1, <1>2, PTL DEF Spec

-----------------------------------------------------------------------------
(***************************************************************************)
(* The properties the runs check, for every set of threads.                *)
(***************************************************************************)

\* The word always is the two counts (FastSpinlock.cpp:29-38, 45, 71-74, 83).
THEOREM FlagCountsInvariant == Spec => [](TypeOK /\ FlagCounts)
<1>1. IInv => TypeOK /\ FlagCounts
  BY DEF IInv
<1> QED BY <1>1, Invariance, PTL

\* A thread in exclusive mode is alone inside the lock.
THEOREM MutualExclusionInvariant == Spec => []MutualExclusion
<1>1. IInv => MutualExclusion
  BY DEF IInv, OneOwner, HeldExcludesReaders, MutualExclusion, Owners, Holding
<1> QED BY <1>1, Invariance, PTL

\* Once a writer owns the write field nobody enters before it has left.
THEOREM NoOvertakingHolds == Spec => NoOvertaking
<1> DEFINE Behind == \A w, t \in Threads :
             w # t /\ w \in Owners /\ w \in Owners' => (Holding(t)' => Holding(t))
<1>1. IInv /\ [Next]_vars => [Behind]_vars
  <2> SUFFICES ASSUME IInv, Next, NEW w \in Threads, NEW t \in Threads,
                      w # t, w \in Owners, Holding(t)', ~ Holding(t)
               PROVE  FALSE
    BY DEF Behind
  <2>1. WriteDrained(t) \/ ReadAdd(t)
    BY DEF IInv, TypeOK, Holding, Next, Proceed, Goto, EnterWriteLock, EnterReadLock,
           WriteSpinExit, WriteAdd, WriteBackOff, WriteDrained, LeaveWriteLock,
           ReadSpinExit, ReadAdd, ReadBackOff, LeaveReadLock
  <2>2. CASE WriteDrained(t)
    BY <2>2 DEF WriteDrained, Goto, IInv, OneOwner, Owners
  <2>3. CASE ReadAdd(t)
    <3>1. /\ CountedReaders' = CountedReaders \cup {t} /\ t \notin CountedReaders
          /\ CountedWriters' = CountedWriters /\ mLockFlag' = mLockFlag + 1
      BY <2>3 DEF ReadAdd, Goto, IInv, TypeOK, CountedReaders, CountedWriters
    <3>2. FlagCounts'
      BY <3>1, ReaderCounted DEF IInv
    <3>3. WriteField(mLockFlag') = 0
      BY <2>3 DEF ReadAdd, Goto, IInv, TypeOK, Holding
    <3>4. CountedWriters' = {}
      BY <3>2, <3>3, CountedAreThreads, FieldsAreCounts DEF FlagCounts
    <3> QED BY <3>1, <3>4 DEF Owners, CountedWriters
  <2> QED BY <2>1, <2>2, <2>3
<1>2. Spec => [][Behind]_vars
  BY <1>1, Invariance, PTL DEF Spec
<1> QED BY <1>2 DEF NoOvertaking

\* The spin lock implements the abstract shared/exclusive lock.
THEOREM Implementation == Spec => ImplementsRWLock
<1>1. Init => RW!Init
  BY DEF Init, RW!Init
<1>2. IInv /\ IInv' /\ [Next]_vars => [RW!Next]_RW!vars
  <2> SUFFICES ASSUME IInv, IInv', [Next]_vars PROVE [RW!Next]_RW!vars
    OBVIOUS
  <2> DEFINE W == {u \in Threads : pc[u] = "wHeld"}
             R == {u \in Threads : pc[u] = "rHeld"}
  <2>1. ASSUME NEW t \in Threads, WriteDrained(t)
        PROVE  RW!AcquireExclusive(t)
    <3>1. pc[t] = "wDrain" /\ pc' = [pc EXCEPT ![t] = "wHeld"]
      BY <2>1 DEF WriteDrained, Goto
    <3>2. W = {} /\ R' = R /\ W' = {t} /\ R' = {}
      BY <3>1 DEF IInv, TypeOK, OneOwner, Owners, HeldExcludesReaders
    <3> QED BY <3>2 DEF RW!AcquireExclusive
  <2>2. ASSUME NEW t \in Threads, LeaveWriteLock(t)
        PROVE  RW!ReleaseExclusive(t)
    BY <2>2 DEF LeaveWriteLock, Goto, IInv, TypeOK, RW!ReleaseExclusive
  <2>3. ASSUME NEW t \in Threads, ReadAdd(t), pc'[t] = "rHeld"
        PROVE  RW!AcquireShared(t)
    <3>1. pc[t] = "rAdd" /\ pc' = [pc EXCEPT ![t] = "rHeld"]
      BY <2>3 DEF ReadAdd, Goto, IInv, TypeOK
    <3>2. W' = W /\ R' = R \cup {t} /\ t \notin R
      BY <3>1 DEF IInv, TypeOK
    <3>3. W' = {}
      BY <3>1 DEF IInv, TypeOK, HeldExcludesReaders
    <3> QED BY <3>2, <3>3 DEF RW!AcquireShared
  <2>4. ASSUME NEW t \in Threads, LeaveReadLock(t)
        PROVE  RW!ReleaseShared(t)
    BY <2>4 DEF LeaveReadLock, Goto, IInv, TypeOK, RW!ReleaseShared
  <2>5. ASSUME NEW t \in Threads, NEW from, NEW to, Goto(t, from, to),
               from \notin {"wHeld", "rHeld"}, to \notin {"wHeld", "rHeld"}
        PROVE  W' = W /\ R' = R
    BY <2>5 DEF Goto, IInv, TypeOK
  <2>6. ASSUME NEW t \in Threads,
               \/ EnterWriteLock(t) \/ EnterReadLock(t) \/ WriteSpinExit(t) \/ WriteAdd(t)
               \/ WriteBackOff(t) \/ ReadSpinExit(t) \/ ReadBackOff(t)
               \/ ReadAdd(t) /\ pc'[t] # "rHeld"
        PROVE  W' = W /\ R' = R
    <3>1. \E from, to \in Locations \ {"wHeld", "rHeld"} : Goto(t, from, to)
      BY <2>6 DEF EnterWriteLock, EnterReadLock, WriteSpinExit, WriteAdd, WriteBackOff,
                  ReadSpinExit, ReadBackOff, ReadAdd, Goto, Locations, IInv, TypeOK
    <3> QED BY <3>1, <2>5
  <2>7. CASE UNCHANGED vars
    BY <2>7 DEF vars, RW!vars
  <2> QED BY <2>1, <2>2, <2>3, <2>4, <2>6, <2>7
          DEF Next, Proceed, RW!Next, RW!vars
<1> QED BY <1>1, <1>2, Invariance, PTL DEF Spec, ImplementsRWLock, RW!Spec
=============================================================================
