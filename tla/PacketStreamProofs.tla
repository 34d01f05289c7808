------------------------- MODULE PacketStreamProofs -------------------------
(***************************************************************************)
(* The circular buffer, and the stream that is received into one.          *)
(*                                                                         *)
(* For every capacity and every set of bytes: the regions stay apart, the  *)
(* bytes of a send in progress stay where they are, and the buffer is a    *)
(* bounded queue.  The invariant is TypeOK /\ RegionsDisjoint /\           *)
(* InFlightIntact; each operation is reduced to what it does to the        *)
(* regions (Write, Remove).                                                *)
(*                                                                         *)
(* For every size of the header and every stream of packets besides: what  *)
(* is handled, when, and what a wrapped buffer does to it.  The invariant  *)
(* is StreamInv: what is on its way falls into flushes (NetworkInv), a     *)
(* wrapped or waiting buffer has no whole packet at its front (WaitInv),   *)
(* and as long as receives and flushes match the buffer holds whole plain  *)
(* packets, from the next one on (HandledInv).                             *)
(***************************************************************************)
EXTENDS PacketStream, SequenceTheorems, TLAPS

IInv == TypeOK /\ RegionsDisjoint /\ InFlightIntact

\* A function on an initial segment of the numbers is a sequence.
LEMMA Segment ==
  ASSUME NEW n \in Nat, NEW S, NEW f \in [1 .. n -> S]
  PROVE  f \in Seq(S) /\ Len(f) = n /\ DOMAIN f = 1 .. n
OBVIOUS

\* The region words are integers; the leaves that only calculate need no more.
LEMMA Numbers ==
  ASSUME TypeOK
  PROVE  /\ mARegionPointer \in Nat /\ mARegionSize \in Nat
         /\ mBRegionPointer \in Int /\ mBRegionSize \in Nat
         /\ GetStoredSize = mARegionSize + mBRegionSize /\ GetStoredSize \in Nat
         /\ GetContiguiousBytes \in Nat
BY DEF TypeOK, nullptr, GetStoredSize, GetContiguiousBytes

\* What a send in progress is.
LEMMA SendingIsSeq ==
  ASSUME TypeOK
  PROVE  /\ sending \in Seq(Bytes) /\ Len(sending) \in 0 .. Capacity
         /\ DOMAIN sending = 1 .. Len(sending)
         /\ sending \in [1 .. Len(sending) -> Bytes]
<1>1. PICK n \in 0 .. Capacity : sending \in [1 .. n -> Bytes]
  BY DEF TypeOK
<1> QED
  BY <1>1, Segment, CapacityAssumption

\* The initial states satisfy the invariant.
THEOREM InitEstablishes == Init => IInv
<1> SUFFICES ASSUME Init PROVE IInv
  OBVIOUS
<1>1. sending \in [1 .. 0 -> Bytes]
  BY DEF Init, Idle
<1>2. TypeOK
  BY <1>1, CapacityAssumption DEF Init, TypeOK, nullptr
<1> QED
  BY <1>2, CapacityAssumption DEF Init, IInv, RegionsDisjoint, InFlightIntact, nullptr

-----------------------------------------------------------------------------
\* There is room for what GetFreeSpaceSize promises, after the region that
\* will receive it and outside both regions.
LEMMA FreeSpace ==
  ASSUME TypeOK, RegionsDisjoint
  PROVE  /\ GetFreeSpaceSize \in Nat
         /\ GetFreeSpaceSize + GetStoredSize <= Capacity
         /\ AllocatesB => mARegionSize > 0 /\ mBRegionSize = 0
BY CapacityAssumption
   DEF TypeOK, RegionsDisjoint, GetFreeSpaceSize, GetStoredSize, AllocatesB,
       GetAFreeSpace, GetSpaceBeforeA, nullptr

\* Writing keeps the regions typed and apart.
LEMMA WriteRegions ==
  ASSUME TypeOK, RegionsDisjoint, sending' = sending,
         NEW data \in Seq(Bytes), Len(data) <= GetFreeSpaceSize, Write(data)
  PROVE  TypeOK' /\ RegionsDisjoint'
<1> DEFINE intoB == AllocatesB \/ mBRegionPointer # nullptr
           at == IF intoB THEN mBRegionSize ELSE mARegionPointer + mARegionSize
<1>1. at \in Nat /\ Len(data) \in Nat
  BY CapacityAssumption DEF TypeOK
<1>2. mBuffer' \in [0 .. Capacity - 1 -> Bytes]
  <2>1. ASSUME NEW i \in 0 .. Capacity - 1, at <= i, i < at + Len(data)
        PROVE  data[i - at + 1] \in Bytes
    <3>1. i - at + 1 \in 1 .. Len(data)
      BY <1>1, <2>1, CapacityAssumption
    <3> QED
      BY <3>1
  <2>2. mBuffer' = [i \in 0 .. Capacity - 1 |->
                      IF at <= i /\ i < at + Len(data) THEN data[i - at + 1]
                                                       ELSE mBuffer[i]]
    BY DEF Write
  <2> HIDE DEF at
  <2> QED
    BY <2>1, <2>2 DEF TypeOK
<1>3. RegionsDisjoint' /\ mARegionPointer' \in 0 .. Capacity
      /\ mARegionSize' \in 0 .. Capacity /\ mBRegionSize' \in 0 .. Capacity
  BY <1>1, FreeSpace, CapacityAssumption
     DEF TypeOK, RegionsDisjoint, Write, GetFreeSpaceSize, AllocatesB,
         GetAFreeSpace, GetSpaceBeforeA, nullptr
<1>4. mBRegionPointer' \in {nullptr, 0}
  BY DEF Write
<1> QED
  BY <1>2, <1>3, <1>4 DEF TypeOK

\* Writing leaves every stored byte where it is and puts data behind them.
LEMMA WriteContents ==
  ASSUME TypeOK, RegionsDisjoint,
         NEW data \in Seq(Bytes), Len(data) <= GetFreeSpaceSize, Write(data)
  PROVE  /\ GetStoredSize' = GetStoredSize + Len(data)
         /\ \A k \in 1 .. GetStoredSize :
              Position(k)' = Position(k) /\ mBuffer'[Position(k)] = mBuffer[Position(k)]
         /\ \A k \in GetStoredSize + 1 .. GetStoredSize + Len(data) :
              mBuffer'[Position(k)'] = data[k - GetStoredSize]
<1> DEFINE intoB == AllocatesB \/ mBRegionPointer # nullptr
           at == IF intoB THEN mBRegionSize ELSE mARegionPointer + mARegionSize
<1>1. at \in Nat /\ Len(data) \in Nat /\ at + Len(data) <= Capacity
  <2>1. Len(data) \in Nat
    OBVIOUS
  <2>2. at \in Nat
    BY CapacityAssumption DEF TypeOK
  <2>3. at + GetFreeSpaceSize <= Capacity
    <3>1. CASE mBRegionPointer # nullptr
      BY <3>1, FreeSpace, CapacityAssumption
         DEF TypeOK, RegionsDisjoint, GetFreeSpaceSize, AllocatesB, GetAFreeSpace,
             GetSpaceBeforeA, nullptr
    <3>2. CASE mBRegionPointer = nullptr
      BY <3>2, FreeSpace, CapacityAssumption
         DEF TypeOK, RegionsDisjoint, GetFreeSpaceSize, AllocatesB, GetAFreeSpace,
             GetSpaceBeforeA, nullptr
    <3> QED
      BY <3>1, <3>2
  <2> HIDE DEF at
  <2> QED
    BY <2>1, <2>2, <2>3, FreeSpace, CapacityAssumption
<1>2. mBuffer' = [i \in 0 .. Capacity - 1 |->
                    IF at <= i /\ i < at + Len(data) THEN data[i - at + 1]
                                                     ELSE mBuffer[i]]
  BY DEF Write
<1>3. GetStoredSize' = GetStoredSize + Len(data)
  BY <1>1 DEF TypeOK, Write, GetStoredSize
<1>4. ASSUME NEW k \in 1 .. GetStoredSize
      PROVE  /\ Position(k)' = Position(k)
             /\ mBuffer'[Position(k)] = mBuffer[Position(k)]
  <2>1. Position(k)' = Position(k)
    BY FreeSpace, <1>1, CapacityAssumption
       DEF TypeOK, RegionsDisjoint, Write, GetStoredSize, Position, AllocatesB, nullptr
  <2>2. Position(k) \in 0 .. Capacity - 1
        /\ (Position(k) < at \/ Position(k) >= at + Len(data))
    BY FreeSpace, <1>1, CapacityAssumption
       DEF TypeOK, RegionsDisjoint, GetStoredSize, Position, GetFreeSpaceSize, AllocatesB,
           GetAFreeSpace, GetSpaceBeforeA, nullptr
  <2> HIDE DEF at
  <2> QED
    BY <1>1, <1>2, <2>1, <2>2
<1>5. ASSUME NEW k \in GetStoredSize + 1 .. GetStoredSize + Len(data)
      PROVE  mBuffer'[Position(k)'] = data[k - GetStoredSize]
  <2>1. Position(k)' = at + (k - GetStoredSize) - 1
    <3>1. k \in Int /\ k > mARegionSize + mBRegionSize
      BY <1>1 DEF TypeOK, GetStoredSize
    <3>2. CASE intoB
      <4>1. mBRegionPointer' = 0 /\ mARegionSize' = mARegionSize
        BY <3>2 DEF Write
      <4>2. Position(k)' = k - mARegionSize - 1
        BY <3>1, <4>1 DEF Position, TypeOK
      <4> QED
        BY <3>1, <3>2, <4>2 DEF GetStoredSize, TypeOK
    <3>3. CASE ~ intoB
      <4>1. mARegionSize' = mARegionSize + Len(data) /\ mARegionPointer' = mARegionPointer
        BY <3>3 DEF Write
      <4>2. mBRegionSize = 0
        BY <3>3 DEF RegionsDisjoint
      <4>3. Position(k)' = mARegionPointer + k - 1
        BY <1>1, <3>1, <4>1, <4>2 DEF Position, TypeOK, GetStoredSize
      <4> QED
        BY <3>1, <3>3, <4>2, <4>3 DEF GetStoredSize, TypeOK
    <3> QED
      BY <3>2, <3>3
  <2>2. k - GetStoredSize \in 1 .. Len(data)
    BY <1>1 DEF TypeOK, GetStoredSize
  <2> HIDE DEF at
  <2> DEFINE j == k - GetStoredSize
  <2>3. at + j - 1 \in 0 .. Capacity - 1 /\ at <= at + j - 1
        /\ at + j - 1 < at + Len(data) /\ (at + j - 1) - at + 1 = j
    BY <1>1, <2>2, CapacityAssumption
  <2>4. Position(k)' = at + j - 1
    BY <2>1
  <2> HIDE DEF j
  <2>5. mBuffer'[at + j - 1] = data[j]
    BY <1>2, <2>3
  <2> QED
    BY <2>4, <2>5 DEF j
<1> QED
  BY <1>3, <1>4, <1>5

\* The bytes the kernel reads are the first ones of the contents, so what keeps
\* the stored bytes where they are keeps these.
LEMMA SendingIsPrefix ==
  ASSUME TypeOK, RegionsDisjoint
  PROVE  /\ GetContiguiousBytes \in 0 .. GetStoredSize
         /\ \A i \in 1 .. GetContiguiousBytes : GetBufferStart + i - 1 = Position(i)
BY CapacityAssumption
   DEF TypeOK, RegionsDisjoint, GetContiguiousBytes, GetStoredSize, GetBufferStart,
       Position, nullptr

LEMMA WriteKeepsSending ==
  ASSUME IInv, sending' = sending,
         NEW data \in Seq(Bytes), Len(data) <= GetFreeSpaceSize, Write(data)
  PROVE  IInv'
<1> USE DEF IInv
<1>1. TypeOK' /\ RegionsDisjoint'
  BY WriteRegions
<1>2. ASSUME sending # Idle
      PROVE  /\ Len(sending) <= GetContiguiousBytes'
             /\ \A i \in 1 .. Len(sending) : mBuffer'[Position(i)'] = sending[i]
  <2>1. Len(sending) \in Nat /\ Len(sending) <= GetContiguiousBytes
    BY <1>2, SendingIsSeq DEF InFlightIntact
  <2>2. GetContiguiousBytes <= GetContiguiousBytes'
    BY FreeSpace, CapacityAssumption
       DEF TypeOK, RegionsDisjoint, Write, GetContiguiousBytes, AllocatesB, nullptr
  <2>3. ASSUME NEW i \in 1 .. Len(sending)
        PROVE  mBuffer'[Position(i)'] = sending[i]
    <3>1. i \in 1 .. GetContiguiousBytes /\ i \in 1 .. GetStoredSize
      BY <2>1, SendingIsPrefix DEF TypeOK, GetStoredSize
    <3>2. mBuffer[Position(i)] = sending[i]
      BY <1>2, <3>1, SendingIsPrefix DEF InFlightIntact
    <3> QED
      BY <3>1, <3>2, WriteContents
  <2> QED
    <3>1. GetContiguiousBytes \in Nat /\ GetContiguiousBytes' \in Nat
      BY <1>1, Numbers DEF TypeOK, GetContiguiousBytes
    <3> QED
      BY <2>1, <2>2, <2>3, <3>1
<1>3. InFlightIntact'
  <2> SUFFICES ASSUME sending # Idle PROVE InFlightIntact'
    BY DEF InFlightIntact, Idle
  <2>1. \A i \in 1 .. GetContiguiousBytes' : (GetBufferStart + i - 1)' = Position(i)'
    BY SMTT(30), <1>1, CapacityAssumption
       DEF TypeOK, RegionsDisjoint, GetContiguiousBytes, GetBufferStart, Position, nullptr
  <2>2. Len(sending) \in Nat /\ GetContiguiousBytes' \in Nat
    BY <1>1, SendingIsSeq DEF TypeOK, GetContiguiousBytes
  <2>3. ASSUME NEW i \in 1 .. Len(sending)
        PROVE  mBuffer'[(GetBufferStart + i - 1)'] = sending[i]
    <3>1. i \in 1 .. GetContiguiousBytes'
      BY <1>2, <2>2
    <3> QED
      BY <1>2, <2>1, <3>1
  <2> QED
    BY <1>2, <2>3 DEF InFlightIntact
<1> QED
  BY <1>1, <1>3

-----------------------------------------------------------------------------
\* Removing keeps the regions typed and apart.
LEMMA RemoveRegions ==
  ASSUME TypeOK, RegionsDisjoint, sending' \in {sending, Idle},
         NEW len \in Nat, Remove(len)
  PROVE  TypeOK' /\ RegionsDisjoint'
<1> DEFINE bLeft == mBRegionSize - RemoveFromB(len)
           from  == mBRegionPointer + RemoveFromB(len)
<1>1. /\ RemoveFromA(len) \in 0 .. mARegionSize
      /\ RemoveFromB(len) \in 0 .. mBRegionSize
  BY DEF TypeOK, RemoveFromA, RemoveFromB
<1>2. CASE mARegionSize - RemoveFromA(len) > 0
  <2>1. /\ mARegionSize' = mARegionSize - RemoveFromA(len)
        /\ mARegionPointer' = mARegionPointer + RemoveFromA(len)
        /\ UNCHANGED <<mBRegionPointer, mBRegionSize, mBuffer>>
    BY <1>2 DEF Remove
  <2>2. sending' \in UNION {[1 .. n -> Bytes] : n \in 0 .. Capacity}
    <3>1. Idle \in [1 .. 0 -> Bytes] /\ 0 \in 0 .. Capacity
      BY CapacityAssumption DEF Idle
    <3> QED
      BY <3>1 DEF TypeOK
  <2>3. PICK a \in Nat : a = RemoveFromA(len) /\ a < mARegionSize
    BY <1>1, <1>2 DEF TypeOK
  <2>4. mARegionSize' = mARegionSize - a /\ mARegionPointer' = mARegionPointer + a
    BY <2>1, <2>3
  <2>5. mARegionPointer' \in 0 .. Capacity /\ mARegionSize' \in 0 .. Capacity
        /\ mARegionPointer' + mARegionSize' = mARegionPointer + mARegionSize
        /\ mARegionPointer' >= mARegionPointer /\ mARegionSize' > 0
    BY <2>3, <2>4, CapacityAssumption DEF TypeOK, RegionsDisjoint
  <2>6. TypeOK'
    BY <2>1, <2>2, <2>5 DEF TypeOK
  <2>7. RegionsDisjoint'
    BY <2>1, <2>5, CapacityAssumption DEF TypeOK, RegionsDisjoint, nullptr
  <2> QED
    BY <2>6, <2>7
<1>3. CASE ~ (mARegionSize - RemoveFromA(len) > 0)
  <2>1. /\ mARegionPointer' = 0 /\ mARegionSize' = bLeft
        /\ mBRegionPointer' = nullptr /\ mBRegionSize' = 0
        /\ mBuffer' = [i \in 0 .. Capacity - 1 |->
                         IF i < bLeft THEN mBuffer[from + i] ELSE mBuffer[i]]
    BY <1>3 DEF Remove
  <2>2. sending' \in UNION {[1 .. n -> Bytes] : n \in 0 .. Capacity}
    <3>1. Idle \in [1 .. 0 -> Bytes] /\ 0 \in 0 .. Capacity
      BY CapacityAssumption DEF Idle
    <3> QED
      BY <3>1 DEF TypeOK
  <2>3. bLeft \in 0 .. Capacity
        /\ \A i \in 0 .. Capacity - 1 : i < bLeft => from + i \in 0 .. Capacity - 1
    BY <1>1, CapacityAssumption DEF TypeOK, RegionsDisjoint, nullptr
  <2> HIDE DEF bLeft, from
  <2>4. mBuffer' \in [0 .. Capacity - 1 -> Bytes]
    BY <2>1, <2>3 DEF TypeOK
  <2> QED
    BY <2>1, <2>2, <2>3, <2>4, CapacityAssumption DEF TypeOK, RegionsDisjoint, nullptr
<1> QED
  BY <1>2, <1>3

\* How many bytes a removal of len takes.
Taken(len) == IF len > GetStoredSize THEN GetStoredSize ELSE len

\* Removing takes the first bytes and keeps the others in their order.
LEMMA RemoveContents ==
  ASSUME TypeOK, RegionsDisjoint, NEW len \in Nat, Remove(len)
  PROVE  /\ GetStoredSize' = GetStoredSize - Taken(len)
         /\ \A k \in 1 .. GetStoredSize - Taken(len) :
              mBuffer'[Position(k)'] = mBuffer[Position(k + Taken(len))]
<1> DEFINE bLeft == mBRegionSize - RemoveFromB(len)
           from  == mBRegionPointer + RemoveFromB(len)
<1>1. /\ RemoveFromA(len) \in 0 .. mARegionSize
      /\ RemoveFromB(len) \in 0 .. mBRegionSize
      /\ Taken(len) = RemoveFromA(len) + RemoveFromB(len)
      /\ mARegionSize > RemoveFromA(len) => RemoveFromB(len) = 0
  BY DEF TypeOK, RemoveFromA, RemoveFromB, Taken, GetStoredSize
<1>2. CASE mARegionSize - RemoveFromA(len) > 0
  <2>1. /\ mARegionSize' = mARegionSize - RemoveFromA(len)
        /\ mARegionPointer' = mARegionPointer + RemoveFromA(len)
        /\ UNCHANGED <<mBRegionPointer, mBRegionSize, mBuffer>>
    BY <1>2 DEF Remove
  <2>2. GetStoredSize' = GetStoredSize - Taken(len)
    BY SMTT(30), <1>1, <1>2, <2>1 DEF TypeOK, GetStoredSize
  <2>3. ASSUME NEW k \in 1 .. GetStoredSize - Taken(len)
        PROVE  Position(k)' = Position(k + Taken(len))
    <3>1. PICK a \in Nat : a = Taken(len) /\ a = RemoveFromA(len) /\ a < mARegionSize
      <4>1. RemoveFromA(len) \in Nat /\ RemoveFromA(len) < mARegionSize
        BY <1>1, <1>2, Numbers
      <4>2. RemoveFromB(len) = 0
        BY <1>1, <4>1, Numbers
      <4> QED
        BY <1>1, <4>1, <4>2
    <3>2. mARegionSize' = mARegionSize - a /\ mARegionPointer' = mARegionPointer + a
          /\ mBRegionPointer' = mBRegionPointer
      BY <2>1, <3>1
    <3>3. k \in Nat
      BY <3>1, Numbers
    <3>4. Position(k)' = Position(k + a)
      BY <3>1, <3>2, <3>3, Numbers DEF Position
    <3> QED
      BY <3>1, <3>4
  <2> QED
    BY <2>1, <2>2, <2>3
<1>3. CASE ~ (mARegionSize - RemoveFromA(len) > 0)
  <2>1. /\ mARegionPointer' = 0 /\ mARegionSize' = bLeft
        /\ mBRegionPointer' = nullptr /\ mBRegionSize' = 0
        /\ mBuffer' = [i \in 0 .. Capacity - 1 |->
                         IF i < bLeft THEN mBuffer[from + i] ELSE mBuffer[i]]
    BY <1>3 DEF Remove
  <2>2. GetStoredSize' = GetStoredSize - Taken(len) /\ GetStoredSize' = bLeft
        /\ RemoveFromA(len) = mARegionSize
    BY SMTT(30), <1>1, <1>3, <2>1 DEF TypeOK, GetStoredSize
  <2>3. ASSUME NEW k \in 1 .. GetStoredSize - Taken(len)
        PROVE  mBuffer'[Position(k)'] = mBuffer[Position(k + Taken(len))]
    <3>1. k \in 1 .. bLeft /\ k - 1 \in 0 .. Capacity - 1 /\ k - 1 < bLeft
      BY <1>1, <2>2, CapacityAssumption DEF TypeOK, RegionsDisjoint, nullptr
    <3>2. Position(k)' = k - 1
      BY <2>1, <3>1 DEF Position
    <3>3. Position(k + Taken(len)) = from + (k - 1)
      BY <1>1, <2>2, <3>1 DEF TypeOK, Position, nullptr
    <3> HIDE DEF bLeft, from
    <3> QED
      BY <2>1, <3>1, <3>2, <3>3
  <2> QED
    BY <2>2, <2>3
<1> QED
  BY <1>2, <1>3

-----------------------------------------------------------------------------
\* Every step preserves the invariant.
THEOREM StepPreserves == IInv /\ [Next]_vars => IInv'
<1> SUFFICES ASSUME IInv, [Next]_vars PROVE IInv'
  OBVIOUS
<1>t. TypeOK /\ RegionsDisjoint /\ InFlightIntact
  BY DEF IInv
<1>1. ASSUME NEW n \in 0 .. GetFreeSpaceSize, NEW data \in [1 .. n -> Bytes], PostSend(data)
      PROVE  IInv'
  <2>1. n \in Nat
    BY <1>t, FreeSpace
  <2>2. data \in Seq(Bytes)
    BY <2>1, Segment
  <2> QED
    BY <1>1, <2>2, WriteKeepsSending DEF PostSend
<1>2. ASSUME PostSendRefused PROVE IInv'
  <2>1. UNCHANGED <<mARegionPointer, mARegionSize, mBRegionSize, mBuffer, sending>>
        /\ mBRegionPointer' = IF AllocatesB THEN 0 ELSE mBRegionPointer
    BY <1>2 DEF PostSendRefused
  <2>2. TypeOK' /\ RegionsDisjoint'
    BY <1>t, <2>1, FreeSpace, CapacityAssumption DEF TypeOK, RegionsDisjoint, nullptr
  <2>3. UNCHANGED <<GetContiguiousBytes, GetBufferStart>>
    BY <1>t, <2>1, FreeSpace
       DEF GetContiguiousBytes, GetBufferStart, TypeOK, RegionsDisjoint
  <2>4. InFlightIntact'
    BY <1>t, <2>1, <2>3 DEF InFlightIntact
  <2> QED
    BY <2>2, <2>4 DEF IInv
<1>3. ASSUME FlushSend PROVE IInv'
  <2>1. UNCHANGED <<regionVars, mBuffer>>
        /\ sending' = [i \in 1 .. GetContiguiousBytes |-> mBuffer[GetBufferStart + i - 1]]
    BY <1>3 DEF FlushSend
  <2>2. UNCHANGED <<GetContiguiousBytes, GetBufferStart>>
    BY <2>1 DEF GetContiguiousBytes, GetBufferStart, regionVars
  <2>3. GetContiguiousBytes \in 0 .. Capacity
    BY <1>t DEF TypeOK, GetContiguiousBytes
  <2>4. \A i \in 1 .. GetContiguiousBytes : GetBufferStart + i - 1 \in 0 .. Capacity - 1
    BY <1>t, CapacityAssumption
       DEF TypeOK, RegionsDisjoint, GetContiguiousBytes, GetBufferStart, nullptr
  <2>5. sending' \in [1 .. GetContiguiousBytes -> Bytes]
    BY <1>t, <2>1, <2>4 DEF TypeOK
  <2>6. TypeOK' /\ RegionsDisjoint'
    BY <1>t, <2>1, <2>3, <2>5 DEF TypeOK, RegionsDisjoint, regionVars
  <2>7. Len(sending') = GetContiguiousBytes
    BY <2>3, <2>5, Segment
  <2>8. InFlightIntact'
    BY <2>1, <2>2, <2>3, <2>7 DEF InFlightIntact
  <2> QED
    BY <2>6, <2>8 DEF IInv
<1>4. ASSUME NEW len \in Nat, Remove(len), sending' = Idle
      PROVE  IInv'
  BY <1>t, <1>4, RemoveRegions DEF IInv, InFlightIntact
<1>5. ASSUME BufferReset PROVE IInv'
  <2>1. zero \in Bytes
    BY CapacityAssumption DEF zero
  <2> QED
    BY <1>t, <1>5, <2>1, CapacityAssumption
       DEF BufferReset, IInv, TypeOK, RegionsDisjoint, InFlightIntact, nullptr
<1>6. ASSUME UNCHANGED vars PROVE IInv'
  BY <1>t, <1>6 DEF vars, regionVars, IInv, TypeOK, RegionsDisjoint, InFlightIntact,
     GetContiguiousBytes, GetBufferStart
<1>7. ASSUME NEW transferred \in 0 .. Len(sending), SendCompletion(transferred)
      PROVE  IInv'
  BY <1>t, <1>4, <1>7, SendingIsSeq DEF SendCompletion
<1>8. ASSUME NEW len \in 0 .. Capacity, Consume(len)
      PROVE  IInv'
  BY <1>4, <1>8 DEF Consume
<1> QED
  BY <1>1, <1>2, <1>3, <1>5, <1>6, <1>7, <1>8 DEF Next

\* The pointers stay typed, the regions apart and inside the buffer, and what
\* the kernel is sending is never overwritten or moved, in every reachable state.
THEOREM Invariance == Spec => []IInv
<1> QED
  BY InitEstablishes, StepPreserves, PTL DEF Spec

\* The two regions are typed, in the buffer and apart (GetFreeSpaceSize, Remove).
THEOREM RegionsDisjointInvariant == Spec => [](TypeOK /\ RegionsDisjoint)
<1>1. IInv => TypeOK /\ RegionsDisjoint
  BY DEF IInv
<1> QED
  BY <1>1, Invariance, PTL

\* PostSend and Remove leave the bytes of a send in progress alone.
THEOREM InFlightIntactInvariant == Spec => []InFlightIntact
<1>1. IInv => InFlightIntact
  BY DEF IInv
<1> QED
  BY <1>1, Invariance, PTL

\* An empty buffer reports all its room as free.
THEOREM EmptyHasSpaceInvariant == Spec => []EmptyHasSpace
<1>1. IInv => EmptyHasSpace
  BY CapacityAssumption
     DEF IInv, TypeOK, RegionsDisjoint, EmptyHasSpace, GetStoredSize, GetFreeSpaceSize,
         AllocatesB, GetAFreeSpace, GetSpaceBeforeA, nullptr
<1> QED
  BY <1>1, Invariance, PTL

-----------------------------------------------------------------------------
(***************************************************************************)
(* The refinement.                                                         *)
(***************************************************************************)
LEMMA ContentsIsSeq ==
  ASSUME TypeOK, RegionsDisjoint
  PROVE  /\ GetStoredSize \in Nat
         /\ Contents \in [1 .. GetStoredSize -> Bytes]
         /\ Len(Contents) = GetStoredSize
<1>1. GetStoredSize \in Nat
  BY DEF TypeOK, GetStoredSize
<1>2. \A k \in 1 .. GetStoredSize : Position(k) \in 0 .. Capacity - 1
  BY CapacityAssumption DEF TypeOK, RegionsDisjoint, GetStoredSize, Position, nullptr
<1>3. Contents \in [1 .. GetStoredSize -> Bytes]
  BY <1>2 DEF Contents, TypeOK
<1> QED
  BY <1>1, <1>3, Segment

\* What is written is put at the end of the queue.
LEMMA WriteIsPut ==
  ASSUME TypeOK, RegionsDisjoint, NEW n \in 0 .. GetFreeSpaceSize,
         NEW data \in [1 .. n -> Bytes], Write(data)
  PROVE  Q!Put
<1>1. n \in Nat /\ GetStoredSize \in Nat
  BY FreeSpace, ContentsIsSeq
<1>2. data \in Seq(Bytes) /\ Len(data) = n
  BY <1>1, Segment
<1>3. n \in 0 .. Capacity - Len(Contents)
  BY <1>1, FreeSpace, ContentsIsSeq, CapacityAssumption
<1>4. /\ GetStoredSize' = GetStoredSize + n
      /\ \A k \in 1 .. GetStoredSize : mBuffer'[Position(k)'] = mBuffer[Position(k)]
      /\ \A k \in GetStoredSize + 1 .. GetStoredSize + n :
           mBuffer'[Position(k)'] = data[k - GetStoredSize]
  <2>1. Len(data) <= GetFreeSpaceSize
    BY <1>2, FreeSpace
  <2>2. /\ GetStoredSize' = GetStoredSize + n
        /\ \A k \in GetStoredSize + 1 .. GetStoredSize + n :
             mBuffer'[Position(k)'] = data[k - GetStoredSize]
    BY <1>2, <2>1, WriteContents
  <2>3. ASSUME NEW k \in 1 .. GetStoredSize
        PROVE  mBuffer'[Position(k)'] = mBuffer[Position(k)]
    <3>1. Position(k)' = Position(k) /\ mBuffer'[Position(k)] = mBuffer[Position(k)]
      BY <1>2, <2>1, WriteContents
    <3> QED
      BY <3>1
  <2> QED
    BY <2>2, <2>3
<1>5. Contents' = [k \in 1 .. GetStoredSize + n |-> mBuffer'[Position(k)']]
  BY <1>4 DEF Contents
<1>6. \A k \in 1 .. GetStoredSize : Contents[k] = mBuffer[Position(k)]
  BY DEF Contents
<1>7. Contents' = [k \in 1 .. Len(Contents) + n |->
                     IF k <= Len(Contents) THEN Contents[k] ELSE data[k - Len(Contents)]]
  <2>1. \A k \in 1 .. GetStoredSize + n :
          mBuffer'[Position(k)'] =
            IF k <= GetStoredSize THEN Contents[k] ELSE data[k - GetStoredSize]
    <3> TAKE k \in 1 .. GetStoredSize + n
    <3>1. CASE k <= GetStoredSize
      <4>1. k \in 1 .. GetStoredSize
        BY <1>1, <3>1
      <4> QED
        BY <1>4, <1>6, <3>1, <4>1
    <3>2. CASE ~ (k <= GetStoredSize)
      <4>1. k \in GetStoredSize + 1 .. GetStoredSize + n
        BY <1>1, <3>2
      <4> QED
        BY <1>4, <3>2, <4>1
    <3> QED
      BY <3>1, <3>2
  <2> QED
    BY <1>5, <2>1, ContentsIsSeq
<1> QED
  BY <1>3, <1>7 DEF Q!Put

\* What is removed is discarded from the front of the queue.
LEMMA RemoveIsDiscard ==
  ASSUME TypeOK, RegionsDisjoint, NEW len \in Nat, Remove(len)
  PROVE  Q!Discard
<1>1. GetStoredSize \in Nat /\ Len(Contents) = GetStoredSize
  BY ContentsIsSeq
<1>2. PICK n \in Nat : n = Taken(len) /\ n <= GetStoredSize
  BY <1>1 DEF Taken
<1>3. Contents' = [k \in 1 .. GetStoredSize - n |-> mBuffer'[Position(k)']]
  BY <1>2, RemoveContents DEF Contents
<1>4. \A k \in 1 .. GetStoredSize - n : mBuffer'[Position(k)'] = Contents[k + n]
  <2> TAKE k \in 1 .. GetStoredSize - n
  <2>1. k + n \in 1 .. GetStoredSize
    BY <1>1, <1>2
  <2>2. mBuffer'[Position(k)'] = mBuffer[Position(k + n)]
    BY <1>2, RemoveContents
  <2> QED
    BY <2>1, <2>2 DEF Contents
<1>5. Contents' = [k \in 1 .. Len(Contents) - n |-> Contents[k + n]]
  BY <1>1, <1>3, <1>4
<1>6. n \in 0 .. Len(Contents)
  BY <1>1, <1>2
<1> QED
  BY <1>5, <1>6 DEF Q!Discard

\* The circular buffer is a bounded queue of bytes, whatever its capacity.
THEOREM Implementation == Spec => ImplementsByteQueue
<1>1. Init => Q!Init
  <2> SUFFICES ASSUME Init PROVE Contents = <<>>
    BY DEF Q!Init
  <2>1. GetStoredSize = 0
    BY DEF Init, GetStoredSize
  <2> QED
    BY <2>1 DEF Contents
<1>2. IInv /\ [Next]_vars => [Q!Next]_Contents
  <2> SUFFICES ASSUME TypeOK, RegionsDisjoint, [Next]_vars PROVE [Q!Next]_Contents
    BY DEF IInv
  <2>1. ASSUME NEW n \in 0 .. GetFreeSpaceSize, NEW data \in [1 .. n -> Bytes],
               PostSend(data)
        PROVE  Q!Put
    BY <2>1, WriteIsPut DEF PostSend
  <2>2. ASSUME PostSendRefused PROVE UNCHANGED Contents
    <3>1. UNCHANGED <<mARegionPointer, mARegionSize, mBRegionSize, mBuffer>>
          /\ mBRegionPointer' = IF AllocatesB THEN 0 ELSE mBRegionPointer
      BY <2>2 DEF PostSendRefused
    <3>2. \A k \in 1 .. GetStoredSize : Position(k)' = Position(k)
      BY <3>1, FreeSpace DEF Position, GetStoredSize, TypeOK
    <3> QED
      BY <3>1, <3>2 DEF Contents, GetStoredSize
  <2>3. ASSUME FlushSend PROVE UNCHANGED Contents
    BY <2>3 DEF FlushSend, regionVars, Contents, GetStoredSize, Position
  <2>4. ASSUME NEW transferred \in 0 .. Len(sending), SendCompletion(transferred)
        PROVE  Q!Discard
    BY <2>4, SendingIsSeq, RemoveIsDiscard DEF SendCompletion
  <2>5. ASSUME NEW len \in 0 .. Capacity, Consume(len)
        PROVE  Q!Discard
    BY <2>5, RemoveIsDiscard DEF Consume
  <2>6. ASSUME BufferReset PROVE Q!Clear
    <3>1. GetStoredSize' = 0
      BY <2>6 DEF BufferReset, GetStoredSize
    <3> QED
      BY <3>1 DEF Contents, Q!Clear
  <2>7. ASSUME UNCHANGED vars PROVE UNCHANGED Contents
    BY <2>7 DEF vars, regionVars, Contents, GetStoredSize, Position
  <2> QED
    BY <2>1, <2>2, <2>3, <2>4, <2>5, <2>6, <2>7 DEF Next, Q!Next
<1> QED
  BY <1>1, <1>2, Invariance, PTL DEF Spec, ImplementsByteQueue, Q!Spec

-----------------------------------------------------------------------------
(***************************************************************************)
(* The receive buffer and the stream of a client (PacketStream).  The      *)
(* buffer holds Bytes no more: its contents have no type here, and what    *)
(* is known of them is said of the places that hold received bytes.        *)
(***************************************************************************)
Phases == {"watch", "receive", "handle", "ended", "full", "misread", "overrun"}

\* A byte on its way.
Sent == [pos : Nat, flush : Nat, keys : SUBSET Nat]

StreamTypes ==
  /\ mARegionPointer \in 0 .. Capacity /\ mARegionSize \in 0 .. Capacity
  /\ mBRegionPointer \in {nullptr, 0} /\ mBRegionSize \in 0 .. Capacity
  /\ packets \in Streams
  /\ flushed \in 0 .. Len(packets)
  /\ network \in Seq(Sent)
  /\ mConnected \in BOOLEAN /\ mIsKeyShared \in BOOLEAN
  /\ phase \in Phases
  /\ served \in Seq([packet : Nat, plain : BOOLEAN])
  /\ asSent \in BOOLEAN /\ swallowed \in BOOLEAN

\* Region B is opened only behind a region A that has moved.
StreamRegions ==
  /\ RegionsDisjoint
  /\ mBRegionPointer # nullptr => mARegionPointer > 0

\* Packet p is at the front of the buffer and all of it is there.
Ready(p) ==
  /\ GetContiguiousBytes >= HeaderSize
  /\ IsHeaderOf(p)
  /\ Size(p) <= GetContiguiousBytes

\* While the server waits for more it has no whole packet at the front; in a buffer
\* that has wrapped it never has one again.
WaitInv ==
  /\ phase \in {"watch", "receive"} \/ Wrapped => \A p \in DOMAIN packets : ~ Ready(p)
  /\ phase = "watch" => mARegionSize < Capacity
  /\ phase = "receive" => ~ AllocatesB
  /\ phase = "handle" \/ network # <<>> => flushed >= 1

\* The bytes that have left the network.
Received == End(flushed) - Len(network)

\* The i-th byte on its way was sent with a flush of the packets behind packet g.
InFlush(i, g) ==
  LET last == network[i].flush
      Within(j) == End(g) < Received + j /\ Received + j <= End(last)
  IN  /\ last <= flushed /\ g \in 0 .. last - 1
      /\ Within(i)
      /\ \A j \in 1 .. Len(network) :
           /\ network[j].flush = last <=> Within(j)
           /\ network[j].flush = last =>
                network[j].keys = IF g = 0 THEN {} ELSE {Received + j - End(g) - 1}
      /\ g # 0 => mIsKeyShared

NetworkInv ==
  \A i \in 1 .. Len(network) :
    network[i].pos = Received + i /\ \E g \in Nat : InFlush(i, g)

\* What the buffer holds when every receive has got what one flush sent: nothing but,
\* while the packets are handled, the plain bytes of whole packets.
BufferInv ==
  /\ phase \in {"watch", "receive"} => mARegionSize = 0 /\ Received = End(Len(served))
  /\ phase = "handle" =>
       /\ \E r \in Len(served) + 1 .. flushed : Received = End(r)
       /\ mARegionSize = Received - End(Len(served))
       /\ \A i \in 0 .. mARegionSize - 1 :
            mBuffer[mARegionPointer + i] = Byte(End(Len(served)) + i + 1, {})
  /\ phase \in {"watch", "receive", "handle"} => mBRegionPointer = nullptr

HandledInv ==
  asSent /\ ~ swallowed =>
    /\ phase \notin {"misread", "overrun", "full"}
    /\ \A i \in DOMAIN served : served[i] = [packet |-> i, plain |-> TRUE]
    /\ Len(served) <= flushed
    /\ mIsKeyShared => Len(served) >= 1
    /\ network # <<>> => \E g \in Nat : InFlush(1, g) /\ End(g) = Received
    /\ BufferInv

StreamInv ==
  StreamTypes /\ StreamRegions /\ WaitInv /\ FullOnlyWhenWrapped /\ NetworkInv /\ HandledInv

-----------------------------------------------------------------------------
\* The places of the packets in the stream go up, by more than a header.
LEMMA Ends ==
  ASSUME packets \in Streams
  PROVE  /\ Len(packets) \in Nat /\ DOMAIN packets = 1 .. Len(packets)
         /\ HeaderSize \in Nat \ {0} /\ Capacity \in Nat \ {0}
         /\ End(0) = 0
         /\ \A p \in 0 .. Len(packets) : End(p) \in Nat
         /\ \A p \in DOMAIN packets : Size(p) \in HeaderSize .. Capacity - 1
         /\ \A p, q \in 0 .. Len(packets) : p < q => End(p) < End(q)
<1>1. /\ packets \in Seq([kind : Kinds, end : Nat])
      /\ HeaderSize \in Nat \ {0} /\ Capacity \in Nat \ {0}
  BY PacketStreamAssumption, CapacityAssumption
<1>2. /\ Len(packets) \in Nat /\ DOMAIN packets = 1 .. Len(packets)
      /\ \A p \in 1 .. Len(packets) : packets[p] \in [kind : Kinds, end : Nat]
  <2> DEFINE R == [kind : Kinds, end : Nat]
  <2> HIDE DEF R
  <2>1. packets \in Seq(R)
    BY <1>1 DEF R
  <2>2. /\ Len(packets) \in Nat /\ DOMAIN packets = 1 .. Len(packets)
        /\ \A p \in 1 .. Len(packets) : packets[p] \in R
    BY <2>1
  <2> QED BY <2>2 DEF R
<1>3. \A p \in 1 .. Len(packets) :
        /\ EndIn(packets, p) - EndIn(packets, p - 1) \in HeaderSize .. Capacity - 1
        /\ \A q \in 1 .. p - 1 : packets[q].end < packets[p].end
  BY <1>2, PacketStreamAssumption
<1>4. End(0) = 0 /\ \A p \in 1 .. Len(packets) : End(p) = packets[p].end /\ End(p) \in Nat
  BY <1>2 DEF End, EndIn
<1>5. \A p \in 0 .. Len(packets) : End(p) \in Nat
  BY <1>2, <1>4
<1>6. \A p \in 1 .. Len(packets) : Size(p) \in HeaderSize .. Capacity - 1
  BY <1>3 DEF Size, End
<1>7. ASSUME NEW p \in 0 .. Len(packets), NEW q \in 0 .. Len(packets), p < q
      PROVE  End(p) < End(q)
  <2>1. CASE p # 0
    BY <2>1, <1>2, <1>3, <1>4, <1>7
  <2>2. CASE p = 0
    <3>1. q \in 1 .. Len(packets) /\ (q = 1 \/ 1 \in 1 .. q - 1)
      BY <1>2, <1>7
    <3>2. End(1) - End(0) \in HeaderSize .. Capacity - 1
      BY <1>6, <3>1, <1>2 DEF Size
    <3>3. End(1) > 0
      BY <3>1, <3>2, <1>1, <1>2, <1>4
    <3>4. CASE q = 1
      BY <3>3, <3>4, <2>2, <1>4
    <3>5. CASE 1 \in 1 .. q - 1
      <4>1. End(1) < End(q)
        BY <3>1, <3>5, <1>2, <1>3, <1>4
      <4> QED BY <4>1, <3>3, <3>1, <1>2, <1>4, <2>2
    <3> QED BY <3>1, <3>4, <3>5
  <2> QED BY <2>1, <2>2, <1>2
<1> QED BY <1>1, <1>2, <1>4, <1>5, <1>6, <1>7

\* No two packets end at one place.
LEMMA EndsDiffer ==
  ASSUME packets \in Streams, NEW p \in 0 .. Len(packets), NEW q \in 0 .. Len(packets),
         End(p) = End(q)
  PROVE  p = q
<1>1. p \in Nat /\ q \in Nat /\ End(p) \in Nat /\ (p < q \/ q < p \/ p = q)
  BY Ends
<1>2. ~ (p < q) /\ ~ (q < p)
  BY <1>1, Ends
<1> QED BY <1>1, <1>2

\* The header at the front is that of one packet.
LEMMA OneHeader ==
  ASSUME packets \in Streams, NEW p \in DOMAIN packets, NEW q \in DOMAIN packets,
         IsHeaderOf(p), IsHeaderOf(q)
  PROVE  p = q
<1>1. /\ p \in 1 .. Len(packets) /\ q \in 1 .. Len(packets)
      /\ Len(packets) \in Nat /\ 1 \in 1 .. HeaderSize
      /\ p - 1 \in 0 .. Len(packets) /\ q - 1 \in 0 .. Len(packets)
  BY Ends
<1>2. Plain(End(p - 1), HeaderSize) = Plain(End(q - 1), HeaderSize)
  BY DEF IsHeaderOf
<1>3. Plain(End(p - 1), HeaderSize)[1] = Byte(End(p - 1) + 1, {})
  BY <1>1 DEF Plain
<1>4. Plain(End(q - 1), HeaderSize)[1] = Byte(End(q - 1) + 1, {})
  BY <1>1 DEF Plain
<1>5. End(p - 1) + 1 = End(q - 1) + 1
  BY <1>2, <1>3, <1>4 DEF Byte
<1>6. End(p - 1) = End(q - 1)
  BY SMTT(30), <1>1, <1>5, Ends
<1>7. p - 1 = q - 1
  BY <1>1, <1>6, EndsDiffer
<1> QED BY <1>1, <1>7

\* What the region words are.
LEMMA Regions ==
  ASSUME StreamTypes, StreamRegions
  PROVE  /\ mARegionPointer \in Nat /\ mARegionSize \in Nat /\ mBRegionSize \in Nat
         /\ Capacity \in Nat /\ mARegionPointer + mARegionSize <= Capacity
         /\ nullptr \notin Nat
         /\ GetContiguiousBytes = mARegionSize
         /\ mARegionSize > 0 => GetBufferStart = mARegionPointer
         /\ mARegionSize = 0 => /\ mARegionPointer = 0 /\ mBRegionPointer = nullptr
                                /\ mBRegionSize = 0 /\ ~ AllocatesB
                                /\ GetFreeSpaceSize = Capacity
BY CapacityAssumption
   DEF StreamTypes, StreamRegions, RegionsDisjoint, GetContiguiousBytes, GetBufferStart,
       AllocatesB, GetFreeSpaceSize, GetAFreeSpace, GetSpaceBeforeA, nullptr

\* Taking bytes off the front: some of region A, or all of it.
LEMMA Removed ==
  ASSUME StreamTypes, StreamRegions, NEW len \in 1 .. GetContiguiousBytes, Remove(len)
  PROVE  /\ mARegionSize > 0
         /\ mARegionPointer' \in 0 .. Capacity /\ mARegionSize' \in 0 .. Capacity
         /\ mBRegionPointer' \in {nullptr, 0} /\ mBRegionSize' \in 0 .. Capacity
         /\ StreamRegions'
         /\ mARegionSize' < Capacity
         /\ len < mARegionSize =>
              /\ mARegionPointer' = mARegionPointer + len
              /\ mARegionSize' = mARegionSize - len
              /\ UNCHANGED <<mBRegionPointer, mBRegionSize, mBuffer>>
         /\ len = mARegionSize =>
              /\ mARegionPointer' = 0 /\ mARegionSize' = mBRegionSize
              /\ mBRegionPointer' = nullptr /\ mBRegionSize' = 0
<1>1. /\ mARegionPointer \in 0 .. Capacity /\ mARegionSize \in 0 .. Capacity
      /\ mBRegionPointer \in {nullptr, 0} /\ mBRegionSize \in 0 .. Capacity
      /\ Capacity \in Nat /\ nullptr = -1
  BY CapacityAssumption DEF StreamTypes, nullptr
<1>2. len \in Nat /\ 1 <= len /\ len <= mARegionSize /\ mARegionSize > 0
  BY <1>1, Regions
<1>3. RemoveFromA(len) = len /\ RemoveFromB(len) = 0
  BY <1>1, <1>2 DEF RemoveFromA, RemoveFromB
<1>4. CASE len < mARegionSize
  <2>1. /\ mARegionPointer' = mARegionPointer + len
        /\ mARegionSize' = mARegionSize - len
        /\ UNCHANGED <<mBRegionPointer, mBRegionSize, mBuffer>>
    BY <1>1, <1>2, <1>3, <1>4 DEF Remove
  <2>2. StreamRegions' /\ mARegionPointer' \in 0 .. Capacity /\ mARegionSize' \in 0 .. Capacity
    BY <1>1, <1>2, <1>4, <2>1 DEF StreamRegions, RegionsDisjoint
  <2> QED BY <1>1, <1>2, <1>4, <2>1, <2>2
<1>5. CASE len = mARegionSize
  <2>1. /\ mARegionPointer' = 0 /\ mARegionSize' = mBRegionSize
        /\ mBRegionPointer' = nullptr /\ mBRegionSize' = 0
    BY <1>1, <1>2, <1>3, <1>5 DEF Remove
  <2>2. StreamRegions' /\ mARegionSize' < Capacity
    BY <1>1, <1>2, <2>1 DEF StreamRegions, RegionsDisjoint
  <2> QED BY <1>1, <1>2, <1>5, <2>1, <2>2
<1> QED BY <1>1, <1>2, <1>4, <1>5

-----------------------------------------------------------------------------
\* The stream of a client does not change.
LEMMA SameStream ==
  ASSUME packets' = packets
  PROVE  \A p : End(p)' = End(p) /\ Size(p)' = Size(p)
BY DEF Size, End, EndIn

\* A step that leaves the buffer alone.
LEMMA SameBuffer ==
  ASSUME packets' = packets, UNCHANGED regionVars, mBuffer' = mBuffer
  PROVE  /\ GetContiguiousBytes' = GetContiguiousBytes
         /\ \A p : Ready(p)' <=> Ready(p)
         /\ Wrapped' <=> Wrapped
         /\ StreamRegions <=> StreamRegions'
<1>1. /\ GetContiguiousBytes' = GetContiguiousBytes /\ GetBufferStart' = GetBufferStart
      /\ (Wrapped' <=> Wrapped)
  BY DEF regionVars, GetContiguiousBytes, GetBufferStart, Wrapped
<1>2. \A p : (IsHeaderOf(p)' <=> IsHeaderOf(p)) /\ Size(p)' = Size(p)
  BY <1>1, SameStream DEF IsHeaderOf, Front, Plain
<1>3. StreamRegions <=> StreamRegions'
  BY DEF regionVars, StreamRegions, RegionsDisjoint
<1> QED BY <1>1, <1>2, <1>3 DEF Ready

\* A step that leaves the network alone.
LEMMA SameNetwork ==
  ASSUME UNCHANGED streamVars, mIsKeyShared => mIsKeyShared', NetworkInv
  PROVE  /\ NetworkInv'
         /\ Received' = Received
         /\ \A i, g : InFlush(i, g) => InFlush(i, g)'
<1>1. packets' = packets /\ flushed' = flushed /\ network' = network
  BY DEF streamVars
<1>2. Received' = Received
  BY <1>1, SameStream DEF Received, End, EndIn
<1>3. \A i, g : InFlush(i, g) => InFlush(i, g)'
  <2> SUFFICES ASSUME NEW i, NEW g, InFlush(i, g)
               PROVE  InFlush(i, g)'
    OBVIOUS
  <2>1. PICK f : f = network[i].flush
    OBVIOUS
  <2>2. network'[i].flush = f
    BY <1>1, <2>1
  <2>3. End(g)' = End(g) /\ End(f)' = End(f)
    BY <1>1, SameStream
  <2> QED BY <1>1, <1>2, <2>1, <2>2, <2>3 DEF InFlush
<1> QED BY <1>1, <1>2, <1>3 DEF NetworkInv

\* The stream is sent on: a flush puts the bytes of some whole packets behind those that
\* are on their way.
LEMMA FlushNetwork ==
  ASSUME StreamTypes, NetworkInv, NEW last \in flushed + 1 .. Len(packets), ClientFlush(last)
  PROVE  /\ NetworkInv' /\ Received' = Received
         /\ network' \in Seq(Sent) /\ network' # <<>>
         /\ \A i \in 1 .. Len(network), g \in Nat : InFlush(i, g) => InFlush(i, g)'
         /\ network = <<>> => \E g \in Nat : InFlush(1, g)' /\ End(g) = Received'
<1> DEFINE N == Len(network)
           n == End(last) - End(flushed)
           add == [i \in 1 .. n |-> [pos |-> End(flushed) + i, flush |-> last,
                                     keys |-> IF flushed = 0 THEN {} ELSE {i - 1}]]
<1>0. /\ packets \in Streams /\ network \in Seq(Sent) /\ N \in Nat
      /\ flushed \in Nat /\ last \in Nat /\ flushed < last /\ last <= Len(packets)
      /\ flushed \in 0 .. Len(packets) /\ last \in 0 .. Len(packets) /\ Len(packets) \in Nat
  BY Ends DEF StreamTypes
<1>1. /\ End(flushed) \in Nat /\ End(last) \in Nat /\ End(flushed) < End(last)
      /\ n \in Nat /\ n >= 1
  BY <1>0, Ends
<1>2. /\ network' = network \o add /\ flushed' = last /\ packets' = packets
      /\ mIsKeyShared' = mIsKeyShared /\ (flushed # 0 => mIsKeyShared)
  BY DEF ClientFlush, streamVars
<1>3. add \in Seq(Sent) /\ Len(add) = n
      /\ \A i \in 1 .. n : add[i] = [pos |-> End(flushed) + i, flush |-> last,
                                     keys |-> IF flushed = 0 THEN {} ELSE {i - 1}]
  <2>1. add \in [1 .. n -> Sent]
    BY <1>0, <1>1 DEF Sent
  <2>2. add \in Seq(Sent) /\ Len(add) = n
    <3> HIDE DEF add, n
    <3> QED BY <2>1, <1>1, Segment
  <2> QED BY <2>2
<1>n. N = Len(network) /\ n = End(last) - End(flushed)
  OBVIOUS
<1> HIDE DEF N, n, add
<1>4. /\ network' \in Seq(Sent) /\ Len(network') = N + n
      /\ \A i \in 1 .. N : network'[i] = network[i]
      /\ \A i \in 1 .. n : network'[N + i] = add[i]
  <2>1. network \in Seq(Sent) /\ add \in Seq(Sent) /\ N \in Nat /\ n \in Nat
    BY <1>0, <1>1, <1>3
  <2>2. /\ network \o add \in Seq(Sent) /\ Len(network \o add) = N + n
        /\ \A i \in 1 .. N + n : (network \o add)[i] = IF i <= N THEN network[i] ELSE add[i - N]
    <3>1. /\ network \o add \in Seq(Sent) /\ Len(network \o add) = Len(network) + Len(add)
          /\ \A i \in 1 .. Len(network) + Len(add) :
               (network \o add)[i] = IF i <= Len(network) THEN network[i] ELSE add[i - Len(network)]
      BY <2>1, ConcatProperties
    <3> QED BY <3>1, <1>3, <1>n
  <2>3. \A i \in 1 .. N : i \in 1 .. N + n /\ i <= N
    BY <2>1
  <2>4. \A i \in 1 .. n : N + i \in 1 .. N + n /\ ~ (N + i <= N) /\ (N + i) - N = i
    BY <2>1
  <2> QED BY <2>2, <2>3, <2>4, <1>2
<1>k. \A j \in 1 .. N + n : j \in 1 .. N \/ (j - N \in 1 .. n /\ network'[j] = add[j - N])
  <2> SUFFICES ASSUME NEW j \in 1 .. N + n, j \notin 1 .. N
               PROVE  j - N \in 1 .. n /\ network'[j] = add[j - N]
    OBVIOUS
  <2>1. j - N \in 1 .. n /\ N + (j - N) = j
    BY <1>0, <1>1
  <2>2. network'[N + (j - N)] = add[j - N]
    BY <2>1, <1>4
  <2> QED BY <2>1, <2>2
<1>5. End(flushed)' = End(last)
  BY <1>2 DEF End, EndIn
<1>6. Received' = Received /\ Received = End(flushed) - N /\ Received \in Int
  BY <1>0, <1>1, <1>4, <1>5 , <1>n DEF Received
<1>7. \A p : End(p)' = End(p)
  BY <1>2, SameStream
<1>8. \A i \in 1 .. N : network[i].flush <= flushed /\ network[i].flush \in Nat
  <2> TAKE i \in 1 .. N
  <2>1. network[i] \in Sent
    BY <1>0, <1>n
  <2>2. PICK g \in Nat : InFlush(i, g)
    BY <1>n DEF NetworkInv
  <2> QED BY <2>1, <2>2, <1>0, <1>n DEF InFlush, Sent
<1>9. ASSUME NEW i \in 1 .. N, NEW g \in Nat, InFlush(i, g)
      PROVE  InFlush(i, g)'
  <2> DEFINE f == network[i].flush
  <2>1. /\ f <= flushed /\ f \in Nat /\ g \in 0 .. f - 1
        /\ End(g) < Received + i /\ Received + i <= End(f)
        /\ \A j \in 1 .. N :
             /\ network[j].flush = f <=> End(g) < Received + j /\ Received + j <= End(f)
             /\ network[j].flush = f =>
                  network[j].keys = IF g = 0 THEN {} ELSE {Received + j - End(g) - 1}
        /\ g # 0 => mIsKeyShared
    BY <1>9, <1>8, <1>n DEF InFlush
  <2>2. f \in 0 .. Len(packets) /\ End(f) \in Nat /\ End(f) <= End(flushed)
    <3>1. f \in 0 .. Len(packets) /\ (f < flushed \/ f = flushed)
      BY <2>1, <1>0
    <3>2. End(f) \in Nat /\ (f < flushed => End(f) < End(flushed))
      BY <3>1, <1>0, Ends
    <3> QED BY <3>1, <3>2, <1>1
  <2>4. \A j \in 1 .. n : add[j].flush = last
    BY <1>3
  <2>5. \A j \in 1 .. Len(network') :
          /\ network'[j].flush = f <=> End(g) < Received + j /\ Received + j <= End(f)
          /\ network'[j].flush = f =>
               network'[j].keys = IF g = 0 THEN {} ELSE {Received + j - End(g) - 1}
    <3> TAKE j \in 1 .. Len(network')
    <3>1. CASE j \in 1 .. N
      BY <3>1, <2>1, <1>4
    <3>2. CASE j - N \in 1 .. n /\ network'[j] = add[j - N]
      <4>1. network'[j].flush = last
        BY <3>2, <2>4
      <4>2. j \in Int /\ j > N
        BY <3>2, <1>0, <1>1, <1>4
      <4>3. Received + j > End(flushed)
        BY <4>2, <1>6, <1>0, <1>1
      <4>4. ~ (Received + j <= End(f))
        BY <4>2, <4>3, <2>2, <1>1, <1>6
      <4>5. last # f
        BY <2>1, <1>0
      <4> QED BY <4>1, <4>4, <4>5
    <3> QED BY <3>1, <3>2, <1>k, <1>4
  <2>6. network'[i] = network[i] /\ f <= last
    BY <1>4, <2>1, <1>0
  <2> QED BY <2>1, <2>5, <2>6, <1>2, <1>6, <1>7 DEF InFlush
<1>10. ASSUME NEW m \in 1 .. N + n, m - N \in 1 .. n, network'[m] = add[m - N]
       PROVE  /\ network'[m].pos = Received' + m
              /\ \E g \in Nat : g = flushed /\ InFlush(m, g)'
  <2>1. /\ network'[m].pos = End(flushed) + (m - N) /\ network'[m].flush = last
    <3> DEFINE k == m - N
    <3>1. k \in 1 .. n /\ network'[m] = add[k]
      BY <1>10
    <3> HIDE DEF k
    <3>3. network'[m].pos = End(flushed) + k /\ network'[m].flush = last
      BY <3>1, <1>3
    <3> QED BY <3>3 DEF k
  <2>2. End(flushed) < Received + m /\ Received + m <= End(last)
    <3>1. m \in Int /\ m > N /\ m <= N + n
      BY <1>10, <1>0, <1>1
    <3>2. Received = End(flushed) - N /\ n = End(last) - End(flushed)
      BY <1>6, <1>n
    <3> QED BY <3>1, <3>2, <1>0, <1>1
  <2>3. \A j \in 1 .. Len(network') :
          /\ network'[j].flush = last <=> End(flushed) < Received + j /\ Received + j <= End(last)
          /\ network'[j].flush = last =>
               network'[j].keys = IF flushed = 0 THEN {} ELSE {Received + j - End(flushed) - 1}
    <3> TAKE j \in 1 .. Len(network')
    <3>1. CASE j \in 1 .. N
      <4>1. network'[j].flush # last
        BY <3>1, <1>0, <1>4, <1>8
      <4>2. ~ (End(flushed) < Received + j)
        BY <3>1, <1>0, <1>1, <1>6
      <4> QED BY <4>1, <4>2
    <3>2. CASE j - N \in 1 .. n /\ network'[j] = add[j - N]
      <4>1. network'[j].flush = last
        BY <3>2, <1>3
      <4>5. network'[j].keys = IF flushed = 0 THEN {} ELSE {j - N - 1}
        <5> DEFINE k == j - N
        <5>1. k \in 1 .. n /\ network'[j] = add[k]
          BY <3>2
        <5> HIDE DEF k
        <5>2. network'[j].keys = IF flushed = 0 THEN {} ELSE {k - 1}
          <6>1. add[k] = [pos |-> End(flushed) + k, flush |-> last,
                          keys |-> IF flushed = 0 THEN {} ELSE {k - 1}]
            BY <5>1, <1>3
          <6>2. add[k].keys = IF flushed = 0 THEN {} ELSE {k - 1}
            BY <6>1
          <6> QED BY <5>1, <6>2
        <5> QED BY <5>2 DEF k
      <4>2. j \in Int /\ j > N /\ j <= N + n
        BY <3>2, <1>0, <1>1, <1>4
      <4>3. Received = End(flushed) - N /\ n = End(last) - End(flushed)
        BY <1>6, <1>n
      <4>4. End(flushed) < Received + j /\ Received + j <= End(last)
        BY SMTT(30), <4>2, <4>3, <1>0, <1>1
      <4>6. {j - N - 1} = {Received + j - End(flushed) - 1}
        <5>1. j - N - 1 = Received + j - End(flushed) - 1
          <6>1. PICK e \in Int : e = End(flushed)
            BY <1>1
          <6>2. Received = e - N /\ N \in Int /\ j \in Int
            BY <4>2, <4>3, <6>1, <1>0
          <6>3. j - N - 1 = (e - N) + j - e - 1
            BY <6>2
          <6> QED BY <6>1, <6>2, <6>3
        <5> QED BY <5>1
      <4> QED BY <4>1, <4>4, <4>5, <4>6
    <3> QED BY <3>1, <3>2, <1>k, <1>4
  <2>5. network'[m].flush = last /\ network'[m].pos = End(flushed) + (m - N)
    BY <2>1
  <2>6. End(flushed) + (m - N) = Received' + m
    BY <1>6, <1>0, <1>1
  <2>7. /\ last <= flushed' /\ flushed \in 0 .. last - 1
        /\ End(flushed)' = End(last)
    BY <1>0, <1>2, <1>5
  <2>8. PICK g \in Nat : g = flushed
    BY <1>0
  <2>9. \A p : End(p)' = End(p)
    BY <1>7
  <2>10. \A j \in 1 .. Len(network') :
           /\ network'[j].flush = last <=> End(g) < Received' + j /\ Received' + j <= End(last)
           /\ network'[j].flush = last =>
                network'[j].keys = IF g = 0 THEN {} ELSE {Received' + j - End(g) - 1}
    BY <2>3, <2>8, <1>6
  <2>11. /\ End(g) < Received' + m /\ Received' + m <= End(last)
         /\ g \in 0 .. last - 1 /\ (g # 0 => mIsKeyShared')
    BY <2>2, <2>5, <2>7, <2>8, <1>2, <1>6
  <2>12. InFlush(m, g)'
    BY <2>5, <2>7, <2>9, <2>10, <2>11 DEF InFlush
  <2> QED BY <2>5, <2>6, <2>8, <2>12
<1>11. NetworkInv'
  <2> SUFFICES ASSUME NEW i \in 1 .. Len(network')
               PROVE  network'[i].pos = Received' + i /\ \E g \in Nat : InFlush(i, g)'
    BY DEF NetworkInv
  <2>1. CASE i \in 1 .. N
    <3>1. network'[i] = network[i] /\ network[i].pos = Received + i
      BY <2>1, <1>4, <1>n DEF NetworkInv
    <3>2. PICK g \in Nat : InFlush(i, g)
      BY <2>1, <1>n DEF NetworkInv
    <3>3. InFlush(i, g)'
      BY <2>1, <3>2, <1>9
    <3> QED BY <3>1, <3>3, <1>6
  <2>2. CASE i - N \in 1 .. n /\ network'[i] = add[i - N]
    BY <2>2, <1>4, <1>10
  <2> QED BY <2>1, <2>2, <1>4, <1>k
<1>12. ASSUME network = <<>>
       PROVE  \E g \in Nat : InFlush(1, g)' /\ End(g) = Received'
  <2>1. N = 0
    BY <1>12, <1>n
  <2>2. 1 \in 1 .. N + n /\ 1 \notin 1 .. N
    BY <2>1, <1>1
  <2>3. PICK g \in Nat : g = flushed /\ InFlush(1, g)'
    BY <2>2, <1>k, <1>10
  <2>4. End(g) = Received'
    BY <2>1, <2>3, <1>1, <1>6
  <2> QED BY <2>3, <2>4
<1>13. network' # <<>>
  BY <1>0, <1>1, <1>4
<1> QED BY <1>4, <1>6, <1>9, <1>n, <1>11, <1>12, <1>13

-----------------------------------------------------------------------------
\* The first n bytes are taken from the network.
LEMMA RecvNetwork ==
  ASSUME StreamTypes, NetworkInv, NEW n \in 1 .. Len(network),
         network' = SubSeq(network, n + 1, Len(network)),
         packets' = packets, flushed' = flushed, mIsKeyShared' = mIsKeyShared
  PROVE  /\ NetworkInv'
         /\ Received' = Received + n /\ Received \in Int
         /\ network' \in Seq(Sent) /\ Len(network') = Len(network) - n
         /\ \A i \in 1 .. Len(network) - n :
              /\ network'[i] = network[n + i]
              /\ \A g \in Nat : InFlush(n + i, g) => InFlush(i, g)'
<1> DEFINE N == Len(network)
<1>0. /\ packets \in Streams /\ network \in Seq(Sent) /\ N \in Nat /\ n \in Nat /\ n <= N
      /\ flushed \in 0 .. Len(packets) /\ End(flushed) \in Nat
  BY Ends DEF StreamTypes
<1>1. /\ network' \in Seq(Sent) /\ Len(network') = N - n
      /\ \A i \in 1 .. N - n : network'[i] = network[n + i]
  <2>1. \A i \in n + 1 .. N : network[i] \in Sent
    BY <1>0
  <2>2. n + 1 \in Int /\ N \in Int
    BY <1>0
  <2>3. /\ SubSeq(network, n + 1, N) \in Seq(Sent)
        /\ Len(SubSeq(network, n + 1, N)) = IF n + 1 <= N THEN N - (n + 1) + 1 ELSE 0
        /\ \A i \in 1 .. N - (n + 1) + 1 :
             SubSeq(network, n + 1, N)[i] = network[(n + 1) + i - 1]
    <3> HIDE DEF N
    <3> QED BY <2>1, <2>2, SubSeqProperties
  <2>4. N - (n + 1) + 1 = N - n /\ (IF n + 1 <= N THEN N - (n + 1) + 1 ELSE 0) = N - n
    BY <1>0
  <2>5. \A i \in 1 .. N - n : (n + 1) + i - 1 = n + i
    BY <1>0
  <2> HIDE DEF N
  <2> QED BY <2>3, <2>4, <2>5 DEF N
<1>2. \A p : End(p)' = End(p)
  BY SameStream
<1>3. Received' = Received + n /\ Received \in Int /\ Received = End(flushed) - N
  <2>1. End(flushed)' = End(flushed)
    BY DEF End, EndIn
  <2>2. Received' = End(flushed) - (N - n) /\ Received = End(flushed) - N
    BY <1>1, <2>1 DEF Received
  <2>3. N \in Nat /\ n \in Nat /\ End(flushed) \in Nat
    BY <1>0
  <2> HIDE DEF N
  <2> QED BY <2>2, <2>3
<1>n. N = Len(network)
  OBVIOUS
<1> HIDE DEF N
<1>4. ASSUME NEW i \in 1 .. N - n, NEW g \in Nat, InFlush(n + i, g)
      PROVE  InFlush(i, g)'
  <2>0. i \in Nat /\ n + i \in 1 .. N
    BY <1>0
  <2>1. PICK f : f = network[n + i].flush
    OBVIOUS
  <2>2. network'[i].flush = f
    BY <1>1, <2>1
  <2>3. /\ f <= flushed /\ g \in 0 .. f - 1
        /\ End(g) < Received + (n + i) /\ Received + (n + i) <= End(f)
        /\ \A j \in 1 .. N :
             /\ network[j].flush = f <=> End(g) < Received + j /\ Received + j <= End(f)
             /\ network[j].flush = f =>
                  network[j].keys = IF g = 0 THEN {} ELSE {Received + j - End(g) - 1}
        /\ g # 0 => mIsKeyShared
    BY <1>4, <2>1, <1>n DEF InFlush
  <2>4. \A j \in 1 .. N - n : n + j \in 1 .. N /\ Received + (n + j) = Received' + j
    BY <1>0, <1>3
  <2>8. End(g) \in Nat
    <3>1. PICK k \in 1 .. N : k = n + i
      BY <2>0
    <3>2. network[k] \in Sent
      BY <1>0, <1>n
    <3>3. f \in Nat
      BY <3>1, <3>2, <2>1 DEF Sent
    <3>4. g \in 0 .. Len(packets)
      BY <3>3, <2>3, <1>0, Ends
    <3> QED BY <3>4, <1>0, Ends
  <2>5. \A j \in 1 .. N - n :
          /\ network'[j].flush = f <=> End(g) < Received' + j /\ Received' + j <= End(f)
          /\ network'[j].flush = f =>
               network'[j].keys = IF g = 0 THEN {} ELSE {Received' + j - End(g) - 1}
    <3> TAKE j \in 1 .. N - n
    <3>1. PICK k \in 1 .. N : k = n + j
      BY <2>4
    <3>2. network'[j] = network[k] /\ Received + k = Received' + j
      BY <3>1, <1>1, <2>4
    <3>3. /\ network[k].flush = f <=> End(g) < Received + k /\ Received + k <= End(f)
          /\ network[k].flush = f =>
               network[k].keys = IF g = 0 THEN {} ELSE {Received + k - End(g) - 1}
      BY <2>3
    <3>4. network'[j].flush = f <=> End(g) < Received' + j /\ Received' + j <= End(f)
      BY <3>2, <3>3
    <3>5. {Received + k - End(g) - 1} = {Received' + j - End(g) - 1}
      <4>1. Received + k - End(g) - 1 = Received' + j - End(g) - 1
        <5>1. PICK a \in Int, b \in Int, c \in Int : a = Received /\ b = Received' /\ c = End(g)
          BY <2>8, <1>0, <1>3
        <5>4. k \in Int /\ j \in Int
          BY <1>0
        <5>5. Received + k = Received' + j
          BY <3>2
        <5>2. a + k = b + j
          BY <5>1, <5>4, <5>5
        <5>3. a + k - c - 1 = b + j - c - 1
          BY <5>2, <5>4
        <5> QED BY <5>1, <5>3
      <4> QED BY <4>1
    <3> QED BY <3>2, <3>3, <3>4, <3>5
  <2>6. End(g) < Received' + i /\ Received' + i <= End(f)
    BY <2>3, <2>4
  <2>7. End(g)' = End(g) /\ End(f)' = End(f)
    BY <1>2
  <2> QED BY <2>2, <2>3, <2>5, <2>6, <2>7, <1>1 DEF InFlush
<1>5. NetworkInv'
  <2> SUFFICES ASSUME NEW i \in 1 .. N - n
               PROVE  network'[i].pos = Received' + i /\ \E g \in Nat : InFlush(i, g)'
    BY <1>1 DEF NetworkInv
  <2>1. PICK k \in 1 .. N : k = n + i
    BY <1>0
  <2>2. network[k].pos = Received + k
    BY <1>n DEF NetworkInv
  <2>3. PICK g \in Nat : InFlush(k, g)
    BY <1>n DEF NetworkInv
  <2>4. InFlush(i, g)'
    BY <2>1, <2>3, <1>4
  <2>5. Received + k = Received' + i
    BY <2>1, <1>0, <1>3
  <2>6. network'[i] = network[k]
    BY <1>1, <2>1
  <2> QED BY <2>2, <2>4, <2>5, <2>6
<1> QED BY <1>1, <1>3, <1>4, <1>5, <1>n

\* A receive that gets just what one flush sent, when all before it has been handled,
\* gets the packets from the next one on, whole and encrypted from index 0.
LEMMA WholeFlush ==
  ASSUME StreamTypes, NetworkInv, NEW n \in 1 .. Len(network),
         NEW d \in 0 .. flushed, Received = End(d),
         NEW h \in Nat, InFlush(1, h), End(h) = Received,
         \A i \in 1 .. n : network[i].flush = network[1].flush,
         n < Len(network) => network[n + 1].flush # network[1].flush
  PROVE  /\ \E r \in d + 1 .. flushed : Received + n = End(r)
         /\ \A i \in 1 .. n :
              /\ network[i].pos = End(d) + i
              /\ network[i].keys = IF d = 0 THEN {} ELSE {i - 1}
         /\ d # 0 => mIsKeyShared
         /\ n < Len(network) => \E g \in Nat : InFlush(n + 1, g) /\ End(g) = Received + n
<1> DEFINE N == Len(network)
<1>0. /\ packets \in Streams /\ network \in Seq(Sent) /\ N \in Nat /\ n \in Nat /\ n <= N
      /\ 1 <= n /\ flushed \in Nat /\ flushed \in 0 .. Len(packets) /\ Len(packets) \in Nat
      /\ End(flushed) \in Nat /\ d \in Nat /\ d <= flushed /\ d \in 0 .. Len(packets)
      /\ End(d) \in Nat
  BY SMTT(30), Ends DEF StreamTypes
<1>1. Received = End(flushed) - N /\ Received \in Int
  BY <1>0 DEF Received
<1>n. N = Len(network)
  OBVIOUS
<1> HIDE DEF N
<1>a. PICK e \in Int : e = Received
  BY <1>1
<1>b. n \in Nat /\ N \in Nat /\ 1 <= n /\ n <= N /\ End(d) = e
  BY <1>0, <1>a
<1>2. PICK r : r = network[1].flush
  OBVIOUS
<1>3. r \in Nat
  <2>1. network[1] \in Sent
    BY <1>0, <1>n
  <2> QED BY <2>1, <1>2 DEF Sent
<1>4. /\ r <= flushed /\ h \in 0 .. r - 1
      /\ \A j \in 1 .. N :
           /\ network[j].flush = r <=> End(h) < Received + j /\ Received + j <= End(r)
           /\ network[j].flush = r =>
                network[j].keys = IF h = 0 THEN {} ELSE {Received + j - End(h) - 1}
      /\ h # 0 => mIsKeyShared
  BY <1>2, <1>n DEF InFlush
<1>5. h = d
  <2>1. h \in 0 .. Len(packets) /\ End(h) = End(d)
    BY <1>0, <1>3, <1>4
  <2> QED BY <2>1, <1>0, EndsDiffer
<1>6. r \in d + 1 .. flushed /\ r \in 0 .. Len(packets) /\ End(r) \in Nat
      /\ End(r) <= End(flushed)
  <2>1. r \in d + 1 .. flushed /\ r \in 0 .. Len(packets) /\ (r < flushed \/ r = flushed)
    BY <1>0, <1>3, <1>4, <1>5
  <2>2. End(r) \in Nat /\ (r < flushed => End(r) < End(flushed))
    BY <2>1, <1>0, Ends
  <2> QED BY <2>1, <2>2, <1>0
<1>7. \A i \in 1 .. n : i \in 1 .. N /\ network[i].flush = r
  BY <1>0, <1>2
<1>8. Received + n <= End(r)
  <2>1. n \in 1 .. n
    BY <1>0
  <2> QED BY <2>1, <1>7, <1>4
<1>9. Received + n >= End(r)
  <2>1. CASE n < N
    <3>1. n + 1 \in 1 .. N /\ network[n + 1].flush # r
      BY <2>1, <1>0, <1>2, <1>n
    <3>2. PICK k \in 1 .. N : k = n + 1
      BY <3>1
    <3>3. ~ (End(h) < Received + k /\ Received + k <= End(r))
      BY <3>1, <3>2, <1>4
    <3>4. End(h) < e + k
      BY <3>2, <1>a, <1>b
    <3>5. ~ (e + (n + 1) <= End(r))
      BY <3>2, <3>3, <3>4, <1>a
    <3> QED BY <3>5, <1>a, <1>b, <1>6
  <2>2. CASE n = N
    <3>1. e + N = End(flushed)
      BY <1>0, <1>1, <1>a, <1>b
    <3> QED BY <2>2, <3>1, <1>a, <1>6
  <2> QED BY <2>1, <2>2, <1>b
<1>10. Received + n = End(r)
  <2>1. e + n <= End(r) /\ e + n >= End(r)
    BY <1>8, <1>9, <1>a
  <2> QED BY SMTT(30), <2>1, <1>a, <1>b, <1>6
<1>11. ASSUME NEW i \in 1 .. n
       PROVE  /\ network[i].pos = End(d) + i
              /\ network[i].keys = IF d = 0 THEN {} ELSE {i - 1}
  <2>1. i \in 1 .. N /\ network[i].flush = r
    BY <1>7
  <2>2. network[i].pos = Received + i
    BY <2>1, <1>n DEF NetworkInv
  <2>3. network[i].keys = IF h = 0 THEN {} ELSE {Received + i - End(h) - 1}
    BY <2>1, <1>4
  <2>4. Received + i - End(h) - 1 = i - 1
    <3>1. End(h) = e
      BY <1>5, <1>b
    <3>2. e + i - e - 1 = i - 1
      BY <1>0
    <3> QED BY <3>1, <3>2, <1>a
  <2> QED BY <2>2, <2>3, <2>4, <1>5
<1>12. ASSUME n < N
       PROVE  \E g \in Nat : InFlush(n + 1, g) /\ End(g) = Received + n
  <2>1. PICK k \in 1 .. N : k = n + 1
    BY <1>12, <1>0
  <2>2. PICK g \in Nat : InFlush(k, g)
    BY <1>n DEF NetworkInv
  <2>3. PICK f : f = network[k].flush
    OBVIOUS
  <2>4. network[k] \in Sent /\ f \in Nat
    <3>1. network[k] \in Sent
      BY <1>0, <1>n
    <3> QED BY <3>1, <2>3 DEF Sent
  <2>5. /\ f <= flushed /\ g \in 0 .. f - 1
        /\ End(g) < Received + k /\ Received + k <= End(f)
        /\ \A j \in 1 .. N :
             network[j].flush = f <=> End(g) < Received + j /\ Received + j <= End(f)
    BY <2>2, <2>3, <1>n DEF InFlush
  <2>6. End(g) \in Nat /\ End(f) \in Nat
    <3>1. g \in 0 .. Len(packets) /\ f \in 0 .. Len(packets)
      BY SMTT(30), <2>4, <2>5, <1>0
    <3> QED BY <3>1, <1>0, Ends
  <2>7. network[n].flush # f /\ n \in 1 .. N
    <3>1. network[n].flush = r /\ n \in 1 .. N
      BY <1>0, <1>7
    <3>2. f # r
      BY <2>1, <2>3, <1>2, <1>12, <1>n
    <3> QED BY <3>1, <3>2
  <2>8. ~ (End(g) < Received + n /\ Received + n <= End(f))
    BY <2>5, <2>7
  <2>9. End(g) < e + (n + 1) /\ e + (n + 1) <= End(f)
    BY <2>1, <2>5, <1>a
  <2>10. ~ (End(g) < e + n /\ e + n <= End(f))
    BY <2>8, <1>a
  <2>11. End(g) = e + n
    BY <2>6, <2>9, <2>10, <1>b
  <2> QED BY <2>1, <2>2, <2>11, <1>a
<1> QED BY <1>4, <1>5, <1>6, <1>10, <1>11, <1>12, <1>n

-----------------------------------------------------------------------------
\* A step that moves neither bytes nor the history.  PostRecv may open region B, PreRecv
\* and a failure change the phase.
LEMMA QuietStep ==
  ASSUME StreamInv, mConnected' \in BOOLEAN, phase' \in Phases,
         UNCHANGED <<mARegionPointer, mARegionSize, mBRegionSize, mBuffer>>,
         UNCHANGED <<streamVars, mIsKeyShared, historyVars>>,
         mBRegionPointer' = mBRegionPointer \/ (AllocatesB /\ mBRegionPointer' = 0),
         phase' \in {"watch", "receive"} =>
           phase \in {"watch", "receive"} \/ \A p \in DOMAIN packets : ~ Ready(p),
         phase' = "watch" => mARegionSize < Capacity,
         phase' = "receive" => ~ AllocatesB',
         phase' = "handle" => phase = "handle" /\ mBRegionPointer' = mBRegionPointer,
         phase' = "full" => Wrapped,
         asSent /\ ~ swallowed =>
           /\ phase' \notin {"misread", "overrun", "full"}
           /\ phase' \in {"watch", "receive"} => mARegionSize = 0 /\ Received = End(Len(served))
           /\ phase' \in {"watch", "receive", "handle"} => mBRegionPointer = nullptr
  PROVE  StreamInv' /\ served' = served /\ (Wrapped' <=> Wrapped)
<1>0. StreamTypes /\ StreamRegions /\ WaitInv /\ FullOnlyWhenWrapped /\ NetworkInv /\ HandledInv
  BY DEF StreamInv
<1>1. /\ packets' = packets /\ flushed' = flushed /\ network' = network
      /\ mIsKeyShared' = mIsKeyShared
      /\ served' = served /\ asSent' = asSent /\ swallowed' = swallowed
  BY DEF streamVars, historyVars
<1>2. StreamTypes'
  <2>1. mBRegionPointer' \in {nullptr, 0}
    BY <1>0 DEF StreamTypes
  <2> QED BY <1>0, <1>1, <2>1 DEF StreamTypes
<1>3. StreamRegions'
  <2>1. CASE mBRegionPointer' = mBRegionPointer
    BY <1>0, <2>1 DEF StreamRegions, RegionsDisjoint
  <2>2. CASE AllocatesB /\ mBRegionPointer' = 0
    <3>1. /\ mARegionPointer \in Nat /\ mARegionSize \in Nat /\ mBRegionSize \in Nat
          /\ Capacity \in Nat /\ mARegionPointer + mARegionSize <= Capacity
          /\ mARegionSize > 0
      BY <1>0, <2>2, Regions
    <3>2. mBRegionPointer = nullptr /\ mARegionPointer > 0
      BY <2>2, <3>1 DEF AllocatesB, GetAFreeSpace, GetSpaceBeforeA
    <3>3. mBRegionSize = 0
      BY <1>0, <3>2 DEF StreamRegions, RegionsDisjoint
    <3> QED BY <1>0, <2>2, <3>1, <3>2, <3>3 DEF StreamRegions, RegionsDisjoint
  <2> QED BY <2>1, <2>2
<1>4. /\ GetContiguiousBytes' = GetContiguiousBytes
      /\ \A p : Ready(p)' <=> Ready(p)
      /\ Wrapped' <=> Wrapped
  <2>1. mARegionSize = 0 => mBRegionPointer' = mBRegionPointer
    BY <1>0, Regions
  <2>2. GetContiguiousBytes' = GetContiguiousBytes /\ (Wrapped' <=> Wrapped)
    BY DEF GetContiguiousBytes, Wrapped
  <2>3. GetBufferStart' = GetBufferStart
    <3>1. mARegionSize \in Nat
      BY <1>0, Regions
    <3> QED BY <2>1, <3>1 DEF GetBufferStart
  <2>4. \A p : (IsHeaderOf(p)' <=> IsHeaderOf(p)) /\ Size(p)' = Size(p)
    BY <1>1, <2>3, SameStream DEF IsHeaderOf, Front, Plain
  <2> QED BY <2>2, <2>4 DEF Ready
<1>5. WaitInv'
  <2>1. DOMAIN packets' = DOMAIN packets
    BY <1>1
  <2>2. phase' \in {"watch", "receive"} \/ Wrapped' => \A p \in DOMAIN packets : ~ Ready(p)
    BY <1>0, <1>4 DEF WaitInv
  <2>3. phase' = "handle" \/ network' # <<>> => flushed' >= 1
    BY <1>0, <1>1 DEF WaitInv
  <2>4. \A p \in DOMAIN packets' : Ready(p)' <=> Ready(p)
    BY <1>4
  <2> QED BY <2>1, <2>2, <2>3, <2>4 DEF WaitInv
<1>6. FullOnlyWhenWrapped'
  BY <1>4 DEF FullOnlyWhenWrapped
<1>7. NetworkInv' /\ Received' = Received /\ \A i, g : InFlush(i, g) => InFlush(i, g)'
  BY <1>0, <1>1, SameNetwork
<1>8. HandledInv'
  <2> SUFFICES ASSUME asSent, ~ swallowed
               PROVE  /\ phase' \notin {"misread", "overrun", "full"}
                      /\ \A i \in DOMAIN served' : served'[i] = [packet |-> i, plain |-> TRUE]
                      /\ Len(served') <= flushed'
                      /\ mIsKeyShared' => Len(served') >= 1
                      /\ network' # <<>> => \E g \in Nat : InFlush(1, g)' /\ End(g)' = Received'
                      /\ BufferInv'
    BY <1>1 DEF HandledInv
  <2>1. network' # <<>> => \E g \in Nat : InFlush(1, g)' /\ End(g)' = Received'
    <3> SUFFICES ASSUME network' # <<>>
                 PROVE  \E g \in Nat : InFlush(1, g)' /\ End(g)' = Received'
      OBVIOUS
    <3>1. PICK g \in Nat : InFlush(1, g) /\ End(g) = Received
      BY <1>0, <1>1 DEF HandledInv
    <3>2. End(g)' = End(g)
      BY <1>1, SameStream
    <3> QED BY <3>1, <3>2, <1>7
  <2>2. BufferInv'
    <3>1. BufferInv
      BY <1>0 DEF HandledInv
    <3>2. End(Len(served))' = End(Len(served))
      BY <1>1 DEF End, EndIn
    <3>3. \A r : End(r)' = End(r)
      BY <1>1, SameStream
    <3>4. phase' \in {"watch", "receive"} =>
            mARegionSize' = 0 /\ Received' = End(Len(served))'
      BY <1>7, <3>2
    <3>5. phase' = "handle" =>
            /\ \E r \in Len(served') + 1 .. flushed' : Received' = End(r)'
            /\ mARegionSize' = Received' - End(Len(served))'
            /\ \A i \in 0 .. mARegionSize' - 1 :
                 mBuffer'[mARegionPointer' + i] = Byte(End(Len(served)) + i + 1, {})'
      <4> SUFFICES ASSUME phase' = "handle"
                   PROVE  /\ \E r \in Len(served') + 1 .. flushed' : Received' = End(r)'
                          /\ mARegionSize' = Received' - End(Len(served))'
                          /\ \A i \in 0 .. mARegionSize' - 1 :
                               mBuffer'[mARegionPointer' + i]
                                 = Byte(End(Len(served)) + i + 1, {})'
        OBVIOUS
      <4>1. /\ \E r \in Len(served) + 1 .. flushed : Received = End(r)
            /\ mARegionSize = Received - End(Len(served))
            /\ \A i \in 0 .. mARegionSize - 1 :
                 mBuffer[mARegionPointer + i] = Byte(End(Len(served)) + i + 1, {})
        BY <3>1 DEF BufferInv
      <4> QED BY <4>1, <1>1, <1>7, <3>2, <3>3 DEF Byte
    <3>6. phase' \in {"watch", "receive", "handle"} => mBRegionPointer' = nullptr
      <4> SUFFICES ASSUME phase' \in {"watch", "receive", "handle"}
                   PROVE  mBRegionPointer' = nullptr
        OBVIOUS
      <4>1. CASE mBRegionPointer' = mBRegionPointer
        BY <4>1
      <4>2. CASE AllocatesB /\ mBRegionPointer' = 0
        <5>1. mARegionSize = 0 => ~ AllocatesB
          BY <1>0, Regions
        <5>2. phase' = "handle"
          BY <4>2, <5>1
        <5> QED BY <5>2
      <4> QED BY <4>1, <4>2
    <3> QED BY <3>4, <3>5, <3>6 DEF BufferInv
  <2>3. /\ \A i \in DOMAIN served' : served'[i] = [packet |-> i, plain |-> TRUE]
        /\ Len(served') <= flushed'
        /\ mIsKeyShared' => Len(served') >= 1
    BY <1>0, <1>1 DEF HandledInv
  <2> QED BY <2>1, <2>2, <2>3
<1> QED BY <1>1, <1>2, <1>3, <1>4, <1>5, <1>6, <1>7, <1>8 DEF StreamInv

-----------------------------------------------------------------------------
\* While the packets are handled, the next one is at the front, whole and plain.
LEMMA NextPacket ==
  ASSUME StreamInv, asSent, ~ swallowed, phase = "handle"
  PROVE  /\ Len(served) \in Nat /\ Len(served) + 1 \in DOMAIN packets
         /\ Ready(Len(served) + 1)
         /\ Front(Size(Len(served) + 1)) = Plain(End(Len(served)), Size(Len(served) + 1))
<1> DEFINE d == Len(served)
<1>0. StreamTypes /\ StreamRegions /\ HandledInv /\ packets \in Streams
  BY DEF StreamInv, StreamTypes
<1>1. /\ \E r \in d + 1 .. flushed : Received = End(r)
      /\ mARegionSize = Received - End(d)
      /\ \A i \in 0 .. mARegionSize - 1 :
           mBuffer[mARegionPointer + i] = Byte(End(d) + i + 1, {})
  BY <1>0 DEF HandledInv, BufferInv
<1>2. d \in Nat /\ flushed \in 0 .. Len(packets) /\ Len(packets) \in Nat
  BY <1>0, Ends DEF StreamTypes
<1> HIDE DEF d
<1>3. PICK r \in d + 1 .. flushed : Received = End(r)
  BY <1>1
<1>4. /\ d + 1 \in DOMAIN packets /\ d + 1 \in 0 .. Len(packets) /\ d \in 0 .. Len(packets)
      /\ r \in 0 .. Len(packets) /\ (r = d + 1 \/ d + 1 < r) /\ (d + 1) - 1 = d
  BY <1>0, <1>2, <1>3, Ends
<1>5. /\ End(d) \in Nat /\ End(d + 1) \in Nat /\ End(r) \in Nat
      /\ (d + 1 < r => End(d + 1) < End(r))
      /\ Size(d + 1) \in HeaderSize .. Capacity - 1
      /\ HeaderSize \in Nat \ {0} /\ Capacity \in Nat
  BY <1>0, <1>4, Ends
<1>6. End(d + 1) <= End(r)
  BY <1>4, <1>5
<1>7. Size(d + 1) = End(d + 1) - End(d)
  BY <1>4 DEF Size
<1>8. PICK s \in Nat : s = Size(d + 1)
  BY <1>5
<1>9. s <= mARegionSize /\ HeaderSize <= s /\ mARegionSize \in Nat /\ mARegionSize > 0
      /\ mARegionPointer \in Nat
  <2>1. mARegionSize \in Nat /\ mARegionPointer \in Nat
    BY <1>0, Regions
  <2>2. mARegionSize = End(r) - End(d)
    BY <1>1, <1>3
  <2>3. s = End(d + 1) - End(d) /\ HeaderSize <= s
    BY <1>5, <1>7, <1>8
  <2> QED BY <2>1, <2>2, <2>3, <1>5, <1>6
<1>10. GetContiguiousBytes = mARegionSize /\ GetBufferStart = mARegionPointer
  BY <1>0, <1>9, Regions
<1>11. ASSUME NEW k \in Nat, k <= s
       PROVE  Front(k) = Plain(End(d), k)
  <2>1. \A i \in 1 .. k : mBuffer[GetBufferStart + i - 1] = Byte(End(d) + i, {})
    <3> TAKE i \in 1 .. k
    <3>1. PICK j \in 0 .. mARegionSize - 1 : j = i - 1
      BY <1>9, <1>8, <1>11
    <3>2. mBuffer[mARegionPointer + j] = Byte(End(d) + j + 1, {})
      BY <1>1
    <3>3. mARegionPointer + j = GetBufferStart + i - 1 /\ End(d) + j + 1 = End(d) + i
      BY <3>1, <1>5, <1>9, <1>10
    <3> QED BY <3>2, <3>3
  <2> QED BY <2>1 DEF Front, Plain
<1>12. IsHeaderOf(d + 1)
  <2>1. HeaderSize \in Nat /\ HeaderSize <= s
    BY <1>5, <1>9
  <2>2. Front(HeaderSize) = Plain(End(d), HeaderSize)
    BY <2>1, <1>11
  <2> QED BY <2>2, <1>4 DEF IsHeaderOf
<1>13. Front(s) = Plain(End(d), s)
  BY <1>8, <1>11
<1>14. HeaderSize <= GetContiguiousBytes /\ s <= GetContiguiousBytes
  BY <1>5, <1>8, <1>9, <1>10
<1> QED BY <1>2, <1>4, <1>5, <1>8, <1>12, <1>13, <1>14 DEF Ready, d

\* Then a packet whose header is read is the next one.
LEMMA NextHeader ==
  ASSUME StreamInv, asSent, ~ swallowed, phase = "handle",
         NEW p \in DOMAIN packets, IsHeaderOf(p)
  PROVE  p = Len(served) + 1
<1>1. packets \in Streams
  BY DEF StreamInv, StreamTypes
<1>2. Len(served) + 1 \in DOMAIN packets /\ IsHeaderOf(Len(served) + 1)
  BY NextPacket DEF Ready
<1>3. PICK q \in DOMAIN packets : q = Len(served) + 1
  BY <1>2
<1> QED BY <1>1, <1>2, <1>3, OneHeader

-----------------------------------------------------------------------------
\* A flush of the client.
LEMMA StreamClientFlush ==
  ASSUME StreamInv, NEW last \in flushed + 1 .. Len(packets), ClientFlush(last)
  PROVE  StreamInv' /\ served' = served /\ (Wrapped' <=> Wrapped)
<1>0. StreamTypes /\ StreamRegions /\ WaitInv /\ FullOnlyWhenWrapped /\ NetworkInv /\ HandledInv
  BY DEF StreamInv
<1>1. /\ packets' = packets /\ flushed' = last
      /\ mIsKeyShared' = mIsKeyShared /\ mConnected' = mConnected /\ phase' = phase
      /\ served' = served /\ asSent' = asSent /\ swallowed' = swallowed
      /\ UNCHANGED regionVars /\ mBuffer' = mBuffer
      /\ mARegionPointer' = mARegionPointer /\ mARegionSize' = mARegionSize
      /\ mBRegionPointer' = mBRegionPointer /\ mBRegionSize' = mBRegionSize
  BY DEF ClientFlush, historyVars, vars, regionVars
<1>2. /\ NetworkInv' /\ Received' = Received
      /\ network' \in Seq(Sent) /\ network' # <<>>
      /\ \A i \in 1 .. Len(network), g \in Nat : InFlush(i, g) => InFlush(i, g)'
      /\ network = <<>> => \E g \in Nat : InFlush(1, g)' /\ End(g) = Received'
  BY <1>0, FlushNetwork
<1>3. flushed \in Nat /\ last \in Nat /\ flushed < last /\ last \in 0 .. Len(packets)
  BY <1>0, Ends DEF StreamTypes
<1>4. /\ GetContiguiousBytes' = GetContiguiousBytes
      /\ \A p : Ready(p)' <=> Ready(p)
      /\ Wrapped' <=> Wrapped
      /\ StreamRegions'
  BY <1>0, <1>1, SameBuffer
<1>5. StreamTypes'
  BY <1>0, <1>1, <1>2, <1>3 DEF StreamTypes
<1>6. WaitInv'
  <2>1. AllocatesB' <=> AllocatesB
    BY <1>1 DEF AllocatesB, GetAFreeSpace, GetSpaceBeforeA
  <2>2. \A p \in DOMAIN packets' : Ready(p)' <=> Ready(p)
    BY <1>4
  <2> QED BY <1>0, <1>1, <1>3, <1>4, <2>1, <2>2 DEF WaitInv
<1>7. FullOnlyWhenWrapped'
  BY <1>0, <1>1, <1>4 DEF FullOnlyWhenWrapped
<1>8. HandledInv'
  <2> SUFFICES ASSUME asSent, ~ swallowed
               PROVE  /\ phase' \notin {"misread", "overrun", "full"}
                      /\ \A i \in DOMAIN served' : served'[i] = [packet |-> i, plain |-> TRUE]
                      /\ Len(served') <= flushed'
                      /\ mIsKeyShared' => Len(served') >= 1
                      /\ network' # <<>> => \E g \in Nat : InFlush(1, g)' /\ End(g)' = Received'
                      /\ BufferInv'
    BY <1>1 DEF HandledInv
  <2>1. \A r : End(r)' = End(r)
    BY <1>1, SameStream
  <2>2. \E g \in Nat : InFlush(1, g)' /\ End(g)' = Received'
    <3>1. CASE network = <<>>
      <4>1. PICK g \in Nat : InFlush(1, g)' /\ End(g) = Received'
        BY <3>1, <1>2
      <4> QED BY <4>1, <2>1
    <3>2. CASE network # <<>>
      <4>1. PICK g \in Nat : InFlush(1, g) /\ End(g) = Received
        BY <1>0, <3>2 DEF HandledInv
      <4>2. 1 \in 1 .. Len(network)
        BY <1>0, <3>2 DEF StreamTypes
      <4>3. InFlush(1, g)'
        BY <4>1, <4>2, <1>2
      <4> QED BY <4>1, <4>3, <2>1, <1>2
    <3> QED BY <3>1, <3>2
  <2>3. BufferInv'
    <3>1. BufferInv
      BY <1>0 DEF HandledInv
    <3>2. End(Len(served))' = End(Len(served))
      BY <1>1 DEF End, EndIn
    <3>3. phase' = "handle" =>
            /\ \E r \in Len(served') + 1 .. flushed' : Received' = End(r)'
            /\ mARegionSize' = Received' - End(Len(served))'
            /\ \A i \in 0 .. mARegionSize' - 1 :
                 mBuffer'[mARegionPointer' + i] = Byte(End(Len(served)) + i + 1, {})'
      <4> SUFFICES ASSUME phase = "handle"
                   PROVE  /\ \E r \in Len(served') + 1 .. flushed' : Received' = End(r)'
                          /\ mARegionSize' = Received' - End(Len(served))'
                          /\ \A i \in 0 .. mARegionSize' - 1 :
                               mBuffer'[mARegionPointer' + i]
                                 = Byte(End(Len(served)) + i + 1, {})'
        BY <1>1
      <4>1. /\ \E r \in Len(served) + 1 .. flushed : Received = End(r)
            /\ mARegionSize = Received - End(Len(served))
            /\ \A i \in 0 .. mARegionSize - 1 :
                 mBuffer[mARegionPointer + i] = Byte(End(Len(served)) + i + 1, {})
        BY <3>1 DEF BufferInv
      <4>2. PICK r \in Len(served) + 1 .. flushed : Received = End(r)
        BY <4>1
      <4>3. r \in Len(served') + 1 .. flushed' /\ Received' = End(r)'
        <5>1. Len(served) \in Nat
          BY <1>0 DEF StreamTypes
        <5>2. r \in Len(served) + 1 .. last
          BY <5>1, <1>3
        <5> QED BY <5>2, <4>2, <1>1, <1>2, <2>1
      <4>4. /\ mARegionSize' = Received' - End(Len(served))'
            /\ \A i \in 0 .. mARegionSize' - 1 :
                 mBuffer'[mARegionPointer' + i] = Byte(End(Len(served)) + i + 1, {})'
        BY <4>1, <1>1, <1>2, <3>2 DEF Byte
      <4> QED BY <4>3, <4>4
    <3>4. phase' \in {"watch", "receive"} =>
            mARegionSize' = 0 /\ Received' = End(Len(served))'
      BY <3>1, <3>2, <1>1, <1>2 DEF BufferInv
    <3>5. phase' \in {"watch", "receive", "handle"} => mBRegionPointer' = nullptr
      BY <3>1, <1>1 DEF BufferInv
    <3> QED BY <3>3, <3>4, <3>5 DEF BufferInv
  <2>4. /\ phase' \notin {"misread", "overrun", "full"}
        /\ \A i \in DOMAIN served' : served'[i] = [packet |-> i, plain |-> TRUE]
        /\ mIsKeyShared' => Len(served') >= 1
    BY <1>0, <1>1 DEF HandledInv
  <2>5. Len(served') <= flushed'
    <3>1. Len(served) <= flushed /\ Len(served) \in Nat
      BY <1>0 DEF HandledInv, StreamTypes
    <3> QED BY <3>1, <1>1, <1>3
  <2> QED BY <2>2, <2>3, <2>4, <2>5
<1> QED BY <1>1, <1>2, <1>4, <1>5, <1>6, <1>7, <1>8 DEF StreamInv

\* Anybody disconnects the session.
LEMMA StreamDisconnect ==
  ASSUME StreamInv, Disconnect
  PROVE  StreamInv' /\ served' = served /\ (Wrapped' <=> Wrapped)
<1>0. StreamTypes /\ WaitInv /\ FullOnlyWhenWrapped /\ HandledInv
  BY DEF StreamInv
<1>1. /\ mConnected' = FALSE /\ phase' = phase
      /\ UNCHANGED <<mARegionPointer, mARegionSize, mBRegionSize, mBuffer>>
      /\ UNCHANGED <<streamVars, mIsKeyShared, historyVars>>
      /\ mBRegionPointer' = mBRegionPointer
  BY DEF Disconnect, vars, regionVars
<1>2. phase' \in Phases
  BY <1>0, <1>1 DEF StreamTypes
<1>3. phase' = "watch" => mARegionSize < Capacity
  BY <1>0, <1>1 DEF WaitInv
<1>4. phase' = "receive" => ~ AllocatesB'
  BY <1>0, <1>1 DEF WaitInv, AllocatesB, GetAFreeSpace, GetSpaceBeforeA
<1>5. phase' = "full" => Wrapped
  BY <1>0, <1>1 DEF FullOnlyWhenWrapped
<1>6. asSent /\ ~ swallowed =>
        /\ phase' \notin {"misread", "overrun", "full"}
        /\ phase' \in {"watch", "receive"} => mARegionSize = 0 /\ Received = End(Len(served))
        /\ phase' \in {"watch", "receive", "handle"} => mBRegionPointer = nullptr
  BY <1>0, <1>1 DEF HandledInv, BufferInv
<1>7. mConnected' \in BOOLEAN
  BY <1>1
<1> QED BY <1>1, <1>2, <1>3, <1>4, <1>5, <1>6, <1>7, QuietStep

-----------------------------------------------------------------------------
\* The zero-byte receive has completed.
LEMMA StreamPostRecv ==
  ASSUME StreamInv, PostRecv
  PROVE  StreamInv' /\ served' = served /\ (Wrapped' <=> Wrapped)
<1>0. StreamTypes /\ StreamRegions /\ WaitInv /\ FullOnlyWhenWrapped /\ HandledInv
  BY DEF StreamInv
<1>1. /\ phase = "watch"
      /\ UNCHANGED <<mARegionPointer, mARegionSize, mBRegionSize, mBuffer>>
      /\ UNCHANGED <<streamVars, mIsKeyShared, historyVars>>
  BY DEF PostRecv, regionVars
<1>2. /\ mARegionPointer \in Nat /\ mARegionSize \in Nat /\ mBRegionSize \in Nat
      /\ Capacity \in Nat /\ mARegionPointer + mARegionSize <= Capacity
      /\ mBRegionPointer \in {nullptr, 0} /\ nullptr = -1
      /\ mARegionSize < Capacity
  BY <1>0, <1>1, Regions DEF StreamTypes, WaitInv, nullptr
<1>3. CASE ~ mConnected
  <2>1. phase' = "ended" /\ mConnected' = mConnected /\ mBRegionPointer' = mBRegionPointer
    BY <1>3 DEF PostRecv, regionVars
  <2>2. phase' \in Phases /\ mConnected' \in BOOLEAN
    BY <2>1, <1>0 DEF Phases, StreamTypes
  <2> QED BY <1>1, <2>1, <2>2, QuietStep
<1>4. CASE mConnected
  <2>1. /\ mBRegionPointer' = IF AllocatesB THEN 0 ELSE mBRegionPointer
        /\ phase' = IF GetFreeSpaceSize = 0 THEN "full" ELSE "receive"
        /\ mConnected' = (GetFreeSpaceSize # 0)
    BY <1>4 DEF PostRecv
  <2>2. phase' \in Phases /\ mConnected' \in BOOLEAN /\ phase' \in {"full", "receive"}
    BY <2>1 DEF Phases
  <2>3. mBRegionPointer' = mBRegionPointer \/ (AllocatesB /\ mBRegionPointer' = 0)
    BY <2>1
  <2>4. ~ AllocatesB'
    BY <1>1, <1>2, <2>1 DEF AllocatesB, GetAFreeSpace, GetSpaceBeforeA
  <2>5. GetFreeSpaceSize = 0 => Wrapped
    <3> SUFFICES ASSUME GetFreeSpaceSize = 0
                 PROVE  Wrapped
      OBVIOUS
    <3>1. ~ AllocatesB
      BY <1>2 DEF GetFreeSpaceSize, AllocatesB, GetAFreeSpace, GetSpaceBeforeA
    <3>2. CASE mBRegionPointer # nullptr
      <4>1. mARegionPointer > 0 /\ mARegionPointer - mBRegionPointer - mBRegionSize = 0
        BY <1>0, <3>1, <3>2 DEF StreamRegions, GetFreeSpaceSize
      <4> QED BY <1>2, <3>2, <4>1 DEF Wrapped
    <3>3. CASE mBRegionPointer = nullptr
      BY <1>2, <3>1, <3>3 DEF GetFreeSpaceSize, AllocatesB, GetAFreeSpace, GetSpaceBeforeA
    <3> QED BY <3>2, <3>3
  <2>6. asSent /\ ~ swallowed =>
          /\ phase' \notin {"misread", "overrun", "full"}
          /\ phase' \in {"watch", "receive"} => mARegionSize = 0 /\ Received = End(Len(served))
          /\ phase' \in {"watch", "receive", "handle"} => mBRegionPointer = nullptr
    <3> SUFFICES ASSUME asSent, ~ swallowed
                 PROVE  /\ phase' = "receive"
                        /\ mARegionSize = 0 /\ Received = End(Len(served))
                        /\ mBRegionPointer = nullptr
      OBVIOUS
    <3>1. mARegionSize = 0 /\ Received = End(Len(served)) /\ mBRegionPointer = nullptr
      BY <1>0, <1>1 DEF HandledInv, BufferInv
    <3>2. GetFreeSpaceSize = Capacity /\ Capacity # 0
      BY <1>0, <1>2, <3>1, Regions
    <3> QED BY <2>1, <3>1, <3>2
  <2>7. phase' = "full" => Wrapped
    BY <2>1, <2>5
  <2> QED BY <1>1, <2>2, <2>3, <2>4, <2>6, <2>7, QuietStep
<1> QED BY <1>3, <1>4

\* The receive fails, as the socket is closed.
LEMMA StreamRecvFailed ==
  ASSUME StreamInv, RecvFailed
  PROVE  StreamInv' /\ served' = served /\ (Wrapped' <=> Wrapped)
<1>1. /\ phase' = "ended" /\ mConnected' = mConnected
      /\ UNCHANGED <<mARegionPointer, mARegionSize, mBRegionSize, mBuffer>>
      /\ UNCHANGED <<streamVars, mIsKeyShared, historyVars>>
      /\ mBRegionPointer' = mBRegionPointer
  BY DEF RecvFailed, vars, regionVars
<1>2. phase' \in Phases /\ mConnected' \in BOOLEAN
  BY <1>1 DEF Phases, StreamInv, StreamTypes
<1> QED BY <1>1, <1>2, QuietStep

\* PacketHandling finds no whole packet: the worker waits for more.
LEMMA StreamPacketIncomplete ==
  ASSUME StreamInv, PacketIncomplete
  PROVE  StreamInv' /\ served' = served /\ (Wrapped' <=> Wrapped)
<1>0. StreamTypes /\ StreamRegions /\ packets \in Streams
  BY DEF StreamInv, StreamTypes
<1>1. /\ phase = "handle" /\ phase' \in {"watch", "ended"} /\ mConnected' = mConnected
      /\ UNCHANGED <<mARegionPointer, mARegionSize, mBRegionSize, mBuffer>>
      /\ UNCHANGED <<streamVars, mIsKeyShared, historyVars>>
      /\ mBRegionPointer' = mBRegionPointer
  BY DEF PacketIncomplete, PreRecv, vars, regionVars
<1>2. phase' \in Phases /\ mConnected' \in BOOLEAN
  BY <1>0, <1>1 DEF Phases, StreamTypes
<1>3. HeaderSize \in Nat /\ HeaderSize < Capacity /\ Capacity \in Nat
      /\ GetContiguiousBytes = mARegionSize /\ mARegionSize \in Nat
      /\ \A p \in DOMAIN packets : Size(p) \in HeaderSize .. Capacity - 1
  <2>1. /\ HeaderSize \in Nat /\ Capacity \in Nat
        /\ Len(packets) \in Nat /\ DOMAIN packets = 1 .. Len(packets)
        /\ \A p \in DOMAIN packets : Size(p) \in HeaderSize .. Capacity - 1
    BY <1>0, Ends
  <2>2. GetContiguiousBytes = mARegionSize /\ mARegionSize \in Nat
    BY <1>0, Regions
  <2>3. 1 \in DOMAIN packets
    BY <2>1, <1>1 DEF StreamInv, StreamTypes, WaitInv
  <2>4. Size(1) \in HeaderSize .. Capacity - 1
    BY <2>1, <2>3
  <2> QED BY <2>1, <2>2, <2>4
<1>4. ASSUME NEW p \in DOMAIN packets, Ready(p)
      PROVE  FALSE
  <2>1. GetContiguiousBytes >= HeaderSize /\ IsHeaderOf(p) /\ Size(p) <= GetContiguiousBytes
    BY <1>4 DEF Ready
  <2>2. PICK q \in DOMAIN packets : IsHeaderOf(q) /\ GetContiguiousBytes < Size(q)
    BY <2>1, <1>3 DEF PacketIncomplete
  <2>3. p = q
    BY <2>1, <2>2, <1>0, OneHeader
  <2> QED BY <2>1, <2>2, <2>3, <1>3
<1>5. mARegionSize < Capacity
  BY <1>0, <1>3 DEF PacketIncomplete
<1>6. ~ (asSent /\ ~ swallowed)
  BY <1>1, <1>4, NextPacket
<1> QED BY <1>1, <1>2, <1>4, <1>5, <1>6, QuietStep

\* What is no header is taken for one.
LEMMA StreamPacketMisread ==
  ASSUME StreamInv, PacketMisread
  PROVE  StreamInv' /\ served' = served /\ (Wrapped' <=> Wrapped)
<1>1. /\ phase = "handle" /\ phase' = "misread" /\ mConnected' = mConnected
      /\ UNCHANGED <<mARegionPointer, mARegionSize, mBRegionSize, mBuffer>>
      /\ UNCHANGED <<streamVars, mIsKeyShared, historyVars>>
      /\ mBRegionPointer' = mBRegionPointer
  BY DEF PacketMisread, vars, regionVars
<1>2. phase' \in Phases /\ mConnected' \in BOOLEAN
  BY <1>1 DEF Phases, StreamInv, StreamTypes
<1>3. ~ (asSent /\ ~ swallowed)
  BY <1>1, NextPacket DEF PacketMisread, Ready
<1> QED BY <1>1, <1>2, <1>3, QuietStep

-----------------------------------------------------------------------------
\* A packet is handled and taken out of the buffer, alone or with all behind it.
LEMMA HandleStep ==
  ASSUME StreamInv, NEW p \in DOMAIN packets, Complete(p), Serve(p),
         NEW len \in {Size(p), GetContiguiousBytes}, Remove(len),
         UNCHANGED streamVars, mConnected' = mConnected, asSent' = asSent,
         mIsKeyShared' \in BOOLEAN, mIsKeyShared => mIsKeyShared',
         IF len = GetContiguiousBytes THEN PreRecv ELSE phase' = phase,
         swallowed' = (swallowed \/ Size(p) < len)
  PROVE  StreamInv' /\ ~ Wrapped
<1>0. /\ StreamTypes /\ StreamRegions /\ WaitInv /\ NetworkInv /\ HandledInv
      /\ packets \in Streams
  BY DEF StreamInv, StreamTypes
<1>1. /\ phase = "handle" /\ GetContiguiousBytes >= HeaderSize /\ IsHeaderOf(p)
      /\ Size(p) <= GetContiguiousBytes
  BY DEF Complete
<1>2. ~ Wrapped
  BY <1>0, <1>1 DEF WaitInv, Ready
<1>3. /\ packets' = packets /\ flushed' = flushed /\ network' = network
  BY DEF streamVars
<1>4. /\ Size(p) \in HeaderSize .. Capacity - 1 /\ HeaderSize \in Nat \ {0}
      /\ Capacity \in Nat \ {0} /\ Len(packets) \in Nat /\ DOMAIN packets = 1 .. Len(packets)
  BY <1>0, Ends
<1>5. GetContiguiousBytes = mARegionSize /\ mARegionSize \in Nat /\ mARegionPointer \in Nat
  BY <1>0, Regions
<1>6. /\ len \in 1 .. GetContiguiousBytes /\ Size(p) <= len /\ len \in Nat
      /\ len <= mARegionSize
  BY <1>1, <1>4, <1>5
<1>7. mBRegionSize = 0
  BY <1>0, <1>2 DEF Wrapped, StreamTypes
<1>8. /\ mARegionPointer' \in 0 .. Capacity /\ mARegionSize' \in 0 .. Capacity
      /\ mBRegionPointer' \in {nullptr, 0} /\ mBRegionSize' \in 0 .. Capacity
      /\ StreamRegions' /\ mARegionSize' < Capacity
      /\ len < mARegionSize =>
           /\ mARegionPointer' = mARegionPointer + len
           /\ mARegionSize' = mARegionSize - len
           /\ UNCHANGED <<mBRegionPointer, mBRegionSize, mBuffer>>
      /\ len = mARegionSize =>
           /\ mARegionPointer' = 0 /\ mARegionSize' = mBRegionSize
           /\ mBRegionPointer' = nullptr /\ mBRegionSize' = 0
  BY <1>0, <1>6, Removed
<1>9. mBRegionSize' = 0 /\ ~ Wrapped'
  BY <1>5, <1>6, <1>7, <1>8 DEF Wrapped
<1>10. /\ phase' \in {"watch", "handle", "ended"}
       /\ len = mARegionSize => phase' \in {"watch", "ended"}
       /\ len # mARegionSize => phase' = "handle"
  BY <1>1, <1>5 DEF PreRecv
<1>11. served' = Append(served, [packet |-> p,
                                 plain |-> Front(Size(p)) = Plain(End(p - 1), Size(p))])
  BY DEF Serve
<1>12. PICK b \in BOOLEAN : b = (Front(Size(p)) = Plain(End(p - 1), Size(p)))
  OBVIOUS
<1>13. /\ served' \in Seq([packet : Nat, plain : BOOLEAN])
       /\ Len(served') = Len(served) + 1 /\ Len(served) \in Nat
       /\ DOMAIN served' = 1 .. Len(served) + 1 /\ DOMAIN served = 1 .. Len(served)
       /\ \A i \in 1 .. Len(served) : served'[i] = served[i]
       /\ served'[Len(served) + 1] = [packet |-> p, plain |-> b]
  <2> DEFINE R == [packet : Nat, plain : BOOLEAN]
             e == [packet |-> p, plain |-> b]
  <2>1. served \in Seq(R) /\ e \in R /\ served' = Append(served, e)
    BY <1>0, <1>4, <1>11, <1>12 DEF StreamTypes
  <2> HIDE DEF R, e
  <2>2. /\ served' \in Seq(R)
        /\ Len(served') = Len(served) + 1 /\ Len(served) \in Nat
        /\ DOMAIN served' = 1 .. Len(served) + 1 /\ DOMAIN served = 1 .. Len(served)
        /\ \A i \in 1 .. Len(served) : served'[i] = served[i]
        /\ served'[Len(served) + 1] = e
    BY <2>1
  <2> QED BY <2>2 DEF R, e
<1>14. StreamTypes'
  <2>1. phase' \in Phases /\ swallowed' \in BOOLEAN
    BY <1>0, <1>10 DEF Phases, StreamTypes
  <2> QED BY <1>0, <1>3, <1>8, <1>13, <2>1 DEF StreamTypes
<1>15. WaitInv'
  <2>1. ASSUME phase' \in {"watch", "receive"}, NEW q \in DOMAIN packets', Ready(q)'
        PROVE  FALSE
    <3>1. len = mARegionSize
      BY <2>1, <1>10
    <3>2. GetContiguiousBytes' = 0
      BY <3>1, <1>7, <1>8 DEF GetContiguiousBytes
    <3>3. GetContiguiousBytes' >= HeaderSize
      BY <2>1 DEF Ready
    <3> QED BY <3>2, <3>3, <1>4
  <2>2. flushed >= 1
    BY <1>0, <1>1 DEF WaitInv
  <2> QED BY <2>1, <2>2, <1>3, <1>8, <1>9, <1>10 DEF WaitInv
<1>16. FullOnlyWhenWrapped'
  BY <1>10 DEF FullOnlyWhenWrapped
<1>17. NetworkInv' /\ Received' = Received /\ \A i, g : InFlush(i, g) => InFlush(i, g)'
  BY <1>0, SameNetwork
<1>s. Size(p) < len \/ Size(p) = len
  BY <1>4, <1>6
<1>t. ~ swallowed' => ~ swallowed /\ ~ (Size(p) < len)
  OBVIOUS
<1>18. HandledInv'
  <2> SUFFICES ASSUME asSent, ~ swallowed, Size(p) = len
               PROVE  /\ phase' \notin {"misread", "overrun", "full"}
                      /\ \A i \in DOMAIN served' : served'[i] = [packet |-> i, plain |-> TRUE]
                      /\ Len(served') <= flushed'
                      /\ mIsKeyShared' => Len(served') >= 1
                      /\ network' # <<>> => \E g \in Nat : InFlush(1, g)' /\ End(g)' = Received'
                      /\ BufferInv'
    BY <1>s, <1>t DEF HandledInv
  <2> DEFINE d == Len(served)
  <2>1. p = d + 1
    BY <1>1, NextHeader, <1>0
  <2>2. Front(Size(p)) = Plain(End(d), Size(p))
    BY <2>1, <1>1, NextPacket
  <2>3. d \in Nat /\ p - 1 = d /\ b = TRUE
    BY <1>12, <1>13, <2>1, <2>2
  <2>4. \A i \in DOMAIN served' : served'[i] = [packet |-> i, plain |-> TRUE]
    <3>1. \A i \in 1 .. d : served[i] = [packet |-> i, plain |-> TRUE]
      BY <1>0, <1>13 DEF HandledInv
    <3>2. \A i \in 1 .. d + 1 : i \in 1 .. d \/ i = d + 1
      BY <2>3
    <3> QED BY <3>1, <3>2, <1>13, <2>1, <2>3
  <2>5. /\ \E r \in d + 1 .. flushed : Received = End(r)
        /\ mARegionSize = Received - End(d)
        /\ \A i \in 0 .. mARegionSize - 1 :
             mBuffer[mARegionPointer + i] = Byte(End(d) + i + 1, {})
        /\ mBRegionPointer = nullptr
    BY <1>0, <1>1 DEF HandledInv, BufferInv
  <2>s. Len(served') = d + 1
    BY <1>13
  <2> HIDE DEF d
  <2>6. PICK r \in d + 1 .. flushed : Received = End(r)
    BY <2>5
  <2>7. /\ d \in 0 .. Len(packets) /\ p \in 0 .. Len(packets) /\ r \in 0 .. Len(packets)
        /\ flushed \in 0 .. Len(packets) /\ p <= flushed /\ (r = p \/ r \in p + 1 .. flushed)
    BY <1>0, <1>4, <2>1, <2>3, <2>6 DEF StreamTypes
  <2>8. /\ End(d) \in Nat /\ End(p) \in Nat /\ End(r) \in Nat
        /\ len = End(p) - End(d)
    <3>1. Size(p) = End(p) - End(d)
      BY <2>3 DEF Size
    <3> QED BY <3>1, <2>7, <1>0, Ends
  <2>9. \A q : End(q)' = End(q)
    BY <1>3, SameStream
  <2>10. End(Len(served))' = End(p)
    <3>1. PICK m : m = Len(served')
      OBVIOUS
    <3>2. m = p
      BY <3>1, <2>s, <2>1
    <3> QED BY <3>1, <3>2, <1>3 DEF End, EndIn
  <2>11. BufferInv'
    <3>1. CASE len = mARegionSize
      <4>1. End(r) - End(d) = End(p) - End(d)
        BY <3>1, <2>5, <2>6, <2>8
      <4>2. End(r) = End(p)
        BY <4>1, <2>8
      <4>3. Received' = End(Len(served))' /\ mARegionSize' = 0 /\ mBRegionPointer' = nullptr
        BY <4>2, <3>1, <2>6, <2>10, <1>7, <1>8, <1>17
      <4>4. phase' \in {"watch", "ended"}
        BY <3>1, <1>10
      <4> QED BY <4>3, <4>4 DEF BufferInv
    <3>2. CASE len # mARegionSize
      <4>1. /\ len < mARegionSize /\ phase' = "handle"
            /\ mARegionPointer' = mARegionPointer + len
            /\ mARegionSize' = mARegionSize - len
            /\ UNCHANGED <<mBRegionPointer, mBRegionSize, mBuffer>>
        BY <3>2, <1>5, <1>6, <1>8, <1>10
      <4>2. r # p
        <5>1. mARegionSize = End(r) - End(d)
          BY <2>5, <2>6
        <5> QED BY <5>1, <4>1, <2>8
      <4>3. r \in Len(served') + 1 .. flushed' /\ Received' = End(r)'
        BY <4>2, <2>1, <2>s, <2>6, <2>7, <2>9, <1>3, <1>17
      <4>4. mARegionSize' = Received' - End(Len(served))'
        <5>1. mARegionSize' = (End(r) - End(d)) - (End(p) - End(d))
          BY <4>1, <2>5, <2>6, <2>8
        <5>2. mARegionSize' = End(r) - End(p)
          BY <5>1, <2>8
        <5> QED BY <5>2, <2>6, <2>10, <1>17
      <4>5. \A i \in 0 .. mARegionSize' - 1 :
              mBuffer'[mARegionPointer' + i] = Byte(End(p) + i + 1, {})
        <5> TAKE i \in 0 .. mARegionSize' - 1
        <5>1. PICK j \in 0 .. mARegionSize - 1 : j = len + i
          BY <4>1, <1>5, <1>6
        <5>2. mBuffer[mARegionPointer + j] = Byte(End(d) + j + 1, {})
          BY <2>5
        <5>3. /\ mARegionPointer' + i = mARegionPointer + j
              /\ End(d) + j + 1 = End(p) + i + 1
          BY <5>1, <4>1, <1>5, <1>6, <2>8
        <5> QED BY <5>2, <5>3, <4>1
      <4>6. \A i \in 0 .. mARegionSize' - 1 :
              mBuffer'[mARegionPointer' + i] = Byte(End(Len(served)) + i + 1, {})'
        BY <4>5, <2>10 DEF Byte
      <4>7. mBRegionPointer' = nullptr
        BY <4>1, <2>5
      <4> QED BY <4>1, <4>3, <4>4, <4>6, <4>7 DEF BufferInv
    <3> QED BY <3>1, <3>2
  <2>12. network' # <<>> => \E g \in Nat : InFlush(1, g)' /\ End(g)' = Received'
    <3> SUFFICES ASSUME network' # <<>>
                 PROVE  \E g \in Nat : InFlush(1, g)' /\ End(g)' = Received'
      OBVIOUS
    <3>1. PICK g \in Nat : InFlush(1, g) /\ End(g) = Received
      BY <1>0, <1>3 DEF HandledInv
    <3> QED BY <3>1, <2>9, <1>17
  <2>13. Len(served') <= flushed' /\ Len(served') >= 1
    BY <2>1, <2>3, <2>7, <2>s, <1>3
  <2> QED BY <2>4, <2>11, <2>12, <2>13, <1>10
<1> QED BY <1>2, <1>8, <1>14, <1>15, <1>16, <1>17, <1>18 DEF StreamInv

-----------------------------------------------------------------------------
\* Where the received bytes go: behind region B, if there is one, or behind region A; they
\* and what is decrypted lie outside a region A that has bytes.
LEMMA RecvRegions ==
  ASSUME StreamInv, NEW n \in 1 .. Len(network), RecvCompletion(n)
  PROVE  /\ mARegionPointer' \in 0 .. Capacity /\ mARegionSize' \in 0 .. Capacity
         /\ mBRegionPointer' \in {nullptr, 0} /\ mBRegionSize' \in 0 .. Capacity
         /\ StreamRegions' /\ mARegionPointer' = mARegionPointer
         /\ mBRegionPointer' = mBRegionPointer
         /\ mBRegionPointer # nullptr =>
              /\ mARegionSize > 0 /\ mARegionSize' = mARegionSize
              /\ \A i \in mARegionPointer .. mARegionPointer + mARegionSize - 1 :
                   mBuffer'[i] = mBuffer[i]
         /\ mBRegionPointer = nullptr => mBRegionSize = 0 /\ mBRegionSize' = 0
<1>0. StreamTypes /\ StreamRegions /\ WaitInv /\ network \in Seq(Sent)
  BY DEF StreamInv, StreamTypes
<1>1. /\ mARegionPointer \in Nat /\ mARegionSize \in Nat /\ mBRegionSize \in Nat
      /\ Capacity \in Nat /\ mARegionPointer + mARegionSize <= Capacity
      /\ mBRegionPointer \in {nullptr, 0} /\ nullptr = -1
      /\ n \in Nat /\ n >= 1
  BY <1>0, Regions DEF StreamTypes, nullptr
<1>2. phase = "receive" /\ n <= GetFreeSpaceSize /\ Commit(n) /\ ~ AllocatesB
  BY <1>0 DEF RecvCompletion, WaitInv
<1>3. mARegionPointer' = mARegionPointer /\ mBRegionPointer' = mBRegionPointer
  BY <1>2 DEF Commit
<1>4. CASE mBRegionPointer = nullptr
  <2>1. n <= Capacity - mARegionPointer - mARegionSize /\ mBRegionSize = 0
    BY <1>0, <1>2, <1>4 DEF GetFreeSpaceSize, GetAFreeSpace, StreamRegions, RegionsDisjoint
  <2>2. mARegionSize' = mARegionSize + n /\ mBRegionSize' = mBRegionSize
    BY <1>2, <1>4 DEF Commit
  <2>3. StreamRegions'
    BY <1>0, <1>1, <1>3, <1>4, <2>1, <2>2 DEF StreamRegions, RegionsDisjoint
  <2> QED BY <1>1, <1>3, <1>4, <2>1, <2>2, <2>3
<1>5. CASE mBRegionPointer # nullptr
  <2>1. /\ mBRegionPointer = 0 /\ n <= mARegionPointer - mBRegionSize
        /\ mARegionSize > 0 /\ mARegionPointer > 0
    BY <1>0, <1>1, <1>2, <1>5 DEF GetFreeSpaceSize, StreamRegions, RegionsDisjoint
  <2>2. mBRegionSize' = mBRegionSize + n /\ mARegionSize' = mARegionSize
    BY <1>2, <1>5 DEF Commit
  <2>3. StreamRegions'
    BY <1>0, <1>1, <1>3, <1>5, <2>1, <2>2 DEF StreamRegions, RegionsDisjoint
  <2>4. GetBuffer = mBRegionSize /\ GetBufferStart' = mARegionPointer
        /\ GetContiguiousBytes = mARegionSize
    BY <1>1, <1>3, <2>1, <2>2, <1>5 DEF GetBuffer, GetBufferStart, GetContiguiousBytes
  <2>5. ASSUME NEW i \in mARegionPointer .. mARegionPointer + mARegionSize - 1
        PROVE  mBuffer'[i] = mBuffer[i]
    <3>1. /\ i \in 0 .. Capacity - 1
          /\ i \notin mBRegionSize .. mBRegionSize + n - 1
          /\ i \notin (mARegionPointer + mARegionSize) ..
                        (mARegionPointer + mARegionSize) + n - 1
      BY <1>1, <2>1
    <3> DEFINE received == SubSeq(network, 1, n)
               filled   == [j \in 0 .. Capacity - 1 |->
                              IF j \in GetBuffer .. GetBuffer + n - 1
                              THEN LET b == received[j - GetBuffer + 1] IN Byte(b.pos, b.keys)
                              ELSE mBuffer[j]]
               from     == GetBufferStart' + GetContiguiousBytes
    <3>2. filled[i] = mBuffer[i]
      BY <3>1, <2>4
    <3>3. mBuffer' = Decrypt(filled, from, n) \/ mBuffer' = filled
      BY DEF RecvCompletion
    <3>4. Decrypt(filled, from, n)[i] = filled[i]
      <4> HIDE DEF filled
      <4>1. i \notin from .. from + n - 1
        BY <3>1, <2>4
      <4> HIDE DEF from
      <4> QED BY <3>1, <4>1 DEF Decrypt
    <3> QED BY <3>2, <3>3, <3>4
  <2> QED BY <1>1, <1>3, <1>5, <2>1, <2>2, <2>3, <2>5
<1> QED BY <1>4, <1>5

\* What a receive of one whole flush puts into an empty buffer is plain when the worker
\* is through with it: the key stream starts anew with each call, at both ends.
LEMMA RecvPlain ==
  ASSUME StreamInv, NEW n \in 1 .. Len(network), RecvCompletion(n), asSent', ~ swallowed
  PROVE  /\ phase' = "handle" /\ mARegionSize' = n
         /\ \E r \in Len(served) + 1 .. flushed : Received + n = End(r)
         /\ Received = End(Len(served))
         /\ \A i \in 0 .. n - 1 :
              mBuffer'[mARegionPointer' + i] = Byte(End(Len(served)) + i + 1, {})
         /\ mBRegionPointer' = nullptr
         /\ n < Len(network) => \E g \in Nat : InFlush(n + 1, g) /\ End(g) = Received + n
<1> DEFINE d == Len(served)
           N == Len(network)
           received == SubSeq(network, 1, n)
           rest     == SubSeq(network, n + 1, N)
           filled   == [j \in 0 .. Capacity - 1 |->
                          IF j \in GetBuffer .. GetBuffer + n - 1
                          THEN LET b == received[j - GetBuffer + 1] IN Byte(b.pos, b.keys)
                          ELSE mBuffer[j]]
           from     == GetBufferStart' + GetContiguiousBytes
<1>0. /\ StreamTypes /\ StreamRegions /\ WaitInv /\ NetworkInv /\ HandledInv
      /\ network \in Seq(Sent) /\ packets \in Streams /\ N \in Nat /\ n \in Nat /\ 1 <= n /\ n <= N
  BY DEF StreamInv, StreamTypes
<1>1. /\ phase = "receive" /\ n <= GetFreeSpaceSize /\ Commit(n) /\ asSent
      /\ \A i \in 1 .. n : received[i].flush = received[1].flush
      /\ rest # <<>> => rest[1].flush # received[1].flush
      /\ mIsKeyShared => /\ mBuffer' = Decrypt(filled, from, n)
                         /\ phase' = IF from + n <= Capacity THEN "handle" ELSE "overrun"
      /\ ~ mIsKeyShared => mBuffer' = filled /\ phase' = "handle"
  BY DEF RecvCompletion
<1>2. /\ mARegionSize = 0 /\ Received = End(d) /\ mBRegionPointer = nullptr
      /\ d <= flushed /\ (mIsKeyShared => d >= 1)
      /\ network # <<>> => \E g \in Nat : InFlush(1, g) /\ End(g) = Received
  BY <1>0, <1>1 DEF HandledInv, BufferInv
<1>3. /\ mARegionPointer = 0 /\ GetFreeSpaceSize = Capacity /\ Capacity \in Nat
      /\ d \in Nat /\ d \in 0 .. flushed
  BY <1>0, <1>2, Regions DEF StreamTypes
<1>4. /\ mARegionSize' = n /\ mARegionPointer' = 0 /\ mBRegionPointer' = nullptr
      /\ mBRegionSize = 0
  BY <1>0, <1>1, <1>2, <1>3 DEF Commit, StreamRegions, RegionsDisjoint
<1>5. GetBuffer = 0 /\ from = 0
  BY <1>0, <1>2, <1>3, <1>4 DEF GetBuffer, GetBufferStart, GetContiguiousBytes
<1>6. /\ \A i \in 1 .. n : received[i] = network[i]
      /\ n < N => rest # <<>> /\ rest[1] = network[n + 1]
  <2>1. \A i \in 1 .. n : network[i] \in Sent
    BY <1>0
  <2>2. \A i \in n + 1 .. N : network[i] \in Sent
    BY <1>0
  <2>3. /\ 1 \in Int /\ n \in Int /\ N \in Int /\ n + 1 \in Int
        /\ \A i \in 1 .. n : i \in 1 .. n - 1 + 1 /\ 1 + i - 1 = i
    BY <1>0
  <2>4. \A i \in 1 .. n - 1 + 1 : received[i] = network[1 + i - 1]
    <3> HIDE DEF N
    <3> QED BY <2>1, <2>3, SubSeqProperties
  <2>5. \A i \in 1 .. n : received[i] = network[i]
    <3> HIDE DEF received
    <3> QED BY <2>3, <2>4
  <2>6. /\ rest \in Seq(Sent)
        /\ Len(rest) = IF n + 1 <= N THEN N - (n + 1) + 1 ELSE 0
        /\ \A i \in 1 .. N - (n + 1) + 1 : rest[i] = network[(n + 1) + i - 1]
    <3> HIDE DEF N
    <3> QED BY <2>2, <2>3, SubSeqProperties
  <2>7. ASSUME n < N
        PROVE  rest # <<>> /\ rest[1] = network[n + 1]
    <3> HIDE DEF rest, N
    <3>1. 1 \in 1 .. N - (n + 1) + 1 /\ (n + 1) + 1 - 1 = n + 1 /\ n + 1 <= N
      BY <2>7, <1>0
    <3>2. rest[1] = network[n + 1]
      BY <3>1, <2>6
    <3>3. Len(rest) # 0
      BY <3>1, <2>6, <1>0
    <3> QED BY <3>2, <3>3
  <2> QED BY <2>5, <2>7
<1>n. N = Len(network) /\ d = Len(served)
  OBVIOUS
<1> HIDE DEF d, N, received, rest
<1>7. PICK h \in Nat : InFlush(1, h) /\ End(h) = Received
  BY <1>0, <1>2, <1>n
<1>8. /\ \A i \in 1 .. n : network[i].flush = network[1].flush
      /\ n < N => network[n + 1].flush # network[1].flush
  <2>1. 1 \in 1 .. n
    BY <1>0
  <2> QED BY <2>1, <1>1, <1>6
<1>9. /\ \E r \in d + 1 .. flushed : Received + n = End(r)
      /\ \A i \in 1 .. n :
           /\ network[i].pos = End(d) + i
           /\ network[i].keys = IF d = 0 THEN {} ELSE {i - 1}
      /\ d # 0 => mIsKeyShared
      /\ n < N => \E g \in Nat : InFlush(n + 1, g) /\ End(g) = Received + n
  <2>1. /\ StreamTypes /\ NetworkInv /\ d \in 0 .. flushed /\ Received = End(d)
        /\ InFlush(1, h) /\ End(h) = Received /\ n \in 1 .. Len(network)
    BY <1>0, <1>2, <1>3, <1>7
  <2>2. /\ \A i \in 1 .. n : network[i].flush = network[1].flush
        /\ n < Len(network) => network[n + 1].flush # network[1].flush
    BY <1>8, <1>n
  <2>3. /\ \E r \in d + 1 .. flushed : Received + n = End(r)
        /\ \A i \in 1 .. n :
             /\ network[i].pos = End(d) + i
             /\ network[i].keys = IF d = 0 THEN {} ELSE {i - 1}
        /\ d # 0 => mIsKeyShared
        /\ n < Len(network) => \E g \in Nat : InFlush(n + 1, g) /\ End(g) = Received + n
    BY <2>1, <2>2, WholeFlush
  <2> QED BY <2>3, <1>n
<1>10. n <= Capacity
  BY <1>1, <1>3
<1>11. phase' = "handle"
  BY <1>0, <1>1, <1>3, <1>5, <1>10
<1>12. ASSUME NEW i \in 0 .. n - 1
       PROVE  filled[i] = Byte(End(d) + i + 1, IF d = 0 THEN {} ELSE {i})
  <2>1. PICK j \in 1 .. n : j = i + 1
    BY <1>0
  <2>2. i \in 0 .. Capacity - 1 /\ i - 0 + 1 = j /\ i \in Int /\ i = j - 1
        /\ i \in 0 .. 0 + n - 1
    BY <2>1, <1>0, <1>3, <1>10
  <2>3. filled[i] = LET b == received[j] IN Byte(b.pos, b.keys)
    BY <2>2, <1>5
  <2>4. filled[i] = Byte(network[j].pos, network[j].keys)
    BY <2>3, <1>6
  <2>5. network[j].pos = End(d) + j /\ network[j].keys = IF d = 0 THEN {} ELSE {j - 1}
    BY <1>9
  <2>6. End(d) + j = End(d) + i + 1
    <3>1. d \in 0 .. Len(packets)
      BY <1>0, <1>3, Ends DEF StreamTypes
    <3>2. End(d) \in Nat
      BY <3>1, <1>0, Ends
    <3> QED BY <3>2, <2>1, <2>2
  <2>7. {j - 1} = {i}
    BY <2>2
  <2> QED BY <2>4, <2>5, <2>6, <2>7
<1> HIDE DEF filled
<1>13. ASSUME NEW i \in 0 .. n - 1
       PROVE  mBuffer'[i] = Byte(End(d) + i + 1, {})
  <2>0. i \in Int /\ i \in 0 .. Capacity - 1 /\ i \in 0 .. 0 + n - 1 /\ i - 0 = i
    BY <1>0, <1>3, <1>10
  <2>1. CASE mIsKeyShared
    <3>0. d # 0
      BY <2>1, <1>2, <1>3
    <3>1. filled[i] = Byte(End(d) + i + 1, {i})
      BY <3>0, <1>12
    <3>2. mBuffer' = Decrypt(filled, 0, n)
      BY <2>1, <1>1, <1>5
    <3>3. mBuffer'[i] = [filled[i] EXCEPT !.keys = SymDiff(@, {i - 0})]
      BY <3>2, <2>0 DEF Decrypt
    <3>6. filled[i] = [pos |-> End(d) + i + 1, keys |-> {i}] /\ filled[i].keys = {i} /\ i - 0 = i
      BY <3>1, <2>0 DEF Byte
    <3>7. mBuffer'[i] = [filled[i] EXCEPT !.keys = SymDiff({i}, {i})]
      BY <3>3, <3>6
    <3>4. mBuffer'[i] = Byte(End(d) + i + 1, SymDiff({i}, {i}))
      BY <3>6, <3>7 DEF Byte
    <3>5. SymDiff({i}, {i}) = {}
      BY DEF SymDiff
    <3> QED BY <3>4, <3>5
  <2>2. CASE ~ mIsKeyShared
    <3>1. d = 0 /\ mBuffer' = filled
      BY <2>2, <1>1, <1>9
    <3> QED BY <3>1, <1>12
  <2> QED BY <2>1, <2>2
<1>14. \A i \in 0 .. n - 1 : mBuffer'[mARegionPointer' + i] = Byte(End(d) + i + 1, {})
  <2>1. \A i \in 0 .. n - 1 : mARegionPointer' + i = i
    BY <1>0, <1>4
  <2> QED BY <2>1, <1>13
<1> QED BY <1>2, <1>4, <1>9, <1>11, <1>14, <1>n

-----------------------------------------------------------------------------
\* A receive completes.
LEMMA StreamRecvCompletion ==
  ASSUME StreamInv, NEW n \in 1 .. Len(network), RecvCompletion(n)
  PROVE  StreamInv' /\ served' = served /\ (Wrapped => Wrapped')
<1>0. /\ StreamTypes /\ StreamRegions /\ WaitInv /\ NetworkInv /\ HandledInv
      /\ network \in Seq(Sent) /\ network # <<>>
  BY DEF StreamInv, StreamTypes
<1>1. /\ phase = "receive" /\ phase' \in {"handle", "overrun"}
      /\ packets' = packets /\ flushed' = flushed /\ mConnected' = mConnected
      /\ mIsKeyShared' = mIsKeyShared /\ served' = served /\ swallowed' = swallowed
      /\ network' = SubSeq(network, n + 1, Len(network))
      /\ asSent' \in BOOLEAN /\ (asSent' => asSent)
  BY <1>0 DEF RecvCompletion, StreamTypes
<1>2. /\ NetworkInv' /\ Received' = Received + n /\ Received \in Int
      /\ network' \in Seq(Sent) /\ Len(network') = Len(network) - n
      /\ \A i \in 1 .. Len(network) - n : \A g \in Nat : InFlush(n + i, g) => InFlush(i, g)'
  BY <1>0, <1>1, RecvNetwork
<1>3. /\ mARegionPointer' \in 0 .. Capacity /\ mARegionSize' \in 0 .. Capacity
      /\ mBRegionPointer' \in {nullptr, 0} /\ mBRegionSize' \in 0 .. Capacity
      /\ StreamRegions' /\ mARegionPointer' = mARegionPointer
      /\ mBRegionPointer' = mBRegionPointer
      /\ mBRegionPointer # nullptr =>
           /\ mARegionSize > 0 /\ mARegionSize' = mARegionSize
           /\ \A i \in mARegionPointer .. mARegionPointer + mARegionSize - 1 :
                mBuffer'[i] = mBuffer[i]
      /\ mBRegionPointer = nullptr => mBRegionSize = 0 /\ mBRegionSize' = 0
  BY RecvRegions
<1>4. StreamTypes'
  <2>1. phase' \in Phases
    BY <1>1 DEF Phases
  <2> QED BY <1>0, <1>1, <1>2, <1>3, <2>1 DEF StreamTypes
<1>5. Wrapped => Wrapped'
  <2> SUFFICES ASSUME Wrapped
               PROVE  Wrapped'
    OBVIOUS
  <2>1. mBRegionPointer # nullptr /\ mBRegionSize > 0
    BY <1>3 DEF Wrapped
  <2>2. mBRegionSize' = mBRegionSize + n
    BY <2>1 DEF RecvCompletion, Commit
  <2> QED BY <2>1, <2>2, <1>0 DEF Wrapped, StreamTypes
<1>6. WaitInv'
  <2>1. flushed' >= 1
    BY <1>0, <1>1 DEF WaitInv
  <2>2. ASSUME Wrapped', NEW p \in DOMAIN packets', Ready(p)'
        PROVE  FALSE
    <3>1. mBRegionPointer # nullptr
      BY <2>2, <1>3 DEF Wrapped
    <3>2. /\ mARegionSize > 0 /\ mARegionSize' = mARegionSize
          /\ \A i \in mARegionPointer .. mARegionPointer + mARegionSize - 1 :
               mBuffer'[i] = mBuffer[i]
          /\ mARegionPointer \in Nat /\ mARegionSize \in Nat
      BY <3>1, <1>0, <1>3, Regions
    <3>3. /\ GetContiguiousBytes = mARegionSize /\ GetContiguiousBytes' = mARegionSize
          /\ GetBufferStart = mARegionPointer /\ GetBufferStart' = mARegionPointer
      BY <3>2, <1>3 DEF GetContiguiousBytes, GetBufferStart
    <3>4. /\ mARegionSize >= HeaderSize /\ IsHeaderOf(p)' /\ Size(p)' <= mARegionSize
      BY <2>2, <3>3 DEF Ready
    <3>5. Size(p)' = Size(p) /\ End(p - 1)' = End(p - 1)
      BY <1>1, SameStream DEF Size, End, EndIn
    <3>6. Front(HeaderSize)' = Front(HeaderSize)
      <4>1. HeaderSize \in Nat
        BY PacketStreamAssumption
      <4>2. \A i \in 1 .. HeaderSize :
              mBuffer'[mARegionPointer + i - 1] = mBuffer[mARegionPointer + i - 1]
        <5> TAKE i \in 1 .. HeaderSize
        <5>1. PICK j \in mARegionPointer .. mARegionPointer + mARegionSize - 1 :
                j = mARegionPointer + i - 1
          BY <3>2, <3>4, <4>1
        <5>2. mBuffer'[j] = mBuffer[j]
          BY <3>2
        <5> QED BY <5>1, <5>2
      <4> QED BY <4>2, <3>3 DEF Front
    <3>7. IsHeaderOf(p)
      BY <3>4, <3>5, <3>6 DEF IsHeaderOf, Plain, Byte
    <3>8. Ready(p) /\ p \in DOMAIN packets
      BY <3>3, <3>4, <3>5, <3>7, <1>1 DEF Ready
    <3> QED BY <3>8, <1>0, <1>1 DEF WaitInv
  <2> QED BY <2>1, <2>2, <1>1 DEF WaitInv
<1>7. FullOnlyWhenWrapped'
  BY <1>1 DEF FullOnlyWhenWrapped
<1>8. HandledInv'
  <2> SUFFICES ASSUME asSent', ~ swallowed
               PROVE  /\ phase' \notin {"misread", "overrun", "full"}
                      /\ \A i \in DOMAIN served' : served'[i] = [packet |-> i, plain |-> TRUE]
                      /\ Len(served') <= flushed'
                      /\ mIsKeyShared' => Len(served') >= 1
                      /\ network' # <<>> => \E g \in Nat : InFlush(1, g)' /\ End(g)' = Received'
                      /\ BufferInv'
    BY <1>1 DEF HandledInv
  <2>1. /\ phase' = "handle" /\ mARegionSize' = n
        /\ \E r \in Len(served) + 1 .. flushed : Received + n = End(r)
        /\ Received = End(Len(served))
        /\ \A i \in 0 .. n - 1 :
             mBuffer'[mARegionPointer' + i] = Byte(End(Len(served)) + i + 1, {})
        /\ mBRegionPointer' = nullptr
        /\ n < Len(network) => \E g \in Nat : InFlush(n + 1, g) /\ End(g) = Received + n
    BY RecvPlain
  <2>2. \A r : End(r)' = End(r)
    BY <1>1, SameStream
  <2>3. End(Len(served))' = End(Len(served))
    BY <1>1 DEF End, EndIn
  <2>4. \E r \in Len(served') + 1 .. flushed' : Received' = End(r)'
    BY <2>1, <2>2, <1>1, <1>2
  <2>5. mARegionSize' = Received' - End(Len(served))'
    <3>1. PICK e \in Int : e = Received
      BY <1>2
    <3>2. n = (e + n) - e
      OBVIOUS
    <3> QED BY <2>1, <2>3, <3>1, <3>2, <1>2
  <2>6. \A i \in 0 .. mARegionSize' - 1 :
          mBuffer'[mARegionPointer' + i] = Byte(End(Len(served)) + i + 1, {})'
    BY <2>1, <2>3 DEF Byte
  <2>7. BufferInv'
    BY <2>1, <2>4, <2>5, <2>6 DEF BufferInv
  <2>8. network' # <<>> => \E g \in Nat : InFlush(1, g)' /\ End(g)' = Received'
    <3> SUFFICES ASSUME network' # <<>>
                 PROVE  \E g \in Nat : InFlush(1, g)' /\ End(g)' = Received'
      OBVIOUS
    <3>1. Len(network') # 0
      BY <1>2
    <3>2. n < Len(network) /\ 1 \in 1 .. Len(network) - n
      BY <3>1, <1>0, <1>2
    <3>3. PICK g \in Nat : InFlush(n + 1, g) /\ End(g) = Received + n
      BY <3>2, <2>1
    <3> QED BY <3>2, <3>3, <2>2, <1>2
  <2>9. /\ \A i \in DOMAIN served' : served'[i] = [packet |-> i, plain |-> TRUE]
        /\ Len(served') <= flushed'
        /\ mIsKeyShared' => Len(served') >= 1
    BY <1>0, <1>1 DEF HandledInv
  <2> QED BY <2>1, <2>7, <2>8, <2>9
<1> QED BY <1>1, <1>2, <1>3, <1>4, <1>5, <1>6, <1>7, <1>8 DEF StreamInv

-----------------------------------------------------------------------------
\* A client starts with an empty buffer and nothing on its way.
LEMMA StreamInitial ==
  ASSUME StreamInit
  PROVE  StreamInv
<1>1. /\ mARegionPointer = 0 /\ mARegionSize = 0 /\ mBRegionPointer = nullptr
      /\ mBRegionSize = 0 /\ packets \in Streams /\ flushed = 0 /\ network = <<>>
      /\ mConnected = TRUE /\ mIsKeyShared = FALSE /\ phase = "watch"
      /\ served = <<>> /\ asSent = TRUE /\ swallowed = FALSE
  BY DEF StreamInit, Init
<1>2. /\ Len(packets) \in Nat /\ HeaderSize \in Nat \ {0} /\ Capacity \in Nat \ {0}
      /\ End(0) = 0 /\ Len(network) = 0 /\ Len(served) = 0 /\ DOMAIN served = {}
  BY <1>1, Ends
<1>3. StreamTypes
  <2>1. network \in Seq(Sent) /\ served \in Seq([packet : Nat, plain : BOOLEAN])
    BY <1>1
  <2>2. phase \in Phases
    BY <1>1 DEF Phases
  <2>3. /\ mConnected \in BOOLEAN /\ mIsKeyShared \in BOOLEAN
        /\ asSent \in BOOLEAN /\ swallowed \in BOOLEAN
    BY <1>1
  <2>4. /\ mARegionPointer \in 0 .. Capacity /\ mARegionSize \in 0 .. Capacity
        /\ mBRegionPointer \in {nullptr, 0} /\ mBRegionSize \in 0 .. Capacity
        /\ flushed \in 0 .. Len(packets) /\ packets \in Streams
    BY <1>1, <1>2
  <2> QED BY <2>1, <2>2, <2>3, <2>4 DEF StreamTypes
<1>4. StreamRegions
  BY <1>1, <1>2 DEF StreamRegions, RegionsDisjoint
<1>5. WaitInv
  <2>1. GetContiguiousBytes = 0 /\ ~ Wrapped
    BY <1>1 DEF GetContiguiousBytes, Wrapped
  <2>2. \A p \in DOMAIN packets : ~ Ready(p)
    BY <1>2, <2>1 DEF Ready
  <2> QED BY <1>1, <1>2, <2>2 DEF WaitInv
<1>6. FullOnlyWhenWrapped /\ NetworkInv
  BY <1>1, <1>2 DEF FullOnlyWhenWrapped, NetworkInv
<1>7. HandledInv
  <2>1. Received = 0
    BY <1>1, <1>2 DEF Received
  <2>2. BufferInv
    BY <1>1, <1>2, <2>1 DEF BufferInv
  <2> QED BY <1>1, <1>2, <2>2 DEF HandledInv
<1> QED BY <1>3, <1>4, <1>5, <1>6, <1>7 DEF StreamInv

\* Every step keeps the invariant; once the bytes have wrapped they stay so, and no step
\* handles a packet.
LEMMA StreamStep ==
  ASSUME StreamInv, [StreamNext]_allVars
  PROVE  StreamInv' /\ (Wrapped => Wrapped' /\ served' = served)
<1>1. CASE \E last \in flushed + 1 .. Len(packets) : ClientFlush(last)
  BY <1>1, StreamClientFlush
<1>2. CASE Disconnect
  BY <1>2, StreamDisconnect
<1>3. CASE PostRecv
  BY <1>3, StreamPostRecv
<1>4. CASE \E n \in 1 .. Len(network) : RecvCompletion(n)
  BY <1>4, StreamRecvCompletion
<1>5. CASE RecvFailed
  BY <1>5, StreamRecvFailed
<1>6. CASE PacketIncomplete
  BY <1>6, StreamPacketIncomplete
<1>7. CASE PacketMisread
  BY <1>7, StreamPacketMisread
<1>8. ASSUME NEW p \in DOMAIN packets, KnownPacket(p)
      PROVE  StreamInv' /\ ~ Wrapped
  <2>1. /\ Complete(p) /\ Serve(p) /\ Remove(Size(p))
        /\ UNCHANGED streamVars /\ mConnected' = mConnected /\ asSent' = asSent
        /\ swallowed' = swallowed
        /\ IF Size(p) = GetContiguiousBytes THEN PreRecv ELSE phase' = phase
    BY <1>8 DEF KnownPacket
  <2>2. mIsKeyShared' \in BOOLEAN /\ (mIsKeyShared => mIsKeyShared')
    <3>1. mIsKeyShared \in BOOLEAN
      BY DEF StreamInv, StreamTypes
    <3>2. mIsKeyShared' = TRUE \/ mIsKeyShared' = mIsKeyShared
      BY <1>8 DEF KnownPacket
    <3> QED BY <3>1, <3>2
  <2>3. ~ (Size(p) < Size(p))
    <3>1. packets \in Streams
      BY DEF StreamInv, StreamTypes
    <3>2. Size(p) \in HeaderSize .. Capacity - 1 /\ HeaderSize \in Nat /\ Capacity \in Nat
      BY <3>1, Ends
    <3> QED BY <3>2
  <2>4. swallowed' = (swallowed \/ Size(p) < Size(p))
    <3>1. swallowed \in BOOLEAN
      BY DEF StreamInv, StreamTypes
    <3> QED BY <2>1, <2>3, <3>1
  <2> QED BY <2>1, <2>2, <2>4, HandleStep
<1>9. ASSUME NEW p \in DOMAIN packets, Echo(p)
      PROVE  StreamInv' /\ ~ Wrapped
  <2>1. /\ Complete(p) /\ Serve(p) /\ Remove(GetContiguiousBytes)
        /\ UNCHANGED streamVars /\ mConnected' = mConnected /\ asSent' = asSent
        /\ swallowed' = (swallowed \/ Size(p) < GetContiguiousBytes)
        /\ mIsKeyShared' = mIsKeyShared /\ PreRecv
    BY <1>9 DEF Echo
  <2>2. mIsKeyShared' \in BOOLEAN /\ (mIsKeyShared => mIsKeyShared')
    BY <2>1 DEF StreamInv, StreamTypes
  <2>3. GetContiguiousBytes \in {Size(p), GetContiguiousBytes}
    OBVIOUS
  <2>4. IF GetContiguiousBytes = GetContiguiousBytes THEN PreRecv ELSE phase' = phase
    BY <2>1
  <2> QED BY <2>1, <2>2, <2>3, <2>4, HandleStep
<1>10. CASE UNCHANGED allVars
  <2>1. /\ UNCHANGED <<mARegionPointer, mARegionSize, mBRegionSize, mBuffer>>
        /\ UNCHANGED <<streamVars, mIsKeyShared, historyVars>>
        /\ mBRegionPointer' = mBRegionPointer /\ mConnected' = mConnected /\ phase' = phase
    BY <1>10 DEF allVars, vars, regionVars
  <2>2. StreamTypes /\ WaitInv /\ FullOnlyWhenWrapped /\ HandledInv
    BY DEF StreamInv
  <2>3. phase' \in Phases /\ mConnected' \in BOOLEAN
    BY <2>1, <2>2 DEF StreamTypes
  <2>4. /\ phase' = "watch" => mARegionSize < Capacity
        /\ phase' = "receive" => ~ AllocatesB'
        /\ phase' = "full" => Wrapped
    BY <2>1, <2>2
       DEF WaitInv, AllocatesB, GetAFreeSpace, GetSpaceBeforeA, FullOnlyWhenWrapped
  <2>5. asSent /\ ~ swallowed =>
          /\ phase' \notin {"misread", "overrun", "full"}
          /\ phase' \in {"watch", "receive"} => mARegionSize = 0 /\ Received = End(Len(served))
          /\ phase' \in {"watch", "receive", "handle"} => mBRegionPointer = nullptr
    BY <2>1, <2>2 DEF HandledInv, BufferInv
  <2> QED BY <2>1, <2>3, <2>4, <2>5, QuietStep
<1> QED BY <1>1, <1>2, <1>3, <1>4, <1>5, <1>6, <1>7, <1>8, <1>9, <1>10
        DEF StreamNext, Receive, Handle

\* The invariant holds of every client's stream, whatever the capacity of the buffer, the
\* size of the header and the packets.
THEOREM StreamInvariance == StreamSpec => []StreamInv
<1>1. StreamInit => StreamInv
  BY StreamInitial
<1>2. StreamInv /\ [StreamNext]_allVars => StreamInv'
  BY StreamStep
<1> QED BY <1>1, <1>2, PTL DEF StreamSpec

\* As long as every receive gets exactly what one send sent and no echo swallows
\* anything, the packets are handled one after the other, plain, none left out
\* (ClientSession.cpp:182-236, Session.cpp:219-232).
THEOREM HandledAsSentInvariant == StreamSpec => []HandledAsSent
<1>1. StreamInv => HandledAsSent
  BY DEF StreamInv, HandledInv, HandledAsSent
<1> QED BY <1>1, StreamInvariance, PTL

\* Only a buffer that has wrapped is ever too full to receive (Session.cpp:77).
THEOREM FullOnlyWhenWrappedInvariant == StreamSpec => []FullOnlyWhenWrapped
<1>1. StreamInv => FullOnlyWhenWrapped
  BY DEF StreamInv
<1> QED BY <1>1, StreamInvariance, PTL

\* Once the received bytes have wrapped no packet is handled any more
\* (ClientSession.cpp:186-196, CircularBuffer.cpp:32-44).
THEOREM NothingHandledAfterWrap == StreamSpec => NothingAfterWrap
<1>1. StreamInv /\ [StreamNext]_allVars => [Wrapped => Wrapped' /\ served' = served]_allVars
  BY StreamStep
<1> QED BY <1>1, StreamInvariance, PTL DEF StreamSpec, NothingAfterWrap
=============================================================================
