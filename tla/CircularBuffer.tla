--------------------------- MODULE CircularBuffer ---------------------------
(***************************************************************************)
(* CircularBuffer.h / .cpp and its use as a session's send buffer          *)
(* (Session::PostSend, FlushSend, SendCompletion under mSendBufferLock).   *)
(*                                                                         *)
(* Region A holds the oldest bytes; when there is more room before A than  *)
(* after it, new bytes go to region B at the start of the buffer.          *)
(* Pointers are offsets from mBuffer.                                      *)
(***************************************************************************)
EXTENDS Integers, Sequences

CONSTANTS
  Capacity,    \* mCapacity
  Bytes        \* the values of a byte

ASSUME CapacityAssumption == Capacity \in Nat \ {0} /\ Bytes # {}

VARIABLES
  mARegionPointer, mARegionSize,
  mBRegionPointer, mBRegionSize,
  mBuffer,
  sending      \* the bytes the kernel is reading, as they were at WSASend

regionVars == <<mARegionPointer, mARegionSize, mBRegionPointer, mBRegionSize>>
vars == <<regionVars, mBuffer, sending>>

nullptr == -1
Idle == <<>>     \* no send in progress
zero == CHOOSE b \in Bytes : TRUE

GetAFreeSpace   == Capacity - mARegionPointer - mARegionSize
GetSpaceBeforeA == mARegionPointer

\* Mutant: the comparison is the wrong way round.
AllocatesBWhenNotNeeded == mBRegionPointer = nullptr /\ GetSpaceBeforeA < GetAFreeSpace

\* GetFreeSpaceSize allocates B as a side effect; this is its guard.
AllocatesB == mBRegionPointer = nullptr /\ GetAFreeSpace < GetSpaceBeforeA

\* Mutant: the bytes already in B are not subtracted.
GetFreeSpaceSizeIgnoringB ==
  IF AllocatesB \/ mBRegionPointer # nullptr THEN mARegionPointer ELSE GetAFreeSpace

GetFreeSpaceSize ==
  IF AllocatesB THEN mARegionPointer
  ELSE IF mBRegionPointer # nullptr
       THEN mARegionPointer - mBRegionPointer - mBRegionSize
       ELSE GetAFreeSpace

GetStoredSize == mARegionSize + mBRegionSize

GetContiguiousBytes == IF mARegionSize > 0 THEN mARegionSize ELSE mBRegionSize

GetBufferStart == IF mARegionSize > 0 THEN mARegionPointer ELSE mBRegionPointer

-----------------------------------------------------------------------------
\* Mutant: GetBuffer answers the start of A instead of its end.
WriteAtStart(data) ==
  LET intoB == AllocatesB \/ mBRegionPointer # nullptr
      at == IF intoB THEN mBRegionSize ELSE mARegionPointer
  IN  /\ mBuffer' = [i \in 0 .. Capacity - 1 |->
                       IF at <= i /\ i < at + Len(data) THEN data[i - at + 1]
                                                        ELSE mBuffer[i]]
      /\ mBRegionPointer' = IF intoB THEN 0 ELSE nullptr
      /\ mBRegionSize' = IF intoB THEN mBRegionSize + Len(data) ELSE mBRegionSize
      /\ mARegionSize' = IF intoB THEN mARegionSize ELSE mARegionSize + Len(data)
      /\ UNCHANGED mARegionPointer

\* memcpy(GetBuffer(), data, len); Commit(len) after a GetFreeSpaceSize that
\* answered at least len.
Write(data) ==
  LET intoB == AllocatesB \/ mBRegionPointer # nullptr
      at == IF intoB THEN mBRegionSize ELSE mARegionPointer + mARegionSize
  IN  /\ mBuffer' = [i \in 0 .. Capacity - 1 |->
                       IF at <= i /\ i < at + Len(data) THEN data[i - at + 1]
                                                        ELSE mBuffer[i]]
      /\ mBRegionPointer' = IF intoB THEN 0 ELSE nullptr
      /\ mBRegionSize' = IF intoB THEN mBRegionSize + Len(data) ELSE mBRegionSize
      /\ mARegionSize' = IF intoB THEN mARegionSize ELSE mARegionSize + Len(data)
      /\ UNCHANGED mARegionPointer

\* PostSend, and the receive that fills mRecvBuffer.
PostSend(data) ==
  /\ Len(data) <= GetFreeSpaceSize
  /\ Write(data)
  /\ UNCHANGED sending

\* GetFreeSpaceSize answers too little: PostSend returns false, B stays allocated.
PostSendRefused ==
  /\ mBRegionPointer' = IF AllocatesB THEN 0 ELSE mBRegionPointer
  /\ UNCHANGED <<mARegionPointer, mARegionSize, mBRegionSize, mBuffer, sending>>

-----------------------------------------------------------------------------
\* Remove(len): from A first, then from B; when A is empty B becomes A and is
\* moved to the start of the buffer.
RemoveFromA(len) == IF len > mARegionSize THEN mARegionSize ELSE len

RemoveFromB(len) ==
  IF len - RemoveFromA(len) > mBRegionSize THEN mBRegionSize
                                           ELSE len - RemoveFromA(len)

\* Mutant: the bytes just removed from B are moved to the front with it.
RemoveMovingAllOfB(len) ==
  LET aLeft == mARegionSize - RemoveFromA(len)
      bLeft == mBRegionSize - RemoveFromB(len)
  IN  IF aLeft > 0
      THEN /\ mARegionSize' = aLeft
           /\ mARegionPointer' = mARegionPointer + RemoveFromA(len)
           /\ UNCHANGED <<mBRegionPointer, mBRegionSize, mBuffer>>
      ELSE /\ mARegionPointer' = 0 /\ mARegionSize' = bLeft
           /\ mBRegionPointer' = nullptr /\ mBRegionSize' = 0
           /\ mBuffer' = [i \in 0 .. Capacity - 1 |->
                            IF i < bLeft THEN mBuffer[mBRegionPointer + i] ELSE mBuffer[i]]

\* Mutant: A stays where it ran empty.
RemoveInPlace(len) ==
  /\ mARegionSize' = mARegionSize - RemoveFromA(len)
  /\ mARegionPointer' = mARegionPointer + RemoveFromA(len)
  /\ UNCHANGED <<mBRegionPointer, mBRegionSize, mBuffer>>

Remove(len) ==
  LET aLeft == mARegionSize - RemoveFromA(len)
      bLeft == mBRegionSize - RemoveFromB(len)
      from  == mBRegionPointer + RemoveFromB(len)     \* where B starts now
  IN  IF aLeft > 0
      THEN /\ mARegionSize' = aLeft
           /\ mARegionPointer' = mARegionPointer + RemoveFromA(len)
           /\ UNCHANGED <<mBRegionPointer, mBRegionSize, mBuffer>>
      ELSE /\ mARegionPointer' = 0
           /\ mARegionSize' = bLeft
           /\ mBRegionPointer' = nullptr
           /\ mBRegionSize' = 0
           /\ mBuffer' = [i \in 0 .. Capacity - 1 |->
                            IF i < bLeft THEN mBuffer[from + i] ELSE mBuffer[i]]

BufferReset ==
  /\ mARegionPointer' = 0 /\ mARegionSize' = 0
  /\ mBRegionPointer' = nullptr /\ mBRegionSize' = 0
  /\ mBuffer' = [i \in 0 .. Capacity - 1 |-> zero]
  /\ sending = Idle /\ UNCHANGED sending

-----------------------------------------------------------------------------
\* Session::FlushSend hands the contiguous bytes to the kernel, in place.
FlushSend ==
  /\ sending = Idle /\ GetContiguiousBytes > 0
  /\ sending' = [i \in 1 .. GetContiguiousBytes |-> mBuffer[GetBufferStart + i - 1]]
  /\ UNCHANGED <<regionVars, mBuffer>>

\* Session::SendCompletion(transferred).
SendCompletion(transferred) ==
  /\ sending # Idle
  /\ Remove(transferred)
  /\ sending' = Idle

\* The receiving side consumes packets from the front.
Consume(len) ==
  /\ sending = Idle
  /\ Remove(len)
  /\ UNCHANGED sending

Init ==
  /\ mARegionPointer = 0 /\ mARegionSize = 0
  /\ mBRegionPointer = nullptr /\ mBRegionSize = 0
  /\ mBuffer \in [0 .. Capacity - 1 -> Bytes]
  /\ sending = Idle

Next ==
  \/ \E n \in 0 .. GetFreeSpaceSize : \E data \in [1 .. n -> Bytes] : PostSend(data)
  \/ PostSendRefused
  \/ FlushSend
  \/ \E transferred \in 0 .. Len(sending) : SendCompletion(transferred)
  \/ \E len \in 0 .. Capacity : Consume(len)
  \/ BufferReset

Spec == Init /\ [][Next]_vars

-----------------------------------------------------------------------------
(***************************************************************************)
(* Properties                                                              *)
(***************************************************************************)
\* The pointers stay in the buffer, or nullptr, and the sizes below its capacity.
TypeOK ==
  /\ mARegionPointer \in 0 .. Capacity
  /\ mARegionSize \in 0 .. Capacity
  /\ mBRegionPointer \in {nullptr, 0}
  /\ mBRegionSize \in 0 .. Capacity
  /\ mBuffer \in [0 .. Capacity - 1 -> Bytes]
  /\ sending \in UNION {[1 .. n -> Bytes] : n \in 0 .. Capacity}

\* The regions lie in the buffer, B entirely before A, and B exists only behind
\* a non-empty A: otherwise GetBufferStart and the memmove of Remove would be
\* applied to the wrong bytes (CircularBuffer.cpp:32-52, CircularBuffer.h:87-93).
RegionsDisjoint ==
  /\ mARegionPointer + mARegionSize <= Capacity
  /\ mBRegionPointer = nullptr => mBRegionSize = 0
  /\ mBRegionPointer # nullptr => mBRegionSize <= mARegionPointer /\ mARegionSize > 0
  /\ mARegionSize = 0 => mARegionPointer = 0

\* Bytes posted while a send is in progress never touch the bytes the kernel is
\* reading: PostSend needs no check of mSendPendingCount (Session.cpp:104-126
\* against 162-176).
InFlightIntact ==
  sending # Idle =>
    /\ Len(sending) <= GetContiguiousBytes
    /\ \A i \in 1 .. Len(sending) : mBuffer[GetBufferStart + i - 1] = sending[i]

\* Where the i-th byte of the queue is: the bytes of A, then those of B.
Position(i) ==
  IF i <= mARegionSize THEN mARegionPointer + i - 1
                       ELSE mBRegionPointer + i - mARegionSize - 1

Contents == [i \in 1 .. GetStoredSize |-> mBuffer[Position(i)]]

Q == INSTANCE ByteQueue WITH queue <- Contents

\* Wrapping, the switch to B and the move back to the start lose, repeat or
\* reorder no byte.
ImplementsByteQueue == Q!Spec

\* Free space is never reported as none while the buffer is empty: a session
\* whose receives have all been consumed can always receive again.
EmptyHasSpace == GetStoredSize = 0 => GetFreeSpaceSize = Capacity
=============================================================================
