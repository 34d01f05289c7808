---------------------------- MODULE PacketStream ----------------------------
(***************************************************************************)
(* How the server receives the byte stream of one client and takes the     *)
(* packets out of it: PostRecv, RecvCompletion with the decryption, the    *)
(* loop of IOThread::DoIocpJob around ClientSession::PacketHandling, and   *)
(* PreRecv.  mRecvBuffer is a CircularBuffer; SessionPool.tla shows that   *)
(* one party at a time works on it.                                        *)
(*                                                                         *)
(* A byte is its place in the client's stream and the indexes of the bytes *)
(* of the key stream it is xored with: it is plain when there are none.    *)
(* Crypt sets Final in every call of CryptEncrypt and CryptDecrypt, which  *)
(* starts the RC4 key stream anew with each call.                          *)
(***************************************************************************)
EXTENDS CircularBuffer, FiniteSetsExt

CONSTANTS
  HeaderSize,      \* sizeof(PacketHeader)
  Streams          \* what a client sends: sequences of packets

Kinds == {"export", "known", "echo"}

\* A packet is its kind and the place of its last byte in the stream.
EndIn(stream, p) == IF p = 0 THEN 0 ELSE stream[p].end

\* mSize is an unsigned short: no packet is larger than the buffer.  The client
\* sends nothing behind its public key before it has the server's.
ASSUME PacketStreamAssumption ==
  /\ HeaderSize \in Nat \ {0}
  /\ \A stream \in Streams :
       /\ stream \in Seq([kind : Kinds, end : Nat])
       /\ \A p \in DOMAIN stream :
            /\ stream[p].kind = "export" <=> p = 1
            /\ EndIn(stream, p) - EndIn(stream, p - 1) \in HeaderSize .. Capacity - 1
            /\ \A q \in 1 .. p - 1 : stream[q].end < stream[p].end

VARIABLES
  packets,         \* the stream of this client
  flushed,         \* packets it has sent
  network,         \* the bytes on their way
  mConnected, mIsKeyShared,
  phase,           \* what the session's only receive is doing
  served,          \* history: the packets handled, and whether they were plain
  asSent,          \* history: each receive got exactly what one send sent
  swallowed        \* history: an echo took bytes of another packet with it

streamVars == <<packets, flushed, network>>
historyVars == <<served, asSent, swallowed>>
allVars == <<vars, streamVars, mConnected, mIsKeyShared, phase, historyVars>>

Byte(pos, keys) == [pos |-> pos, keys |-> keys]

End(p) == EndIn(packets, p)

\* mSize of the header of packet p.
Size(p) == End(p) - End(p - 1)

-----------------------------------------------------------------------------
(***************************************************************************)
(* The client's FlushSend: it encrypts the contiguous bytes of its own     *)
(* buffer, some whole packets, in one call.  Its public key is the only    *)
(* packet that goes out before the keys are shared, in plain.              *)
(***************************************************************************)
ClientFlush(last) ==
  LET n == End(last) - End(flushed)
  IN  /\ mConnected
      /\ flushed = 0 => last = 1
      /\ flushed # 0 => mIsKeyShared
      /\ network' = network \o
           [i \in 1 .. n |-> [pos |-> End(flushed) + i, flush |-> last,
                              keys |-> IF flushed = 0 THEN {} ELSE {i - 1}]]
      /\ flushed' = last
      /\ UNCHANGED <<vars, packets, mConnected, mIsKeyShared, phase, historyVars>>

\* DisconnectRequest by anybody.
Disconnect ==
  /\ mConnected
  /\ mConnected' = FALSE
  /\ UNCHANGED <<vars, streamVars, mIsKeyShared, phase, historyVars>>

-----------------------------------------------------------------------------
(***************************************************************************)
(* Receiving.  The zero-byte receive completes when there is something to  *)
(* read, or with an error.                                                 *)
(***************************************************************************)
\* Mutant: what is stored is given up when there is no room.
PostRecvForgetting ==
  /\ phase = "watch"
  /\ network # <<>> \/ ~ mConnected
  /\ IF ~ mConnected
     THEN phase' = "ended" /\ UNCHANGED <<regionVars, mBuffer>>
     ELSE /\ phase' = "receive"
          /\ IF GetFreeSpaceSize = 0
             THEN Remove(Capacity)
             ELSE /\ mBRegionPointer' = IF AllocatesB THEN 0 ELSE mBRegionPointer
                  /\ UNCHANGED <<mARegionPointer, mARegionSize, mBRegionSize, mBuffer>>
  /\ UNCHANGED <<sending, streamVars, mConnected, mIsKeyShared, historyVars>>

PostRecv ==
  /\ phase = "watch"
  /\ network # <<>> \/ ~ mConnected
  /\ IF ~ mConnected
     THEN phase' = "ended" /\ UNCHANGED <<regionVars, mConnected>>
     ELSE /\ mBRegionPointer' = IF AllocatesB THEN 0 ELSE mBRegionPointer
          /\ UNCHANGED <<mARegionPointer, mARegionSize, mBRegionSize>>
          /\ phase' = IF GetFreeSpaceSize = 0 THEN "full" ELSE "receive"
          /\ mConnected' = (GetFreeSpaceSize # 0)
  /\ UNCHANGED <<mBuffer, sending, streamVars, mIsKeyShared, historyVars>>

GetBuffer ==
  IF mBRegionPointer # nullptr THEN mBRegionPointer + mBRegionSize
                               ELSE mARegionPointer + mARegionSize

Commit(len) ==
  /\ IF mBRegionPointer # nullptr
     THEN mBRegionSize' = mBRegionSize + len /\ UNCHANGED mARegionSize
     ELSE mARegionSize' = mARegionSize + len /\ UNCHANGED mBRegionSize
  /\ UNCHANGED <<mARegionPointer, mBRegionPointer>>

\* Xor with the key stream from its start: index 0 goes to the byte at from.
Decrypt(buffer, from, length) ==
  [i \in 0 .. Capacity - 1 |->
     IF i \in from .. from + length - 1
     THEN [buffer[i] EXCEPT !.keys = SymDiff(@, {i - from})]
     ELSE buffer[i]]

\* The kernel has filled the free space with n bytes.  The length of the
\* contiguous bytes is taken for the place of the new ones; behind the end of
\* the buffer lies memory of somebody else.
RecvCompletion(n) ==
  LET received == SubSeq(network, 1, n)
      rest     == SubSeq(network, n + 1, Len(network))
      filled   == [i \in 0 .. Capacity - 1 |->
                     IF i \in GetBuffer .. GetBuffer + n - 1
                     THEN LET b == received[i - GetBuffer + 1] IN Byte(b.pos, b.keys)
                     ELSE mBuffer[i]]
      alreadyDecrypted == GetContiguiousBytes
  IN  /\ phase = "receive"
      /\ n <= GetFreeSpaceSize
      /\ Commit(n)
      /\ LET from == GetBufferStart' + alreadyDecrypted
         IN  IF mIsKeyShared
             THEN /\ mBuffer' = Decrypt(filled, from, n)
                  /\ phase' = IF from + n <= Capacity THEN "handle" ELSE "overrun"
             ELSE mBuffer' = filled /\ phase' = "handle"
      /\ network' = rest
      /\ asSent' = /\ asSent
                   /\ \A i \in 1 .. n : received[i].flush = received[1].flush
                   /\ rest # <<>> => rest[1].flush # received[1].flush
      /\ UNCHANGED <<sending, packets, flushed, mConnected, mIsKeyShared, served,
                     swallowed>>

RecvFailed ==
  /\ phase = "receive" /\ ~ mConnected
  /\ phase' = "ended"
  /\ UNCHANGED <<vars, streamVars, mConnected, mIsKeyShared, historyVars>>

-----------------------------------------------------------------------------
(***************************************************************************)
(* PacketHandling, one call in a step.  Only the contiguous bytes are      *)
(* looked at.                                                              *)
(***************************************************************************)
Front(n) == [i \in 1 .. n |-> mBuffer[GetBufferStart + i - 1]]

Plain(from, n) == [i \in 1 .. n |-> Byte(from + i, {})]

\* The packet whose header is read, if what is read is a header.
IsHeaderOf(p) == Front(HeaderSize) = Plain(End(p - 1), HeaderSize)

\* A return of true ends the loop, and PreRecv follows.
PreRecv == phase' = IF mConnected THEN "watch" ELSE "ended"

Serve(p) ==
  served' = Append(served,
                   [packet |-> p,
                    plain |-> Front(Size(p)) = Plain(End(p - 1), Size(p))])

\* The header or the rest of the packet is not there yet.
PacketIncomplete ==
  /\ phase = "handle"
  /\ \/ GetContiguiousBytes < HeaderSize
     \/ \E p \in DOMAIN packets : IsHeaderOf(p) /\ GetContiguiousBytes < Size(p)
  /\ PreRecv
  /\ UNCHANGED <<vars, streamVars, mConnected, mIsKeyShared, historyVars>>

\* Bytes that are no header of the client's are taken for one.
PacketMisread ==
  /\ phase = "handle"
  /\ GetContiguiousBytes >= HeaderSize
  /\ \A p \in DOMAIN packets : ~ IsHeaderOf(p)
  /\ phase' = "misread"
  /\ UNCHANGED <<vars, streamVars, mConnected, mIsKeyShared, historyVars>>

Complete(p) ==
  /\ phase = "handle"
  /\ GetContiguiousBytes >= HeaderSize
  /\ IsHeaderOf(p)
  /\ Size(p) <= GetContiguiousBytes

\* Mutant: the loop ends after the first packet.
KnownPacketOnce(p) ==
  /\ Complete(p) /\ packets[p].kind # "echo"
  /\ Serve(p)
  /\ \/ packets[p].kind = "export" /\ mIsKeyShared' = TRUE
     \/ UNCHANGED mIsKeyShared
  /\ Remove(Size(p))
  /\ PreRecv
  /\ UNCHANGED <<sending, streamVars, mConnected, asSent, swallowed>>

\* Mutant: all that is contiguous is removed with the packet.
KnownPacketRemovingAll(p) ==
  /\ Complete(p) /\ packets[p].kind # "echo"
  /\ Serve(p)
  /\ \/ packets[p].kind = "export" /\ mIsKeyShared' = TRUE
     \/ UNCHANGED mIsKeyShared
  /\ Remove(GetContiguiousBytes)
  /\ PreRecv
  /\ UNCHANGED <<sending, streamVars, mConnected, asSent, swallowed>>

\* A packet with a handler; that of the public key may fail to make its own.
KnownPacket(p) ==
  /\ Complete(p) /\ packets[p].kind # "echo"
  /\ Serve(p)
  /\ \/ packets[p].kind = "export" /\ mIsKeyShared' = TRUE
     \/ UNCHANGED mIsKeyShared
  /\ Remove(Size(p))
  /\ IF Size(p) = GetContiguiousBytes THEN PreRecv ELSE UNCHANGED phase
  /\ UNCHANGED <<sending, streamVars, mConnected, asSent, swallowed>>

\* All the contiguous bytes are sent back.  When PostSend fails, not connected or
\* out of room, the loop calls PacketHandling again: nothing has changed.
Echo(p) ==
  /\ Complete(p) /\ packets[p].kind = "echo"
  /\ mConnected
  /\ Serve(p)
  /\ swallowed' = (swallowed \/ Size(p) < GetContiguiousBytes)
  /\ Remove(GetContiguiousBytes)
  /\ PreRecv
  /\ UNCHANGED <<sending, streamVars, mConnected, mIsKeyShared, asSent>>

-----------------------------------------------------------------------------
StreamInit ==
  /\ Init
  /\ packets \in Streams
  /\ flushed = 0
  /\ network = <<>>
  /\ mConnected = TRUE
  /\ mIsKeyShared = FALSE
  /\ phase = "watch"
  /\ served = <<>>
  /\ asSent = TRUE
  /\ swallowed = FALSE

Receive ==
  \/ PostRecv
  \/ \E n \in 1 .. Len(network) : RecvCompletion(n)
  \/ RecvFailed

Handle ==
  \/ PacketIncomplete
  \/ PacketMisread
  \/ \E p \in DOMAIN packets : KnownPacket(p)

StreamNext ==
  \/ \E last \in flushed + 1 .. Len(packets) : ClientFlush(last)
  \/ Disconnect
  \/ Receive
  \/ Handle
  \/ \E p \in DOMAIN packets : Echo(p)

\* Completions are dequeued and their workers keep running.  Nothing is assumed
\* of an echo: its room is freed by a flush, which its own worker makes only
\* after the loop.
StreamSpec ==
  StreamInit /\ [][StreamNext]_allVars /\ WF_allVars(Receive) /\ WF_allVars(Handle)

-----------------------------------------------------------------------------
(***************************************************************************)
(* Properties                                                              *)
(***************************************************************************)
\* As long as every receive gets exactly what one send sent, the packets are
\* handled one after the other, plain, none left out; only an echo, which takes
\* the bytes behind it with it, puts an end to that (ClientSession.cpp:182-236,
\* Session.cpp:219-232).
HandledAsSent ==
  asSent /\ ~ swallowed =>
    /\ phase \notin {"misread", "overrun", "full"}
    /\ \A i \in DOMAIN served : served[i] = [packet |-> i, plain |-> TRUE]

\* Once the received bytes have wrapped no packet is handled any more: the one
\* that straddles the end of the buffer is never contiguous, so region A never
\* gets empty (ClientSession.cpp:186-196, CircularBuffer.cpp:32-44).
Wrapped == mBRegionSize > 0

NothingAfterWrap == [][Wrapped => Wrapped' /\ served' = served]_allVars

\* The server runs out of room for what it receives on no other connection: a
\* buffer that is not wrapped has room for the packet it is waiting for
\* (Session.cpp:77).
FullOnlyWhenWrapped == phase = "full" => Wrapped

\* Every packet that is sent is handled: none lies complete in the buffer while
\* the server waits for more.  Otherwise the connection has ended or wrapped, a
\* header was misread, an echo swallowed the packet, or the worker is in the
\* loop over an echo that it cannot post, for ever (IOThread.cpp:128-130).
Looping == \E p \in DOMAIN packets : Complete(p) /\ packets[p].kind = "echo"

PacketsHandled ==
  \A p \in 1 .. 4 :
    flushed >= p ~> \/ \E i \in DOMAIN served : served[i].packet = p
                    \/ Wrapped \/ swallowed \/ Looping
                    \/ phase \in {"ended", "full", "misread", "overrun"}
=============================================================================
