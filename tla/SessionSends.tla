---------------------------- MODULE SessionSends ----------------------------
(***************************************************************************)
(* SessionPool with the send path: PostSend copies into mSendBuffer and    *)
(* puts a plain Session pointer on the calling thread's list               *)
(* LSendRequestSessionList; the thread flushes the list after each         *)
(* completion (IOThread::DoSendJob).  The list holds no reference, so      *)
(* FlushSend may run on a session that is being returned.                  *)
(*                                                                         *)
(* The buffer is two counts, the messages stored and the ones of them that *)
(* are in flight; CircularBuffer.tla models its regions.                   *)
(***************************************************************************)
EXTENDS SessionPool

CONSTANTS
  Capacity,        \* messages mSendBuffer has room for
  MaxPosts         \* bound: messages that the packets of one receive make a
                   \* worker post, the answer to a key exchange apart

ASSUME SessionSendsAssumption == Capacity \in Nat \ {0} /\ MaxPosts \in Nat

VARIABLES
  sendLock,           \* the thread inside the session's mSendBufferLock
  mSendPendingCount,
  stored, inFlight,   \* messages in mSendBuffer, and handed to WSASend
  sendList            \* LSendRequestSessionList of each thread

sendVars == <<sendLock, mSendPendingCount, stored, inFlight, sendList>>
allVars == <<vars, sendVars>>

SendInit ==
  /\ Init
  /\ sendLock = [s \in Sessions |-> NoThread]
  /\ mSendPendingCount = [s \in Sessions |-> 0]
  /\ stored = [s \in Sessions |-> 0]
  /\ inFlight = [s \in Sessions |-> 0]
  /\ sendList = [t \in Threads |-> <<>>]

PoolUnchanged ==
  UNCHANGED <<sessionVars, managerVars, contextVars, completionOk, accepting, issueRef>>

-----------------------------------------------------------------------------
(***************************************************************************)
(* Session::PostSend: the test of mConnected is before the lock.           *)
(***************************************************************************)
PostSend(t) ==
  /\ Calling(t, "PostSend")
  /\ Do(t, IF mConnected[Obj(t)] = 1 THEN <<Op("PostCommit", Obj(t))>> ELSE <<>>)
  /\ UNCHANGED <<sendVars, crashed>> /\ PoolUnchanged

\* Enter the lock, room or not, list, copy, commit, leave.
PostCommit(t) ==
  LET s == Obj(t)
  IN  /\ Calling(t, "PostCommit")
      /\ sendLock[s] = NoThread
      /\ \/ /\ stored[s] < Capacity
            /\ Set(stored, s, stored[s] + 1)
            /\ Set(sendList, t, Append(sendList[t], s))
         \/ /\ stored[s] = Capacity
            /\ UNCHANGED <<stored, sendList>>
      /\ Do(t, <<>>)
      /\ UNCHANGED <<sendLock, mSendPendingCount, inFlight, crashed>>
      /\ PoolUnchanged

-----------------------------------------------------------------------------
(***************************************************************************)
(* Session::FlushSend.                                                     *)
(***************************************************************************)
FlushSend(t) ==
  /\ Calling(t, "FlushSend")
  /\ Do(t, IF mConnected[Obj(t)] = 1 THEN <<Op("FlushLock", Obj(t))>>
                                     ELSE <<Op("DisconnectRequest", Obj(t))>>)
  /\ UNCHANGED <<sendVars, crashed>> /\ PoolUnchanged

\* Mutant: mSendPendingCount is not tested.
FlushLockUntested(t) ==
  LET s == Obj(t)
  IN  /\ Calling(t, "FlushLock")
      /\ sendLock[s] = NoThread
      /\ IF stored[s] = 0
         THEN Do(t, <<>>) /\ UNCHANGED sendLock
         ELSE Do(t, <<Op("WSASend", s)>>) /\ Set(sendLock, s, t)
      /\ UNCHANGED <<mSendPendingCount, stored, inFlight, sendList, crashed>>
      /\ PoolUnchanged

\* Nothing to send, or a send is pending: leave the lock and drop the request.
FlushLock(t) ==
  LET s == Obj(t)
  IN  /\ Calling(t, "FlushLock")
      /\ sendLock[s] = NoThread
      /\ IF stored[s] = 0 \/ mSendPendingCount[s] > 0
         THEN Do(t, <<>>) /\ UNCHANGED sendLock
         ELSE Do(t, <<Op("WSASend", s)>>) /\ Set(sendLock, s, t)
      /\ UNCHANGED <<mSendPendingCount, stored, inFlight, sendList, crashed>>
      /\ PoolUnchanged

\* From a successful accept until the disconnect is complete.
SocketConnected(s) == associated[s] /\ s \in issueRef

\* Still inside the lock: a context, which takes its reference only now, and
\* WSASend of the contiguous bytes (not all, when the buffer has wrapped).
WSASend(t) ==
  LET s == Obj(t)
      c == NewContext(s, "IO_SEND")
  IN  /\ Calling(t, "WSASend")
      /\ HasNewContext(s, "IO_SEND")
      /\ AddRef(s)
      /\ live' = live \cup {c}
      /\ \/ /\ SocketConnected(s)
            /\ kernel' = kernel \cup {c}
            /\ \E n \in 1 .. stored[s] : Set(inFlight, s, n)
            /\ Do(t, <<Op("CountSend", s)>>)
         \/ /\ mConnected[s] = 0 \/ ~ SocketConnected(s) \/ "WSASend" \in Faults
            /\ Do(t, <<Op("DeleteIoContext", c), Op("DisconnectRequest", s),
                       Op("FlushUnlock", s)>>)
            /\ UNCHANGED <<kernel, inFlight>>
      /\ UNCHANGED <<mConnected, associated, managerVars, completionOk, accepting,
                     issueRef, crashed, sendLock, mSendPendingCount, stored, sendList>>

\* Mutant: the send is not counted.
CountSendUncounted(t) ==
  /\ Calling(t, "CountSend")
  /\ Set(sendLock, Obj(t), NoThread)
  /\ Do(t, <<>>)
  /\ UNCHANGED <<mSendPendingCount, stored, inFlight, sendList, crashed>>
  /\ PoolUnchanged

\* mSendPendingCount++ and leave the lock; the completion may already be queued.
CountSend(t) ==
  /\ Calling(t, "CountSend")
  /\ Set(mSendPendingCount, Obj(t), mSendPendingCount[Obj(t)] + 1)
  /\ Set(sendLock, Obj(t), NoThread)
  /\ Do(t, <<>>)
  /\ UNCHANGED <<stored, inFlight, sendList, crashed>>
  /\ PoolUnchanged

FlushUnlock(t) ==
  /\ Calling(t, "FlushUnlock")
  /\ Set(sendLock, Obj(t), NoThread)
  /\ Do(t, <<>>)
  /\ UNCHANGED <<mSendPendingCount, stored, inFlight, sendList, crashed>>
  /\ PoolUnchanged

\* Session::SendCompletion: remove what was transferred, one send less pending.
\* A partial transfer makes DoIocpJob disconnect.
SendCompletion(t) ==
  LET s == Obj(t)
  IN  /\ Calling(t, "SendCompletion")
      /\ sendLock[s] = NoThread
      /\ \E transferred \in 0 .. inFlight[s] :
           /\ Set(stored, s, stored[s] - transferred)
           /\ Set(completionOk, t, transferred = inFlight[s])
      /\ Set(inFlight, s, 0)
      /\ Set(mSendPendingCount, s, mSendPendingCount[s] - 1)
      /\ Do(t, <<>>)
      /\ UNCHANGED <<sendLock, sendList, sessionVars, managerVars, contextVars,
                     accepting, issueRef, crashed>>

-----------------------------------------------------------------------------
(***************************************************************************)
(* The calls of SessionPool that send or that share a lock with sending.   *)
(***************************************************************************)

\* SendBaseKey posts the key; its result is arbitrary even after success.
PostBaseKey(t) ==
  LET s == Obj(t)
  IN  /\ Calling(t, "SendBaseKey")
      /\ \/ Do(t, <<Op("PostSend", s)>>)
         \/ Do(t, <<Op("PostSend", s), Op("DisconnectRequest", s)>>)
      /\ UNCHANGED <<sendVars, crashed>> /\ PoolUnchanged

\* The answer to the key exchange is posted and flushed at once; when the post, or
\* the making of the session key, has failed, it disconnects (ResponseExportedKey).
KeyExchanges(s) ==
  {<<Op("PostSend", s)>> \o posted \o <<Op("FlushSend", s)>> \o shared :
     posted, shared \in {<<>>, <<Op("DisconnectRequest", s)>>}}

\* What the packets of one receive make the worker do, one after the other: answer
\* a key exchange, and post messages, each to the client itself or to another
\* session of its zone by a plain pointer.
HandlePackets(t) ==
  /\ Calling(t, "PacketHandling")
  /\ \E exchange \in {<<>>} \cup KeyExchanges(Obj(t)),
        posts \in BoundedSeq(Sessions \ Free, MaxPosts) :
       Do(t, exchange \o [i \in DOMAIN posts |-> Op("PostSend", posts[i])])
  /\ UNCHANGED <<sendVars, crashed>> /\ PoolUnchanged

\* SessionReset empties the buffer inside mSendBufferLock, which is of the last
\* lock class: entering it a second time trips the LockOrderChecker.
ResetLockedBuffer(t) ==
  LET s == Obj(t)
  IN  /\ Calling(t, "ResetSendBuffer")
      /\ sendLock[s] \in {NoThread, t}
      /\ CrashAssert(sendLock[s] # t, "LockOrder")
      /\ Set(stored, s, 0)
      /\ Set(inFlight, s, 0)
      /\ Do(t, <<>>)
      /\ UNCHANGED <<sendLock, mSendPendingCount, sendList>>
      /\ PoolUnchanged

\* A worker takes the next completion when its list is empty, and flushes the
\* front of the list otherwise (FlushSend always returns true).
NextCompletion(t) ==
  /\ sendList[t] = <<>>
  /\ DoIocpJob(t)
  /\ UNCHANGED sendVars

DoSendJob(t) ==
  /\ crashed = "no"
  /\ todo[t] = <<>> /\ sendList[t] # <<>>
  /\ Set(todo, t, <<Op("FlushSend", Head(sendList[t]))>>)
  /\ Set(sendList, t, Tail(sendList[t]))
  /\ UNCHANGED <<sendLock, mSendPendingCount, stored, inFlight, crashed>>
  /\ PoolUnchanged

PoolCall(t) ==
  /\ \/ DeleteIoContext(t)  \/ DisconnectRequest(t) \/ DisconnectEx(t)
     \/ PreRecv(t)          \/ PostRecv(t)
     \/ WSARecvZero(t)      \/ WSARecv(t)
     \/ AcceptCompletion(t) \/ DisconnectCompletion(t)
     \/ ReturnLock(t)       \/ ReturnAssert(t)
     \/ SessionReset(t)     \/ ReturnToPool(t)
     \/ CheckCompletion(t)
  /\ UNCHANGED sendVars

SendCall(t) ==
  \/ PostSend(t)    \/ PostCommit(t)
  \/ FlushSend(t)   \/ FlushLock(t)     \/ WSASend(t)
  \/ CountSend(t)   \/ FlushUnlock(t)
  \/ PostBaseKey(t) \/ HandlePackets(t) \/ ResetLockedBuffer(t)
  \/ SendCompletion(t)

SendNext ==
  \/ AcceptClientSessions /\ UNCHANGED sendVars
  \/ \E t \in Threads : PoolCall(t) \/ SendCall(t)
  \/ \E t \in Workers : NextCompletion(t) \/ DoSendJob(t)

SendSpec == SendInit /\ [][SendNext]_allVars

-----------------------------------------------------------------------------
(***************************************************************************)
(* Properties                                                              *)
(***************************************************************************)
\* A session's byte stream has one send at a time in the kernel, so the order of
\* its bytes does not depend on the order of completions.
Sending(s) == {c \in kernel : c.session = s /\ c.io = "IO_SEND"}

OneSendInFlight == \A s \in Sessions : Cardinality(Sending(s)) <= 1

\* While a send is in the kernel the buffer still holds what it reads.
InFlightIsStored ==
  \A s \in Sessions : Sending(s) # {} => 1 <= inFlight[s] /\ inFlight[s] <= stored[s]

\* The lists hold plain pointers, so a thread may still flush a session, or send
\* to it, while another resets it, after the assertion has found it unreferenced;
\* but nothing else overlaps with a reset: no operation in the kernel, no receive,
\* no packet, no completion, and of a flush that fails at most its disconnect, its
\* release and the return that this leads to (ClientSession.cpp:24-58,
\* Session.cpp:104-195, ClientSessionManager.cpp:36-53).
SendCalls ==
  {"PostSend", "PostCommit", "FlushSend", "FlushLock", "WSASend", "CountSend",
   "FlushUnlock"}

Resetting(t, s) ==
  /\ crashed = "no"
  /\ \E op \in Pending(t) :
       op.obj = s /\ op.call \in {"SessionReset", "ResetSendBuffer", "ReturnToPool"}

OnlySendsOverlap ==
  \A s \in Sessions, t \in Threads : Resetting(t, s) =>
    /\ \A c \in kernel : c.session # s
    /\ \A u \in Threads \ {t} : \A op \in Pending(u) : SessionOf(op) = s =>
         \/ op.call \in SendCalls \cup {"DisconnectRequest", "ReturnLock"}
         \/ op.call = "DeleteIoContext" /\ sendLock[s] = u

\* FlushSend works on a plain pointer, and yet no session is returned while one
\* of its references exists (the assertion of ClientSessionManager.cpp:42).
ReturnsUnreferenced == crashed # "ReturnClientSession"

\* No thread enters a session's send lock while it is inside it: the rule of
\* LockOrderChecker.cpp:18-20 for a lock of the last class.
LockOrderKept == crashed # "LockOrder"

\* Session.cpp:157: "the previous send is not completed": on a connected session
\* a pending count, which keeps FlushSend from sending, stands for a send in the
\* kernel or a completion that is being handled.
PendingMeansSending ==
  \A s \in Sessions : mConnected[s] = 1 /\ mSendPendingCount[s] > 0 =>
    \/ Sending(s) # {}
    \/ \E t \in Threads : Uses(t, s)

\* Session.cpp:116: "flush later": what PostSend has accepted on a connected
\* session is in flight, or some thread still has the session to flush.
UnsentIsScheduled ==
  \A s \in Sessions : mConnected[s] = 1 /\ stored[s] > 0 =>
    \/ inFlight[s] = stored[s] /\ Sending(s) # {}
    \/ \E t \in Threads :
         \/ \E i \in DOMAIN sendList[t] : sendList[t][i] = s
         \/ Uses(t, s)
=============================================================================
