---------------------------- MODULE SessionPool -----------------------------
(***************************************************************************)
(* The life of the pooled client sessions: issued by the accepting main    *)
(* thread, connected, received from, disconnected, released and returned   *)
(* by the IO worker threads (Session.cpp, ClientSession.cpp,               *)
(* ClientSessionManager.cpp, OverlappedIOContext.cpp, IOThread.cpp).       *)
(*                                                                         *)
(* A thread is the list of calls it still has to make: todo[t].  One step  *)
(* makes the first call, which reads or writes one shared word or calls    *)
(* the kernel once, and may put further calls in front of the rest.  The   *)
(* kernel is the set of posted operations; it completes them in any order, *)
(* successfully or not.  The send path is added by SessionSends.tla.       *)
(***************************************************************************)
EXTENDS Integers, Sequences, FiniteSets, SequencesExt

CONSTANTS
  Sessions,        \* the pool: MAX_CONNECTION sessions
  Workers,         \* the IO worker threads
  Main,            \* the thread that accepts
  NoThread,
  Slots,           \* distinguishes overlapped contexts of one session and type
  Faults,          \* the system calls that may fail when called
  CounterModulus   \* the counters are uint64_t; here they wrap at this value

Calls == {"AcceptEx", "Setup", "DisconnectEx", "WSARecvZero", "WSARecv", "WSASend"}

ASSUME SessionPoolAssumption ==
  /\ Main \notin Workers
  /\ NoThread \notin Workers \cup {Main}
  /\ IsFiniteSet(Sessions)
  /\ Slots # {}
  /\ Faults \subseteq Calls
  /\ CounterModulus \in Nat
  /\ CounterModulus > Cardinality(Sessions)

Threads == Workers \cup {Main}

IOTypes == {"IO_ACCEPT", "IO_RECV_ZERO", "IO_RECV", "IO_SEND", "IO_DISCONNECT"}

Contexts == [session : Sessions, io : IOTypes, slot : Slots]

VARIABLES
  mFreeSessionList, mCurrentIssueCount, mCurrentReturnCount,
  mLock,           \* the thread inside ClientSessionManager::mLock
  mConnected, mRefCount,
  associated,      \* the session's socket is bound to the completion port
  live,            \* contexts constructed and not yet deleted
  kernel,          \* contexts of operations in progress or completed, not dequeued
  todo, completionOk,
  accepting,       \* where the main thread is in StartAccept
  issueRef,        \* history: sessions whose issue reference is not released
  crashed          \* the CRASH_ASSERT that fired, or "no"

sessionVars == <<mConnected, mRefCount, associated>>
managerVars == <<mFreeSessionList, mCurrentIssueCount, mCurrentReturnCount, mLock>>
contextVars == <<live, kernel>>
threadVars  == <<todo, completionOk>>
vars == <<sessionVars, managerVars, contextVars, threadVars, accepting, issueRef, crashed>>

-----------------------------------------------------------------------------
(***************************************************************************)
(* Threads                                                                 *)
(***************************************************************************)
Op(call, obj) == [call |-> call, obj |-> obj]

Calling(t, call) ==
  /\ crashed = "no"
  /\ todo[t] # <<>>
  /\ Head(todo[t]).call = call

Obj(t) == Head(todo[t]).obj

\* The call of t that is running returns after it has made the calls ops.
Do(t, ops) == todo' = [todo EXCEPT ![t] = ops \o Tail(@)]

CrashAssert(cond, where) == crashed' = IF cond THEN crashed ELSE where

Set(f, s, v) == f' = [f EXCEPT ![s] = v]

-----------------------------------------------------------------------------
(***************************************************************************)
(* References.  A context takes one when it is constructed and gives it    *)
(* back when it is deleted.                                                *)
(***************************************************************************)
NewContext(s, io) ==
  CHOOSE c \in Contexts : c.session = s /\ c.io = io /\ c \notin live

HasNewContext(s, io) ==
  \E c \in Contexts : c.session = s /\ c.io = io /\ c \notin live

AddRef(s) == Set(mRefCount, s, mRefCount[s] + 1)

\* ReleaseRef: the last one calls OnRelease, which returns the session.
ReleaseRef(t, s) ==
  LET ret == mRefCount[s] - 1
  IN  /\ Set(mRefCount, s, ret)
      /\ CrashAssert(ret >= 0, "ReleaseRef")
      /\ Do(t, IF ret = 0 THEN <<Op("ReturnLock", s)>> ELSE <<>>)

\* Mutant: the context's constructor takes no reference.
PostWithoutAddRef(t, s, io, call, onFailure) ==
  LET c == NewContext(s, io)
  IN  /\ HasNewContext(s, io)
      /\ live' = live \cup {c}
      /\ kernel' = kernel \cup {c} /\ Do(t, <<>>)
      /\ UNCHANGED mRefCount

\* Mutant: WSA_IO_PENDING is taken for a failure.
PostIgnoringPending(t, s, io, call, onFailure) ==
  LET c == NewContext(s, io)
  IN  /\ HasNewContext(s, io)
      /\ AddRef(s)
      /\ live' = live \cup {c}
      /\ kernel' = kernel \cup {c}
      /\ Do(t, <<Op("DeleteIoContext", c)>> \o onFailure)

\* An asynchronous system call on a new context: pending in the kernel, or
\* failed at once, in which case the context is deleted and onFailure follows.
Post(t, s, io, call, onFailure) ==
  LET c == NewContext(s, io)
  IN  /\ HasNewContext(s, io)
      /\ AddRef(s)
      /\ live' = live \cup {c}
      /\ \/ kernel' = kernel \cup {c} /\ Do(t, <<>>)
         \/ /\ call \in Faults
            /\ Do(t, <<Op("DeleteIoContext", c)>> \o onFailure)
            /\ UNCHANGED kernel

DeleteIoContext(t) ==
  /\ Calling(t, "DeleteIoContext")
  /\ live' = live \ {Obj(t)}
  /\ ReleaseRef(t, Obj(t).session)
  /\ UNCHANGED <<mConnected, associated, managerVars, kernel, completionOk,
                 accepting, issueRef>>

-----------------------------------------------------------------------------
(***************************************************************************)
(* ClientSessionManager::AcceptClientSessions, called by the main thread   *)
(* in a loop (IocpManager::StartAccept).                                   *)
(***************************************************************************)
Issued == (mCurrentIssueCount - mCurrentReturnCount) % CounterModulus

AcceptLock ==
  /\ crashed = "no"
  /\ accepting = "Sleep" /\ mLock = NoThread
  /\ mLock' = Main
  /\ accepting' = "Loop"
  /\ UNCHANGED <<sessionVars, mFreeSessionList, mCurrentIssueCount,
                 mCurrentReturnCount, contextVars, threadVars, issueRef, crashed>>

\* One turn of the loop: issue a session (reference +1) and PostAccept.
AcceptIssue ==
  /\ crashed = "no"
  /\ accepting = "Loop" /\ Issued < Cardinality(Sessions)
  /\ LET s == Last(mFreeSessionList)
         c == NewContext(s, "IO_ACCEPT")
     IN  /\ mFreeSessionList' = Front(mFreeSessionList)
         /\ Set(mRefCount, s, mRefCount[s] + 2)
         /\ live' = live \cup {c}
         /\ issueRef' = issueRef \cup {s}
         /\ \/ kernel' = kernel \cup {c} /\ UNCHANGED <<todo, accepting>>
            \/ /\ "AcceptEx" \in Faults
               /\ Set(todo, Main, <<Op("DeleteIoContext", c)>>)
               /\ accepting' = "Failed"
               /\ UNCHANGED kernel
  /\ mCurrentIssueCount' = (mCurrentIssueCount + 1) % CounterModulus
  /\ UNCHANGED <<mConnected, associated, mCurrentReturnCount, mLock,
                 completionOk, crashed>>

\* Every session is issued: sleep 100 ms; PostAccept failed: stop accepting.
AcceptUnlock ==
  /\ crashed = "no"
  /\ \/ accepting = "Loop" /\ Issued >= Cardinality(Sessions) /\ accepting' = "Sleep"
     \/ accepting = "Failed" /\ todo[Main] = <<>> /\ accepting' = "Stopped"
  /\ mLock' = NoThread
  /\ UNCHANGED <<sessionVars, mFreeSessionList, mCurrentIssueCount,
                 mCurrentReturnCount, contextVars, threadVars, issueRef, crashed>>

AcceptClientSessions == AcceptLock \/ AcceptIssue \/ AcceptUnlock

-----------------------------------------------------------------------------
\* Mutant: mConnected is exchanged but not tested.
DisconnectRequestUntested(t) ==
  /\ Calling(t, "DisconnectRequest")
  /\ Set(mConnected, Obj(t), 0)
  /\ Do(t, <<Op("DisconnectEx", Obj(t))>>)
  /\ UNCHANGED <<mRefCount, associated, managerVars, contextVars, completionOk,
                 accepting, issueRef, crashed>>

\* Mutant: mConnected is tested but not exchanged.
DisconnectRequestUnset(t) ==
  /\ Calling(t, "DisconnectRequest")
  /\ Do(t, IF mConnected[Obj(t)] = 0 THEN <<>> ELSE <<Op("DisconnectEx", Obj(t))>>)
  /\ UNCHANGED <<sessionVars, managerVars, contextVars, completionOk,
                 accepting, issueRef, crashed>>

(***************************************************************************)
(* Session::DisconnectRequest: only the caller that takes mConnected from  *)
(* 1 to 0 posts the disconnect.                                            *)
(***************************************************************************)
DisconnectRequest(t) ==
  /\ Calling(t, "DisconnectRequest")
  /\ Set(mConnected, Obj(t), 0)
  /\ Do(t, IF mConnected[Obj(t)] = 0 THEN <<>> ELSE <<Op("DisconnectEx", Obj(t))>>)
  /\ UNCHANGED <<mRefCount, associated, managerVars, contextVars, completionOk,
                 accepting, issueRef, crashed>>

DisconnectEx(t) ==
  /\ Calling(t, "DisconnectEx")
  /\ Post(t, Obj(t), "IO_DISCONNECT", "DisconnectEx", <<>>)
  /\ UNCHANGED <<mConnected, associated, managerVars, completionOk, accepting,
                 issueRef, crashed>>

(***************************************************************************)
(* Session::PreRecv and PostRecv: test mConnected, then post the receive.  *)
(***************************************************************************)
CheckConnected(t, call, next) ==
  /\ Calling(t, call)
  /\ \/ /\ mConnected[Obj(t)] = 1
        /\ Do(t, <<Op(next, Obj(t))>>)
        /\ UNCHANGED completionOk
     \/ /\ mConnected[Obj(t)] = 0
        /\ Do(t, <<>>)
        /\ Set(completionOk, t, FALSE)
  /\ UNCHANGED <<sessionVars, managerVars, contextVars, accepting, issueRef, crashed>>

PreRecv(t) == CheckConnected(t, "PreRecv", "WSARecvZero")

PostRecv(t) ==
  \/ CheckConnected(t, "PostRecv", "WSARecv")
  \/ /\ Calling(t, "PostRecv")                  \* no free space in mRecvBuffer
     /\ Do(t, <<>>)
     /\ Set(completionOk, t, FALSE)
     /\ UNCHANGED <<sessionVars, managerVars, contextVars, accepting, issueRef, crashed>>

WSARecvZero(t) ==
  /\ Calling(t, "WSARecvZero")
  /\ Post(t, Obj(t), "IO_RECV_ZERO", "WSARecvZero", <<>>)
  /\ Set(completionOk, t, kernel' # kernel)
  /\ UNCHANGED <<mConnected, associated, managerVars, accepting, issueRef, crashed>>

WSARecv(t) ==
  /\ Calling(t, "WSARecv")
  /\ Post(t, Obj(t), "IO_RECV", "WSARecv", <<>>)
  /\ Set(completionOk, t, kernel' # kernel)
  /\ UNCHANGED <<mConnected, associated, managerVars, accepting, issueRef, crashed>>

(***************************************************************************)
(* ClientSession::AcceptCompletion.  A failed PreRecv is only logged; a    *)
(* SendBaseKey that returns false disconnects.  (SendBaseKey ends without  *)
(* a return statement after a successful post: its result is arbitrary.)   *)
(***************************************************************************)
AcceptCompletion(t) ==
  /\ Calling(t, "AcceptCompletion")
  /\ CrashAssert(mConnected[Obj(t)] = 0, "AcceptCompletion")
  /\ Set(mConnected, Obj(t), 1)
  /\ \/ /\ Set(associated, Obj(t), TRUE)
        /\ Do(t, <<Op("PreRecv", Obj(t)), Op("SendBaseKey", Obj(t))>>)
     \/ /\ "Setup" \in Faults
        /\ Do(t, <<Op("DisconnectRequest", Obj(t))>>)
        /\ UNCHANGED associated
  /\ UNCHANGED <<mRefCount, managerVars, contextVars, completionOk, accepting, issueRef>>

SendBaseKey(t) ==
  /\ Calling(t, "SendBaseKey")
  /\ Do(t, <<>>) \/ Do(t, <<Op("DisconnectRequest", Obj(t))>>)
  /\ UNCHANGED <<sessionVars, managerVars, contextVars, completionOk, accepting,
                 issueRef, crashed>>

\* The loop over ClientSession::PacketHandling reads mRecvBuffer, and disconnects
\* when a key could not be posted or made.  (One such call stands for several: the
\* later ones find mConnected cleared.  What is posted is in SessionSends.)
PacketHandling(t) ==
  /\ Calling(t, "PacketHandling")
  /\ Do(t, <<>>) \/ Do(t, <<Op("DisconnectRequest", Obj(t))>>)
  /\ UNCHANGED <<sessionVars, managerVars, contextVars, completionOk, accepting,
                 issueRef, crashed>>

\* Mutant: the reference of the issue is kept.
DisconnectCompletionKeepingRef(t) ==
  /\ Calling(t, "DisconnectCompletion")
  /\ Do(t, <<>>)
  /\ UNCHANGED <<sessionVars, managerVars, contextVars, completionOk, accepting,
                 issueRef, crashed>>

\* Session::DisconnectCompletion releases the reference added at issuing.
DisconnectCompletion(t) ==
  /\ Calling(t, "DisconnectCompletion")
  /\ issueRef' = issueRef \ {Obj(t)}
  /\ ReleaseRef(t, Obj(t))
  /\ UNCHANGED <<mConnected, associated, managerVars, contextVars, completionOk, accepting>>

-----------------------------------------------------------------------------
(***************************************************************************)
(* ClientSessionManager::ReturnClientSession under mLock: the assertion,   *)
(* ClientSession::SessionReset word by word, the free list.                *)
(***************************************************************************)
ReturnLock(t) ==
  /\ Calling(t, "ReturnLock")
  /\ mLock = NoThread
  /\ mLock' = t
  /\ Do(t, <<Op("ReturnAssert", Obj(t))>>)
  /\ UNCHANGED <<sessionVars, mFreeSessionList, mCurrentIssueCount, mCurrentReturnCount,
                 contextVars, completionOk, accepting, issueRef, crashed>>

ReturnAssert(t) ==
  /\ Calling(t, "ReturnAssert")
  /\ CrashAssert(mConnected[Obj(t)] = 0 /\ mRefCount[Obj(t)] = 0, "ReturnClientSession")
  /\ Do(t, <<Op("SessionReset", Obj(t)), Op("ResetSendBuffer", Obj(t)),
             Op("ReturnToPool", Obj(t))>>)
  /\ UNCHANGED <<sessionVars, managerVars, contextVars, completionOk, accepting, issueRef>>

SessionReset(t) ==
  /\ Calling(t, "SessionReset")
  /\ Set(mConnected, Obj(t), 0)
  /\ Set(mRefCount, Obj(t), 0)
  /\ Do(t, <<>>)
  /\ UNCHANGED <<associated, managerVars, contextVars, completionOk, accepting,
                 issueRef, crashed>>

\* Under mSendBufferLock, which SessionSends models.
ResetSendBuffer(t) ==
  /\ Calling(t, "ResetSendBuffer")
  /\ Do(t, <<>>)
  /\ UNCHANGED <<sessionVars, managerVars, contextVars, completionOk, accepting,
                 issueRef, crashed>>

\* Mutant: the return is not counted.
ReturnToPoolUncounted(t) ==
  /\ Calling(t, "ReturnToPool")
  /\ Set(associated, Obj(t), FALSE)
  /\ mFreeSessionList' = Append(mFreeSessionList, Obj(t))
  /\ mLock' = NoThread
  /\ Do(t, <<>>)
  /\ UNCHANGED <<mConnected, mRefCount, mCurrentIssueCount, mCurrentReturnCount,
                 contextVars, completionOk, accepting, issueRef, crashed>>

\* A new socket, the free list, the count, and mLock is released.
ReturnToPool(t) ==
  /\ Calling(t, "ReturnToPool")
  /\ Set(associated, Obj(t), FALSE)
  /\ mFreeSessionList' = Append(mFreeSessionList, Obj(t))
  /\ mCurrentReturnCount' = (mCurrentReturnCount + 1) % CounterModulus
  /\ mLock' = NoThread
  /\ Do(t, <<>>)
  /\ UNCHANGED <<mConnected, mRefCount, mCurrentIssueCount, contextVars, completionOk,
                 accepting, issueRef, crashed>>

-----------------------------------------------------------------------------
(***************************************************************************)
(* IOThread::DoIocpJob.                                                    *)
(***************************************************************************)

\* A socket that was never bound to the port reports no disconnect.
Deliverable(c) == c.io = "IO_DISCONNECT" => associated[c.session]

\* Mutant: the next receive is posted before the packets are handled.
HandlingRecvFirst(c, ok) ==
  LET s == c.session
      done == <<Op("CheckCompletion", s), Op("DeleteIoContext", c)>>
  IN  CASE c.io = "IO_ACCEPT"    -> <<Op("AcceptCompletion", s)>> \o done
        [] c.io = "IO_RECV_ZERO" -> <<Op("PostRecv", s)>> \o done
        [] c.io = "IO_RECV"      -> <<Op("PreRecv", s), Op("PacketHandling", s)>> \o done
        [] OTHER                 -> <<Op("DeleteIoContext", c)>>

\* Mutant: a receive that could not be posted goes unnoticed.
HandlingUnchecked(c, ok) ==
  LET s == c.session
      done == <<Op("DeleteIoContext", c)>>
  IN  CASE c.io = "IO_ACCEPT"    -> <<Op("AcceptCompletion", s)>> \o done
        [] c.io = "IO_RECV_ZERO" -> <<Op("PostRecv", s)>> \o done
        [] c.io = "IO_RECV"      -> <<Op("PacketHandling", s), Op("PreRecv", s)>> \o done
        [] OTHER                 -> done

\* What a worker does with a completion; ok is false for a failed operation
\* or zero bytes, which only the first test of IO_RECV and IO_SEND looks at.
Handling(c, ok) ==
  LET s == c.session
      done == <<Op("DeleteIoContext", c)>>
      checked == <<Op("CheckCompletion", s)>> \o done
  IN  CASE c.io = "IO_ACCEPT"     -> <<Op("AcceptCompletion", s)>> \o done
        [] c.io = "IO_DISCONNECT" -> <<Op("DisconnectCompletion", s)>> \o done
        [] c.io = "IO_RECV_ZERO"  -> <<Op("PostRecv", s)>> \o checked
        [] c.io = "IO_RECV" /\ ok -> <<Op("PacketHandling", s), Op("PreRecv", s)>> \o checked
        [] c.io = "IO_SEND" /\ ok -> <<Op("SendCompletion", s)>> \o checked
        [] OTHER                  -> <<Op("DisconnectRequest", s)>> \o done

Complete(t, c) ==
  /\ crashed = "no"
  /\ todo[t] = <<>>
  /\ c \in kernel /\ Deliverable(c)
  /\ kernel' = kernel \ {c}
  /\ \E ok \in BOOLEAN : Set(todo, t, Handling(c, ok))
  /\ Set(completionOk, t, FALSE)
  /\ UNCHANGED <<sessionVars, managerVars, live, accepting, issueRef, crashed>>

DoIocpJob(t) == \E c \in kernel : Complete(t, c)

\* if (!completionOk) remote->DisconnectRequest(DR_IO_REQUEST_ERROR);
CheckCompletion(t) ==
  /\ Calling(t, "CheckCompletion")
  /\ Do(t, IF completionOk[t] THEN <<>> ELSE <<Op("DisconnectRequest", Obj(t))>>)
  /\ UNCHANGED <<sessionVars, managerVars, contextVars, completionOk, accepting,
                 issueRef, crashed>>

-----------------------------------------------------------------------------
Init ==
  /\ mFreeSessionList = SetToSeq(Sessions)
  /\ mCurrentIssueCount = 0 /\ mCurrentReturnCount = 0
  /\ mLock = NoThread
  /\ mConnected = [s \in Sessions |-> 0]
  /\ mRefCount = [s \in Sessions |-> 0]
  /\ associated = [s \in Sessions |-> FALSE]
  /\ live = {} /\ kernel = {}
  /\ todo = [t \in Threads |-> <<>>]
  /\ completionOk = [t \in Threads |-> FALSE]
  /\ accepting = "Sleep"
  /\ issueRef = {}
  /\ crashed = "no"

\* The calls that need no one: neither a lock nor a completion.
Call(t) ==
  \/ DeleteIoContext(t)  \/ DisconnectRequest(t) \/ DisconnectEx(t)
  \/ PreRecv(t)          \/ PostRecv(t)
  \/ WSARecvZero(t)      \/ WSARecv(t)
  \/ AcceptCompletion(t) \/ SendBaseKey(t)       \/ PacketHandling(t)
  \/ DisconnectCompletion(t)
  \/ ReturnAssert(t)     \/ SessionReset(t)
  \/ ResetSendBuffer(t)  \/ ReturnToPool(t)
  \/ CheckCompletion(t)

Next ==
  \/ AcceptClientSessions
  \/ \E t \in Threads : Call(t) \/ ReturnLock(t)
  \/ \E t \in Workers : DoIocpJob(t)

Spec == Init /\ [][Next]_vars

-----------------------------------------------------------------------------
(***************************************************************************)
(* Fairness.  Running threads keep running.  A worker that spins for mLock *)
(* gets in while the main thread sleeps 100 ms between two turns.  The     *)
(* completion port is a queue, so a completion that is due is dequeued:    *)
(* the one of a disconnect, and the receives the disconnect cancels.  A    *)
(* receive on a healthy connection, and an accept, may stay pending.       *)
(***************************************************************************)
Due(c) ==
  \/ c.io = "IO_DISCONNECT"
  \/ c.io \in {"IO_RECV_ZERO", "IO_RECV"} /\ mConnected[c.session] = 0

CompleteDue(s) ==
  \E t \in Workers, c \in kernel : c.session = s /\ Due(c) /\ Complete(t, c)

Fairness ==
  /\ WF_vars(AcceptClientSessions)
  /\ \A t \in Threads : WF_vars(Call(t)) /\ SF_vars(ReturnLock(t))
  /\ \A s \in Sessions : SF_vars(CompleteDue(s))

FairSpec == Spec /\ Fairness

-----------------------------------------------------------------------------
(***************************************************************************)
(* Properties                                                              *)
(***************************************************************************)
Free == {mFreeSessionList[i] : i \in DOMAIN mFreeSessionList}

Pending(t) == {todo[t][i] : i \in DOMAIN todo[t]}

OpCalls ==
  {"DeleteIoContext", "DisconnectRequest", "DisconnectEx", "PreRecv", "PostRecv",
   "WSARecvZero", "WSARecv", "AcceptCompletion", "SendBaseKey", "PacketHandling",
   "DisconnectCompletion", "ReturnLock", "ReturnAssert", "SessionReset",
   "ResetSendBuffer", "ReturnToPool", "CheckCompletion", "SendCompletion"}

SessionOf(op) == IF op.call = "DeleteIoContext" THEN op.obj.session ELSE op.obj

\* The thread is going to touch the session, or to give back one of its references.
Uses(t, s) == \E op \in Pending(t) : SessionOf(op) = s

Returning(t, s) ==
  \E op \in Pending(t) :
    op.obj = s /\ op.call \in {"ReturnLock", "ReturnAssert", "SessionReset",
                               "ResetSendBuffer", "ReturnToPool"}

\* The words, lists and sets have their types, and the kernel holds no context
\* that has been deleted.
TypeOK ==
  /\ mFreeSessionList \in Seq(Sessions)
  /\ mCurrentIssueCount \in 0 .. CounterModulus - 1
  /\ mCurrentReturnCount \in 0 .. CounterModulus - 1
  /\ mLock \in Threads \cup {NoThread}
  /\ mConnected \in [Sessions -> {0, 1}]
  /\ mRefCount \in [Sessions -> Int]
  /\ associated \in [Sessions -> BOOLEAN]
  /\ live \subseteq Contexts /\ kernel \subseteq live
  /\ DOMAIN todo = Threads
  /\ \A t \in Threads :
       /\ todo[t] \in Seq([call : OpCalls, obj : Sessions \cup Contexts])
       /\ \A op \in Pending(t) :
            op.obj \in (IF op.call = "DeleteIoContext" THEN Contexts ELSE Sessions)
  /\ completionOk \in [Threads -> BOOLEAN]
  /\ accepting \in {"Sleep", "Loop", "Failed", "Stopped"}
  /\ issueRef \subseteq Sessions
  /\ crashed \in {"no", "ReleaseRef", "AcceptCompletion", "ReturnClientSession"}

\* The reference count is the number of references: the contexts of the session
\* that exist, and the one taken at issuing.  Three threads add and release
\* while SessionReset overwrites the word (OverlappedIOContext.cpp:11, 21,
\* ClientSessionManager.cpp:66, Session.cpp:204, ClientSession.cpp:29).
RefCountExact ==
  \A s \in Sessions :
    mRefCount[s] = Cardinality({c \in live : c.session = s})
                     + (IF s \in issueRef THEN 1 ELSE 0)

\* Every context is either in the kernel's hands or will be deleted by exactly
\* one thread, exactly once.
ContextsOwned ==
  \A c \in live :
    LET deleters == {d \in UNION {{t} \X DOMAIN todo[t] : t \in Threads} :
                       todo[d[1]][d[2]] = Op("DeleteIoContext", c)}
    IN  Cardinality(deleters) = IF c \in kernel THEN 0 ELSE 1

\* A session is returned only when nobody is left who could touch it: nothing
\* of it is in the kernel, and no other thread is inside a call on it.  The
\* same holds for as long as it is in the free list.
ReturnedUnused ==
  \A s \in Sessions :
    /\ s \in Free => /\ mConnected[s] = 0 /\ mRefCount[s] = 0
                     /\ \A t \in Threads : ~ Uses(t, s)
                     /\ \A c \in live : c.session # s
    /\ \A t \in Threads : Returning(t, s) =>
         /\ s \notin Free
         /\ \A u \in Threads \ {t} : ~ Uses(u, s)
         /\ \A c \in kernel : c.session # s

\* AcceptClientSessions takes the last element of the free list on the word of
\* two counters: the list holds exactly the sessions that are not issued, each
\* once (ClientSessionManager.cpp:59-64, 50-52).
PoolAccounting ==
  /\ IsInjective(mFreeSessionList)
  /\ Len(mFreeSessionList) = Cardinality(Sessions) - Issued

\* No CRASH_ASSERT of these functions fires (Session.cpp:244,
\* ClientSession.cpp:95, ClientSessionManager.cpp:42).
NoCrash == crashed = "no"

\* mRecvBuffer has no lock.  It needs none: at any time one party at most, the
\* kernel filling it or one thread between a completion and the next receive,
\* may touch it, and a reset finds it idle.
RecvParties(s) ==
  {c \in kernel : c.session = s /\ c.io \in {"IO_RECV_ZERO", "IO_RECV"}}
    \cup {t \in Threads : \E op \in Pending(t) :
            /\ SessionOf(op) = s
            /\ op.call \in {"PostRecv", "WSARecv", "PacketHandling", "PreRecv",
                            "WSARecvZero", "SessionReset"}}

OneReceiver == \A s \in Sessions : Cardinality(RecvParties(s)) <= 1

\* A connection never goes unwatched: while it is up, a receive is pending that
\* will report its end, or a thread is busy with it.  (Not so when the WSARecv
\* of zero bytes fails in AcceptCompletion: that failure is only logged.)
Watched ==
  \A s \in Sessions : mConnected[s] = 1 =>
    \/ \E c \in kernel : c.session = s /\ c.io \in {"IO_RECV_ZERO", "IO_RECV"}
    \/ \E t \in Threads : Uses(t, s)

\* Every session whose connection is lost comes back to the pool.
Closing(s) ==
  /\ s \notin Free /\ mConnected[s] = 0
  /\ \A c \in live : c.session = s => c.io # "IO_ACCEPT"

Reclaimed == \A s \in Sessions : Closing(s) ~> s \in Free
=============================================================================
