---------------------------- MODULE DatabaseJobs ----------------------------
(***************************************************************************)
(* SessionPool with the database pipeline of HW_07_LOG_DUMP: the accept    *)
(* of a connection posts three requests to the completion port of the      *)
(* database threads (DBManager, Player), these execute them and post the   *)
(* results to the port of the IO workers (DBThread), one of which hands    *)
(* each result to the session's player and deletes it (IOThread).          *)
(*                                                                         *)
(* A request is a DatabaseJobContext, which holds a reference to its       *)
(* session from its constructor to its destructor.  A request that is      *)
(* being executed counts as one that is still in the port: the queries     *)
(* take any time and end in any order, as they do with several threads.    *)
(* A call that posts to a port and fails stops the server; it is left out. *)
(***************************************************************************)
EXTENDS SessionPool

CONSTANT Requests  \* bound: which of its three requests an accept makes

Queries == {"Create", "Load", "Delete"}

ASSUME RequestsAssumption == Requests \in Seq(Queries) /\ IsInjective(Requests)

Jobs == [session : Sessions, query : Queries]

VARIABLES
  loaded,          \* the session's player has its data: mPlayerId is not -1
  dbContexts,      \* requests constructed and not yet deleted
  mDbCompletionPort,
  results          \* requests in the port of the IO workers

dbVars == <<loaded, dbContexts, mDbCompletionPort, results>>
allVars == <<vars, dbVars>>

PoolUnchanged ==
  UNCHANGED <<sessionVars, managerVars, contextVars, completionOk, accepting, issueRef>>

-----------------------------------------------------------------------------
(***************************************************************************)
(* The requests.                                                           *)
(***************************************************************************)
\* In place of the one of SessionPool: no key is sent, but a player created,
\* loaded and deleted.
AcceptWithRequests(t) ==
  LET s == Obj(t)
  IN  /\ Calling(t, "AcceptCompletion")
      /\ CrashAssert(mConnected[s] = 0, "AcceptCompletion")
      /\ Set(mConnected, s, 1)
      /\ \/ /\ Set(associated, s, TRUE)
            /\ Do(t, <<Op("PreRecv", s)>> \o
                           [i \in DOMAIN Requests |-> Op(Requests[i], s)])
         \/ /\ "Setup" \in Faults
            /\ Do(t, <<Op("DisconnectRequest", s)>>)
            /\ UNCHANGED associated
      /\ UNCHANGED <<mRefCount, managerVars, contextVars, completionOk, accepting, issueRef,
                     loaded, dbContexts, mDbCompletionPort, results>>

\* In place of PacketHandling: what is received is echoed, as far as the send
\* buffer has room, and no handler disconnects.
EchoBack(t) ==
  /\ Calling(t, "PacketHandling")
  /\ Do(t, <<>>)
  /\ UNCHANGED <<sessionVars, managerVars, contextVars, completionOk, accepting,
                 issueRef, crashed>>

\* Mutant: the request's constructor takes no reference.
PostDatabsaseRequestWithoutAddRef(t, query) ==
  LET job == [session |-> Obj(t), query |-> query]
  IN  /\ Calling(t, query)
      /\ dbContexts' = dbContexts \cup {job}
      /\ mDbCompletionPort' = mDbCompletionPort \cup {job}
      /\ Do(t, <<>>)
      /\ UNCHANGED <<sessionVars, managerVars, contextVars, completionOk, accepting,
                     issueRef, crashed, loaded, results>>

\* The new context takes its reference and is posted.
PostDatabsaseRequest(t, query) ==
  LET job == [session |-> Obj(t), query |-> query]
  IN  /\ Calling(t, query)
      /\ AddRef(Obj(t))
      /\ dbContexts' = dbContexts \cup {job}
      /\ mDbCompletionPort' = mDbCompletionPort \cup {job}
      /\ Do(t, <<>>)
      /\ UNCHANGED <<mConnected, associated, managerVars, contextVars, completionOk,
                     accepting, issueRef, crashed, loaded, results>>

\* Mutant: the result of a query that has failed is not posted.
DoDatabaseJobOnSuccess(job) ==
  /\ crashed = "no"
  /\ job \in mDbCompletionPort
  /\ mDbCompletionPort' = mDbCompletionPort \ {job}
  /\ results' = results \cup {job} \/ UNCHANGED results
  /\ UNCHANGED <<vars, loaded, dbContexts>>

\* A database thread executes the statement, with or without success, and
\* posts the result.
DoDatabaseJob(job) ==
  /\ crashed = "no"
  /\ job \in mDbCompletionPort
  /\ mDbCompletionPort' = mDbCompletionPort \ {job}
  /\ results' = results \cup {job}
  /\ UNCHANGED <<vars, loaded, dbContexts>>

-----------------------------------------------------------------------------
(***************************************************************************)
(* The results, in IOThread::DoIocpJob.                                    *)
(***************************************************************************)
\* Mutant: the context is deleted before its result is used.
HandlingResultDeleteFirst(job) == <<Op("DeleteDbContext", job), Op("OnResult", job)>>

HandlingResult(job) == <<Op("OnResult", job), Op("DeleteDbContext", job)>>

CompleteResult(t, job) ==
  /\ crashed = "no"
  /\ todo[t] = <<>>
  /\ job \in results
  /\ results' = results \ {job}
  /\ Set(todo, t, HandlingResult(job))
  /\ UNCHANGED <<sessionVars, managerVars, contextVars, completionOk, accepting,
                 issueRef, crashed, loaded, dbContexts, mDbCompletionPort>>

\* Only a Load that succeeds changes the player, inside mPlayerLock.
OnResult(t) ==
  LET job == Obj(t)
  IN  /\ Calling(t, "OnResult")
      /\ \/ job.query = "Load" /\ Set(loaded, job.session, TRUE)
         \/ UNCHANGED loaded
      /\ Do(t, <<>>)
      /\ PoolUnchanged
      /\ UNCHANGED <<crashed, dbContexts, mDbCompletionPort, results>>

DeleteDbContext(t) ==
  LET job == Obj(t)
  IN  /\ Calling(t, "DeleteDbContext")
      /\ dbContexts' = dbContexts \ {job}
      /\ ReleaseRef(t, job.session)
      /\ UNCHANGED <<mConnected, associated, managerVars, contextVars, completionOk,
                     accepting, issueRef, loaded, mDbCompletionPort, results>>

\* SessionReset, between the send buffer and the return, resets the player.
ResetBufferAndPlayer(t) ==
  /\ Calling(t, "ResetSendBuffer")
  /\ Do(t, <<Op("PlayerReset", Obj(t))>>)
  /\ UNCHANGED <<crashed, dbVars>> /\ PoolUnchanged

PlayerReset(t) ==
  /\ Calling(t, "PlayerReset")
  /\ Set(loaded, Obj(t), FALSE)
  /\ Do(t, <<>>)
  /\ PoolUnchanged
  /\ UNCHANGED <<crashed, dbContexts, mDbCompletionPort, results>>

-----------------------------------------------------------------------------
DbInit ==
  /\ Init
  /\ loaded = [s \in Sessions |-> FALSE]
  /\ dbContexts = {}
  /\ mDbCompletionPort = {}
  /\ results = {}

PoolCall(t) ==
  /\ \/ DeleteIoContext(t)      \/ DisconnectRequest(t) \/ DisconnectEx(t)
     \/ PreRecv(t)              \/ PostRecv(t)
     \/ WSARecvZero(t)          \/ WSARecv(t)
     \/ EchoBack(t)             \/ CheckCompletion(t)
     \/ DisconnectCompletion(t)
     \/ ReturnAssert(t)         \/ SessionReset(t)      \/ ReturnToPool(t)
  /\ UNCHANGED dbVars

DbCall(t) ==
  \/ AcceptWithRequests(t)
  \/ \E query \in Queries : PostDatabsaseRequest(t, query)
  \/ OnResult(t)
  \/ DeleteDbContext(t)
  \/ ResetBufferAndPlayer(t)
  \/ PlayerReset(t)

WithoutDb(A) == A /\ UNCHANGED dbVars

DbNext ==
  \/ WithoutDb(AcceptClientSessions)
  \/ \E t \in Threads : PoolCall(t) \/ DbCall(t) \/ WithoutDb(ReturnLock(t))
  \/ \E t \in Workers : WithoutDb(DoIocpJob(t)) \/ \E job \in results : CompleteResult(t, job)
  \/ \E job \in mDbCompletionPort : DoDatabaseJob(job)

\* The fairness of SessionPool; the database threads keep running and execute
\* their statements, and a result is a completion that is due.
CompleteResultOf(s) ==
  \E t \in Workers, job \in results : job.session = s /\ CompleteResult(t, job)

DbFairness ==
  /\ WF_allVars(WithoutDb(AcceptClientSessions))
  /\ \A t \in Threads :
       /\ WF_allVars(PoolCall(t) \/ DbCall(t))
       /\ SF_allVars(WithoutDb(ReturnLock(t)))
  /\ \A s \in Sessions :
       /\ SF_allVars(WithoutDb(CompleteDue(s)))
       /\ SF_allVars(CompleteResultOf(s))
  /\ WF_allVars(\E job \in mDbCompletionPort : DoDatabaseJob(job))

DbSpec == DbInit /\ [][DbNext]_allVars /\ DbFairness

-----------------------------------------------------------------------------
(***************************************************************************)
(* Properties; Watched and Reclaimed are those of SessionPool.             *)
(***************************************************************************)

\* The reference count with the references of the requests, which three kinds
\* of threads hold one after the other (DBContext.cpp:10, 15).
RefCountWithJobs ==
  \A s \in Sessions :
    mRefCount[s] = Cardinality({c \in live : c.session = s})
                     + Cardinality({job \in dbContexts : job.session = s})
                     + (IF s \in issueRef THEN 1 ELSE 0)

\* A result is used for the connection that has asked for it: however long the
\* query takes, its session is neither reset nor in the pool, and a player has
\* never the data of an earlier connection: not while it is in the pool, nor
\* while its own Load is still to be answered (IOThread.cpp:48-53,
\* Player.cpp:16-47).
LoadUnanswered(s) ==
  \/ \E t \in Threads : Op("Load", s) \in Pending(t)
  \/ [session |-> s, query |-> "Load"] \in mDbCompletionPort \cup results

ResultReachesRequester ==
  /\ \A job \in dbContexts :
       /\ job.session \notin Free
       /\ \A t \in Threads : ~ Returning(t, job.session)
  /\ \A t \in Threads : \A op \in Pending(t) :
       op.call = "OnResult" => op.obj \in dbContexts
  /\ \A s \in Sessions : loaded[s] => s \notin Free /\ ~ LoadUnanswered(s)

\* Every request is answered: its result, good or bad, comes back and the
\* request is deleted, on whatever thread and in whatever order.
JobsAnswered == \A job \in Jobs : job \in dbContexts ~> job \notin dbContexts
=============================================================================
