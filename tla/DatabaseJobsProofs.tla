------------------------- MODULE DatabaseJobsProofs -------------------------
(***************************************************************************)
(* Theorems about DatabaseJobs, for any sessions, workers, context slots,  *)
(* failing system calls and requests of an accept: the count of references *)
(* is exact with those of the requests, a result is used for the           *)
(* connection that asked for it, no player keeps the data of an earlier    *)
(* one, and the session pool keeps what it has without the requests.       *)
(*                                                                         *)
(* The invariant of the pool (SessionPoolProofs) is taken with the number  *)
(* of a session's requests as its other references.  To it comes where the *)
(* requests are: each in one of the two ports or with one thread, or still *)
(* to be posted, once, by the thread that accepted the connection.  A      *)
(* session whose connection is not accepted yet has no request at all, so  *)
(* an accept never asks for what is already asked for.                     *)
(***************************************************************************)
EXTENDS DatabaseJobs, SessionPoolProofs

\* The calls on requests and results, and all calls of the two modules.
DbCalls == Queries \cup ResultCalls

DbOps ==
  [call : OpCalls \cup DbCalls \cup {"PlayerReset"}, obj : Sessions \cup Contexts \cup Jobs]

\* The list holds the call that posts the request; it holds no request twice.
Asks(q, job) == \E i \in 1 .. Len(q) : IsOp(q[i], job.query, job.session)

AskedOnce(q) ==
  \A i, j \in 1 .. Len(q) :
    q[i].call \in Queries /\ IsOp(q[j], q[i].call, q[i].obj) => i = j

\* The list is what is left of the handling of the request's result.
Carries(q, job) == q \in {HandlingResult(job), <<Op("DeleteDbContext", job)>>}

\* The session waits for its connection, or is about to handle it.
Accepting(T, K, s) == Token(T, K, s, {"IO_ACCEPT"}, {"AcceptCompletion"})

\* The session has no request, and the player no data.
Unasked(T, D, B, s) ==
  /\ ~ B[s]
  /\ \A job \in D : job.session # s
  /\ \A t \in Threads, job \in Jobs : Asks(T[t], job) => job.session # s

\* A request is in the port of the database threads, in the port of the IO workers,
\* or with one thread.
Placed(T, D, P, R) ==
  /\ P \subseteq D /\ R \subseteq D /\ P \cap R = {}
  /\ \A t \in Threads, job \in Jobs : Carries(T[t], job) => job \in D \ (P \cup R)
  /\ \A t, u \in Threads, job \in Jobs : Carries(T[t], job) /\ Carries(T[u], job) => t = u
  /\ \A t \in Threads : Foreign(T[t]) => T[t] = <<>> \/ \E job \in Jobs : Carries(T[t], job)

\* A request that is still to be posted does not exist, and is posted once.
Asked(T, D) ==
  /\ \A t \in Threads, job \in Jobs : Asks(T[t], job) => job \notin D
  /\ \A t, u \in Threads, job \in Jobs : Asks(T[t], job) /\ Asks(T[u], job) => t = u
  /\ \A t \in Threads : AskedOnce(T[t])

\* A player with data is neither in the pool nor about to get there, and its Load
\* is answered.
LoadDone(T, F, P, R, B) ==
  \A s \in Sessions : B[s] =>
    /\ s \notin F
    /\ \A t \in Threads : ~ Starts(T[t], {"ReturnToPool"}, s)
    /\ \A job \in Jobs : job.session = s /\ job.query = "Load" =>
         job \notin P \cup R /\ \A t \in Threads : ~ Asks(T[t], job)

\* The four together: T is todo, K the kernel, F the free list, D the requests, P
\* and R the two ports, B the players with data.
Answers(T, K, F, D, P, R, B) ==
  /\ Placed(T, D, P, R)
  /\ Asked(T, D)
  /\ LoadDone(T, F, P, R, B)
  /\ \A s \in Sessions : Accepting(T, K, s) => Unasked(T, D, B, s)

-----------------------------------------------------------------------------
(***************************************************************************)
(* Lists of calls.                                                         *)
(***************************************************************************)
\* The calls of p are calls of the pool, or calls of q at the same distance.
Shift(q, p) ==
  \E k \in Int : \A i \in 1 .. Len(p) :
    \/ p[i].call \in OpCalls \cup {"PlayerReset"}
    \/ i + k \in 1 .. Len(q) /\ p[i] = q[i + k]

\* What such a list asks for, the other asks for, no request twice.
LEMMA Shifted ==
  ASSUME NEW q, NEW p, Len(q) \in Nat, Len(p) \in Nat, Shift(q, p)
  PROVE  /\ \A job \in Jobs : Asks(p, job) => Asks(q, job)
         /\ AskedOnce(q) => AskedOnce(p)
<1>1. PICK k \in Int : \A i \in 1 .. Len(p) :
        \/ p[i].call \in OpCalls \cup {"PlayerReset"}
        \/ i + k \in 1 .. Len(q) /\ p[i] = q[i + k]
  BY DEF Shift
<1>2. \A i \in 1 .. Len(p) :
        p[i].call \in Queries => i + k \in 1 .. Len(q) /\ p[i] = q[i + k]
  <2>1. Queries \cap (OpCalls \cup {"PlayerReset"}) = {}
    BY DEF Queries, OpCalls
  <2> QED BY <1>1, <2>1
<1>3. ASSUME NEW job \in Jobs, Asks(p, job)
      PROVE  Asks(q, job)
  BY <1>2, <1>3 DEF Asks, IsOp, Jobs
<1>4. ASSUME AskedOnce(q), NEW i \in 1 .. Len(p), NEW j \in 1 .. Len(p),
             p[i].call \in Queries, IsOp(p[j], p[i].call, p[i].obj)
      PROVE  i = j
  <2>1. i + k \in 1 .. Len(q) /\ p[i] = q[i + k] /\ j + k \in 1 .. Len(q) /\ p[j] = q[j + k]
    BY <1>2, <1>4 DEF IsOp
  <2>2. i + k = j + k
    BY <1>4, <2>1 DEF AskedOnce
  <2>3. i \in Int /\ j \in Int /\ k \in Int
    OBVIOUS
  <2> QED BY <2>2, <2>3
<1>5. AskedOnce(q) => AskedOnce(p)
  BY <1>4 DEF AskedOnce
<1> QED BY <1>3, <1>5

\* A list that is not changed, and an empty one.
LEMMA ShiftSame ==
  ASSUME NEW q, Len(q) \in Nat
  PROVE  Shift(q, q)
<1>1. \A i \in 1 .. Len(q) : i + 0 \in 1 .. Len(q) /\ q[i] = q[i + 0]
  OBVIOUS
<1> QED BY <1>1 DEF Shift

\* A list of calls of X is one of calls of X and others.
LEMMA WiderSeq ==
  ASSUME NEW X, NEW Y, NEW q \in Seq(X)
  PROVE  q \in Seq(X \cup Y) /\ q \in Seq(Y \cup X)
<1>1. Len(q) \in Nat /\ q \in [1 .. Len(q) -> X]
  BY LenProperties
<1>2. q \in [1 .. Len(q) -> X \cup Y] /\ q \in [1 .. Len(q) -> Y \cup X]
  BY <1>1
<1> QED BY <1>1, <1>2, IsASeq

\* What a thread of the pool has before it when a call is made that is followed by
\* the calls ops.
LEMMA Moved ==
  ASSUME NEW X, NEW q \in Seq(X), q # <<>>, q[1].call \in OpCalls \ {"ResetSendBuffer"},
         (\E c \in Contexts : Plan(q, c)) \/ (\E s \in Sessions : q \in Chains(s)),
         NEW Z, NEW ops \in Seq([call : OpCalls \ {"AcceptCompletion"}, obj : Z]),
         ops = <<>> \/ ops[1].call # "ReturnToPool",
         NEW p, p = ops \o Tail(q)
  PROVE  /\ Len(p) \in Nat /\ Shift(q, p)
         /\ \A i \in 1 .. Len(p) : p[i].call \notin ResultCalls
         /\ \A s : ~ Starts(p, {"AcceptCompletion"}, s) /\ ~ Starts(p, {"ReturnToPool"}, s)
<1> DEFINE Y == [call : OpCalls \ {"AcceptCompletion"}, obj : Z]
           r == Tail(q)
           n == Len(ops)
<1>0. ops \in Seq(Y)
  OBVIOUS
<1>1. /\ q \in Seq(X \cup Y) /\ ops \in Seq(X \cup Y)
  <2> HIDE DEF Y
  <2> QED BY <1>0, WiderSeq
<1>2. r \in Seq(X \cup Y) /\ Len(r) = Len(q) - 1 /\ Len(r) \in Nat /\ Len(q) \in Nat
      /\ \A i \in 1 .. Len(q) - 1 : r[i] = q[i + 1]
  <2> HIDE DEF Y
  <2> QED BY <1>1, NotEmpty, LenProperties
<1>3. n \in Nat /\ \A i \in 1 .. n : ops[i].call \in OpCalls \ {"AcceptCompletion"}
  <2>1. \A o \in Y : o.call \in OpCalls \ {"AcceptCompletion"}
    OBVIOUS
  <2> HIDE DEF Y
  <2>2. \A i \in 1 .. Len(ops) : ops[i] \in Y
    BY <1>0, ElementOfSeq
  <2> QED BY <2>1, <2>2, LenProperties
<1>4. /\ Len(p) = n + Len(r)
      /\ \A i \in 1 .. Len(p) : p[i] = IF i <= n THEN ops[i] ELSE r[i - n]
  <2> HIDE DEF Y, r
  <2>1. /\ Len(ops \o r) = Len(ops) + Len(r)
        /\ \A i \in 1 .. Len(ops) + Len(r) :
             (ops \o r)[i] = IF i <= Len(ops) THEN ops[i] ELSE r[i - Len(ops)]
    BY <1>1, <1>2, ConcatProperties
  <2>2. p = ops \o r
    BY DEF r
  <2> QED BY <2>1, <2>2
<1>5. \A i \in 1 .. Len(p) :
        \/ i <= n /\ p[i] = ops[i] /\ i \in 1 .. n
        \/ i > n /\ p[i] = r[i - n] /\ i - n \in 1 .. Len(r)
  <2> HIDE DEF r, n
  <2> QED BY <1>2, <1>3, <1>4
<1>6. /\ \A i \in 1 .. Len(q) : q[i].call \notin ResultCalls
      /\ r # <<>> => r[1].call \notin {"AcceptCompletion", "ReturnToPool"}
  <2>1. CASE \E c \in Contexts : Plan(q, c)
    <3>1. PICK c \in Contexts : Plan(q, c)
      BY <2>1
    <3>2. \A i \in 1 .. Len(q) : q[i].call \in FrontCalls \cup LateCalls
      BY <3>1, PlanOps DEF Serves, FrontCalls
    <3>3. r # <<>> => r[1].call \in LateCalls \cup {"PreRecv"}
      <4>1. r \in Seq(X)
        BY NotEmpty
      <4>2. Onward(r, c) \/ r = <<>>
        BY <3>1, PlanHead
      <4> HIDE DEF r
      <4> QED BY <4>1, <4>2, OnwardHeld
    <3> QED BY <3>2, <3>3 DEF FrontCalls, LateCalls, ResultCalls
  <2>2. CASE \E s \in Sessions : q \in Chains(s)
    <3>1. PICK s \in Sessions : q \in Chains(s)
      BY <2>2
    <3>2. \A i \in 1 .. Len(q) : q[i].call \in ReturnCalls
      BY <3>1, ChainFacts
    <3>3. r = <<>> \/ r[1].call \notin {"AcceptCompletion", "ReturnToPool"}
      BY <3>1, Tails DEF Chains, Op, OpCalls
    <3> QED BY <3>2, <3>3 DEF ReturnCalls, ResultCalls
  <2> QED BY <2>1, <2>2
<1>7. Len(p) \in Nat /\ Shift(q, p)
  <2>1. 1 - n \in Int /\ Len(p) \in Nat
    BY <1>2, <1>3, <1>4
  <2>2. ASSUME NEW i \in 1 .. Len(p), i > n, p[i] = r[i - n], i - n \in 1 .. Len(r)
        PROVE  i + (1 - n) \in 1 .. Len(q) /\ p[i] = q[i + (1 - n)]
    <3>1. i - n \in 1 .. Len(q) - 1 /\ (i - n) + 1 = i + (1 - n)
      BY <1>2, <1>3, <2>2
    <3>2. r[i - n] = q[(i - n) + 1]
      BY <1>2, <3>1
    <3>3. i + (1 - n) \in 1 .. Len(q)
      BY <1>2, <1>3, <3>1
    <3> QED BY <2>2, <3>1, <3>2, <3>3
  <2>3. \A i \in 1 .. Len(p) : \/ p[i].call \in OpCalls \cup {"PlayerReset"}
                               \/ i + (1 - n) \in 1 .. Len(q) /\ p[i] = q[i + (1 - n)]
    BY <1>3, <1>5, <2>2
  <2> QED BY <2>1, <2>3 DEF Shift
<1>8. \A i \in 1 .. Len(p) : p[i].call \notin ResultCalls
  <2>1. \A i \in 1 .. Len(r) : r[i].call \notin ResultCalls
    <3>1. \A i \in 1 .. Len(r) : i + 1 \in 1 .. Len(q) /\ r[i] = q[i + 1]
      BY <1>2
    <3> QED BY <1>6, <3>1
  <2>2. OpCalls \cap ResultCalls = {}
    BY DEF OpCalls, ResultCalls
  <2> QED BY <1>3, <1>5, <2>1, <2>2
<1>9. ASSUME p # <<>>
      PROVE  p[1].call \notin {"AcceptCompletion", "ReturnToPool"}
  <2>1. CASE ops = <<>>
    <3>1. p = r
      <4> HIDE DEF Y
      <4> QED BY <1>1, <1>2, <2>1, NotEmpty
    <3> QED BY <1>6, <1>9, <3>1
  <2>2. CASE ops # <<>>
    <3>1. n >= 1
      BY <2>2, NotEmpty
    <3>2. p[1] = ops[1] /\ 1 \in 1 .. n
      BY <1>2, <1>3, <1>4, <3>1
    <3> QED BY <1>3, <2>2, <3>2
  <2> QED BY <2>1, <2>2
<1> QED BY <1>7, <1>8, <1>9 DEF Starts

-----------------------------------------------------------------------------
(***************************************************************************)
(* The steps of the pool.                                                  *)
(***************************************************************************)
\* What carries a result is a list of calls on results, about that request.
LEMMA CarriesForeign ==
  ASSUME NEW q, NEW job, Carries(q, job)
  PROVE  Foreign(q) /\ q # <<>> /\ (q[1].call = "OnResult" \/ q[1].call = "DeleteDbContext")
         /\ q[1].obj = job
<1>1. CASE q = HandlingResult(job)
  BY <1>1 DEF HandlingResult, Op, Foreign, ResultCalls
<1>2. CASE q = <<Op("DeleteDbContext", job)>>
  BY <1>2 DEF Op, Foreign, ResultCalls
<1> QED BY <1>1, <1>2 DEF Carries

\* Thread t goes on with p, which posts no request that it did not post before.
LEMMA AnswersMoved ==
  ASSUME NEW X, NEW T \in [Threads -> Seq(X)], NEW K, NEW F, NEW D, NEW P, NEW R, NEW B,
         Answers(T, K, F, D, P, R, B),
         NEW t \in Threads, NEW p, Len(p) \in Nat, Shift(T[t], p),
         p = T[t] \/ p = <<>> \/ ~ Foreign(p),
         NEW M, NEW G,
         \A s \in Sessions : Accepting([T EXCEPT ![t] = p], M, s) =>
           Accepting(T, K, s) \/ Unasked(T, D, B, s),
         \A s \in Sessions : s \in G => s \in F \/ ~ B[s],
         \A s \in Sessions : Starts(p, {"ReturnToPool"}, s) => ~ B[s]
  PROVE  Answers([T EXCEPT ![t] = p], M, G, D, P, R, B)
<1> DEFINE U == [T EXCEPT ![t] = p]
<1>1. U[t] = p /\ \A u \in Threads \ {t} : U[u] = T[u]
  OBVIOUS
<1>2. \A u \in Threads, job \in Jobs : Carries(U[u], job) => Carries(T[u], job)
  BY <1>1, CarriesForeign
<1>3. Len(T[t]) \in Nat
  BY LenProperties
<1>4. \A u \in Threads : \A job \in Jobs : Asks(U[u], job) => Asks(T[u], job)
  BY <1>1, <1>3, Shifted
<1>5. \A u \in Threads : AskedOnce(T[u]) => AskedOnce(U[u])
  BY <1>1, <1>3, Shifted
<1> HIDE DEF U
<1>6. Placed(U, D, P, R)
  BY <1>1, <1>2 DEF Answers, Placed
<1>7. Asked(U, D)
  BY <1>4, <1>5 DEF Answers, Asked
<1>8. LoadDone(U, G, P, R, B)
  BY <1>1, <1>4 DEF Answers, LoadDone
<1>9. \A s \in Sessions : Accepting(U, M, s) => Unasked(U, D, B, s)
  <2>1. \A s \in Sessions : Accepting(U, M, s) => Unasked(T, D, B, s)
    BY DEF Answers, U
  <2> QED BY <1>4, <2>1 DEF Unasked
<1> QED BY <1>6, <1>7, <1>8, <1>9 DEF Answers, U

\* A call of the pool: it ends, or one call or the reset follows.
MoveCalls == OpCalls \ {"AcceptCompletion", "ResetSendBuffer", "ReturnToPool"}

Moves(t) ==
  /\ todo[t] # <<>> /\ todo[t][1].call \in OpCalls \ {"ResetSendBuffer"}
  /\ \/ Do(t, <<>>)
     \/ \E call \in MoveCalls : \E obj : Do(t, <<Op(call, obj)>>)
     \/ \E s : Do(t, <<Op("SessionReset", s), Op("ResetSendBuffer", s), Op("ReturnToPool", s)>>)
  /\ \A c \in kernel' \ kernel : c.io # "IO_ACCEPT"
  /\ \/ mFreeSessionList' = mFreeSessionList
     \/ /\ todo[t][1].call = "ReturnToPool"
        /\ mFreeSessionList' = Append(mFreeSessionList, todo[t][1].obj)

\* A system call that is posted ends the call, or is followed by a deletion.
LEMMA PostMoves ==
  ASSUME NEW X, TypeInv(X), NEW t \in Threads, NEW call \in OpCalls \ {"ResetSendBuffer"},
         Calling(t, call), Obj(t) \in Sessions, NEW io \in IOTypes \ {"IO_ACCEPT"}, NEW sys,
         Post(t, Obj(t), io, sys, <<>>), mFreeSessionList' = mFreeSessionList
  PROVE  Moves(t)
<1> DEFINE c == NewContext(Obj(t), io)
<1>1. todo[t] # <<>> /\ todo[t][1].call = call
  BY NotEmpty DEF TypeInv, Calling
<1>2. c.io = io
  BY Fresh DEF Post
<1>3. \/ Do(t, <<>>) /\ kernel' = kernel \cup {c}
      \/ Do(t, <<Op("DeleteIoContext", c)>>) /\ kernel' = kernel
  <2>1. <<Op("DeleteIoContext", c)>> \o <<>> = <<Op("DeleteIoContext", c)>>
    OBVIOUS
  <2> QED BY <2>1 DEF Post
<1>4. "DeleteIoContext" \in MoveCalls
  BY DEF MoveCalls, OpCalls
<1> HIDE DEF c
<1>5. \A d \in kernel' \ kernel : d.io # "IO_ACCEPT"
  BY <1>2, <1>3
<1> QED BY <1>1, <1>3, <1>4, <1>5 DEF Moves

\* Each call of the pool is such a move.
LEMMA PoolMoves ==
  ASSUME NEW X, HasPoolOps(X), NEW J, PoolInv(X, J), NEW t \in Threads,
         PoolCall(t) \/ ReturnLock(t)
  PROVE  Moves(t)
<1>0. TypeInv(X)
  BY DEF PoolInv
<1>1. \A call : Calling(t, call) => todo[t] # <<>> /\ todo[t][1].call = call
                                    /\ todo[t][1].obj = Obj(t)
  BY <1>0, NotEmpty DEF TypeInv, Calling, Obj
<1>2. ASSUME NEW call \in {"DisconnectEx", "WSARecvZero", "WSARecv"}, Calling(t, call)
      PROVE  Obj(t) \in Sessions
  <2>1. call \in OpCalls \ (ReturnCalls \cup {"DeleteIoContext"})
    BY DEF OpCalls, ReturnCalls
  <2> QED BY <1>2, <2>1, Caller DEF Served
<1>3. CASE DisconnectEx(t)
  <2>0. Obj(t) \in Sessions
    BY <1>3, <1>2 DEF DisconnectEx
  <2>1. Calling(t, "DisconnectEx") /\ Post(t, Obj(t), "IO_DISCONNECT", "DisconnectEx", <<>>)
        /\ mFreeSessionList' = mFreeSessionList
    BY <1>3 DEF DisconnectEx, managerVars
  <2>2. "DisconnectEx" \in OpCalls \ {"ResetSendBuffer"}
        /\ "IO_DISCONNECT" \in IOTypes \ {"IO_ACCEPT"}
    BY DEF OpCalls, IOTypes
  <2> QED BY <1>0, <2>0, <2>1, <2>2, PostMoves
<1>4. CASE WSARecvZero(t)
  <2>0. Obj(t) \in Sessions
    BY <1>4, <1>2 DEF WSARecvZero
  <2>1. Calling(t, "WSARecvZero") /\ Post(t, Obj(t), "IO_RECV_ZERO", "WSARecvZero", <<>>)
        /\ mFreeSessionList' = mFreeSessionList
    BY <1>4 DEF WSARecvZero, managerVars
  <2>2. "WSARecvZero" \in OpCalls \ {"ResetSendBuffer"}
        /\ "IO_RECV_ZERO" \in IOTypes \ {"IO_ACCEPT"}
    BY DEF OpCalls, IOTypes
  <2> QED BY <1>0, <2>0, <2>1, <2>2, PostMoves
<1>5. CASE WSARecv(t)
  <2>0. Obj(t) \in Sessions
    BY <1>5, <1>2 DEF WSARecv
  <2>1. Calling(t, "WSARecv") /\ Post(t, Obj(t), "IO_RECV", "WSARecv", <<>>)
        /\ mFreeSessionList' = mFreeSessionList
    BY <1>5 DEF WSARecv, managerVars
  <2>2. "WSARecv" \in OpCalls \ {"ResetSendBuffer"}
        /\ "IO_RECV" \in IOTypes \ {"IO_ACCEPT"}
    BY DEF OpCalls, IOTypes
  <2> QED BY <1>0, <2>0, <2>1, <2>2, PostMoves
<1>6. CASE DeleteIoContext(t) \/ DisconnectCompletion(t)
  <2>1. PICK call \in {"DeleteIoContext", "DisconnectCompletion"} :
          /\ Calling(t, call)
          /\ kernel' = kernel /\ mFreeSessionList' = mFreeSessionList
    BY <1>6 DEF DeleteIoContext, DisconnectCompletion, managerVars, contextVars
  <2>2. Do(t, <<>>) \/ \E s : Do(t, <<Op("ReturnLock", s)>>)
    <3>1. CASE DeleteIoContext(t)
      BY <3>1 DEF DeleteIoContext, ReleaseRef
    <3>2. CASE DisconnectCompletion(t)
      BY <3>2 DEF DisconnectCompletion, ReleaseRef
    <3> QED BY <1>6, <3>1, <3>2
  <2>3. "ReturnLock" \in MoveCalls /\ call \in OpCalls \ {"ResetSendBuffer"}
    BY DEF MoveCalls, OpCalls
  <2> QED BY <1>1, <2>1, <2>2, <2>3 DEF Moves
<1>7. CASE DisconnectRequest(t) \/ CheckCompletion(t) \/ EchoBack(t)
           \/ PreRecv(t) \/ PostRecv(t) \/ SessionReset(t) \/ ReturnLock(t)
  <2>1. /\ kernel' = kernel /\ mFreeSessionList' = mFreeSessionList
        /\ \E call \in OpCalls \ {"ResetSendBuffer"} : Calling(t, call)
        /\ \/ Do(t, <<>>)
           \/ \E call \in {"DisconnectEx", "DisconnectRequest", "WSARecvZero", "WSARecv",
                           "ReturnAssert"} : Do(t, <<Op(call, Obj(t))>>)
    <3>1. CASE DisconnectRequest(t)
      BY <3>1 DEF DisconnectRequest, contextVars, managerVars, OpCalls
    <3>2. CASE CheckCompletion(t)
      BY <3>2 DEF CheckCompletion, contextVars, managerVars, OpCalls
    <3>3. CASE EchoBack(t)
      BY <3>3 DEF EchoBack, contextVars, managerVars, OpCalls
    <3>4. CASE PreRecv(t)
      BY <3>4 DEF PreRecv, CheckConnected, contextVars, managerVars, OpCalls
    <3>5. CASE PostRecv(t)
      BY <3>5 DEF PostRecv, CheckConnected, contextVars, managerVars, OpCalls
    <3>6. CASE SessionReset(t)
      BY <3>6 DEF SessionReset, contextVars, managerVars, OpCalls
    <3>7. CASE ReturnLock(t)
      BY <3>7 DEF ReturnLock, contextVars, OpCalls
    <3> QED BY <1>7, <3>1, <3>2, <3>3, <3>4, <3>5, <3>6, <3>7
  <2>2. {"DisconnectEx", "DisconnectRequest", "WSARecvZero", "WSARecv", "ReturnAssert"}
          \subseteq MoveCalls
    BY DEF MoveCalls, OpCalls
  <2>3. Do(t, <<>>) \/ \E call \in MoveCalls : \E obj : Do(t, <<Op(call, obj)>>)
    BY <2>1, <2>2
  <2> QED BY <1>1, <2>1, <2>3 DEF Moves
<1>8. CASE ReturnAssert(t)
  <2>1. "ReturnAssert" \in OpCalls \ {"ResetSendBuffer"}
    BY DEF OpCalls
  <2>2. Calling(t, "ReturnAssert") /\ kernel' = kernel /\ mFreeSessionList' = mFreeSessionList
        /\ Do(t, <<Op("SessionReset", Obj(t)), Op("ResetSendBuffer", Obj(t)),
                   Op("ReturnToPool", Obj(t))>>)
    BY <1>8 DEF ReturnAssert, contextVars, managerVars
  <2> QED BY <1>1, <2>1, <2>2 DEF Moves
<1>9. CASE ReturnToPool(t)
  <2>1. "ReturnToPool" \in OpCalls \ {"ResetSendBuffer"}
    BY DEF OpCalls
  <2>2. Calling(t, "ReturnToPool") /\ kernel' = kernel /\ Do(t, <<>>)
        /\ mFreeSessionList' = Append(mFreeSessionList, Obj(t))
    BY <1>9 DEF ReturnToPool, contextVars
  <2> QED BY <1>1, <2>1, <2>2 DEF Moves
<1> QED BY <1>3, <1>4, <1>5, <1>6, <1>7, <1>8, <1>9 DEF PoolCall

\* The other references of a session are its requests.
JobCounts(J) ==
  /\ dbContexts \subseteq Jobs /\ IsFiniteSet(dbContexts)
  /\ J \in [Sessions -> Nat]
  /\ \A s \in Sessions : J[s] = Cardinality(LiveOf(dbContexts, s))

DbAnswers == Answers(todo, kernel, Free, dbContexts, mDbCompletionPort, results, loaded)

\* A session has no other references when it has no request.
LEMMA NoJob ==
  ASSUME NEW J, JobCounts(J), NEW s \in Sessions
  PROVE  J[s] = 0 <=> \A job \in dbContexts : job.session # s
<1>1. J[s] = 0 <=> LiveOf(dbContexts, s) = {}
  BY CountType DEF JobCounts
<1> QED BY <1>1 DEF LiveOf

\* Who is going to post a request serves a completion of its session.
LEMMA Asker ==
  ASSUME NEW X, NEW J, PoolInv(X, J), NEW t \in Threads, NEW job \in Jobs, Asks(todo[t], job)
  PROVE  \E c \in live \ kernel : c \in Contexts /\ c.session = job.session /\ Plan(todo[t], c)
<1> DEFINE q == todo[t]
<1>1. q \in Seq(X) /\ Structured(J)
  BY DEF PoolInv, TypeInv
<1>2. PICK i \in 1 .. Len(q) : IsOp(q[i], job.query, job.session)
  BY DEF Asks
<1>3. q[i].call \in Queries
  BY <1>2 DEF IsOp, Jobs
<1>4. ~ Foreign(q)
  BY <1>3 DEF Foreign, Queries, ResultCalls
<1>5. \A s \in Sessions : q \notin Chains(s)
  BY <1>3, ChainFacts DEF Queries, ReturnCalls
<1>6. PICK c \in Contexts : Plan(q, c)
  BY <1>1, <1>4, <1>5 DEF Structured, Structure, Shapes
<1>7. Serves(q[i], c) /\ c \in Held(q)
  BY <1>1, <1>6, PlanOps, PlanHeld
<1>8. c.session = job.session
  BY <1>2, <1>3, <1>7 DEF Serves, IsOp, Queries
<1> QED BY <1>1, <1>6, <1>7, <1>8 DEF Structured, Structure, Owned

\* A session that is not used has no request and no data.
LEMMA UnusedUnasked ==
  ASSUME NEW X, NEW J, PoolInv(X, J), JobCounts(J), NEW s \in Sessions,
         Unused(J, live, issueRef, s), ~ loaded[s]
  PROVE  Unasked(todo, dbContexts, loaded, s)
<1>1. \A job \in dbContexts : job.session # s
  BY NoJob DEF Unused
<1>2. \A t \in Threads, job \in Jobs : Asks(todo[t], job) => job.session # s
  BY Asker DEF Unused
<1> QED BY <1>1, <1>2 DEF Unasked

\* A call of the pool keeps the requests' part of the invariant.
LEMMA MovesAnswers ==
  ASSUME NEW X, HasPoolOps(X), NEW J, PoolInv(X, J), DbAnswers, NEW t \in Threads,
         PoolCall(t) \/ ReturnLock(t), UNCHANGED dbVars
  PROVE  DbAnswers'
<1> DEFINE q == todo[t]
           Y(Z) == [call : OpCalls \ {"AcceptCompletion"}, obj : Z]
<1>1. /\ todo \in [Threads -> Seq(X)] /\ q \in Seq(X) /\ Structured(J) /\ Moves(t)
      /\ mFreeSessionList \in Seq(Sessions) /\ IsInjective(mFreeSessionList)
      /\ Answers(todo, kernel, Free, dbContexts, mDbCompletionPort, results, loaded)
  BY PoolMoves DEF PoolInv, TypeInv, PoolAccounting, DbAnswers
<1>2. /\ q # <<>> /\ q[1].call \in OpCalls \ {"ResetSendBuffer"}
      /\ (\E c \in Contexts : Plan(q, c)) \/ (\E s \in Sessions : q \in Chains(s))
  <2>1. q # <<>> /\ q[1].call \in OpCalls \ {"ResetSendBuffer"}
    BY <1>1 DEF Moves
  <2>2. ~ Foreign(q)
    BY <1>1, <2>1, ForeignFacts
  <2> QED BY <1>1, <2>1, <2>2 DEF Structured, Structure, Shapes
<1>30. PICK Z : \E ops \in Seq(Y(Z)) :
                 Do(t, ops) /\ (ops = <<>> \/ ops[1].call # "ReturnToPool")
  <2>1. CASE Do(t, <<>>)
    <3>1. <<>> \in Seq(Y({}))
      OBVIOUS
    <3> QED BY <2>1, <3>1
  <2>2. ASSUME NEW call \in MoveCalls, NEW obj, Do(t, <<Op(call, obj)>>)
        PROVE  \E Z : \E ops \in Seq(Y(Z)) :
                 Do(t, ops) /\ (ops = <<>> \/ ops[1].call # "ReturnToPool")
    <3>1. Op(call, obj) \in Y({obj}) /\ call # "ReturnToPool"
      BY DEF Op, MoveCalls
    <3>2. <<Op(call, obj)>> \in Seq(Y({obj})) /\ <<Op(call, obj)>>[1].call = call
      <4>1. Op(call, obj).call = call
        BY DEF Op
      <4> HIDE DEF Y
      <4> QED BY <3>1, <4>1
    <3> HIDE DEF Y
    <3> QED BY <2>2, <3>1, <3>2
  <2>3. ASSUME NEW s, Do(t, <<Op("SessionReset", s), Op("ResetSendBuffer", s),
                             Op("ReturnToPool", s)>>)
        PROVE  \E Z : \E ops \in Seq(Y(Z)) :
                 Do(t, ops) /\ (ops = <<>> \/ ops[1].call # "ReturnToPool")
    <3> DEFINE ops == <<Op("SessionReset", s), Op("ResetSendBuffer", s), Op("ReturnToPool", s)>>
    <3>1. /\ Op("SessionReset", s) \in Y({s}) /\ Op("ResetSendBuffer", s) \in Y({s})
          /\ Op("ReturnToPool", s) \in Y({s})
      BY DEF Op, OpCalls
    <3>2. ops \in Seq(Y({s})) /\ ops[1].call # "ReturnToPool"
      <4>1. Op("SessionReset", s).call # "ReturnToPool"
        BY DEF Op
      <4> HIDE DEF Y
      <4> QED BY <3>1, <4>1
    <3> HIDE DEF Y
    <3> QED BY <2>3, <3>2
  <2> HIDE DEF Y
  <2> QED BY <1>1, <2>1, <2>2, <2>3 DEF Moves
<1>3. PICK ops \in Seq(Y(Z)) : Do(t, ops) /\ (ops = <<>> \/ ops[1].call # "ReturnToPool")
  BY <1>30
<1> DEFINE p == ops \o Tail(q)
<1>4. /\ Len(p) \in Nat /\ Shift(q, p)
      /\ \A i \in 1 .. Len(p) : p[i].call \notin ResultCalls
      /\ \A s : ~ Starts(p, {"AcceptCompletion"}, s) /\ ~ Starts(p, {"ReturnToPool"}, s)
  <2> HIDE DEF q
  <2> QED BY <1>1, <1>2, <1>3, Moved
<1>5. todo' = [todo EXCEPT ![t] = p]
  BY <1>1, <1>2, <1>3, Doing
<1> HIDE DEF p
<1>6. p = <<>> \/ ~ Foreign(p)
  <2>1. CASE Len(p) = 0
    <3>1. p = <<>>
      <4>1. PICK S : p \in Seq(S)
        <5>1. ops \in Seq(Y(Z) \cup X) /\ Tail(q) \in Seq(Y(Z) \cup X)
          <6>1. Tail(q) \in Seq(X)
            BY <1>1, <1>2, NotEmpty
          <6> HIDE DEF q, Y
          <6> QED BY <1>3, <6>1, WiderSeq
        <5> HIDE DEF q, Y
        <5> QED BY <5>1, ConcatProperties DEF p
      <4> QED BY <2>1, <4>1, Empty
    <3> QED BY <3>1
  <2>2. CASE Len(p) # 0
    <3>1. 1 \in 1 .. Len(p)
      BY <1>4, <2>2
    <3> QED BY <1>4, <3>1 DEF Foreign
  <2> QED BY <2>1, <2>2
<1>7. \A s \in Sessions :
        Accepting([todo EXCEPT ![t] = p], kernel', s) => Accepting(todo, kernel, s)
  <2>1. \A c \in kernel' \ kernel : c.io # "IO_ACCEPT"
    BY <1>1 DEF Moves
  <2>2. \A u \in Threads \ {t} : [todo EXCEPT ![t] = p][u] = todo[u]
    BY <1>1
  <2>3. [todo EXCEPT ![t] = p][t] = p
    BY <1>1
  <2> QED BY <1>4, <2>1, <2>2, <2>3 DEF Accepting, Token, OfIO
<1>8. \A s \in Sessions : s \in Free' => s \in Free \/ ~ loaded[s]
  <2>1. CASE mFreeSessionList' = mFreeSessionList
    BY <2>1 DEF Free
  <2>2. CASE /\ q[1].call = "ReturnToPool"
             /\ mFreeSessionList' = Append(mFreeSessionList, q[1].obj)
    <3>1. ~ \E c \in Contexts : Plan(q, c)
      <4> HIDE DEF q
      <4> QED BY <1>1, <2>2, PlanHead DEF FrontCalls, LateCalls
    <3>2. PICK s \in Sessions : q \in Chains(s)
      BY <1>2, <3>1
    <3>3. q[1].obj = s /\ s \notin Free
      BY <1>1, <3>2, ChainFacts DEF Structured, Structure, Idle
    <3>4. \A i \in 1 .. Len(mFreeSessionList) : mFreeSessionList[i] # s
      BY <1>1, <3>3, LenProperties DEF Free
    <3>5. \A u : u \in Free' <=> u = s \/ u \in Free
      <4> DEFINE f == mFreeSessionList
                 g == Append(f, s)
      <4>1. mFreeSessionList' = g
        BY <2>2, <3>3
      <4>2. \A u : (\E i \in DOMAIN g : g[i] = u) <=> u = s \/ \E i \in DOMAIN f : f[i] = u
        BY <1>1, <3>4, ListAppend
      <4> HIDE DEF g
      <4>3. Free' = {g[i] : i \in DOMAIN g}
        BY <4>1 DEF Free
      <4>4. Free = {f[i] : i \in DOMAIN f}
        BY DEF Free
      <4> QED BY <4>2, <4>3, <4>4
    <3>6. Starts(q, {"ReturnToPool"}, s)
      BY <1>2, <2>2, <3>3 DEF Starts
    <3>7. ~ loaded[s]
      BY <1>1, <3>6 DEF Answers, LoadDone
    <3> QED BY <3>5, <3>7
  <2> QED BY <1>1, <2>1, <2>2 DEF Moves
<1>9. /\ dbContexts' = dbContexts /\ mDbCompletionPort' = mDbCompletionPort
      /\ results' = results /\ loaded' = loaded
  BY DEF dbVars
<1> HIDE DEF q
<1>10. Answers(todo', kernel', Free', dbContexts, mDbCompletionPort, results, loaded)
  <2>1. Shift(todo[t], p)
    BY <1>4 DEF q
  <2>2. \A s \in Sessions : Starts(p, {"ReturnToPool"}, s) => ~ loaded[s]
    BY <1>4
  <2> QED BY <1>1, <1>4, <1>5, <1>6, <1>7, <1>8, <2>1, <2>2, AnswersMoved
<1> QED BY <1>9, <1>10 DEF DbAnswers

\* AcceptClientSessions: the session that is issued has no request and no data.
LEMMA AcceptAnswers ==
  ASSUME NEW X, NEW J, PoolInv(X, J), JobCounts(J), DbAnswers, AcceptClientSessions,
         UNCHANGED dbVars
  PROVE  DbAnswers'
<1>1. /\ todo \in [Threads -> Seq(X)] /\ Structured(J)
      /\ Answers(todo, kernel, Free, dbContexts, mDbCompletionPort, results, loaded)
  BY DEF PoolInv, TypeInv, DbAnswers
<1>2. /\ dbContexts' = dbContexts /\ mDbCompletionPort' = mDbCompletionPort
      /\ results' = results /\ loaded' = loaded
  BY DEF dbVars
<1>3. CASE AcceptLock \/ AcceptUnlock
  <2>1. todo' = todo /\ kernel' = kernel /\ mFreeSessionList' = mFreeSessionList
    BY <1>3 DEF AcceptLock, AcceptUnlock, threadVars, contextVars
  <2>2. Free' = Free
    BY <2>1 DEF Free
  <2> QED BY <1>1, <1>2, <2>1, <2>2 DEF DbAnswers
<1>4. CASE AcceptIssue
  <2> DEFINE s == Last(mFreeSessionList)
             c == NewContext(s, "IO_ACCEPT")
             d == <<Op("DeleteIoContext", c)>>
  <2>1. /\ s \in Sessions /\ s \in Free /\ Unused(J, live, issueRef, s)
        /\ Free' = Free \ {s} /\ c.session = s
    BY <1>4, IssuedSession
  <2>2. \/ kernel' = kernel \cup {c} /\ todo' = todo
        \/ kernel' = kernel /\ todo' = [todo EXCEPT ![Main] = d]
    BY <1>4 DEF AcceptIssue, Set
  <2> HIDE DEF s, c
  <2>3. todo[Main] = <<>> /\ Main \in Threads
    BY <1>1, <1>4, MainThread DEF Structured, Structure, Locking, AcceptIssue
  <2>4. ~ loaded[s]
    BY <1>1, <2>1 DEF Answers, LoadDone
  <2>5. Unasked(todo, dbContexts, loaded, s)
    BY <2>1, <2>4, UnusedUnasked
  <2>6. PICK p \in {<<>>, d} : todo' = [todo EXCEPT ![Main] = p]
    <3>1. [todo EXCEPT ![Main] = <<>>] = todo
      BY <1>1, <2>3
    <3> QED BY <2>2, <3>1
  <2>7. /\ Len(p) \in Nat /\ (p = <<>> \/ ~ Foreign(p)) /\ Shift(<<>>, p)
        /\ \A u : ~ Starts(p, {"AcceptCompletion"}, u) /\ ~ Starts(p, {"ReturnToPool"}, u)
    <3>1. CASE p = <<>>
      BY <3>1, Empty, ShiftSame DEF Starts
    <3>2. CASE p = d
      <4>1. Len(p) = 1 /\ p[1].call = "DeleteIoContext" /\ p # <<>>
        BY <3>2 DEF Op
      <4>2. Shift(<<>>, p)
        <5>1. \A i \in 1 .. Len(p) : p[i].call \in OpCalls
          BY <4>1 DEF OpCalls
        <5>2. 0 \in Int
          OBVIOUS
        <5> QED BY <5>1, <5>2 DEF Shift
      <4> QED BY <4>1, <4>2 DEF Foreign, ResultCalls, Starts
    <3> QED BY <3>1, <3>2
  <2>8. \A u \in Sessions :
          Accepting([todo EXCEPT ![Main] = p], kernel', u) =>
            Accepting(todo, kernel, u) \/ Unasked(todo, dbContexts, loaded, u)
    <3>1. /\ [todo EXCEPT ![Main] = p][Main] = p
          /\ \A t \in Threads \ {Main} : [todo EXCEPT ![Main] = p][t] = todo[t]
      BY <1>1, <2>3
    <3>2. \A u : \A t \in Threads : Starts([todo EXCEPT ![Main] = p][t], {"AcceptCompletion"}, u)
                   => Starts(todo[t], {"AcceptCompletion"}, u)
      BY <2>7, <3>1
    <3>3. \A e \in kernel' : e \in kernel \/ e.session = s
      BY <2>1, <2>2
    <3> QED BY <2>5, <3>2, <3>3 DEF Accepting, Token, OfIO
  <2>9. Answers(todo', kernel', Free', dbContexts, mDbCompletionPort, results, loaded)
    <3>1. \A u \in Sessions : u \in Free' => u \in Free \/ ~ loaded[u]
      BY <2>1
    <3> QED BY <1>1, <2>3, <2>6, <2>7, <2>8, <3>1, AnswersMoved
  <2> QED BY <1>2, <2>9 DEF DbAnswers
<1> QED BY <1>3, <1>4 DEF AcceptClientSessions

\* A worker takes a completion of the pool.
LEMMA CompletionAnswers ==
  ASSUME NEW X, HasPoolOps(X), NEW J, PoolInv(X, J), DbAnswers, NEW t \in Workers, DoIocpJob(t),
         UNCHANGED dbVars
  PROVE  DbAnswers'
<1>1. PICK c \in kernel, ok \in BOOLEAN :
        /\ todo[t] = <<>>
        /\ kernel' = kernel \ {c}
        /\ todo' = [todo EXCEPT ![t] = Handling(c, ok)]
        /\ UNCHANGED <<sessionVars, managerVars, live, accepting, issueRef, crashed>>
  BY DEF DoIocpJob, Complete, Set
<1> DEFINE p == Handling(c, ok)
<1>2. /\ todo \in [Threads -> Seq(X)] /\ c \in Contexts /\ t \in Threads
      /\ Answers(todo, kernel, Free, dbContexts, mDbCompletionPort, results, loaded)
  BY DEF PoolInv, TypeInv, DbAnswers, Threads
<1>3. /\ dbContexts' = dbContexts /\ mDbCompletionPort' = mDbCompletionPort
      /\ results' = results /\ loaded' = loaded
  BY DEF dbVars
<1>4. Free' = Free
  BY <1>1 DEF Free, managerVars
<1>5. p \in Seq(PoolOps) /\ Plan(p, c) /\ \A s :
        /\ Starts(p, ConnCalls, s) => OfIO(c, ConnIO, s)
        /\ Starts(p, RecvCalls, s) => OfIO(c, RecvIO, s)
  BY <1>2, HandlingServes DEF HasPoolOps, Service
<1>6. todo' = [todo EXCEPT ![t] = p]
  BY <1>1
<1> HIDE DEF p
<1>7. Len(p) \in Nat /\ Shift(todo[t], p)
  <2>1. \A i \in 1 .. Len(p) : p[i] \in PoolOps
    BY <1>5, ElementOfSeq
  <2>2. \A i \in 1 .. Len(p) : p[i].call \in OpCalls
    BY <2>1 DEF PoolOps
  <2>3. 0 \in Int /\ Len(p) \in Nat
    BY <1>5, LenProperties
  <2> QED BY <2>2, <2>3 DEF Shift
<1>8. ~ Foreign(p) /\ \A s : ~ Starts(p, {"ReturnToPool"}, s)
  <2>1. ~ Foreign(p)
    BY <1>2, <1>5, Kinds
  <2>2. p[1].call \in FrontCalls \cup LateCalls
    BY <1>2, <1>5, PlanHead
  <2> QED BY <2>1, <2>2 DEF Starts, FrontCalls, LateCalls
<1>9. \A s : Starts(p, {"AcceptCompletion"}, s) => OfIO(c, {"IO_ACCEPT"}, s)
  <2> SUFFICES ASSUME NEW s, Starts(p, {"AcceptCompletion"}, s)
               PROVE  OfIO(c, {"IO_ACCEPT"}, s)
    OBVIOUS
  <2>1. Starts(p, ConnCalls, s) /\ Starts(p, RecvCalls, s)
    BY DEF Starts, ConnCalls, RecvCalls
  <2> QED BY <1>5, <2>1 DEF OfIO, ConnIO, RecvIO
<1>10. \A s \in Sessions :
         Accepting([todo EXCEPT ![t] = p], kernel', s) => Accepting(todo, kernel, s)
  <2>1. /\ [todo EXCEPT ![t] = p][t] = p
        /\ \A u \in Threads \ {t} : [todo EXCEPT ![t] = p][u] = todo[u]
    BY <1>2
  <2>2. kernel' \subseteq kernel
    BY <1>1
  <2> QED BY <1>9, <2>1, <2>2 DEF Accepting, Token
<1>11. Answers(todo', kernel', Free', dbContexts, mDbCompletionPort, results, loaded)
  BY <1>2, <1>4, <1>6, <1>7, <1>8, <1>10, AnswersMoved
<1> QED BY <1>3, <1>11 DEF DbAnswers

-----------------------------------------------------------------------------
(***************************************************************************)
(* The steps of the requests, on the parts of the state.                   *)
(***************************************************************************)
\* The accept of session s gives thread t the requests to post.
LEMMA AnswersAsked ==
  ASSUME NEW X, NEW T \in [Threads -> Seq(X)], NEW K, NEW F, NEW D, NEW P, NEW R, NEW B,
         Answers(T, K, F, D, P, R, B),
         NEW t \in Threads, NEW s \in Sessions, Accepting(T, K, s),
         NEW q, \A job \in Jobs : Asks(q, job) => job.session = s,
         AskedOnce(q), ~ Foreign(q),
         \A u : ~ Starts(q, {"AcceptCompletion"}, u) /\ ~ Starts(q, {"ReturnToPool"}, u),
         ~ Accepting([T EXCEPT ![t] = q], K, s)
  PROVE  Answers([T EXCEPT ![t] = q], K, F, D, P, R, B)
<1> DEFINE U == [T EXCEPT ![t] = q]
<1>1. U[t] = q /\ \A u \in Threads \ {t} : U[u] = T[u]
  OBVIOUS
<1> HIDE DEF U
<1>2. Unasked(T, D, B, s)
  BY DEF Answers
<1>3. \A u \in Threads, job \in Jobs :
        Asks(U[u], job) => IF job.session = s THEN u = t ELSE u # t /\ Asks(T[u], job)
  BY <1>1, <1>2 DEF Unasked
<1>4. Placed(U, D, P, R)
  BY <1>1, CarriesForeign DEF Answers, Placed
<1>5. Asked(U, D)
  <2>1. \A u \in Threads, job \in Jobs : Asks(U[u], job) => job \notin D
    BY <1>2, <1>3 DEF Unasked, Answers, Asked
  <2>2. \A u, v \in Threads, job \in Jobs : Asks(U[u], job) /\ Asks(U[v], job) => u = v
    BY <1>3 DEF Answers, Asked
  <2>3. \A u \in Threads : AskedOnce(U[u])
    BY <1>1 DEF Answers, Asked
  <2> QED BY <2>1, <2>2, <2>3 DEF Asked
<1>6. LoadDone(U, F, P, R, B)
  BY <1>1, <1>2, <1>3 DEF Answers, LoadDone, Unasked
<1>7. ASSUME NEW u \in Sessions, Accepting(U, K, u)
      PROVE  Unasked(U, D, B, u)
  <2>1. u # s
    BY <1>7 DEF U
  <2>2. Accepting(T, K, u)
    BY <1>1, <1>7 DEF Accepting, Token
  <2>3. Unasked(T, D, B, u)
    BY <2>2 DEF Answers
  <2> QED BY <1>3, <2>1, <2>3 DEF Unasked
<1> QED BY <1>4, <1>5, <1>6, <1>7 DEF Answers, U

\* Thread t posts the request that is its next call.
LEMMA AnswersPosted ==
  ASSUME NEW X, NEW T \in [Threads -> Seq(X)], NEW K, NEW F, NEW D, NEW P, NEW R, NEW B,
         Answers(T, K, F, D, P, R, B),
         NEW t \in Threads, NEW job \in Jobs, T[t] # <<>>,
         IsOp(T[t][1], job.query, job.session),
         NEW c \in Contexts, Rest(Tail(T[t]), c)
  PROVE  Answers([T EXCEPT ![t] = Tail(T[t])], K, F, D \cup {job}, P \cup {job}, R, B)
<1> DEFINE q == T[t]
           p == Tail(T[t])
           U == [T EXCEPT ![t] = p]
<1>1. U[t] = p /\ \A u \in Threads \ {t} : U[u] = T[u]
  OBVIOUS
<1>2. /\ Len(q) \in Nat /\ Len(q) >= 1 /\ p \in Seq(X) /\ Len(p) = Len(q) - 1
      /\ \A i \in 1 .. Len(q) - 1 : p[i] = q[i + 1]
  <2>1. q \in Seq(X) /\ q # <<>>
    OBVIOUS
  <2> HIDE DEF q
  <2> QED BY <2>1, NotEmpty DEF q
<1>3. Shift(q, p) /\ Len(p) \in Nat
  <2> HIDE DEF p, q
  <2>1. \A i \in 1 .. Len(p) : i + 1 \in 1 .. Len(q) /\ p[i] = q[i + 1]
    BY <1>2
  <2>2. 1 \in Int
    OBVIOUS
  <2>3. Len(p) \in Nat
    BY <1>2
  <2> QED BY <2>1, <2>2, <2>3 DEF Shift
<1>4. p # <<>> /\ p[1].call \in LateCalls /\ ~ Foreign(p)
  <2>1. p # <<>> /\ p[1].call \in LateCalls
    BY <1>2, RestHeld DEF Rest
  <2>2. 1 \in 1 .. Len(p)
    BY <1>2, <2>1, NotEmpty
  <2> QED BY <2>1, <2>2 DEF Foreign, ResultCalls, LateCalls
<1>5. Asks(q, job) /\ 1 \in 1 .. Len(q)
  BY <1>2 DEF Asks
<1>6. job.query \in Queries /\ q[1].call = job.query /\ q[1].obj = job.session
  BY DEF IsOp, Jobs
<1> HIDE DEF p, q
<1>7. ~ Asks(p, job)
  <2> SUFFICES ASSUME NEW i \in 1 .. Len(p), IsOp(p[i], job.query, job.session)
               PROVE  FALSE
    BY DEF Asks
  <2>1. i + 1 \in 1 .. Len(q) /\ p[i] = q[i + 1]
    BY <1>2
  <2>2. AskedOnce(q)
    BY DEF Answers, Asked, q
  <2>3. 1 = i + 1
    BY <1>5, <1>6, <2>1, <2>2 DEF AskedOnce
  <2> QED BY <2>3
<1>8. /\ \A j \in Jobs : Asks(p, j) => Asks(q, j)
      /\ AskedOnce(q) => AskedOnce(p)
  BY <1>2, <1>3, Shifted
<1>9. q = T[t]
  BY DEF q
<1> HIDE DEF U
<1>10. \A u \in Threads, j \in Jobs : Asks(U[u], j) => Asks(T[u], j) /\ j # job
  BY <1>1, <1>5, <1>7, <1>8, <1>9 DEF Answers, Asked
<1>11. job \notin D /\ job \notin R
  BY <1>5, <1>9 DEF Answers, Asked, Placed
<1>12. \A u \in Threads, j \in Jobs : Carries(U[u], j) => Carries(T[u], j)
  BY <1>1, <1>4, CarriesForeign
<1>13. Placed(U, D \cup {job}, P \cup {job}, R)
  <2>0. Placed(T, D, P, R)
    BY DEF Answers
  <2>1. /\ P \cup {job} \subseteq D \cup {job} /\ R \subseteq D \cup {job}
        /\ (P \cup {job}) \cap R = {}
    BY <1>11, <2>0 DEF Placed
  <2>2. ASSUME NEW u \in Threads, NEW j \in Jobs, Carries(U[u], j)
        PROVE  j \in (D \cup {job}) \ ((P \cup {job}) \cup R)
    <3>1. j \in D \ (P \cup R)
      BY <1>12, <2>0, <2>2 DEF Placed
    <3> QED BY <1>11, <3>1
  <2>3. \A u, v \in Threads, j \in Jobs : Carries(U[u], j) /\ Carries(U[v], j) => u = v
    BY <1>12, <2>0 DEF Placed
  <2>4. \A u \in Threads : Foreign(U[u]) => U[u] = <<>> \/ \E j \in Jobs : Carries(U[u], j)
    BY <1>1, <1>4, <2>0 DEF Placed
  <2> QED BY <2>1, <2>2, <2>3, <2>4 DEF Placed
<1>14. Asked(U, D \cup {job})
  <2>1. \A u \in Threads : AskedOnce(U[u])
    BY <1>1, <1>8, <1>9 DEF Answers, Asked
  <2> QED BY <1>10, <2>1 DEF Answers, Asked
<1>15. LoadDone(U, F, P \cup {job}, R, B)
  <2>1. \A s \in Sessions : \A u \in Threads :
          Starts(U[u], {"ReturnToPool"}, s) => Starts(T[u], {"ReturnToPool"}, s)
    BY <1>1, <1>4 DEF Starts, LateCalls
  <2>2. LoadDone(T, F, P, R, B) /\ Asks(T[t], job)
    BY <1>5, <1>9 DEF Answers
  <2> QED BY <1>10, <2>1, <2>2 DEF LoadDone
<1>16. ASSUME NEW s \in Sessions, Accepting(U, K, s)
       PROVE  Unasked(U, D \cup {job}, B, s)
  <2>1. \A u \in Threads :
          Starts(U[u], {"AcceptCompletion"}, s) => Starts(T[u], {"AcceptCompletion"}, s)
    BY <1>1, <1>4 DEF Starts, LateCalls
  <2>2. Unasked(T, D, B, s)
    BY <1>16, <2>1 DEF Answers, Accepting, Token
  <2> QED BY <1>5, <1>9, <1>10, <2>2 DEF Unasked
<1> QED BY <1>13, <1>14, <1>15, <1>16 DEF Answers, U, p

\* A database thread posts the result.
LEMMA AnswersDone ==
  ASSUME NEW T, NEW K, NEW F, NEW D, NEW P, NEW R, NEW B,
         Answers(T, K, F, D, P, R, B), NEW job \in P
  PROVE  Answers(T, K, F, D, P \ {job}, R \cup {job}, B)
<1>1. Placed(T, D, P \ {job}, R \cup {job})
  BY DEF Answers, Placed
<1>2. LoadDone(T, F, P \ {job}, R \cup {job}, B)
  BY DEF Answers, LoadDone
<1> QED BY <1>1, <1>2 DEF Answers

\* A list of a result's handling asks for nothing, accepts nothing and returns
\* nothing; neither does an empty list, or the first call of a return.
LEMMA ResultLists ==
  ASSUME NEW q,
         q = <<>> \/ (\E job : Carries(q, job)) \/ (\E s : q = <<Op("ReturnLock", s)>>)
  PROVE  /\ \A job \in Jobs : ~ Asks(q, job)
         /\ AskedOnce(q)
         /\ \A s : /\ ~ Starts(q, {"AcceptCompletion"}, s) /\ ~ Starts(q, {"ReturnToPool"}, s)
                   /\ ~ Starts(q, ConnCalls, s) /\ ~ Starts(q, RecvCalls, s)
<1> DEFINE calls == ResultCalls \cup {"ReturnLock"}
<1>1. /\ \A i \in 1 .. Len(q) : q[i].call \in calls
      /\ q # <<>> => q[1].call \in calls
      /\ q # <<>> /\ Tail(q) # <<>> => Tail(q)[1].call \in calls
  <2>1. CASE q = <<>>
    BY <2>1, Empty
  <2>2. ASSUME NEW job, Carries(q, job)
        PROVE  /\ \A i \in 1 .. Len(q) : q[i].call \in calls
               /\ q # <<>> => q[1].call \in calls
               /\ Tail(q) # <<>> => Tail(q)[1].call \in calls
    <3> DEFINE r == Tail(q)
    <3>1. r = <<Op("DeleteDbContext", job)>> \/ r = <<>>
      <4> DEFINE u == Op("OnResult", job)
                 v == Op("DeleteDbContext", job)
      <4>1. q = <<u, v>> \/ q = <<v>>
        BY <2>2 DEF Carries, HandlingResult
      <4> HIDE DEF u, v
      <4>2. Tail(<<u, v>>) = <<v>> /\ Tail(<<v>>) = <<>>
        BY Tails
      <4>3. r = <<v>> \/ r = <<>>
        BY <4>1, <4>2
      <4> QED BY <4>3 DEF v
    <3> HIDE DEF r
    <3>2. r # <<>> => r[1].call = "DeleteDbContext"
      BY <3>1 DEF Op
    <3> QED BY <2>2, <3>2, CarriesForeign DEF Foreign, ResultCalls, r
  <2>3. ASSUME NEW s, q = <<Op("ReturnLock", s)>>
        PROVE  /\ \A i \in 1 .. Len(q) : q[i].call \in calls
               /\ q # <<>> => q[1].call \in calls
               /\ Tail(q) = <<>>
    BY <2>3 DEF Op
  <2> QED BY <2>1, <2>2, <2>3
<1>2. /\ calls \cap Queries = {} /\ calls \cap ConnCalls = {} /\ calls \cap RecvCalls = {}
      /\ calls \cap {"AcceptCompletion", "ReturnToPool"} = {}
  BY DEF ResultCalls, Queries, ConnCalls, RecvCalls
<1> HIDE DEF calls
<1>3. \A job \in Jobs : ~ Asks(q, job)
  BY <1>1, <1>2 DEF Asks, IsOp, Jobs
<1>4. AskedOnce(q)
  BY <1>1, <1>2 DEF AskedOnce
<1>5. \A s : /\ ~ Starts(q, {"AcceptCompletion"}, s) /\ ~ Starts(q, {"ReturnToPool"}, s)
             /\ ~ Starts(q, ConnCalls, s) /\ ~ Starts(q, RecvCalls, s)
  BY <1>1, <1>2 DEF Starts, IsOp
<1> QED BY <1>3, <1>4, <1>5

\* Thread t goes on with a list of that kind: it takes the result from the port,
\* uses it, or deletes the request.
LEMMA AnswersCarried ==
  ASSUME NEW T, DOMAIN T = Threads, NEW K, NEW F, NEW D, NEW P, NEW R, NEW B,
         Answers(T, K, F, D, P, R, B),
         NEW t \in Threads, NEW q, NEW job \in Jobs,
         \/ job \in R /\ Carries(q, job)
         \/ Carries(T[t], job) /\ Carries(q, job)
         \/ Carries(T[t], job) /\ (q = <<>> \/ \E s : q = <<Op("ReturnLock", s)>>)
  PROVE  Answers([T EXCEPT ![t] = q], K, F,
                 IF Carries(q, job) THEN D ELSE D \ {job}, P, R \ {job}, B)
<1> DEFINE U == [T EXCEPT ![t] = q]
           E == IF Carries(q, job) THEN D ELSE D \ {job}
<1>1. U[t] = q /\ \A u \in Threads \ {t} : U[u] = T[u]
  OBVIOUS
<1>2. /\ \A j \in Jobs : ~ Asks(q, j)
      /\ AskedOnce(q)
      /\ \A s : ~ Starts(q, {"AcceptCompletion"}, s) /\ ~ Starts(q, {"ReturnToPool"}, s)
  BY ResultLists
<1>3. \A j, k : Carries(q, j) /\ Carries(q, k) => j = k
  BY CarriesForeign
<1>4. ~ Carries(q, job) => (~ \E j : Carries(q, j)) /\ (Foreign(q) => q = <<>>)
  <2>1. CASE q = <<>>
    BY <2>1, CarriesForeign
  <2>2. ASSUME NEW s, q = <<Op("ReturnLock", s)>>
        PROVE  ~ Foreign(q)
    BY <2>2 DEF Op, Foreign, ResultCalls
  <2> QED BY <2>1, <2>2, CarriesForeign
<1> HIDE DEF U, E
<1>5. job \in D /\ job \notin P /\ \A u \in Threads \ {t} : ~ Carries(T[u], job)
  BY DEF Answers, Placed
<1>6. \A u \in Threads \ {t} : \A j \in Jobs : Carries(U[u], j) => j # job /\ Carries(T[u], j)
  BY <1>1, <1>5
<1>7. E \subseteq D /\ D \ {job} \subseteq E /\ (Carries(q, job) => job \in E)
  BY <1>5 DEF E
<1>8. Placed(U, E, P, R \ {job})
  <2>1. P \subseteq E /\ R \ {job} \subseteq E /\ P \cap (R \ {job}) = {}
    BY <1>5, <1>7 DEF Answers, Placed
  <2>2. ASSUME NEW u \in Threads, NEW j \in Jobs, Carries(U[u], j)
        PROVE  j \in E \ (P \cup (R \ {job}))
    <3>1. CASE u = t
      <4>1. Carries(q, job) /\ j = job
        BY <1>1, <1>3, <1>4, <2>2, <3>1
      <4> QED BY <1>5, <1>7, <4>1
    <3>2. CASE u # t
      <4>1. j # job /\ Carries(T[u], j)
        BY <1>6, <2>2, <3>2
      <4> QED BY <1>7, <4>1 DEF Answers, Placed
    <3> QED BY <3>1, <3>2
  <2>3. ASSUME NEW u \in Threads, NEW v \in Threads, NEW j \in Jobs,
               Carries(U[u], j), Carries(U[v], j)
        PROVE  u = v
    <3>1. Carries(U[t], j) => j = job
      BY <1>1, <1>3, <1>4
    <3>2. u # t /\ v # t => u = v
      BY <1>6, <2>3 DEF Answers, Placed
    <3> QED BY <1>6, <2>3, <3>1, <3>2
  <2>4. \A u \in Threads : Foreign(U[u]) => U[u] = <<>> \/ \E j \in Jobs : Carries(U[u], j)
    BY <1>1, <1>4 DEF Answers, Placed
  <2> QED BY <2>1, <2>2, <2>3, <2>4 DEF Placed
<1>9. \A u \in Threads, j \in Jobs : Asks(U[u], j) => Asks(T[u], j)
  BY <1>1, <1>2
<1>10. Asked(U, E)
  <2>1. \A u \in Threads : AskedOnce(U[u])
    BY <1>1, <1>2 DEF Answers, Asked
  <2> QED BY <1>7, <1>9, <2>1 DEF Answers, Asked
<1>11. LoadDone(U, F, P, R \ {job}, B)
  BY <1>1, <1>2, <1>9 DEF Answers, LoadDone
<1>12. ASSUME NEW s \in Sessions, Accepting(U, K, s)
       PROVE  Unasked(U, E, B, s)
  <2>1. Accepting(T, K, s)
    BY <1>1, <1>2, <1>12 DEF Accepting, Token
  <2>2. Unasked(T, D, B, s)
    BY <2>1 DEF Answers
  <2> QED BY <1>7, <1>9, <2>2 DEF Unasked
<1> QED BY <1>8, <1>10, <1>11, <1>12 DEF Answers, U, E

\* The result of a Load gives the player its data.
LEMMA AnswersLoaded ==
  ASSUME NEW T, NEW K, NEW F, NEW D, NEW P, NEW R, NEW B \in [Sessions -> BOOLEAN],
         Answers(T, K, F, D, P, R, B), NEW t \in Threads, NEW job \in Jobs, Carries(T[t], job),
         job.query = "Load", job.session \notin F,
         \A u \in Threads : ~ Starts(T[u], {"ReturnToPool"}, job.session)
  PROVE  Answers(T, K, F, D, P, R, [B EXCEPT ![job.session] = TRUE])
<1> DEFINE s == job.session
           C == [B EXCEPT ![s] = TRUE]
<1>1. s \in Sessions /\ C[s] = TRUE /\ \A u \in Sessions \ {s} : C[u] = B[u]
  BY DEF Jobs
<1>2. job \in D /\ job \notin P /\ job \notin R
  BY DEF Answers, Placed
<1>3. \A j \in Jobs : j.session = s /\ j.query = "Load" => j = job
  BY DEF Jobs
<1> HIDE DEF C
<1>4. LoadDone(T, F, P, R, C)
  <2>1. \A u \in Threads : ~ Asks(T[u], job)
    BY <1>2 DEF Answers, Asked
  <2> QED BY <1>1, <1>2, <1>3, <2>1 DEF Answers, LoadDone
<1>5. ASSUME NEW u \in Sessions, Accepting(T, K, u)
      PROVE  Unasked(T, D, C, u)
  <2>1. Unasked(T, D, B, u)
    BY <1>5 DEF Answers
  <2>2. u # s
    BY <1>2, <2>1 DEF Unasked
  <2> QED BY <1>1, <2>1, <2>2 DEF Unasked
<1> QED BY <1>4, <1>5 DEF Answers, C

\* The reset takes them away.
LEMMA AnswersCleared ==
  ASSUME NEW T, NEW K, NEW F, NEW D, NEW P, NEW R, NEW B \in [Sessions -> BOOLEAN],
         Answers(T, K, F, D, P, R, B), NEW s \in Sessions
  PROVE  Answers(T, K, F, D, P, R, [B EXCEPT ![s] = FALSE])
<1> DEFINE C == [B EXCEPT ![s] = FALSE]
<1>1. \A u \in Sessions : C[u] => B[u]
  OBVIOUS
<1> HIDE DEF C
<1>2. LoadDone(T, F, P, R, C)
  BY <1>1 DEF Answers, LoadDone
<1>3. \A u \in Sessions : Unasked(T, D, B, u) => Unasked(T, D, C, u)
  BY <1>1 DEF Unasked
<1> QED BY <1>2, <1>3 DEF Answers, C

-----------------------------------------------------------------------------
(***************************************************************************)
(* The shape of the lists, and the references of the requests.             *)
(***************************************************************************)
\* A thread that uses or deletes results goes on, or returns the session s whose
\* last reference was the request's.
LEMMA Resulting ==
  ASSUME NEW X, NEW J, NEW T \in [Threads -> Seq(X)], NEW L, NEW K, NEW I,
         NEW F \in SUBSET Sessions, NEW m, NEW a, Structure(J, T, L, K, I, F, m, a),
         NEW t \in Threads, Foreign(T[t]), T[t] # <<>> \/ t # Main,
         NEW s \in Sessions, NEW J2, \A r \in Sessions \ {s} : J2[r] = J[r],
         J[s] # 0 \/ J2[s] = J[s], NEW q \in Seq(X),
         \/ Foreign(q)
         \/ q = <<Op("ReturnLock", s)>> /\ J[s] # 0 /\ Unused(J2, L, I, s)
  PROVE  Structure(J2, [T EXCEPT ![t] = q], L, K, I, F, m, a)
<1> DEFINE U == [T EXCEPT ![t] = q]
<1>1. U[t] = q /\ \A u \in Threads \ {t} : U[u] = T[u]
  OBVIOUS
<1>2. /\ Held(T[t]) = {} /\ \A r \in Sessions : T[t] \notin Chains(r)
  BY ForeignFacts, Kinds
<1>3. Held(q) = {} /\ (Foreign(q) \/ q \in Chains(s))
  <2>1. CASE Foreign(q)
    BY <2>1, ForeignFacts
  <2>2. CASE q = <<Op("ReturnLock", s)>>
    <3>1. q \in Chains(s)
      BY <2>2 DEF Chains
    <3> QED BY <3>1, ChainFacts
  <2> QED BY <2>1, <2>2
<1>4. \A r \in Sessions : q \in Chains(r) =>
        r = s /\ J[s] # 0 /\ Unused(J2, L, I, s) /\ q[1].call = "ReturnLock"
  <2> SUFFICES ASSUME NEW r \in Sessions, q \in Chains(r)
               PROVE  r = s /\ J[s] # 0 /\ Unused(J2, L, I, s) /\ q[1].call = "ReturnLock"
    OBVIOUS
  <2>1. q[1].obj = r /\ ~ Foreign(q)
    BY ChainFacts, Kinds
  <2> QED BY <2>1 DEF Op
<1>5. \A r \in Sessions : Unused(J, L, I, r) => Unused(J2, L, I, r)
  BY DEF Unused
<1>6. J[s] # 0 => s \notin F /\ \A u \in Threads : T[u] \notin Chains(s)
  BY DEF Structure, Idle, Unused
<1>7. \A r \in F : Unused(J2, L, I, r)
  BY <1>5 DEF Structure, Idle
<1> HIDE DEF U
<1>8. Shapes(U)
  BY <1>1, <1>3 DEF Structure, Shapes
<1>9. Owned(U, L, K)
  <2>1. \A u \in Threads : Held(U[u]) = Held(T[u])
    BY <1>1, <1>2, <1>3
  <2> QED BY <2>1 DEF Structure, Owned
<1>10. Idle(J2, U, L, I, F)
  <2>1. \A r \in Sessions, u \in Threads :
          U[u] \in Chains(r) => Unused(J2, L, I, r) /\ r \notin F
    BY <1>1, <1>4, <1>5, <1>6 DEF Structure, Idle
  <2>2. \A r \in Sessions, u, v \in Threads : U[u] \in Chains(r) /\ U[v] \in Chains(r) => u = v
    BY <1>1, <1>4, <1>6 DEF Structure, Idle
  <2> QED BY <1>7, <2>1, <2>2 DEF Idle
<1>11. Locking(U, m, a)
  <2>1. a # "Failed" => Main # t /\ U[Main] = <<>>
    BY <1>1, MainThread DEF Structure, Locking
  <2>2. \A r \in Sessions, u \in Threads :
          U[u] \in Chains(r) /\ U[u][1].call # "ReturnLock" => U[u] = T[u]
    BY <1>1, <1>4
  <2> QED BY <2>1, <2>2 DEF Structure, Locking
<1> QED BY <1>8, <1>9, <1>10, <1>11 DEF Structure, U

\* One more reference to a session that is used.
LEMMA Referring ==
  ASSUME NEW J, NEW T, NEW L, NEW K, NEW I, NEW F, NEW m, NEW a,
         Structure(J, T, L, K, I, F, m, a), NEW s \in Sessions, F \subseteq Sessions,
         ~ Unused(J, L, I, s), NEW J2, \A r \in Sessions \ {s} : J2[r] = J[r]
  PROVE  Structure(J2, T, L, K, I, F, m, a)
<1>1. \A r \in Sessions : Unused(J, L, I, r) => Unused(J2, L, I, r)
  BY DEF Unused
<1>2. Idle(J2, T, L, I, F)
  BY <1>1 DEF Structure, Idle
<1> QED BY <1>2 DEF Structure

\* The references when a request is constructed, and when it is deleted.
LEMMA JobConstructed ==
  ASSUME NEW J, JobCounts(J), NEW job \in Jobs, job \notin dbContexts,
         dbContexts' = dbContexts \cup {job},
         NEW J2, J2 = [J EXCEPT ![job.session] = J[job.session] + 1]
  PROVE  JobCounts(J2)'
<1>1. /\ IsFiniteSet(dbContexts) /\ J \in [Sessions -> Nat] /\ job.session \in Sessions
      /\ \A s \in Sessions : J[s] = Cardinality(LiveOf(dbContexts, s))
  BY DEF JobCounts, Jobs
<1>2. /\ IsFiniteSet(dbContexts')
      /\ \A s : Cardinality(LiveOf(dbContexts', s))
                  = Cardinality(LiveOf(dbContexts, s)) + (IF job.session = s THEN 1 ELSE 0)
  BY <1>1, CountNew
<1>3. J2 \in [Sessions -> Nat]
  BY <1>1
<1>4. ASSUME NEW s \in Sessions
      PROVE  J2[s] = Cardinality(LiveOf(dbContexts', s))
  <2>1. J2[s] = J[s] + (IF job.session = s THEN 1 ELSE 0)
    BY <1>1
  <2> QED BY <1>1, <1>2, <2>1
<1> QED BY <1>2, <1>3, <1>4 DEF JobCounts

\* A request that is deleted was a reference.
LEMMA JobDeleted ==
  ASSUME NEW J, JobCounts(J), NEW job \in dbContexts,
         dbContexts' = dbContexts \ {job},
         NEW J2, J2 = [J EXCEPT ![job.session] = J[job.session] - 1]
  PROVE  JobCounts(J2)' /\ J[job.session] # 0
<1>1. /\ IsFiniteSet(dbContexts) /\ J \in [Sessions -> Nat] /\ job.session \in Sessions
      /\ \A s \in Sessions : J[s] = Cardinality(LiveOf(dbContexts, s))
  BY DEF JobCounts, Jobs
<1>2. /\ IsFiniteSet(dbContexts')
      /\ \A s : Cardinality(LiveOf(dbContexts', s))
                  = Cardinality(LiveOf(dbContexts, s)) - (IF job.session = s THEN 1 ELSE 0)
  BY <1>1, CountDelete
<1>3. \A s : Cardinality(LiveOf(dbContexts', s)) \in Nat
  BY <1>2, CountType
<1>4. ASSUME NEW s \in Sessions
      PROVE  J2[s] = Cardinality(LiveOf(dbContexts', s))
  <2>1. J2[s] = J[s] - (IF job.session = s THEN 1 ELSE 0)
    BY <1>1
  <2> QED BY <1>1, <1>2, <2>1
<1>5. J2 \in [Sessions -> Nat]
  <2>1. \A s \in Sessions : J2[s] \in Nat
    BY <1>3, <1>4
  <2> QED BY <1>1, <2>1
<1>6. J[job.session] # 0
  BY <1>1, NoJob
<1> QED BY <1>2, <1>4, <1>5, <1>6 DEF JobCounts

-----------------------------------------------------------------------------
(***************************************************************************)
(* The accept of a connection.                                             *)
(***************************************************************************)
\* The calls of the requests, before the rest of the service of context c.
LEMMA RequestCalls ==
  ASSUME NEW c \in Contexts, NEW r \in Seq(DbOps), Rest(r, c),
         \A job \in Jobs : job.session = c.session => ~ Asks(r, job),
         NEW reqs, reqs = [i \in DOMAIN Requests |-> Op(Requests[i], c.session)],
         NEW p, p = reqs \o r
  PROVE  /\ reqs \in Seq(DbOps) /\ p \in Seq(DbOps) /\ Rest(p, c)
         /\ \A job \in Jobs : Asks(p, job) => job.session = c.session
         /\ AskedOnce(p)
         /\ \A job \in Jobs : ~ Asks(r, job)
         /\ AskedOnce(r)
<1> DEFINE n == Len(Requests)
           s == c.session
<1>1. n \in Nat /\ DOMAIN Requests = 1 .. n /\ \A i \in 1 .. n : Requests[i] \in Queries
  BY RequestsAssumption, LenProperties
<1>2. s \in Sessions
  BY DEF Contexts
<1>3. \A i \in 1 .. n : Op(Requests[i], s) \in DbOps
  <2>1. \A o \in Queries : o \in OpCalls \cup DbCalls \cup {"PlayerReset"}
    BY DEF DbCalls
  <2> QED BY <1>1, <1>2, <2>1 DEF Op, DbOps
<1>4. reqs \in [1 .. n -> DbOps] /\ \A i \in 1 .. n : reqs[i] = Op(Requests[i], s)
  BY <1>1, <1>3
<1>5. reqs \in Seq(DbOps) /\ Len(reqs) = n
  <2> HIDE DEF n
  <2>1. reqs \in Seq(DbOps)
    BY <1>1, <1>4
  <2>2. DOMAIN reqs = 1 .. Len(reqs) /\ Len(reqs) \in Nat
    BY <2>1, LenProperties
  <2>3. DOMAIN reqs = 1 .. n
    BY <1>4
  <2> QED BY <1>1, <2>1, <2>2, <2>3
<1>6. Len(r) \in Nat /\ Len(r) >= 1
  BY NotEmpty DEF Rest
<1> HIDE DEF n
<1>7. /\ p \in Seq(DbOps) /\ Len(p) = n + Len(r)
      /\ \A i \in 1 .. n + Len(r) : p[i] = IF i <= n THEN reqs[i] ELSE r[i - n]
  BY <1>5, ConcatProperties
<1>8. \A i \in 1 .. Len(p) :
        \/ i <= n /\ i \in 1 .. n /\ p[i] = Op(Requests[i], s)
        \/ i > n /\ i - n \in 1 .. Len(r) /\ p[i] = r[i - n]
  BY <1>1, <1>4, <1>6, <1>7
<1>9. \A i \in 1 .. Len(r) : r[i].call \notin Queries
  <2> SUFFICES ASSUME NEW i \in 1 .. Len(r), r[i].call \in Queries
               PROVE  FALSE
    OBVIOUS
  <2>1. Serves(r[i], c)
    BY RestOps
  <2>2. r[i].obj = s
    BY <2>1 DEF Serves, Queries
  <2> DEFINE job == [session |-> s, query |-> r[i].call]
  <2>3. job \in Jobs /\ job.session = s /\ job.query = r[i].call
    BY <1>2 DEF Jobs
  <2>4. Asks(r, job)
    BY <2>2, <2>3 DEF Asks, IsOp
  <2> QED BY <2>3, <2>4
<1>10. Rest(p, c)
  <2>1. p # <<>>
    <3>1. Len(p) # 0
      BY <1>1, <1>6, <1>7
    <3> QED BY <3>1, Empty
  <2>2. p[Len(p)] = r[Len(r)]
    <3>1. Len(p) > n /\ Len(p) - n = Len(r) /\ Len(p) \in 1 .. Len(p)
      BY <1>1, <1>6, <1>7
    <3> QED BY <1>1, <1>8, <3>1
  <2>3. ASSUME NEW i \in 1 .. Len(p) - 1
        PROVE  p[i].call \in LateCalls \ {"DeleteIoContext"} /\ p[i].obj = s
    <3>1. i \in 1 .. Len(p)
      BY <1>1, <1>6, <1>7
    <3>2. CASE i <= n
      <4>1. p[i] = Op(Requests[i], s) /\ Requests[i] \in Queries
        BY <1>1, <1>8, <3>1, <3>2
      <4> QED BY <4>1 DEF Op, Queries, LateCalls
    <3>3. CASE ~ i <= n
      <4>1. i - n \in 1 .. Len(r) - 1 /\ p[i] = r[i - n]
        BY <1>1, <1>6, <1>7, <1>8, <3>1, <3>3
      <4> QED BY <4>1 DEF Rest
    <3> QED BY <3>2, <3>3
  <2> QED BY <2>1, <2>2, <2>3 DEF Rest
<1>11. ASSUME NEW job \in Jobs, Asks(p, job)
       PROVE  job.session = s
  <2>1. PICK i \in 1 .. Len(p) : IsOp(p[i], job.query, job.session)
    BY <1>11 DEF Asks
  <2>2. p[i].call \in Queries
    BY <2>1 DEF IsOp, Jobs
  <2>3. p[i] = Op(Requests[i], s)
    BY <1>8, <1>9, <2>2
  <2> QED BY <2>1, <2>3 DEF IsOp, Op
<1>12. ASSUME NEW i \in 1 .. Len(p), NEW j \in 1 .. Len(p), p[i].call \in Queries,
              IsOp(p[j], p[i].call, p[i].obj)
       PROVE  i = j
  <2>1. p[j].call \in Queries /\ p[j].call = p[i].call
    BY <1>12 DEF IsOp
  <2>2. /\ i \in 1 .. n /\ p[i] = Op(Requests[i], s)
        /\ j \in 1 .. n /\ p[j] = Op(Requests[j], s)
    BY <1>8, <1>9, <1>12, <2>1
  <2>3. Requests[i] = Requests[j]
    BY <2>1, <2>2 DEF Op
  <2> QED BY <1>1, <2>2, <2>3, RequestsAssumption DEF IsInjective
<1>13. AskedOnce(p)
  BY <1>12 DEF AskedOnce
<1>14. AskedOnce(r) /\ \A job \in Jobs : ~ Asks(r, job)
  BY <1>9 DEF AskedOnce, Asks, IsOp, Jobs
<1> QED BY <1>5, <1>7, <1>10, <1>11, <1>13, <1>14

\* The calls of the pool are among the calls of the two modules.
LEMMA HasDbOps == HasPoolOps(DbOps)
<1>1. \A o \in PoolOps : o \in DbOps
  BY DEF PoolOps, DbOps
<1> QED BY <1>1 DEF HasPoolOps

\* What the accept leaves before the thread: a receive and the requests, or a
\* disconnect, and the rest.
AcceptedList(q, c) ==
  /\ q \in Seq(DbOps) /\ q # <<>> /\ Plan(q, c) /\ Rest(Tail(q), c) /\ Held(q) = {c}
  /\ q[1].call \in {"PreRecv", "DisconnectRequest"} /\ q[1].obj = c.session
  /\ Promise(q)
  /\ AskedOnce(q)
  /\ \A job \in Jobs : Asks(q, job) => job.session = c.session

\* A receive or a disconnect before a list of late calls is such a list.
LEMMA CallBefore ==
  ASSUME NEW c \in Contexts, NEW p \in Seq(DbOps), Rest(p, c), AskedOnce(p),
         \A job \in Jobs : Asks(p, job) => job.session = c.session,
         NEW call \in {"PreRecv", "DisconnectRequest"}
  PROVE  AcceptedList(<<Op(call, c.session)>> \o p, c)
<1> DEFINE o == Op(call, c.session)
           q == <<o>> \o p
<1>1. call \in FrontCalls \ {"DeleteIoContext"} /\ call \in OpCalls
  BY DEF FrontCalls, OpCalls
<1>2. q \in Seq(DbOps) /\ Plan(q, c) /\ Held(q) = {c}
  <2>1. Onward(p, c)
    BY DEF Onward
  <2> QED BY <1>1, <2>1, HasDbOps, NextCall
<1>3. o \in DbOps /\ o.call = call /\ o.obj = c.session
  BY <1>1 DEF Op, DbOps, Contexts
<1>4. /\ q # <<>> /\ Len(q) = Len(p) + 1 /\ q[1] = o /\ Tail(q) = p /\ Len(p) \in Nat
      /\ \A i \in 1 .. Len(p) : q[i + 1] = p[i]
  <2> HIDE DEF o
  <2> QED BY <1>3, Pushed, LenProperties
<1>5. Promise(q)
  BY <1>3, CallPromise
<1> HIDE DEF q, o
<1>6. Shift(p, q) /\ Len(q) \in Nat
  <2>1. \A i \in 1 .. Len(q) : \/ q[i].call \in OpCalls
                               \/ i + (-1) \in 1 .. Len(p) /\ q[i] = p[i + (-1)]
    <3> SUFFICES ASSUME NEW i \in 1 .. Len(q), i # 1
                 PROVE  i + (-1) \in 1 .. Len(p) /\ q[i] = p[i + (-1)]
      BY <1>1, <1>3, <1>4
    <3>1. i - 1 \in 1 .. Len(p) /\ (i - 1) + 1 = i /\ i + (-1) = i - 1
      BY <1>4
    <3> QED BY <1>4, <3>1
  <2>2. -1 \in Int /\ Len(q) \in Nat
    BY <1>4
  <2> QED BY <2>1, <2>2 DEF Shift
<1>7. AskedOnce(q) /\ \A job \in Jobs : Asks(q, job) => Asks(p, job)
  BY <1>4, <1>6, Shifted
<1> QED BY <1>2, <1>3, <1>4, <1>5, <1>7 DEF AcceptedList, q, o

\* AcceptWithRequests leaves such a list, whichever way it ends.
LEMMA AcceptLists ==
  ASSUME NEW J, PoolInv(DbOps, J), DbAnswers, NEW t \in Threads, AcceptWithRequests(t)
  PROVE  \E c \in Contexts : \E q : /\ Served(DbOps, t, "AcceptCompletion", c)
                                    /\ AcceptedList(q, c)
                                    /\ todo' = [todo EXCEPT ![t] = q]
<1>1. "AcceptCompletion" \in OpCalls \ (ReturnCalls \cup {"DeleteIoContext"})
  BY DEF OpCalls, ReturnCalls
<1>2. PICK c \in Contexts : Served(DbOps, t, "AcceptCompletion", c)
  BY <1>1, Caller DEF AcceptWithRequests
<1> DEFINE s == c.session
           r == Tail(todo[t])
           reqs == [i \in DOMAIN Requests |-> Op(Requests[i], s)]
           k == reqs \o r
<1>3. Rest(r, c) /\ r \in Seq(DbOps) /\ todo[t] # <<>> /\ s \in Sessions /\ Obj(t) = s
  BY <1>2 DEF Served, Detours
<1>4. todo \in [Threads -> Seq(DbOps)]
  BY DEF PoolInv, TypeInv
<1>5. \A job \in Jobs : job.session = s => ~ Asks(r, job)
  <2>1. Accepting(todo, kernel, s)
    BY <1>2 DEF Served, Accepting, Token, Starts
  <2>2. Unasked(todo, dbContexts, loaded, s)
    BY <1>3, <2>1 DEF DbAnswers, Answers
  <2>3. Shift(todo[t], r) /\ Len(r) \in Nat /\ Len(todo[t]) \in Nat
    <3> DEFINE q == todo[t]
    <3>1. q \in Seq(DbOps) /\ q # <<>> /\ r = Tail(q)
      BY <1>3, <1>4
    <3> HIDE DEF q, r
    <3>2. /\ Len(r) = Len(q) - 1 /\ Len(q) \in Nat /\ Len(q) >= 1
          /\ \A i \in 1 .. Len(q) - 1 : r[i] = q[i + 1]
      BY <3>1, NotEmpty
    <3>3. \A i \in 1 .. Len(r) : i + 1 \in 1 .. Len(q) /\ r[i] = q[i + 1]
      BY <3>2
    <3>4. Shift(q, r)
      <4>1. 1 \in Int
        OBVIOUS
      <4> QED BY <3>3, <4>1 DEF Shift
    <3>5. Len(r) \in Nat
      BY <3>2
    <3> QED BY <3>2, <3>4, <3>5 DEF q
  <2> HIDE DEF r
  <2>4. \A job \in Jobs : Asks(r, job) => Asks(todo[t], job)
    BY <2>3, Shifted
  <2> QED BY <2>2, <2>4 DEF Unasked
<1>6. /\ reqs \in Seq(DbOps) /\ k \in Seq(DbOps) /\ Rest(k, c)
      /\ \A job \in Jobs : Asks(k, job) => job.session = s
      /\ AskedOnce(k)
      /\ \A job \in Jobs : ~ Asks(r, job)
      /\ AskedOnce(r)
  <2> HIDE DEF r
  <2> QED BY <1>3, <1>5, RequestCalls
<1>7. CASE Do(t, <<Op("PreRecv", s)>> \o reqs)
  <2> DEFINE q == <<Op("PreRecv", s)>> \o k
  <2>1. (<<Op("PreRecv", s)>> \o reqs) \o r = q
    <3>1. Op("PreRecv", s) \in DbOps
      BY <1>3 DEF Op, DbOps, OpCalls
    <3>2. <<Op("PreRecv", s)>> \in Seq(DbOps)
      BY <3>1
    <3> HIDE DEF reqs, r
    <3> QED BY <1>3, <1>6, <3>2, ConcatAssociative
  <2>2. todo' = [todo EXCEPT ![t] = q]
    BY <1>3, <1>4, <1>7, <2>1, Doing
  <2> HIDE DEF k
  <2>3. AcceptedList(q, c)
    BY <1>6, CallBefore
  <2> QED BY <1>2, <2>2, <2>3
<1>8. CASE Do(t, <<Op("DisconnectRequest", s)>>)
  <2> DEFINE q == <<Op("DisconnectRequest", s)>> \o r
  <2>1. todo' = [todo EXCEPT ![t] = q]
    BY <1>3, <1>4, <1>8, Doing
  <2> HIDE DEF r
  <2>2. AcceptedList(q, c)
    BY <1>3, <1>6, CallBefore
  <2> QED BY <1>2, <2>1, <2>2
<1> QED BY <1>3, <1>7, <1>8 DEF AcceptWithRequests

\* AcceptWithRequests keeps the invariant.
LEMMA AcceptRequestsStep ==
  ASSUME NEW J, PoolInv(DbOps, J), DbAnswers, NEW t \in Threads, AcceptWithRequests(t)
  PROVE  PoolInv(DbOps, J)' /\ DbAnswers' /\ (WatchInv => WatchInv')
<1>0. PICK c \in Contexts : \E q : /\ Served(DbOps, t, "AcceptCompletion", c)
                                   /\ AcceptedList(q, c)
                                   /\ todo' = [todo EXCEPT ![t] = q]
  BY AcceptLists
<1>1. PICK q : /\ Served(DbOps, t, "AcceptCompletion", c)
               /\ AcceptedList(q, c)
               /\ todo' = [todo EXCEPT ![t] = q]
  BY <1>0
<1> DEFINE s == c.session
<1>2. s \in Sessions /\ Obj(t) = s /\ todo[t] # <<>> /\ Plan(todo[t], c)
      /\ todo[t][1].call = "AcceptCompletion" /\ todo[t][1].obj = s
  BY <1>1 DEF Served
<1>3. /\ TypeInv(DbOps) /\ todo \in [Threads -> Seq(DbOps)] /\ ConnInv
      /\ Answers(todo, kernel, Free, dbContexts, mDbCompletionPort, results, loaded)
  BY DEF PoolInv, TypeInv, DbAnswers
<1>4. /\ mConnected' = [mConnected EXCEPT ![s] = 1]
      /\ associated' \in [Sessions -> BOOLEAN]
      /\ CrashAssert(mConnected[s] = 0, "AcceptCompletion")
      /\ UNCHANGED <<mRefCount, managerVars, contextVars, completionOk, accepting, issueRef>>
  BY <1>2, <1>3 DEF TypeInv, AcceptWithRequests, Set
<1>5. /\ \A calls, u : Starts(q, calls, u) =>
           u = s /\ (calls \cap {"PreRecv", "DisconnectRequest"}) # {}
      /\ \A u : ~ Starts(q, ConnCalls, u)
  <2> DEFINE r == Tail(q)
  <2>1. r \in Seq(DbOps) /\ Rest(r, c)
    BY <1>1, NotEmpty DEF AcceptedList
  <2> HIDE DEF r
  <2>2. r[1].call \in LateCalls
    BY <2>1, RestHeld
  <2>3. \A u : ~ IsOp(Tail(q)[1], "PreRecv", u)
    BY <2>2 DEF IsOp, LateCalls, r
  <2> QED BY <1>1, <2>3 DEF AcceptedList, Starts, ConnCalls
<1>6. q \in Seq(DbOps) /\ Plan(q, c) /\ Held(q) = {c} /\ Promise(q)
  BY <1>1 DEF AcceptedList
<1>7. PoolInv(DbOps, J)'
  BY <1>1, <1>4, <1>5, <1>6, HasDbOps, AcceptCompletionWith
<1>8. Accepting(todo, kernel, s)
  BY <1>2 DEF Accepting, Token, Starts
<1>9. ~ Accepting([todo EXCEPT ![t] = q], kernel, s)
  <2>1. Alone(todo, kernel, s, ConnIO, ConnCalls)
    BY <1>2, <1>3 DEF ConnInv, ConnAt
  <2>2. Starts(todo[t], ConnCalls, s) /\ DOMAIN todo = Threads
    BY <1>2, <1>3 DEF Starts, ConnCalls
  <2>3. ~ Token([todo EXCEPT ![t] = q], kernel, s, ConnIO, ConnCalls)
    BY <1>5, <2>1, <2>2, AloneDropped
  <2> QED BY <2>3 DEF Accepting, Token, Starts, OfIO, ConnIO, ConnCalls
<1>10. Answers(todo', kernel, Free, dbContexts, mDbCompletionPort, results, loaded)
  <2>1. ~ Foreign(q)
    BY <1>6, Kinds
  <2>2. \A u : ~ Starts(q, {"AcceptCompletion"}, u) /\ ~ Starts(q, {"ReturnToPool"}, u)
    BY <1>5
  <2>3. AskedOnce(q) /\ \A job \in Jobs : Asks(q, job) => job.session = s
    BY <1>1 DEF AcceptedList
  <2> QED BY <1>1, <1>2, <1>3, <1>8, <1>9, <2>1, <2>2, <2>3, AnswersAsked
<1>11. /\ kernel' = kernel /\ Free' = Free /\ dbContexts' = dbContexts /\ results' = results
       /\ mDbCompletionPort' = mDbCompletionPort /\ loaded' = loaded
  BY DEF AcceptWithRequests, contextVars, managerVars, Free
<1>12. ASSUME WatchInv
       PROVE  WatchInv'
  <2>1. \A u \in Sessions \ {s} : mConnected'[u] = mConnected[u]
    BY <1>3, <1>4 DEF TypeInv
  <2>2. Watches(q, completionOk'[t], s)
    BY <1>1 DEF AcceptedList, Watches, Starts, WatchCalls
  <2>3. completionOk' = completionOk
    BY <1>4
  <2> QED BY <1>1, <1>2, <1>3, <1>6, <1>11, <1>12, <2>1, <2>2, <2>3, WatchServed
<1> QED BY <1>7, <1>10, <1>11, <1>12 DEF DbAnswers

-----------------------------------------------------------------------------
(***************************************************************************)
(* A request is posted.                                                    *)
(***************************************************************************)
\* The pool and the references of the requests.
DbPool(J) == JobCounts(J) /\ PoolInv(DbOps, J)

\* Who is about to post a request serves a completion of that session.
LEMMA Requester ==
  ASSUME NEW J, PoolInv(DbOps, J), NEW t \in Threads, NEW query \in Queries, Calling(t, query)
  PROVE  \E c \in Contexts : Served(DbOps, t, query, c)
<1> DEFINE q == todo[t]
<1>0. TypeInv(DbOps) /\ Structured(J)
  BY DEF PoolInv
<1>1. q \in Seq(DbOps) /\ q # <<>> /\ Head(q) = q[1] /\ q[1].call = query /\ Len(q) \in Nat
      /\ Len(q) >= 1
  BY <1>0, NotEmpty DEF TypeInv, Calling
<1>2. ~ Foreign(q)
  BY <1>1 DEF Foreign, Queries, ResultCalls
<1>3. \A s \in Sessions : q \notin Chains(s)
  BY <1>1, ChainFacts DEF Queries, ReturnCalls
<1>4. PICK c \in Contexts : Plan(q, c)
  BY <1>0, <1>2, <1>3 DEF Structured, Structure, Shapes
<1>5. c \in live
  BY <1>0, <1>1, <1>4, PlanHeld DEF Structured, Structure, Owned
<1>6. Rest(Tail(q), c) /\ Tail(q) \in Seq(DbOps) /\ q[1].obj = c.session
  <2>1. q[1].call \notin Detours /\ q[1].call # "DeleteIoContext"
    BY <1>1 DEF Queries, Detours
  <2> HIDE DEF q
  <2> QED BY <1>1, <1>4, <2>1, PlanHead
<1>7. Held(q) = {c}
  BY <1>1, <1>4, PlanHeld DEF IsOp, Queries
<1>8. c.session \in Sessions
  BY DEF Contexts
<1> QED BY <1>1, <1>4, <1>5, <1>6, <1>7, <1>8 DEF Obj, Served, Onward

\* The pool, when thread t goes on with the rest and session s has one reference more.
LEMMA ReferenceAdded ==
  ASSUME NEW J \in [Sessions -> Nat], PoolInv(DbOps, J), NEW t \in Threads,
         NEW call, call \notin FrontCalls \cup ReturnCalls,
         NEW c \in Contexts, Served(DbOps, t, call, c),
         todo' = [todo EXCEPT ![t] = Tail(todo[t])],
         mRefCount' = [mRefCount EXCEPT ![c.session] = mRefCount[c.session] + 1],
         UNCHANGED <<mConnected, associated, managerVars, contextVars, completionOk,
                     accepting, issueRef, crashed>>,
         NEW J2, J2 = [J EXCEPT ![c.session] = J[c.session] + 1]
  PROVE  PoolInv(DbOps, J2)'
<1> DEFINE s == c.session
           r == Tail(todo[t])
<1>1. /\ TypeInv(DbOps) /\ ConnInv /\ RecvInv /\ CountInv(J)
      /\ todo \in [Threads -> Seq(DbOps)] /\ live \in SUBSET Contexts /\ kernel \in SUBSET live
      /\ Structure(J, todo, live, kernel, issueRef, Free, mLock, accepting)
      /\ mRefCount \in [Sessions -> Int] /\ mFreeSessionList \in Seq(Sessions)
      /\ IsFiniteSet(live)
  BY DEF PoolInv, TypeInv, Structured
<1>2. /\ Plan(todo[t], c) /\ Rest(r, c) /\ r \in Seq(DbOps) /\ s \in Sessions /\ c \in live
      /\ Held(todo[t]) = {c} /\ Onward(r, c)
  BY DEF Served, Detours, FrontCalls
<1>3. /\ Plan(r, c) /\ Held(r) = {c}
      /\ \A u : ~ Starts(r, ConnCalls, u) /\ ~ Starts(r, RecvCalls, u)
  <2> HIDE DEF r
  <2> QED BY <1>2, NextRest
<1>4. /\ mConnected' = mConnected /\ associated' = associated /\ live' = live /\ kernel' = kernel
      /\ completionOk' = completionOk /\ accepting' = accepting /\ issueRef' = issueRef
      /\ crashed' = crashed /\ mLock' = mLock /\ Free' = Free /\ PoolAccounting'
      /\ mFreeSessionList' = mFreeSessionList /\ mCurrentIssueCount' = mCurrentIssueCount
      /\ mCurrentReturnCount' = mCurrentReturnCount
  BY DEF PoolInv, PoolAccounting, Issued, Free, managerVars, contextVars
<1> HIDE DEF r
<1>5. todo' = [todo EXCEPT ![t] = r]
  BY DEF r
<1>6. Structure(J, todo', live, kernel, issueRef, Free, mLock, accepting)
  <2>1. Structure(J, [todo EXCEPT ![t] = r], live \cup {} \cup {}, kernel \cup {}, issueRef,
                  Free, mLock, accepting)
    <3>1. Held(r) = Held(todo[t]) \cup {}
      BY <1>2, <1>3
    <3>2. /\ {} \in SUBSET Contexts /\ {} \cap {} = {} /\ ({} \cup {}) \cap live = {}
          /\ \A d \in {} \cup {} : d.session = c.session
      OBVIOUS
    <3> QED BY <1>1, <1>2, <1>3, <3>1, <3>2, Serving
  <2>2. live \cup {} \cup {} = live /\ kernel \cup {} = kernel
    OBVIOUS
  <2> QED BY <1>5, <2>1, <2>2
<1>7. Structured(J2)'
  <2>1. ~ Unused(J, live, issueRef, s)
    BY <1>2 DEF Unused
  <2>2. \A u \in Sessions \ {s} : J2[u] = J[u]
    BY <1>2
  <2>3. Free \subseteq Sessions
    BY <1>1, FreeSessions
  <2>4. Structure(J2, todo', live, kernel, issueRef, Free, mLock, accepting)
    BY <1>2, <1>6, <2>1, <2>2, <2>3, Referring
  <2> QED BY <1>4, <2>4 DEF Structured
<1>8. ConnInv' /\ RecvInv'
  BY <1>1, <1>3, <1>4, <1>5, TokensKept
<1>9. CountInv(J2)'
  <2>1. ASSUME NEW u \in Sessions
        PROVE  mRefCount'[u] = Cardinality(LiveOf(live, u)) + J2[u]
                                 + (IF u \in issueRef THEN 1 ELSE 0)
    <3>1. mRefCount[u] = Cardinality(LiveOf(live, u)) + J[u] + (IF u \in issueRef THEN 1 ELSE 0)
      BY <1>1 DEF CountInv
    <3>2. Cardinality(LiveOf(live, u)) \in Nat /\ J[u] \in Nat
      BY <1>1, CountType
    <3>3. CASE u = s
      <4>1. mRefCount'[u] = mRefCount[u] + 1 /\ J2[u] = J[u] + 1
        BY <1>1, <1>2, <3>3
      <4> QED BY <3>1, <3>2, <4>1
    <3>4. CASE u # s
      <4>1. mRefCount'[u] = mRefCount[u] /\ J2[u] = J[u]
        BY <1>1, <1>2, <3>4
      <4> QED BY <3>1, <4>1
    <3> QED BY <3>3, <3>4
  <2> QED BY <1>4, <2>1 DEF CountInv
<1>10. TypeInv(DbOps)'
  <2>1. mRefCount' \in [Sessions -> Int]
    BY <1>1, <1>2
  <2>2. todo' \in [Threads -> Seq(DbOps)]
    BY <1>1, <1>2, <1>5
  <2> QED BY <1>1, <1>4, <2>1, <2>2 DEF TypeInv
<1> QED BY <1>4, <1>7, <1>8, <1>9, <1>10 DEF PoolInv

\* PostDatabsaseRequest keeps the invariant, with one reference more.
LEMMA PostRequestStep ==
  ASSUME NEW J, DbPool(J), DbAnswers, NEW t \in Threads, NEW query \in Queries,
         PostDatabsaseRequest(t, query)
  PROVE  (\E J2 : DbPool(J2)') /\ DbAnswers' /\ (WatchInv => WatchInv')
<1>1. PICK c \in Contexts : Served(DbOps, t, query, c)
  BY Requester DEF DbPool, PostDatabsaseRequest
<1> DEFINE s == c.session
           job == [session |-> s, query |-> query]
<1>2. /\ s \in Sessions /\ Obj(t) = s /\ todo[t] # <<>> /\ Plan(todo[t], c)
      /\ todo[t][1].call = query /\ todo[t][1].obj = s /\ Rest(Tail(todo[t]), c)
  BY <1>1 DEF Served, Detours, Queries
<1>3. job \in Jobs /\ job.session = s /\ job.query = query
  BY <1>2 DEF Jobs
<1>4. /\ TypeInv(DbOps) /\ todo \in [Threads -> Seq(DbOps)] /\ JobCounts(J)
      /\ J \in [Sessions -> Nat] /\ PoolInv(DbOps, J)
      /\ Answers(todo, kernel, Free, dbContexts, mDbCompletionPort, results, loaded)
  BY DEF DbPool, PoolInv, TypeInv, DbAnswers, JobCounts
<1>5. /\ mRefCount' = [mRefCount EXCEPT ![s] = mRefCount[s] + 1]
      /\ todo' = [todo EXCEPT ![t] = Tail(todo[t])]
      /\ dbContexts' = dbContexts \cup {job}
      /\ mDbCompletionPort' = mDbCompletionPort \cup {job}
      /\ loaded' = loaded /\ results' = results
      /\ UNCHANGED <<mConnected, associated, managerVars, contextVars, completionOk,
                     accepting, issueRef, crashed>>
  <2>1. todo' = [todo EXCEPT ![t] = Tail(todo[t])]
    BY <1>2, <1>4, Doing DEF PostDatabsaseRequest
  <2> QED BY <1>2, <2>1 DEF PostDatabsaseRequest, AddRef, Set
<1>6. IsOp(todo[t][1], job.query, job.session) /\ Asks(todo[t], job)
  <2>1. todo[t] \in Seq(DbOps)
    BY <1>4
  <2>2. Len(todo[t]) \in Nat /\ Len(todo[t]) >= 1
    BY <1>2, <2>1, NotEmpty
  <2>3. 1 \in 1 .. Len(todo[t])
    BY <2>2
  <2>4. IsOp(todo[t][1], job.query, job.session)
    BY <1>2, <1>3 DEF IsOp
  <2> QED BY <2>3, <2>4 DEF Asks
<1>7. job \notin dbContexts
  BY <1>3, <1>4, <1>6 DEF Answers, Asked
<1> HIDE DEF job
<1>8. ASSUME NEW J2, J2 = [J EXCEPT ![s] = J[s] + 1]
      PROVE  DbPool(J2)'
  <2>1. JobCounts(J2)'
    BY <1>3, <1>4, <1>5, <1>7, <1>8, JobConstructed
  <2>2. query \notin FrontCalls \cup ReturnCalls
    BY DEF Queries, FrontCalls, ReturnCalls
  <2>3. PoolInv(DbOps, J2)'
    BY <1>1, <1>4, <1>5, <1>8, <2>2, ReferenceAdded
  <2> QED BY <2>1, <2>3 DEF DbPool
<1>9. \E J2 : DbPool(J2)'
  BY <1>8
<1>10. kernel' = kernel /\ Free' = Free /\ completionOk' = completionOk
       /\ mConnected' = mConnected
  BY <1>5 DEF contextVars, managerVars, Free
<1>11. Answers(todo', kernel, Free, dbContexts \cup {job}, mDbCompletionPort \cup {job}, results,
               loaded)
  BY <1>2, <1>3, <1>4, <1>5, <1>6, AnswersPosted
<1>12. DbAnswers'
  BY <1>5, <1>10, <1>11 DEF DbAnswers
<1>13. ASSUME WatchInv
       PROVE  WatchInv'
  <2>1. /\ Promise(Tail(todo[t])) /\ Tail(todo[t]) \in Seq(DbOps)
        /\ \A u : Watches(todo[t], completionOk[t], u) => Watches(Tail(todo[t]), completionOk[t], u)
    <3>1. query \notin WatchCalls \cup {"CheckCompletion"}
      BY DEF Queries, WatchCalls
    <3> QED BY <1>1, <1>4, <1>13, <3>1, ServedWatch
  <2>2. \A u \in Sessions \ {s} : mConnected'[u] = mConnected[u]
    BY <1>10
  <2> QED BY <1>2, <1>4, <1>5, <1>10, <1>13, <2>1, <2>2, WatchServed
<1> QED BY <1>9, <1>12, <1>13

-----------------------------------------------------------------------------
(***************************************************************************)
(* The results.                                                            *)
(***************************************************************************)
\* Who uses a result, or deletes its request, carries that request.
LEMMA Carrier ==
  ASSUME NEW J, DbPool(J), DbAnswers, NEW t \in Threads, NEW call \in ResultCalls,
         Calling(t, call)
  PROVE  \E job \in Jobs :
           /\ job \in dbContexts /\ Obj(t) = job /\ todo[t] # <<>> /\ Carries(todo[t], job)
           /\ call = "OnResult" => Tail(todo[t]) = <<Op("DeleteDbContext", job)>>
           /\ call = "DeleteDbContext" => Tail(todo[t]) = <<>>
<1> DEFINE q == todo[t]
<1>0. TypeInv(DbOps) /\ Structured(J)
  BY DEF DbPool, PoolInv
<1>1. q \in Seq(DbOps) /\ q # <<>> /\ Head(q) = q[1] /\ q[1].call = call
  BY <1>0, NotEmpty DEF TypeInv, Calling
<1>2. \A c \in Contexts : ~ Plan(q, c)
  <2> HIDE DEF q
  <2> QED BY <1>1, PlanHead DEF ResultCalls, FrontCalls, LateCalls
<1>3. \A s \in Sessions : q \notin Chains(s)
  BY <1>1, ChainFacts DEF ResultCalls, ReturnCalls
<1>4. Foreign(q)
  BY <1>0, <1>2, <1>3 DEF Structured, Structure, Shapes
<1>5. PICK job \in Jobs : Carries(q, job)
  BY <1>1, <1>4 DEF DbAnswers, Answers, Placed
<1>6. job \in dbContexts
  BY <1>5 DEF DbAnswers, Answers, Placed
<1>7. q[1].obj = job
  BY <1>5, CarriesForeign
<1>8. \/ call = "OnResult" /\ Tail(q) = <<Op("DeleteDbContext", job)>>
      \/ call = "DeleteDbContext" /\ Tail(q) = <<>>
  <2>1. CASE q = HandlingResult(job)
    <3>1. q[1].call = "OnResult"
      BY <2>1 DEF HandlingResult, Op
    <3>2. Tail(q) = <<Op("DeleteDbContext", job)>>
      BY <2>1, Tails DEF HandlingResult
    <3> QED BY <1>1, <3>1, <3>2
  <2>2. CASE q = <<Op("DeleteDbContext", job)>>
    <3>1. q[1].call = "DeleteDbContext"
      BY <2>2 DEF Op
    <3>2. Tail(q) = <<>>
      BY <2>2, Tails
    <3> QED BY <1>1, <3>1, <3>2
  <2> QED BY <1>5, <2>1, <2>2 DEF Carries
<1> QED BY <1>1, <1>5, <1>6, <1>7, <1>8 DEF Obj

\* The handling of a result is a list of calls on results.
LEMMA ResultOps ==
  ASSUME NEW job \in Jobs
  PROVE  /\ HandlingResult(job) \in Seq(DbOps)
         /\ <<Op("DeleteDbContext", job)>> \in Seq(DbOps)
         /\ Foreign(HandlingResult(job)) /\ Foreign(<<Op("DeleteDbContext", job)>>)
<1>1. Op("OnResult", job) \in DbOps /\ Op("DeleteDbContext", job) \in DbOps
  BY DEF Op, DbOps, DbCalls, ResultCalls
<1>2. Carries(HandlingResult(job), job) /\ Carries(<<Op("DeleteDbContext", job)>>, job)
  BY DEF Carries
<1> QED BY <1>1, <1>2, CarriesForeign DEF HandlingResult

\* Nobody who handles results watches over a connection.
LEMMA ForeignWatches ==
  ASSUME NEW X, NEW q \in Seq(X), Foreign(q)
  PROVE  Promise(q) /\ \A ok, s : ~ Watches(q, ok, s)
<1>1. Len(q) \in Nat /\ (q # <<>> => 1 \in 1 .. Len(q))
  BY NotEmpty, LenProperties
<1>2. q # <<>> => q[1].call \in ResultCalls
  BY <1>1 DEF Foreign
<1>3. \A s : ~ Checks(q, s)
  BY DEF Foreign, Checks, IsOp, ResultCalls
<1>4. ResultCalls \cap (WatchCalls \cup {"PostRecv", "WSARecv", "PacketHandling"}) = {}
  BY DEF ResultCalls, WatchCalls
<1>5. q # <<>> /\ Tail(q) # <<>> => Tail(q)[1].call # "PreRecv"
  BY ForeignFacts DEF OpCalls
<1> QED BY <1>2, <1>3, <1>4, <1>5 DEF Promise, Watches, Starts, IsOp

\* The pool, when thread t goes on with a list of results, or returns the session of
\* the request that it has deleted.
LEMMA ResultMoves ==
  ASSUME NEW J \in [Sessions -> Nat], PoolInv(DbOps, J), NEW t \in Threads,
         Foreign(todo[t]), todo[t] # <<>> \/ t # Main,
         NEW s \in Sessions, NEW q \in Seq(DbOps), NEW J2 \in [Sessions -> Nat],
         \A u \in Sessions \ {s} : J2[u] = J[u] /\ mRefCount'[u] = mRefCount[u],
         mRefCount' \in [Sessions -> Int],
         mRefCount'[s] - mRefCount[s] = J2[s] - J[s],
         J[s] # 0 \/ J2[s] = J[s],
         \/ q = <<>> \/ \E job \in Jobs : Carries(q, job)
         \/ q = <<Op("ReturnLock", s)>> /\ J[s] # 0 /\ mRefCount'[s] = 0,
         todo' = [todo EXCEPT ![t] = q], crashed' = crashed,
         UNCHANGED <<mConnected, associated, managerVars, contextVars, completionOk,
                     accepting, issueRef>>
  PROVE  PoolInv(DbOps, J2)' /\ (WatchInv => WatchInv')
<1>1. /\ TypeInv(DbOps) /\ ConnInv /\ RecvInv /\ CountInv(J)
      /\ todo \in [Threads -> Seq(DbOps)] /\ live \in SUBSET Contexts /\ kernel \in SUBSET live
      /\ Structure(J, todo, live, kernel, issueRef, Free, mLock, accepting)
      /\ mRefCount \in [Sessions -> Int] /\ mFreeSessionList \in Seq(Sessions)
      /\ IsFiniteSet(live)
  BY DEF PoolInv, TypeInv, Structured
<1>2. /\ mConnected' = mConnected /\ associated' = associated /\ live' = live /\ kernel' = kernel
      /\ completionOk' = completionOk /\ accepting' = accepting /\ issueRef' = issueRef
      /\ mLock' = mLock /\ Free' = Free /\ PoolAccounting'
      /\ mFreeSessionList' = mFreeSessionList /\ mCurrentIssueCount' = mCurrentIssueCount
      /\ mCurrentReturnCount' = mCurrentReturnCount
  BY DEF PoolInv, PoolAccounting, Issued, Free, managerVars, contextVars
<1>3. CountInv(J2)'
  <2>1. ASSUME NEW u \in Sessions
        PROVE  mRefCount'[u] = Cardinality(LiveOf(live, u)) + J2[u]
                                 + (IF u \in issueRef THEN 1 ELSE 0)
    <3>1. mRefCount[u] = Cardinality(LiveOf(live, u)) + J[u] + (IF u \in issueRef THEN 1 ELSE 0)
      BY <1>1 DEF CountInv
    <3>2. Cardinality(LiveOf(live, u)) \in Nat /\ J[u] \in Nat /\ J2[u] \in Nat
      BY <1>1, CountType
    <3>3. mRefCount[u] \in Int /\ mRefCount'[u] \in Int
      BY <1>1
    <3>4. CASE u = s
      <4>1. mRefCount'[u] = mRefCount[u] + J2[u] - J[u]
        BY <3>2, <3>3, <3>4
      <4>2. CASE u \in issueRef
        BY <3>1, <3>2, <3>3, <4>1, <4>2
      <4>3. CASE u \notin issueRef
        BY <3>1, <3>2, <3>3, <4>1, <4>3
      <4> QED BY <4>2, <4>3
    <3>5. CASE u # s
      <4>1. mRefCount'[u] = mRefCount[u] /\ J2[u] = J[u]
        BY <3>5
      <4> QED BY <3>1, <4>1
    <3> QED BY <3>4, <3>5
  <2> QED BY <1>2, <2>1 DEF CountInv
<1>4. mRefCount'[s] = 0 => Unused(J2, live, issueRef, s)
  <2>1. mRefCount'[s] = Cardinality(LiveOf(live, s)) + J2[s] + (IF s \in issueRef THEN 1 ELSE 0)
    BY <1>2, <1>3 DEF CountInv
  <2>2. Cardinality(LiveOf(live, s)) \in Nat /\ J2[s] \in Nat
    BY <1>1, CountType
  <2>3. mRefCount'[s] = 0 => J2[s] = 0 /\ Cardinality(LiveOf(live, s)) = 0 /\ s \notin issueRef
    <3>1. CASE s \in issueRef
      BY <2>1, <2>2, <3>1
    <3>2. CASE s \notin issueRef
      BY <2>1, <2>2, <3>2
    <3> QED BY <3>1, <3>2
  <2> QED BY <1>1, <2>3, CountType DEF Unused, LiveOf
<1>5. Structured(J2)'
  <2>1. \/ Foreign(q)
        \/ q = <<Op("ReturnLock", s)>> /\ J[s] # 0 /\ Unused(J2, live, issueRef, s)
    BY <1>4, EmptyFacts, CarriesForeign
  <2>2. Free \in SUBSET Sessions
    BY <1>1, FreeSessions
  <2>3. Structure(J2, todo', live, kernel, issueRef, Free, mLock, accepting)
    BY <1>1, <2>1, <2>2, Resulting
  <2> QED BY <1>2, <2>3 DEF Structured
<1>6. /\ \A u : ~ Starts(q, ConnCalls, u) /\ ~ Starts(q, RecvCalls, u)
  BY ResultLists
<1>7. ConnInv' /\ RecvInv'
  BY <1>1, <1>2, <1>6, TokensKept
<1>8. TypeInv(DbOps)'
  BY <1>1, <1>2 DEF TypeInv
<1>9. PoolInv(DbOps, J2)'
  BY <1>2, <1>3, <1>5, <1>7, <1>8 DEF PoolInv
<1>10. ASSUME WatchInv
       PROVE  WatchInv'
  <2>1. \A ok, u : ~ Watches(todo[t], ok, u)
    BY <1>1, ForeignWatches
  <2>2. Promise(q)
    <3>1. CASE Foreign(q)
      BY <3>1, ForeignWatches
    <3>2. CASE q = <<Op("ReturnLock", s)>>
      BY <3>2 DEF Promise, Op
    <3> QED BY <3>1, <3>2, EmptyFacts, CarriesForeign
  <2> QED BY <1>1, <1>2, <1>10, <2>1, <2>2, WatchIdle
<1> QED BY <1>9, <1>10

\* A worker takes a result from its port.
LEMMA CompleteResultStep ==
  ASSUME NEW J, DbPool(J), DbAnswers, NEW t \in Workers, NEW job \in results,
         CompleteResult(t, job)
  PROVE  DbPool(J)' /\ DbAnswers' /\ (WatchInv => WatchInv')
<1>1. /\ todo \in [Threads -> Seq(DbOps)] /\ JobCounts(J) /\ J \in [Sessions -> Nat]
      /\ PoolInv(DbOps, J) /\ mRefCount \in [Sessions -> Int]
      /\ Answers(todo, kernel, Free, dbContexts, mDbCompletionPort, results, loaded)
  BY DEF DbPool, PoolInv, TypeInv, DbAnswers, JobCounts
<1>2. t \in Threads /\ t # Main
  BY MainThread DEF Threads
<1>3. job \in dbContexts /\ job \in Jobs
  BY <1>1 DEF Answers, Placed, JobCounts
<1> DEFINE q == HandlingResult(job)
           s == job.session
<1>4. /\ todo[t] = <<>> /\ todo' = [todo EXCEPT ![t] = q]
      /\ results' = results \ {job}
      /\ loaded' = loaded /\ dbContexts' = dbContexts /\ mDbCompletionPort' = mDbCompletionPort
      /\ mRefCount' = mRefCount /\ crashed' = crashed
      /\ UNCHANGED <<mConnected, associated, managerVars, contextVars, completionOk,
                     accepting, issueRef>>
  BY DEF CompleteResult, Set, sessionVars
<1>5. q \in Seq(DbOps) /\ Carries(q, job)
  BY <1>3, ResultOps DEF Carries
<1>6. s \in Sessions
  BY <1>3 DEF Jobs
<1> HIDE DEF q, s
<1>7. PoolInv(DbOps, J)' /\ (WatchInv => WatchInv')
  <2>1. Foreign(todo[t])
    BY <1>4, EmptyFacts
  <2>2. \A u \in Sessions \ {s} : J[u] = J[u] /\ mRefCount'[u] = mRefCount[u]
    BY <1>4
  <2>3. mRefCount' \in [Sessions -> Int] /\ mRefCount'[s] - mRefCount[s] = J[s] - J[s]
    <3>1. mRefCount[s] \in Int /\ J[s] \in Nat
      BY <1>1, <1>6
    <3> QED BY <1>1, <1>4, <3>1
  <2>4. \E j \in Jobs : Carries(q, j)
    BY <1>3, <1>5
  <2> QED BY <1>1, <1>2, <1>4, <1>5, <1>6, <2>1, <2>2, <2>3, <2>4, ResultMoves
<1>8. JobCounts(J)'
  BY <1>1, <1>4 DEF JobCounts
<1>9. Answers(todo', kernel, Free, dbContexts, mDbCompletionPort, results \ {job}, loaded)
  <2>1. DOMAIN todo = Threads
    BY <1>1
  <2>2. Answers([todo EXCEPT ![t] = q], kernel, Free,
                IF Carries(q, job) THEN dbContexts ELSE dbContexts \ {job},
                mDbCompletionPort, results \ {job}, loaded)
    BY <1>1, <1>2, <1>3, <1>5, <2>1, AnswersCarried
  <2> QED BY <1>4, <1>5, <2>2
<1>10. kernel' = kernel /\ Free' = Free
  BY <1>4 DEF contextVars, managerVars, Free
<1> QED BY <1>4, <1>7, <1>8, <1>9, <1>10 DEF DbPool, DbAnswers

\* A result is handed to the player: its session is neither free nor returning.
LEMMA OnResultStep ==
  ASSUME NEW J, DbPool(J), DbAnswers, loaded \in [Sessions -> BOOLEAN], NEW t \in Threads,
         OnResult(t)
  PROVE  DbPool(J)' /\ DbAnswers' /\ (WatchInv => WatchInv') /\ loaded' \in [Sessions -> BOOLEAN]
<1>0. /\ todo \in [Threads -> Seq(DbOps)] /\ JobCounts(J) /\ J \in [Sessions -> Nat]
      /\ PoolInv(DbOps, J) /\ mRefCount \in [Sessions -> Int] /\ Structured(J)
      /\ Answers(todo, kernel, Free, dbContexts, mDbCompletionPort, results, loaded)
  BY DEF DbPool, PoolInv, TypeInv, DbAnswers, JobCounts
<1>1. PICK job \in Jobs :
        /\ job \in dbContexts /\ Obj(t) = job /\ todo[t] # <<>> /\ Carries(todo[t], job)
        /\ Tail(todo[t]) = <<Op("DeleteDbContext", job)>>
  BY Carrier DEF OnResult, ResultCalls
<1> DEFINE q == <<Op("DeleteDbContext", job)>>
           s == job.session
<1>2. s \in Sessions /\ q \in Seq(DbOps) /\ Carries(q, job)
  BY ResultOps DEF Jobs, Carries
<1>3. /\ todo' = [todo EXCEPT ![t] = q]
      /\ loaded' = loaded \/ (job.query = "Load" /\ loaded' = [loaded EXCEPT ![s] = TRUE])
      /\ results' = results /\ dbContexts' = dbContexts /\ mDbCompletionPort' = mDbCompletionPort
      /\ mRefCount' = mRefCount /\ crashed' = crashed
      /\ UNCHANGED <<mConnected, associated, managerVars, contextVars, completionOk,
                     accepting, issueRef>>
  <2>1. todo' = [todo EXCEPT ![t] = q]
    BY <1>0, <1>1, Doing DEF OnResult
  <2> QED BY <1>1, <2>1 DEF OnResult, Set, PoolUnchanged, sessionVars
<1> HIDE DEF q, s
<1>4. PoolInv(DbOps, J)' /\ (WatchInv => WatchInv')
  <2>1. Foreign(todo[t])
    BY <1>1, CarriesForeign
  <2>2. \A u \in Sessions \ {s} : J[u] = J[u] /\ mRefCount'[u] = mRefCount[u]
    BY <1>3
  <2>3. mRefCount' \in [Sessions -> Int] /\ mRefCount'[s] - mRefCount[s] = J[s] - J[s]
    <3>1. mRefCount[s] \in Int /\ J[s] \in Nat
      BY <1>0, <1>2
    <3> QED BY <1>0, <1>3, <3>1
  <2>4. \E j \in Jobs : Carries(q, j)
    BY <1>2
  <2> QED BY <1>0, <1>1, <1>2, <1>3, <2>1, <2>2, <2>3, <2>4, ResultMoves
<1>5. JobCounts(J)'
  BY <1>0, <1>3 DEF JobCounts
<1>6. Answers(todo', kernel, Free, dbContexts, mDbCompletionPort, results, loaded)
  <2>1. job \notin results /\ DOMAIN todo = Threads
    BY <1>0, <1>1 DEF Answers, Placed
  <2>2. results \ {job} = results
    BY <2>1
  <2>3. Answers([todo EXCEPT ![t] = q], kernel, Free,
                IF Carries(q, job) THEN dbContexts ELSE dbContexts \ {job},
                mDbCompletionPort, results \ {job}, loaded)
    BY <1>0, <1>1, <1>2, <2>1, AnswersCarried
  <2> QED BY <1>2, <1>3, <2>2, <2>3
<1>7. s \notin Free /\ \A u \in Threads : ~ Starts(todo[u], {"ReturnToPool"}, s)
  <2>1. ~ Unused(J, live, issueRef, s)
    BY <1>0, <1>1, <1>2, NoJob DEF Unused, s
  <2>2. s \notin Free
    BY <1>0, <2>1 DEF Structured, Structure, Idle
  <2>3. ASSUME NEW u \in Threads, Starts(todo[u], {"ReturnToPool"}, s)
        PROVE  FALSE
    <3> DEFINE p == todo[u]
    <3>1. p # <<>> /\ p[1].call = "ReturnToPool" /\ p[1].obj = s /\ p \in Seq(DbOps)
      BY <1>0, <2>3 DEF Starts
    <3>2. ~ Foreign(p)
      BY <3>1, ForeignFacts DEF OpCalls
    <3>3. \A c \in Contexts : ~ Plan(p, c)
      <4> HIDE DEF p
      <4> QED BY <3>1, PlanHead DEF FrontCalls, LateCalls
    <3>4. PICK r \in Sessions : p \in Chains(r)
      BY <1>0, <3>2, <3>3 DEF Structured, Structure, Shapes
    <3>5. r = s
      BY <3>1, <3>4, ChainFacts
    <3> QED BY <1>0, <2>1, <3>4, <3>5 DEF Structured, Structure, Idle
  <2> QED BY <2>2, <2>3
<1>8. Answers(todo', kernel, Free, dbContexts, mDbCompletionPort, results, loaded')
      /\ loaded' \in [Sessions -> BOOLEAN]
  <2>1. CASE loaded' = loaded
    BY <1>6, <2>1
  <2>2. CASE job.query = "Load" /\ loaded' = [loaded EXCEPT ![s] = TRUE]
    <3>1. Answers(todo, kernel, Free, dbContexts, mDbCompletionPort, results,
                  [loaded EXCEPT ![job.session] = TRUE])
      BY <1>0, <1>1, <1>7, <2>2, AnswersLoaded DEF s
    <3>2. Answers(todo, kernel, Free, dbContexts, mDbCompletionPort, results, loaded')
      BY <2>2, <3>1 DEF s
    <3>3. job \notin results /\ DOMAIN todo = Threads
      BY <1>0, <1>1 DEF Answers, Placed
    <3>4. results \ {job} = results
      BY <3>3
    <3>5. Answers([todo EXCEPT ![t] = q], kernel, Free,
                  IF Carries(q, job) THEN dbContexts ELSE dbContexts \ {job},
                  mDbCompletionPort, results \ {job}, loaded')
      BY <1>1, <1>2, <3>2, <3>3, AnswersCarried
    <3> QED BY <1>2, <1>3, <2>2, <3>4, <3>5
  <2> QED BY <1>3, <2>1, <2>2
<1>9. kernel' = kernel /\ Free' = Free
  BY <1>3 DEF contextVars, managerVars, Free
<1> QED BY <1>3, <1>4, <1>5, <1>8, <1>9 DEF DbPool, DbAnswers

\* The request is deleted, perhaps with the last reference to the session.
LEMMA DeleteDbContextStep ==
  ASSUME NEW J, DbPool(J), DbAnswers, NEW t \in Threads, DeleteDbContext(t)
  PROVE  (\E J2 : DbPool(J2)') /\ DbAnswers' /\ (WatchInv => WatchInv')
<1>0. /\ todo \in [Threads -> Seq(DbOps)] /\ JobCounts(J) /\ J \in [Sessions -> Nat]
      /\ PoolInv(DbOps, J) /\ mRefCount \in [Sessions -> Int] /\ Structured(J) /\ CountInv(J)
      /\ IsFiniteSet(live)
      /\ Answers(todo, kernel, Free, dbContexts, mDbCompletionPort, results, loaded)
  BY DEF DbPool, PoolInv, TypeInv, DbAnswers, JobCounts
<1>1. PICK job \in Jobs :
        /\ job \in dbContexts /\ Obj(t) = job /\ todo[t] # <<>> /\ Carries(todo[t], job)
        /\ Tail(todo[t]) = <<>>
  BY Carrier DEF DeleteDbContext, ResultCalls
<1>2. PICK s \in Sessions : s = job.session
  BY DEF Jobs
<1> DEFINE n == mRefCount[s] - 1
<1>3. PICK q \in {<<>>, <<Op("ReturnLock", s)>>} :
        /\ todo' = [todo EXCEPT ![t] = q]
        /\ q # <<>> => n = 0
  <2>1. \/ n = 0 /\ Do(t, <<Op("ReturnLock", s)>>)
        \/ Do(t, <<>>)
    BY <1>1, <1>2 DEF DeleteDbContext, ReleaseRef
  <2>2. <<Op("ReturnLock", s)>> \o <<>> = <<Op("ReturnLock", s)>>
    OBVIOUS
  <2>3. \/ n = 0 /\ todo' = [todo EXCEPT ![t] = <<Op("ReturnLock", s)>>]
        \/ todo' = [todo EXCEPT ![t] = <<>>]
    BY <1>0, <1>1, <2>1, <2>2, Doing
  <2> QED BY <2>3
<1>4. /\ mRefCount' = [mRefCount EXCEPT ![s] = n]
      /\ dbContexts' = dbContexts \ {job}
      /\ results' = results /\ loaded' = loaded /\ mDbCompletionPort' = mDbCompletionPort
      /\ crashed' = (IF n >= 0 THEN crashed ELSE "ReleaseRef")
      /\ UNCHANGED <<mConnected, associated, managerVars, contextVars, completionOk,
                     accepting, issueRef>>
  BY <1>1, <1>2 DEF DeleteDbContext, ReleaseRef, Set, CrashAssert
<1> HIDE DEF n
<1>5. /\ J[s] \in Nat /\ J[s] # 0 /\ mRefCount[s] \in Int
      /\ n = mRefCount[s] - 1 /\ n >= 0 /\ n \in Int
  <2>1. J[s] \in Nat /\ J[s] # 0 /\ mRefCount[s] \in Int
    BY <1>0, <1>1, <1>2, NoJob
  <2>2. mRefCount[s] = Cardinality(LiveOf(live, s)) + J[s] + (IF s \in issueRef THEN 1 ELSE 0)
    BY <1>0 DEF CountInv
  <2>3. Cardinality(LiveOf(live, s)) \in Nat
    BY <1>0, CountType
  <2>4. mRefCount[s] >= 1
    <3>1. CASE s \in issueRef
      BY <2>1, <2>2, <2>3, <3>1
    <3>2. CASE s \notin issueRef
      BY <2>1, <2>2, <2>3, <3>2
    <3> QED BY <3>1, <3>2
  <2> QED BY <2>1, <2>4 DEF n
<1>6. q \in Seq(DbOps)
  <2>1. Op("ReturnLock", s) \in DbOps
    BY DEF Op, DbOps, OpCalls
  <2>2. <<>> \in Seq(DbOps) /\ <<Op("ReturnLock", s)>> \in Seq(DbOps)
    BY <2>1
  <2> QED BY <2>2
<1>7. ~ Carries(q, job)
  <2>1. CASE q = <<>>
    BY <2>1, CarriesForeign
  <2>2. CASE q = <<Op("ReturnLock", s)>>
    <3>1. ~ Foreign(q)
      BY <2>2 DEF Op, Foreign, ResultCalls
    <3> QED BY <3>1, CarriesForeign
  <2> QED BY <2>1, <2>2
<1>8. ASSUME NEW J2, J2 = [J EXCEPT ![s] = J[s] - 1]
      PROVE  DbPool(J2)' /\ (WatchInv => WatchInv')
  <2>1. JobCounts(J2)'
    BY <1>0, <1>1, <1>2, <1>4, <1>8, JobDeleted
  <2>2. J2 \in [Sessions -> Nat]
    BY <2>1 DEF JobCounts
  <2>3. Foreign(todo[t])
    BY <1>1, CarriesForeign
  <2>4. \A u \in Sessions \ {s} : J2[u] = J[u] /\ mRefCount'[u] = mRefCount[u]
    BY <1>0, <1>4, <1>8
  <2>5. /\ mRefCount' \in [Sessions -> Int] /\ mRefCount'[s] = n /\ J2[s] = J[s] - 1
    BY <1>0, <1>4, <1>5, <1>8
  <2>6. mRefCount'[s] - mRefCount[s] = J2[s] - J[s]
    BY <1>5, <2>5
  <2>7. crashed' = crashed
    BY <1>4, <1>5
  <2>8. \/ q = <<>> \/ \E j \in Jobs : Carries(q, j)
        \/ q = <<Op("ReturnLock", s)>> /\ J[s] # 0 /\ mRefCount'[s] = 0
    BY <1>3, <1>5, <2>5
  <2>9. PoolInv(DbOps, J2)' /\ (WatchInv => WatchInv')
    BY <1>0, <1>1, <1>3, <1>4, <1>5, <1>6, <2>2, <2>3, <2>4, <2>5, <2>6, <2>7, <2>8, ResultMoves
  <2> QED BY <2>1, <2>9 DEF DbPool
<1>9. (\E J2 : DbPool(J2)') /\ (WatchInv => WatchInv')
  BY <1>8
<1>10. Answers(todo', kernel, Free, dbContexts \ {job}, mDbCompletionPort, results, loaded)
  <2>1. job \notin results /\ DOMAIN todo = Threads
    BY <1>0, <1>1 DEF Answers, Placed
  <2>2. results \ {job} = results
    BY <2>1
  <2>3. Carries(todo[t], job) /\ (q = <<>> \/ \E u : q = <<Op("ReturnLock", u)>>)
    BY <1>1
  <2>4. Answers([todo EXCEPT ![t] = q], kernel, Free,
                IF Carries(q, job) THEN dbContexts ELSE dbContexts \ {job},
                mDbCompletionPort, results \ {job}, loaded)
    BY <1>0, <2>1, <2>3, AnswersCarried
  <2> QED BY <1>3, <1>7, <2>2, <2>4
<1>11. kernel' = kernel /\ Free' = Free
  BY <1>4 DEF contextVars, managerVars, Free
<1> QED BY <1>4, <1>9, <1>10, <1>11 DEF DbAnswers

-----------------------------------------------------------------------------
(***************************************************************************)
(* The reset of the player, and the database threads.                      *)
(***************************************************************************)
\* The reset of the player follows that of the send buffer.
LEMMA ResetPlayerStep ==
  ASSUME NEW J, DbPool(J), DbAnswers, loaded \in [Sessions -> BOOLEAN], NEW t \in Threads,
         ResetBufferAndPlayer(t) \/ PlayerReset(t)
  PROVE  DbPool(J)' /\ DbAnswers' /\ (WatchInv => WatchInv') /\ loaded' \in [Sessions -> BOOLEAN]
<1>0. /\ todo \in [Threads -> Seq(DbOps)] /\ JobCounts(J) /\ J \in [Sessions -> Nat]
      /\ PoolInv(DbOps, J) /\ TypeInv(DbOps)
      /\ Answers(todo, kernel, Free, dbContexts, mDbCompletionPort, results, loaded)
  BY DEF DbPool, PoolInv, TypeInv, DbAnswers, JobCounts
<1>1. PICK call \in {"ResetSendBuffer", "PlayerReset"} :
        /\ Calling(t, call)
        /\ call = "ResetSendBuffer" => ResetBufferAndPlayer(t)
        /\ call = "PlayerReset" => PlayerReset(t)
  BY DEF ResetBufferAndPlayer, PlayerReset
<1>2. PICK s \in Sessions : /\ todo[t] \in Chains(s) /\ todo[t] # <<>> /\ todo[t][1].call = call
                            /\ Obj(t) = s
  BY <1>0, <1>1, Returner DEF ReturnCalls
<1> DEFINE back == Op("ReturnToPool", s)
           q == IF call = "ResetSendBuffer" THEN <<Op("PlayerReset", s), back>> ELSE <<back>>
           B == IF call = "ResetSendBuffer" THEN loaded ELSE [loaded EXCEPT ![s] = FALSE]
<1>3. Tail(todo[t]) = <<back>>
  <2>1. \/ todo[t] = <<Op("ReturnLock", s)>> \/ todo[t] = <<Op("ReturnAssert", s)>>
        \/ todo[t] = <<Op("SessionReset", s), Op("ResetSendBuffer", s), back>>
        \/ todo[t] = <<back>>
        \/ todo[t] \in {<<Op("ResetSendBuffer", s), back>>, <<Op("PlayerReset", s), back>>}
    BY <1>2 DEF Chains
  <2>2. todo[t] \in {<<Op("ResetSendBuffer", s), back>>, <<Op("PlayerReset", s), back>>}
    <3>1. todo[t] # <<Op("ReturnLock", s)>>
      BY <1>1, <1>2 DEF Op
    <3>2. todo[t] # <<Op("ReturnAssert", s)>>
      BY <1>1, <1>2 DEF Op
    <3>3. todo[t] # <<Op("SessionReset", s), Op("ResetSendBuffer", s), back>>
      BY <1>1, <1>2 DEF Op
    <3>4. todo[t] # <<back>>
      BY <1>1, <1>2 DEF Op
    <3> QED BY <2>1, <3>1, <3>2, <3>3, <3>4
  <2> HIDE DEF back
  <2> QED BY <2>2, Tails
<1>4. /\ todo' = [todo EXCEPT ![t] = q] /\ loaded' = B
      /\ PoolUnchanged /\ crashed' = crashed
      /\ dbContexts' = dbContexts /\ mDbCompletionPort' = mDbCompletionPort /\ results' = results
  <2>1. CASE call = "ResetSendBuffer"
    <3>1. <<Op("PlayerReset", s)>> \o <<back>> = <<Op("PlayerReset", s), back>>
      BY Pair
    <3>2. Do(t, <<Op("PlayerReset", s)>>)
      BY <1>1, <1>2, <2>1 DEF ResetBufferAndPlayer
    <3>3. todo' = [todo EXCEPT ![t] = <<Op("PlayerReset", s)>> \o <<back>>]
      BY <1>0, <1>2, <1>3, <3>2, Doing
    <3> QED BY <1>1, <2>1, <3>1, <3>3 DEF ResetBufferAndPlayer, dbVars
  <2>2. CASE call = "PlayerReset"
    <3>1. Do(t, <<>>)
      BY <1>1, <2>2 DEF PlayerReset
    <3>2. todo' = [todo EXCEPT ![t] = <<back>>]
      BY <1>0, <1>2, <1>3, <3>1, Doing
    <3> QED BY <1>1, <1>2, <2>2, <3>2 DEF PlayerReset, Set
  <2> QED BY <2>1, <2>2
<1>5. q \in Seq(DbOps) /\ q \in Chains(s)
  <2>1. back \in DbOps /\ Op("PlayerReset", s) \in DbOps
    BY DEF Op, DbOps, OpCalls
  <2>2. <<back>> \in Seq(DbOps) /\ <<Op("PlayerReset", s), back>> \in Seq(DbOps)
    <3> HIDE DEF back
    <3> QED BY <2>1
  <2> QED BY <2>2 DEF Chains
<1>6. B \in [Sessions -> BOOLEAN] /\ (call # "ResetSendBuffer" => ~ B[s])
      /\ \A u \in Sessions : B[u] => loaded[u]
  OBVIOUS
<1>7. /\ \A i \in 1 .. Len(q) : q[i].call \in OpCalls \cup {"PlayerReset"}
      /\ \A u : ~ Starts(q, {"AcceptCompletion"}, u)
      /\ \A u : Starts(q, {"ReturnToPool"}, u) => u = s /\ call # "ResetSendBuffer"
  BY DEF Op, OpCalls, Starts
<1>8. Answers(todo, kernel, Free, dbContexts, mDbCompletionPort, results, B)
  BY <1>0, AnswersCleared
<1> HIDE DEF q, B
<1>9. /\ mRefCount' = mRefCount /\ mConnected' = mConnected /\ associated' = associated
      /\ mLock' = mLock /\ mFreeSessionList' = mFreeSessionList /\ kernel' = kernel
      /\ completionOk' = completionOk /\ Free' = Free
      /\ UNCHANGED <<sessionVars, mFreeSessionList, mCurrentIssueCount, mCurrentReturnCount,
                     contextVars, completionOk, accepting, issueRef, crashed>>
  BY <1>4 DEF PoolUnchanged, sessionVars, managerVars, contextVars, Free
<1>10. PoolInv(DbOps, J)'
  <2>1. todo[t][1].call # "ReturnLock"
    BY <1>2
  <2> QED BY <1>0, <1>2, <1>4, <1>5, <1>9, <2>1, ChainStep
<1>11. JobCounts(J)'
  BY <1>0, <1>4 DEF JobCounts
<1>12. Answers(todo', kernel, Free, dbContexts, mDbCompletionPort, results, B)
  <2>1. Len(q) \in Nat /\ Shift(todo[t], q)
    <3>1. Len(q) \in Nat
      BY <1>5, LenProperties
    <3>2. 0 \in Int
      OBVIOUS
    <3> QED BY <1>7, <3>1, <3>2 DEF Shift
  <2>2. ~ Foreign(q)
    BY <1>5, Kinds
  <2>3. \A u \in Sessions :
          Accepting([todo EXCEPT ![t] = q], kernel, u) => Accepting(todo, kernel, u)
    <3>1. /\ [todo EXCEPT ![t] = q][t] = q
          /\ \A v \in Threads \ {t} : [todo EXCEPT ![t] = q][v] = todo[v]
      BY <1>0
    <3> QED BY <1>7, <3>1 DEF Accepting, Token
  <2>4. \A u \in Sessions : Starts(q, {"ReturnToPool"}, u) => ~ B[u]
    BY <1>6, <1>7
  <2> QED BY <1>0, <1>4, <1>8, <2>1, <2>2, <2>3, <2>4, AnswersMoved
<1>13. WatchInv => WatchInv'
  BY <1>0, <1>2, <1>4, <1>5, <1>9, ChainWatch
<1> QED BY <1>4, <1>6, <1>9, <1>10, <1>11, <1>12, <1>13 DEF DbPool, DbAnswers

\* A database thread executes a request.
LEMMA DatabaseStep ==
  ASSUME NEW J, DbPool(J), DbAnswers, NEW job \in mDbCompletionPort, DoDatabaseJob(job)
  PROVE  DbPool(J)' /\ DbAnswers' /\ (WatchInv => WatchInv')
<1>1. /\ UNCHANGED vars /\ loaded' = loaded /\ dbContexts' = dbContexts
      /\ mDbCompletionPort' = mDbCompletionPort \ {job} /\ results' = results \cup {job}
  BY DEF DoDatabaseJob
<1>2. PoolInv(DbOps, J)' /\ (WatchInv => WatchInv')
  BY <1>1, PoolStutter, WatchStutter DEF DbPool
<1>3. JobCounts(J)'
  BY <1>1 DEF DbPool, JobCounts
<1>4. todo' = todo /\ kernel' = kernel /\ Free' = Free
  BY <1>1 DEF vars, threadVars, contextVars, managerVars, Free
<1>5. Answers(todo, kernel, Free, dbContexts, mDbCompletionPort \ {job}, results \cup {job}, loaded)
  BY AnswersDone DEF DbAnswers
<1> QED BY <1>1, <1>2, <1>3, <1>4, <1>5 DEF DbPool, DbAnswers

-----------------------------------------------------------------------------
(***************************************************************************)
(* The invariant.                                                          *)
(***************************************************************************)
\* The references that the pool does not know are the requests', wherever these are.
DbInv ==
  /\ loaded \in [Sessions -> BOOLEAN]
  /\ DbAnswers
  /\ \E J : DbPool(J)

\* The initial state has no request and no player with data.
LEMMA InitialDb == DbInit => DbInv /\ WatchInv
<1> SUFFICES ASSUME DbInit
             PROVE  DbInv /\ WatchInv
  OBVIOUS
<1>1. PoolInv(DbOps, NoJobs) /\ WatchInv
  BY InitialPool, InitialWatch DEF DbInit
<1>2. JobCounts(NoJobs)
  <2>1. IsFiniteSet({})
    BY FS_EmptySet
  <2>2. \A s \in Sessions : NoJobs[s] = Cardinality(LiveOf({}, s))
    <3>1. \A s : LiveOf({}, s) = {}
      BY DEF LiveOf
    <3>2. Cardinality({}) = 0
      BY FS_EmptySet
    <3> QED BY <3>1, <3>2 DEF NoJobs
  <2>3. NoJobs \in [Sessions -> Nat]
    BY DEF NoJobs
  <2> QED BY <2>1, <2>2, <2>3 DEF JobCounts, DbInit
<1>3. loaded \in [Sessions -> BOOLEAN] /\ \A s \in Sessions : ~ loaded[s]
  BY DEF DbInit
<1>4. \A t \in Threads : todo[t] = <<>>
  BY DEF DbInit, Init
<1>5. \A t \in Threads :
        /\ \A job \in Jobs : ~ Asks(todo[t], job) /\ ~ Carries(todo[t], job)
        /\ AskedOnce(todo[t]) /\ \A s : ~ Starts(todo[t], {"AcceptCompletion"}, s)
  BY <1>4, ResultLists, CarriesForeign
<1>6. kernel = {} /\ dbContexts = {} /\ mDbCompletionPort = {} /\ results = {}
  BY DEF DbInit, Init
<1>7. DbAnswers
  <2>1. Placed(todo, dbContexts, mDbCompletionPort, results)
    BY <1>4, <1>5, <1>6 DEF Placed
  <2>2. Asked(todo, dbContexts)
    BY <1>5 DEF Asked
  <2>3. LoadDone(todo, Free, mDbCompletionPort, results, loaded)
    BY <1>3 DEF LoadDone
  <2>4. \A s \in Sessions : ~ Accepting(todo, kernel, s)
    BY <1>5, <1>6 DEF Accepting, Token
  <2> QED BY <2>1, <2>2, <2>3, <2>4 DEF DbAnswers, Answers
<1> QED BY <1>1, <1>2, <1>3, <1>7 DEF DbInv, DbPool

\* A step of the pool: the requests and the players stay.
LEMMA PoolOnlyStep ==
  ASSUME NEW J, DbPool(J), DbAnswers, UNCHANGED dbVars,
         \/ AcceptClientSessions
         \/ \E t \in Threads : PoolCall(t) \/ ReturnLock(t)
         \/ \E t \in Workers : DoIocpJob(t)
  PROVE  /\ DbPool(J)' /\ DbAnswers'
         /\ "WSARecvZero" \notin Faults /\ WatchInv => WatchInv'
<1>1. JobCounts(J) /\ PoolInv(DbOps, J) /\ J \in [Sessions -> Nat]
  BY DEF DbPool, JobCounts
<1>2. Next
  <2>1. \A t \in Threads : EchoBack(t) => PacketHandling(t)
    BY DEF EchoBack, PacketHandling
  <2>2. \A t \in Threads : PoolCall(t) => Call(t)
    BY <2>1 DEF PoolCall, Call
  <2> QED BY <2>2 DEF Next
<1>3. PoolInv(DbOps, J)'
  BY <1>1, <1>2, HasDbOps, PoolStep
<1>4. "WSARecvZero" \notin Faults /\ WatchInv => WatchInv'
  BY <1>1, <1>2, HasDbOps, WatchStep
<1>5. JobCounts(J)'
  BY <1>1 DEF JobCounts, dbVars
<1>6. DbAnswers'
  BY <1>1, HasDbOps, AcceptAnswers, MovesAnswers, CompletionAnswers
<1> QED BY <1>3, <1>4, <1>5, <1>6 DEF DbPool

\* Every step keeps the invariant.
LEMMA DbStep ==
  ASSUME DbInv, DbNext
  PROVE  /\ DbInv'
         /\ "WSARecvZero" \notin Faults /\ WatchInv => WatchInv'
<1>1. PICK J : DbPool(J)
  BY DEF DbInv
<1>2. loaded \in [Sessions -> BOOLEAN] /\ DbAnswers
  BY DEF DbInv
<1>3. CASE /\ UNCHANGED dbVars
           /\ \/ AcceptClientSessions
              \/ \E t \in Threads : PoolCall(t) \/ ReturnLock(t)
              \/ \E t \in Workers : DoIocpJob(t)
  <2>1. /\ DbPool(J)' /\ DbAnswers'
        /\ "WSARecvZero" \notin Faults /\ WatchInv => WatchInv'
    BY <1>1, <1>2, <1>3, PoolOnlyStep
  <2>2. loaded' = loaded
    BY <1>3 DEF dbVars
  <2> QED BY <1>2, <2>1, <2>2 DEF DbInv
<1>4. ASSUME NEW t \in Threads, AcceptWithRequests(t)
      PROVE  DbInv' /\ (WatchInv => WatchInv')
  <2>1. PoolInv(DbOps, J)' /\ DbAnswers' /\ (WatchInv => WatchInv')
    BY <1>1, <1>2, <1>4, AcceptRequestsStep DEF DbPool
  <2>2. loaded' = loaded /\ dbContexts' = dbContexts
    BY <1>4 DEF AcceptWithRequests
  <2>3. DbPool(J)'
    BY <1>1, <2>1, <2>2 DEF DbPool, JobCounts
  <2> QED BY <1>2, <2>1, <2>2, <2>3 DEF DbInv
<1>5. ASSUME NEW t \in Threads, NEW query \in Queries, PostDatabsaseRequest(t, query)
      PROVE  DbInv' /\ (WatchInv => WatchInv')
  <2>1. (\E J2 : DbPool(J2)') /\ DbAnswers' /\ (WatchInv => WatchInv')
    BY <1>1, <1>2, <1>5, PostRequestStep
  <2>2. loaded' = loaded
    BY <1>5 DEF PostDatabsaseRequest
  <2> QED BY <1>2, <2>1, <2>2 DEF DbInv
<1>6. ASSUME NEW t \in Threads, OnResult(t)
      PROVE  DbInv' /\ (WatchInv => WatchInv')
  BY <1>1, <1>2, <1>6, OnResultStep DEF DbInv
<1>7. ASSUME NEW t \in Threads, DeleteDbContext(t)
      PROVE  DbInv' /\ (WatchInv => WatchInv')
  <2>1. (\E J2 : DbPool(J2)') /\ DbAnswers' /\ (WatchInv => WatchInv')
    BY <1>1, <1>2, <1>7, DeleteDbContextStep
  <2>2. loaded' = loaded
    BY <1>7 DEF DeleteDbContext
  <2> QED BY <1>2, <2>1, <2>2 DEF DbInv
<1>8. ASSUME NEW t \in Threads, ResetBufferAndPlayer(t) \/ PlayerReset(t)
      PROVE  DbInv' /\ (WatchInv => WatchInv')
  BY <1>1, <1>2, <1>8, ResetPlayerStep DEF DbInv
<1>9. ASSUME NEW t \in Workers, NEW job \in results, CompleteResult(t, job)
      PROVE  DbInv' /\ (WatchInv => WatchInv')
  <2>1. DbPool(J)' /\ DbAnswers' /\ (WatchInv => WatchInv')
    BY <1>1, <1>2, <1>9, CompleteResultStep
  <2>2. loaded' = loaded
    BY <1>9 DEF CompleteResult
  <2> QED BY <1>2, <2>1, <2>2 DEF DbInv
<1>10. ASSUME NEW job \in mDbCompletionPort, DoDatabaseJob(job)
       PROVE  DbInv' /\ (WatchInv => WatchInv')
  <2>1. DbPool(J)' /\ DbAnswers' /\ (WatchInv => WatchInv')
    BY <1>1, <1>2, <1>10, DatabaseStep
  <2>2. loaded' = loaded
    BY <1>10 DEF DoDatabaseJob
  <2> QED BY <1>2, <2>1, <2>2 DEF DbInv
<1> QED BY <1>3, <1>4, <1>5, <1>6, <1>7, <1>8, <1>9, <1>10 DEF DbNext, DbCall, PoolCall, WithoutDb

\* So does a step that changes nothing.
LEMMA DbStutter ==
  ASSUME DbInv, UNCHANGED allVars
  PROVE  DbInv' /\ (WatchInv => WatchInv')
<1>1. PICK J : DbPool(J)
  BY DEF DbInv
<1>2. UNCHANGED vars /\ UNCHANGED dbVars
  BY DEF allVars
<1>3. PoolInv(DbOps, J)' /\ (WatchInv => WatchInv')
  BY <1>1, <1>2, PoolStutter, WatchStutter DEF DbPool
<1>4. /\ loaded' = loaded /\ dbContexts' = dbContexts /\ results' = results
      /\ mDbCompletionPort' = mDbCompletionPort
  BY <1>2 DEF dbVars
<1>5. todo' = todo /\ kernel' = kernel /\ Free' = Free
  BY <1>2 DEF vars, threadVars, contextVars, managerVars, Free
<1> QED BY <1>1, <1>3, <1>4, <1>5 DEF DbInv, DbPool, JobCounts, DbAnswers

\* A thread whose list holds a call of a return returns that session.
LEMMA DbReturner ==
  ASSUME NEW J, DbPool(J), NEW t \in Threads, NEW s, Returning(t, s)
  PROVE  s \in Sessions /\ todo[t] \in Chains(s)
<1> DEFINE q == todo[t]
<1>1. q \in Seq(DbOps) /\ Structured(J)
  BY DEF DbPool, PoolInv, TypeInv
<1>2. PICK i \in 1 .. Len(q) :
        /\ q[i].obj = s
        /\ q[i].call \in {"ReturnLock", "ReturnAssert", "SessionReset", "ResetSendBuffer",
                          "ReturnToPool"}
  <2>1. DOMAIN q = 1 .. Len(q)
    BY <1>1, LenProperties
  <2> QED BY <2>1 DEF Returning, Pending
<1>3. ~ Foreign(q)
  BY <1>2 DEF Foreign, ResultCalls
<1>4. \A c \in Contexts : ~ Plan(q, c)
  <2> SUFFICES ASSUME NEW c \in Contexts, Plan(q, c)
               PROVE  FALSE
    OBVIOUS
  <2>1. Serves(q[i], c)
    BY <1>1, PlanOps
  <2> QED BY <1>2, <2>1 DEF Serves, FrontCalls, LateCalls
<1>5. PICK r \in Sessions : q \in Chains(r)
  BY <1>1, <1>3, <1>4 DEF Structured, Structure, Shapes
<1>6. r = s
  BY <1>2, <1>5, ChainFacts
<1> QED BY <1>5, <1>6

\* A thread whose list holds the use of a result carries its request.
LEMMA DbUser ==
  ASSUME NEW J, DbPool(J), DbAnswers, NEW t \in Threads, NEW op \in Pending(t),
         op.call = "OnResult"
  PROVE  op.obj \in dbContexts
<1> DEFINE q == todo[t]
<1>1. q \in Seq(DbOps) /\ Structured(J)
  BY DEF DbPool, PoolInv, TypeInv
<1>2. PICK i \in 1 .. Len(q) : q[i] = op
  <2>1. DOMAIN q = 1 .. Len(q)
    BY <1>1, LenProperties
  <2> QED BY <2>1 DEF Pending
<1>3. \A c \in Contexts : ~ Plan(q, c)
  <2> SUFFICES ASSUME NEW c \in Contexts, Plan(q, c)
               PROVE  FALSE
    OBVIOUS
  <2>1. Serves(q[i], c)
    BY <1>1, PlanOps
  <2> QED BY <1>2, <2>1 DEF Serves, FrontCalls, LateCalls
<1>4. \A s \in Sessions : q \notin Chains(s)
  BY <1>2, ChainFacts DEF ReturnCalls
<1>5. Foreign(q)
  BY <1>1, <1>3, <1>4 DEF Structured, Structure, Shapes
<1>6. q # <<>>
  BY <1>2, Empty
<1>7. PICK job \in Jobs : Carries(q, job)
  BY <1>5, <1>6 DEF DbAnswers, Answers, Placed
<1>8. job \in dbContexts
  BY <1>7 DEF DbAnswers, Answers, Placed
<1>9. op.obj = job
  <2>1. CASE q = HandlingResult(job)
    <3>1. \A j \in 1 .. Len(q) : q[j].obj = job
      BY <2>1 DEF HandlingResult, Op
    <3> QED BY <1>2, <3>1
  <2>2. CASE q = <<Op("DeleteDbContext", job)>>
    <3>1. \A j \in 1 .. Len(q) : q[j].obj = job
      BY <2>2 DEF Op
    <3> QED BY <1>2, <3>1
  <2> QED BY <1>7, <2>1, <2>2 DEF Carries
<1> QED BY <1>8, <1>9

\* The count of references, from the pool's and the requests' counts.
LEMMA InvRefCount == DbInv => RefCountWithJobs
<1> SUFFICES ASSUME DbInv
             PROVE  RefCountWithJobs
  OBVIOUS
<1>1. PICK J : DbPool(J)
  BY DEF DbInv
<1>2. CountInv(J) /\ JobCounts(J)
  BY <1>1 DEF DbPool, PoolInv
<1> QED BY <1>2 DEF RefCountWithJobs, CountInv, JobCounts, LiveOf

\* Where the results go, from where the requests are.
LEMMA InvRequester == DbInv => ResultReachesRequester
<1> SUFFICES ASSUME DbInv
             PROVE  ResultReachesRequester
  OBVIOUS
<1>1. PICK J : DbPool(J)
  BY DEF DbInv
<1>2. /\ Structured(J) /\ JobCounts(J) /\ DbAnswers /\ todo \in [Threads -> Seq(DbOps)]
      /\ LoadDone(todo, Free, mDbCompletionPort, results, loaded)
  BY <1>1 DEF DbInv, DbPool, PoolInv, TypeInv, DbAnswers, Answers
<1>3. ASSUME NEW job \in dbContexts
      PROVE  job.session \notin Free /\ \A t \in Threads : ~ Returning(t, job.session)
  <2>1. job.session \in Sessions
    BY <1>2 DEF JobCounts, Jobs
  <2>2. ~ Unused(J, live, issueRef, job.session)
    BY <1>2, <2>1, NoJob DEF Unused
  <2>3. \A t \in Threads : Returning(t, job.session) => todo[t] \in Chains(job.session)
    BY <1>1, DbReturner
  <2> QED BY <1>2, <2>1, <2>2, <2>3 DEF Structured, Structure, Idle
<1>4. \A t \in Threads : \A op \in Pending(t) : op.call = "OnResult" => op.obj \in dbContexts
  BY <1>1, <1>2, DbUser
<1>5. ASSUME NEW s \in Sessions, loaded[s]
      PROVE  s \notin Free /\ ~ LoadUnanswered(s)
  <2> DEFINE job == [session |-> s, query |-> "Load"]
  <2>1. job \in Jobs /\ job.session = s /\ job.query = "Load"
    BY DEF Jobs, Queries
  <2>2. ASSUME NEW t \in Threads, Op("Load", s) \in Pending(t)
        PROVE  Asks(todo[t], job)
    <3>1. DOMAIN todo[t] = 1 .. Len(todo[t])
      BY <1>2, LenProperties
    <3>2. PICK i \in 1 .. Len(todo[t]) : todo[t][i] = Op("Load", s)
      BY <2>2, <3>1 DEF Pending
    <3> QED BY <2>1, <3>2 DEF Asks, IsOp, Op
  <2> HIDE DEF job
  <2>3. s \notin Free /\ job \notin mDbCompletionPort \cup results
        /\ \A t \in Threads : ~ Asks(todo[t], job)
    BY <1>2, <1>5, <2>1 DEF LoadDone
  <2> QED BY <2>2, <2>3 DEF LoadUnanswered, job
<1> QED BY <1>3, <1>4, <1>5 DEF ResultReachesRequester

-----------------------------------------------------------------------------
(***************************************************************************)
(* The theorems.                                                           *)
(***************************************************************************)
\* What the threads, the pool, the ports and the players have in common, in every
\* reachable state: the inductive invariant (DBManager.cpp, IOThread.cpp:48-53).
THEOREM DbInvariant == DbSpec => []DbInv
<1>1. DbInit => DbInv
  BY InitialDb
<1>2. DbInv /\ [DbNext]_allVars => DbInv'
  BY DbStep, DbStutter
<1> QED BY <1>1, <1>2, PTL DEF DbSpec

\* A session's count of references is the number of its contexts and of its requests, and
\* one for being issued, whatever thread holds them (DBContext.cpp:10, 15,
\* Session.cpp:189, 214-228 of HW_07_LOG_DUMP).
THEOREM DbSpecRefCountWithJobs == DbSpec => []RefCountWithJobs
BY DbInvariant, InvRefCount, PTL

\* A result is used for the connection that asked for it, and a player has no data of an
\* earlier connection (IOThread.cpp:45-53, Player.cpp:16-47).
THEOREM DbSpecResultReachesRequester == DbSpec => []ResultReachesRequester
BY DbInvariant, InvRequester, PTL

\* Both are conjuncts of the pool's invariant.
LEMMA DbInvPool == DbInv => PoolAccounting /\ NoCrash
BY DEF DbInv, DbPool, PoolInv, TypeInv, NoCrash

\* With the requests as without them, the list of free sessions agrees with its counters
\* (ClientSessionManager.cpp:36-68) and no assertion fires.
THEOREM DbSpecPool == DbSpec => [](PoolAccounting /\ NoCrash)
BY DbInvariant, DbInvPool, PTL

\* A connection that is up has a receive pending or a thread that is busy with it, also
\* when its accept posts requests; a receive of zero bytes must not fail
\* (ClientSession.cpp:145-148).
THEOREM DbSpecWatched ==
  ASSUME "WSARecvZero" \notin Faults
  PROVE  DbSpec => []Watched
<1> DEFINE Inv == DbInv /\ WatchInv
<1>1. DbInit => Inv
  BY InitialDb
<1>2. Inv /\ [DbNext]_allVars => Inv'
  BY DbStep, DbStutter
<1>3. Inv => Watched
  BY PoolWatched DEF DbInv, DbPool
<1> QED BY <1>1, <1>2, <1>3, PTL DEF DbSpec
=============================================================================
