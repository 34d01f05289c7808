------------------------- MODULE SessionPoolProofs -------------------------
(***************************************************************************)
(* Theorems about SessionPool, for any sessions, workers, context slots    *)
(* and failing system calls: the reference counts are exact, every context *)
(* is deleted once, a session goes back to the pool unused, the free list  *)
(* agrees with its counters, no assertion fires, one party at most has the *)
(* receive buffer, and a connection that is up is watched.                 *)
(*                                                                         *)
(* The inductive invariant says what a thread can have before it.  It      *)
(* serves a completion (a plan: one call or two on the connection, then    *)
(* late calls, then the deletion of the context), or it returns a session  *)
(* (a chain), or it has nothing.  The contexts outside the kernel are the  *)
(* ones that the plans delete, each by one thread.  A session in the free  *)
(* list or in a chain has no context and no other reference.  And each     *)
(* session has two tokens at most: the right to connect and disconnect,    *)
(* and the right to receive; each is in the kernel or with the next call   *)
(* of one thread.                                                          *)
(***************************************************************************)
EXTENDS SessionPool, FiniteSetTheorems, SequenceTheorems, TLAPS

\* A pending call of the session pool.  What follows is stated for a set X of
\* calls that holds these, so that a module with more calls can use it.
PoolOps == [call : OpCalls, obj : Sessions \cup Contexts]

HasPoolOps(X) == PoolOps \subseteq X

\* The calls of a return, and those before and after the one that touches the
\* connection when a completion is served.  (PlayerReset, Create, Load and Delete
\* are calls of DatabaseJobs.)
ReturnCalls ==
  {"ReturnLock", "ReturnAssert", "SessionReset", "ResetSendBuffer", "PlayerReset",
   "ReturnToPool"}
LateCalls == {"DeleteIoContext", "SendBaseKey", "CheckCompletion", "Create", "Load", "Delete"}
FrontCalls ==
  {"DeleteIoContext", "DisconnectRequest", "DisconnectEx", "PreRecv", "PostRecv",
   "WSARecvZero", "WSARecv", "AcceptCompletion", "PacketHandling",
   "DisconnectCompletion", "SendCompletion"}

IsOp(o, call, obj) == o.call = call /\ o.obj = obj

\* What is left of the service of a completion of context c once the calls that
\* touch the connection are made: late calls on the session, the deletion of c.
Rest(r, c) ==
  /\ r # <<>>
  /\ IsOp(r[Len(r)], "DeleteIoContext", c)
  /\ \A i \in 1 .. Len(r) - 1 :
       r[i].call \in LateCalls \ {"DeleteIoContext"} /\ r[i].obj = c.session

\* The call before them, which may touch the connection or delete the context of
\* an operation that could not be posted.
First(o, c) ==
  /\ o.call \in FrontCalls
  /\ IF o.call = "DeleteIoContext"
     THEN o.obj \in Contexts /\ o.obj # c /\ o.obj.session = c.session
     ELSE o.obj = c.session

\* The handling of packets, and the disconnect it may ask for, come before the
\* receive that is still to be posted.
Detours == {"PacketHandling", "DisconnectRequest", "DisconnectEx", "DeleteIoContext"}

\* What can follow them: a rest, or a receive to post and a rest.
Onward(r, c) ==
  \/ Rest(r, c)
  \/ r # <<>> /\ IsOp(r[1], "PreRecv", c.session) /\ Rest(Tail(r), c)

\* A thread that serves a completion of context c has this before it.
Plan(q, c) ==
  /\ q # <<>>
  /\ \/ Rest(q, c)
     \/ /\ First(q[1], c)
        /\ \/ Rest(Tail(q), c)
           \/ q[1].call \in Detours /\ Onward(Tail(q), c)

\* The contexts that the thread is going to delete.
Held(q) ==
  {c \in Contexts : \E i \in 1 .. Len(q) : IsOp(q[i], "DeleteIoContext", c)}

\* A list of calls that have nothing to do with the pool, on the result of a
\* database request: for the pool alone, the empty one.
ResultCalls == {"OnResult", "DeleteDbContext"}

Foreign(q) == \A i \in 1 .. Len(q) : q[i].call \in ResultCalls

\* The next call of the thread is one of these, on session s; a receive to post
\* counts from one call further back, as it may come behind a detour.
Starts(q, calls, s) ==
  /\ q # <<>>
  /\ \/ q[1].call \in calls /\ q[1].obj = s
     \/ "PreRecv" \in calls /\ Tail(q) # <<>> /\ IsOp(Tail(q)[1], "PreRecv", s)

\* A thread that returns session s has one of these before it.
Chains(s) ==
  {<<Op("ReturnLock", s)>>, <<Op("ReturnAssert", s)>>,
   <<Op("SessionReset", s), Op("ResetSendBuffer", s), Op("ReturnToPool", s)>>,
   <<Op("ResetSendBuffer", s), Op("ReturnToPool", s)>>,
   <<Op("PlayerReset", s), Op("ReturnToPool", s)>>,
   <<Op("ReturnToPool", s)>>}

-----------------------------------------------------------------------------
(***************************************************************************)
(* Lists of calls.                                                         *)
(***************************************************************************)
\* A call put in front of a list.
LEMMA Pushed ==
  ASSUME NEW X, NEW o \in X, NEW r \in Seq(X)
  PROVE  /\ <<o>> \o r \in Seq(X)
         /\ <<o>> \o r # <<>>
         /\ Len(<<o>> \o r) = Len(r) + 1
         /\ (<<o>> \o r)[1] = o
         /\ \A i \in 1 .. Len(r) : (<<o>> \o r)[i + 1] = r[i]
         /\ Tail(<<o>> \o r) = r
<1> DEFINE q == <<o>> \o r
<1>0. <<o>> \in Seq(X) /\ Len(<<o>>) = 1 /\ <<o>>[1] = o
  OBVIOUS
<1>1. /\ q \in Seq(X) /\ Len(q) = Len(r) + 1 /\ Len(r) \in Nat
      /\ \A i \in 1 .. Len(r) + 1 : q[i] = IF i <= 1 THEN <<o>>[i] ELSE r[i - 1]
  BY <1>0, ConcatProperties, LenProperties
<1>2. q # <<>>
  BY <1>1, EmptySeq
<1>3. q[1] = o /\ \A i \in 1 .. Len(r) : q[i + 1] = r[i]
  BY <1>0, <1>1
<1>4. /\ Tail(q) \in Seq(X) /\ Len(Tail(q)) = Len(r)
      /\ \A i \in 1 .. Len(Tail(q)) : Tail(q)[i] = q[i + 1]
  BY <1>1, <1>2, HeadTailProperties
<1>5. Tail(q) = r
  <2> HIDE DEF q
  <2> QED BY <1>3, <1>4, SeqEqual
<1> QED BY <1>1, <1>2, <1>3, <1>5

\* The empty list.
LEMMA Empty ==
  /\ Len(<<>>) = 0
  /\ \A X : \A q \in Seq(X) : Len(q) = 0 => q = <<>>
<1>1. Len(<<>>) = 0
  OBVIOUS
<1>2. ASSUME NEW X, NEW q \in Seq(X), Len(q) = 0
      PROVE  q = <<>>
  BY <1>2, EmptySeq
<1> QED BY <1>1, <1>2

\* A list that is not empty: its head and its tail.
LEMMA NotEmpty ==
  ASSUME NEW X, NEW q \in Seq(X), q # <<>>
  PROVE  /\ Len(q) \in Nat /\ Len(q) >= 1 /\ (Len(q) = 1 \/ Len(q) > 1)
         /\ q[1] \in X /\ Head(q) = q[1]
         /\ Tail(q) \in Seq(X)
         /\ Len(Tail(q)) = Len(q) - 1
         /\ \A i \in 1 .. Len(q) - 1 : Tail(q)[i] = q[i + 1]
         /\ <<>> \o Tail(q) = Tail(q)
         /\ \A i \in 1 .. Len(q) : q[i] \in X
<1>1. Len(q) \in Nat \ {0} /\ (Len(q) = 1 \/ Len(q) > 1)
  <2> DEFINE n == Len(q)
  <2>1. n \in Nat \ {0}
    BY EmptySeq
  <2> HIDE DEF n
  <2>2. n = 1 \/ n > 1
    BY <2>1
  <2> QED BY <2>1, <2>2 DEF n
<1>2. Head(q) = q[1]
  OBVIOUS
<1> QED BY <1>1, <1>2, HeadTailProperties, ConcatEmptySeq, ElementOfSeq

\* The second call of a list.
LEMMA SecondCall ==
  ASSUME NEW X, NEW q \in Seq(X), q # <<>>, Tail(q) # <<>>
  PROVE  2 \in 1 .. Len(q) /\ Tail(q)[1] = q[2]
<1>1. /\ Tail(q) \in Seq(X) /\ Len(Tail(q)) = Len(q) - 1 /\ Len(q) \in Nat
      /\ \A i \in 1 .. Len(q) - 1 : Tail(q)[i] = q[i + 1]
  BY NotEmpty
<1>2. Len(Tail(q)) >= 1
  BY <1>1, NotEmpty
<1>3. 1 \in 1 .. Len(q) - 1 /\ 1 + 1 = 2 /\ 2 \in 1 .. Len(q)
  BY <1>1, <1>2
<1> QED BY <1>1, <1>3

\* Two calls put in front at once are put in front one by one.
LEMMA Pair ==
  ASSUME NEW a, NEW b
  PROVE  <<a>> \o <<b>> = <<a, b>>
<1>1. /\ <<a>> \in Seq({a, b}) /\ Len(<<a>>) = 1 /\ <<a>>[1] = a
      /\ <<b>> \in Seq({a, b}) /\ Len(<<b>>) = 1 /\ <<b>>[1] = b
      /\ <<a, b>> \in Seq({a, b}) /\ Len(<<a, b>>) = 2 /\ <<a, b>>[1] = a /\ <<a, b>>[2] = b
  OBVIOUS
<1> DEFINE p == <<a>> \o <<b>>
           w == <<a, b>>
<1>2. /\ p \in Seq({a, b}) /\ Len(p) = 2
      /\ \A i \in 1 .. 2 : p[i] = IF i <= 1 THEN <<a>>[i] ELSE <<b>>[i - 1]
  BY <1>1, ConcatProperties
<1>3. p[1] = a /\ p[2] = b
  BY <1>1, <1>2
<1> HIDE DEF p, w
<1>4. w \in Seq({a, b}) /\ Len(w) = 2 /\ w[1] = a /\ w[2] = b
  BY <1>1 DEF w
<1>5. \A i \in 1 .. Len(p) : p[i] = w[i]
  BY <1>2, <1>3, <1>4
<1>6. p = w
  BY <1>2, <1>4, <1>5, SeqEqual
<1> QED BY <1>6 DEF p, w

\* The tails of short lists.
LEMMA Tails ==
  ASSUME NEW a, NEW b, NEW c
  PROVE  Tail(<<a>>) = <<>> /\ Tail(<<a, b>>) = <<b>> /\ Tail(<<a, b, c>>) = <<b, c>>
OBVIOUS

\* The deletion alone is a rest; a late call before a rest is a rest; a rest
\* without its first call is one, unless that was the deletion.
LEMMA RestSingle ==
  ASSUME NEW c \in Contexts
  PROVE  Rest(<<Op("DeleteIoContext", c)>>, c)
BY DEF Rest, Op, IsOp

LEMMA RestPush ==
  ASSUME NEW X, NEW c, NEW r \in Seq(X), Rest(r, c),
         NEW o \in X, o.call \in LateCalls \ {"DeleteIoContext"}, o.obj = c.session
  PROVE  Rest(<<o>> \o r, c)
<1> DEFINE q == <<o>> \o r
<1>1. /\ q \in Seq(X) /\ q # <<>> /\ Len(q) = Len(r) + 1 /\ q[1] = o
      /\ \A i \in 1 .. Len(r) : q[i + 1] = r[i]
  BY Pushed
<1>2. Len(r) \in Nat /\ Len(r) >= 1
  BY NotEmpty DEF Rest
<1> HIDE DEF q
<1>3. q[Len(q)] = r[Len(r)]
  BY <1>1, <1>2
<1>4. ASSUME NEW i \in 1 .. Len(q) - 1
      PROVE  q[i].call \in LateCalls \ {"DeleteIoContext"} /\ q[i].obj = c.session
  <2>1. CASE i = 1
    BY <2>1, <1>1
  <2>2. CASE i # 1
    <3>1. i - 1 \in 1 .. Len(r) - 1 /\ q[i] = r[i - 1]
      <4>1. i - 1 \in 1 .. Len(r) - 1 /\ (i - 1) + 1 = i
        BY <2>2, <1>1, <1>2
      <4> QED BY <4>1, <1>1, <1>2
    <3> QED BY <3>1 DEF Rest
  <2> QED BY <2>1, <2>2
<1> QED BY <1>1, <1>3, <1>4 DEF Rest, q

LEMMA RestTail ==
  ASSUME NEW X, NEW c, NEW q \in Seq(X), Rest(q, c), q[1].call # "DeleteIoContext"
  PROVE  Rest(Tail(q), c) /\ q[1].obj = c.session
<1>1. /\ Len(q) \in Nat /\ Len(q) >= 1 /\ Tail(q) \in Seq(X) /\ Len(Tail(q)) = Len(q) - 1
      /\ \A i \in 1 .. Len(q) - 1 : Tail(q)[i] = q[i + 1]
  BY NotEmpty DEF Rest
<1>2. Len(q) # 1
  BY DEF Rest, IsOp
<1>3. Tail(q) # <<>>
  <2>1. Len(Tail(q)) # 0
    BY <1>1, <1>2
  <2> QED BY <2>1, Empty
<1>4. IsOp(Tail(q)[Len(Tail(q))], "DeleteIoContext", c)
  BY <1>1, <1>2 DEF Rest
<1>5. \A i \in 1 .. Len(Tail(q)) - 1 :
        Tail(q)[i].call \in LateCalls \ {"DeleteIoContext"} /\ Tail(q)[i].obj = c.session
  <2> TAKE i \in 1 .. Len(Tail(q)) - 1
  <2>1. i \in 1 .. Len(q) - 1 /\ i + 1 \in 1 .. Len(q) - 1 /\ Tail(q)[i] = q[i + 1]
    BY <1>1
  <2> QED BY <2>1 DEF Rest
<1>6. q[1].obj = c.session
  BY <1>1, <1>2 DEF Rest
<1> QED BY <1>3, <1>4, <1>5, <1>6 DEF Rest

\* A rest deletes its context and no other.
LEMMA RestHeld ==
  ASSUME NEW X, NEW c \in Contexts, NEW r \in Seq(X), Rest(r, c)
  PROVE  /\ Held(r) = {c}
         /\ r[1].call \in LateCalls
         /\ r[1].call = "DeleteIoContext" => Len(r) = 1 /\ r[1].obj = c /\ Tail(r) = <<>>
<1>1. Len(r) \in Nat /\ Len(r) >= 1 /\ (Len(r) = 1 \/ Len(r) > 1)
  BY NotEmpty DEF Rest
<1>2. Len(r) = 1 => Tail(r) = <<>>
  <2>1. Len(r) = 1 => Len(Tail(r)) = 0 /\ Tail(r) \in Seq(X)
    BY NotEmpty DEF Rest
  <2> QED BY <2>1, Empty
<1>3. Held(r) = {c}
  <2>1. c \in Held(r)
    BY <1>1 DEF Held, Rest
  <2>2. ASSUME NEW d \in Contexts, NEW i \in 1 .. Len(r), IsOp(r[i], "DeleteIoContext", d)
        PROVE  d = c
    BY <1>1, <2>2 DEF Rest, IsOp
  <2> QED BY <2>1, <2>2 DEF Held
<1>4. r[1].call \in LateCalls
  BY <1>1 DEF Rest, IsOp, LateCalls
<1>5. r[1].call = "DeleteIoContext" => Len(r) = 1 /\ r[1].obj = c
  <2>1. CASE Len(r) = 1
    BY <2>1 DEF Rest, IsOp
  <2>2. CASE Len(r) > 1
    <3>1. 1 \in 1 .. Len(r) - 1
      BY <2>2, <1>1
    <3> QED BY <3>1 DEF Rest
  <2> QED BY <2>1, <2>2, <1>1
<1> QED BY <1>2, <1>3, <1>4, <1>5

\* What a list with one more call deletes.
LEMMA PushHeld ==
  ASSUME NEW X, NEW o \in X, NEW r \in Seq(X)
  PROVE  Held(<<o>> \o r) = Held(r) \cup {d \in Contexts : IsOp(o, "DeleteIoContext", d)}
<1> DEFINE q == <<o>> \o r
<1>1. /\ q \in Seq(X) /\ Len(q) = Len(r) + 1 /\ Len(r) \in Nat /\ q[1] = o
      /\ \A i \in 1 .. Len(r) : q[i + 1] = r[i]
  BY Pushed, LenProperties
<1> HIDE DEF q
<1>2. ASSUME NEW d \in Contexts, NEW i \in 1 .. Len(q), IsOp(q[i], "DeleteIoContext", d)
      PROVE  d \in Held(r) \/ IsOp(o, "DeleteIoContext", d)
  <2>1. CASE i = 1
    BY <2>1, <1>1, <1>2
  <2>2. CASE i # 1
    <3>1. i - 1 \in 1 .. Len(r) /\ q[(i - 1) + 1] = r[i - 1] /\ (i - 1) + 1 = i
      BY <2>2, <1>1
    <3> QED BY <3>1, <1>2 DEF Held
  <2> QED BY <2>1, <2>2
<1>3. ASSUME NEW d \in Contexts, NEW i \in 1 .. Len(r), IsOp(r[i], "DeleteIoContext", d)
      PROVE  d \in Held(q)
  <2>1. i + 1 \in 1 .. Len(q) /\ q[i + 1] = r[i]
    BY <1>1
  <2> QED BY <2>1, <1>3 DEF Held
<1>4. ASSUME NEW d \in Contexts, IsOp(o, "DeleteIoContext", d)
      PROVE  d \in Held(q)
  <2>1. 1 \in 1 .. Len(q) /\ q[1] = o
    BY <1>1
  <2> QED BY <2>1, <1>4 DEF Held
<1>5. Held(q) = Held(r) \cup {d \in Contexts : IsOp(o, "DeleteIoContext", d)}
  BY <1>2, <1>3, <1>4 DEF Held
<1> QED BY <1>5 DEF q

\* The contexts a list deletes, by its head and its tail.
LEMMA HeldSplit ==
  ASSUME NEW X, NEW q \in Seq(X), q # <<>>
  PROVE  Held(q) = Held(Tail(q)) \cup {d \in Contexts : IsOp(q[1], "DeleteIoContext", d)}
<1>1. /\ q[1] \in X /\ Tail(q) \in Seq(X) /\ Len(q) \in Nat /\ Len(q) >= 1
      /\ Len(Tail(q)) = Len(q) - 1
      /\ \A i \in 1 .. Len(q) - 1 : Tail(q)[i] = q[i + 1]
  BY NotEmpty
<1>2. /\ <<q[1]>> \o Tail(q) \in Seq(X)
      /\ Len(<<q[1]>> \o Tail(q)) = Len(Tail(q)) + 1
      /\ (<<q[1]>> \o Tail(q))[1] = q[1]
      /\ \A i \in 1 .. Len(Tail(q)) : (<<q[1]>> \o Tail(q))[i + 1] = Tail(q)[i]
  BY <1>1, Pushed
<1> DEFINE p == <<q[1]>> \o Tail(q)
<1>3. q = p
  <2>1. Len(p) = Len(q)
    BY <1>1, <1>2
  <2>2. ASSUME NEW i \in 1 .. Len(q)
        PROVE  q[i] = p[i]
    <3>1. CASE i = 1
      BY <3>1, <1>2
    <3>2. CASE i # 1
      <4>1. i - 1 \in 1 .. Len(q) - 1 /\ (i - 1) + 1 = i
        BY <3>2, <1>1
      <4>2. q[i] = Tail(q)[i - 1]
        BY <4>1, <1>1
      <4>3. p[i] = Tail(q)[i - 1]
        BY <4>1, <1>1, <1>2
      <4> QED BY <4>2, <4>3
    <3> QED BY <3>1, <3>2
  <2>3. p \in Seq(X)
    BY <1>2
  <2> HIDE DEF p
  <2> QED BY <2>1, <2>2, <2>3, SeqEqual
<1> QED BY <1>1, <1>3, PushHeld

LEMMA EmptyFacts ==
  Held(<<>>) = {} /\ Foreign(<<>>)
BY Empty DEF Held, Foreign

-----------------------------------------------------------------------------
(***************************************************************************)
(* Plans and chains.                                                       *)
(***************************************************************************)
\* What a thread goes on with is a plan of its own, which deletes one context.
LEMMA OnwardHeld ==
  ASSUME NEW X, NEW c \in Contexts, NEW r \in Seq(X), Onward(r, c)
  PROVE  /\ Plan(r, c) /\ Held(r) = {c} /\ r # <<>> /\ Tail(r) \in Seq(X)
         /\ r[1].call \in LateCalls \cup {"PreRecv"}
         /\ r[1].call = "PreRecv" => r[1].obj = c.session /\ Rest(Tail(r), c)
<1>1. CASE Rest(r, c)
  <2>1. Plan(r, c) /\ r # <<>> /\ Tail(r) \in Seq(X)
    BY <1>1, NotEmpty DEF Plan, Rest
  <2>2. Held(r) = {c} /\ r[1].call \in LateCalls
    BY <1>1, RestHeld
  <2> QED BY <2>1, <2>2 DEF LateCalls
<1>2. CASE r # <<>> /\ IsOp(r[1], "PreRecv", c.session) /\ Rest(Tail(r), c)
  <2>1. Tail(r) \in Seq(X) /\ r[1].call = "PreRecv" /\ r[1].obj = c.session
    BY <1>2, NotEmpty DEF IsOp
  <2>2. Held(Tail(r)) = {c}
    BY <1>2, <2>1, RestHeld
  <2>3. Held(r) = {c}
    BY <1>2, <2>1, <2>2, HeldSplit DEF IsOp
  <2>4. Plan(r, c)
    BY <1>2, <2>1 DEF Plan, First, FrontCalls
  <2> QED BY <1>2, <2>1, <2>3, <2>4
<1> QED BY <1>1, <1>2 DEF Onward

\* The ways a plan is made.
LEMMA PlanPush ==
  ASSUME NEW X, NEW c, NEW r \in Seq(X), NEW o \in X, First(o, c),
         Rest(r, c) \/ (o.call \in Detours /\ Onward(r, c))
  PROVE  Plan(<<o>> \o r, c)
<1>1. <<o>> \o r # <<>> /\ (<<o>> \o r)[1] = o /\ Tail(<<o>> \o r) = r
  BY Pushed
<1> QED BY <1>1 DEF Plan

LEMMA PlanRest ==
  ASSUME NEW c, NEW r, Rest(r, c)
  PROVE  Plan(r, c)
BY DEF Plan, Rest

LEMMA PlanPackets ==
  ASSUME NEW X, NEW c, NEW r \in Seq(X), Rest(r, c), NEW o \in X, NEW p \in X,
         IsOp(o, "PacketHandling", c.session), IsOp(p, "PreRecv", c.session)
  PROVE  Plan(<<o>> \o (<<p>> \o r), c)
<1>1. <<p>> \o r \in Seq(X) /\ <<p>> \o r # <<>> /\ (<<p>> \o r)[1] = p /\ Tail(<<p>> \o r) = r
  BY Pushed
<1>2. Onward(<<p>> \o r, c)
  BY <1>1 DEF Onward
<1>3. First(o, c) /\ o.call \in Detours
  BY DEF First, FrontCalls, IsOp, Detours
<1> QED BY <1>1, <1>2, <1>3, PlanPush

\* What the head of a plan is, and what is behind it.
LEMMA PlanHead ==
  ASSUME NEW X, NEW c \in Contexts, NEW q \in Seq(X), Plan(q, c)
  PROVE  /\ q # <<>> /\ Tail(q) \in Seq(X)
         /\ q[1].call \in FrontCalls \cup LateCalls
         /\ q[1].call # "DeleteIoContext" => q[1].obj = c.session
         /\ q[1].call \notin Detours => Rest(Tail(q), c)
         /\ q[1].call # "DeleteIoContext" => Onward(Tail(q), c)
         /\ q[1].call = "DeleteIoContext" =>
              \/ q[1].obj = c /\ Tail(q) = <<>>
              \/ /\ q[1].obj \in Contexts \ {c} /\ q[1].obj.session = c.session
                 /\ Onward(Tail(q), c)
<1>1. q # <<>> /\ Tail(q) \in Seq(X)
  BY NotEmpty DEF Plan
<1>2. CASE Rest(q, c)
  <2>1. q[1].call \in LateCalls
    BY <1>2, RestHeld
  <2>2. q[1].call # "DeleteIoContext" => Rest(Tail(q), c) /\ q[1].obj = c.session
    BY <1>2, RestTail
  <2>3. q[1].call = "DeleteIoContext" => q[1].obj = c /\ Tail(q) = <<>>
    BY <1>2, RestHeld
  <2> QED BY <1>1, <2>1, <2>2, <2>3 DEF Onward, Detours
<1>3. CASE First(q[1], c) /\ Rest(Tail(q), c)
  BY <1>1, <1>3 DEF First, Onward
<1>4. CASE First(q[1], c) /\ q[1].call \in Detours /\ Onward(Tail(q), c)
  BY <1>1, <1>4 DEF First
<1> QED BY <1>2, <1>3, <1>4 DEF Plan

\* A plan deletes the context being served, and the one its head deletes.
LEMMA PlanHeld ==
  ASSUME NEW X, NEW c \in Contexts, NEW q \in Seq(X), Plan(q, c)
  PROVE  /\ Held(q) = {c} \cup {d \in Contexts : IsOp(q[1], "DeleteIoContext", d)}
         /\ c \in Held(q)
<1>1. CASE q[1].call # "DeleteIoContext"
  <2>1. q # <<>> /\ Tail(q) \in Seq(X) /\ Onward(Tail(q), c)
    BY <1>1, PlanHead
  <2>2. Held(Tail(q)) = {c}
    BY <2>1, OnwardHeld
  <2> QED BY <2>1, <2>2, HeldSplit
<1>2. CASE q[1].call = "DeleteIoContext"
  <2>1. q # <<>> /\ Tail(q) \in Seq(X)
    BY PlanHead
  <2>2. CASE q[1].obj = c /\ Tail(q) = <<>>
    <3>1. Held(Tail(q)) = {}
      BY <2>2, EmptyFacts
    <3> QED BY <1>2, <2>1, <2>2, <3>1, HeldSplit DEF IsOp
  <2>3. CASE Onward(Tail(q), c)
    <3>1. Held(Tail(q)) = {c}
      BY <2>1, <2>3, OnwardHeld
    <3> QED BY <2>1, <3>1, HeldSplit
  <2> QED BY <1>2, <2>2, <2>3, PlanHead
<1> QED BY <1>1, <1>2

\* The thread that returns a session is left with calls on that session, and
\* deletes nothing.
LEMMA ChainFacts ==
  ASSUME NEW s, NEW q \in Chains(s)
  PROVE  /\ q # <<>> /\ q[1].call \in ReturnCalls /\ q[1].obj = s
         /\ Held(q) = {}
         /\ \A i \in 1 .. Len(q) : q[i].call \in ReturnCalls /\ q[i].obj = s
         /\ Tail(q) # <<>> => Tail(q)[1].call \in ReturnCalls
<1>1. CASE q = <<Op("ReturnLock", s)>>
  BY <1>1 DEF Op, Held, IsOp, ReturnCalls
<1>2. CASE q = <<Op("ReturnAssert", s)>>
  BY <1>2 DEF Op, Held, IsOp, ReturnCalls
<1>3. CASE q = <<Op("SessionReset", s), Op("ResetSendBuffer", s), Op("ReturnToPool", s)>>
  BY <1>3 DEF Op, Held, IsOp, ReturnCalls
<1>4. CASE q = <<Op("ResetSendBuffer", s), Op("ReturnToPool", s)>>
  BY <1>4 DEF Op, Held, IsOp, ReturnCalls
<1>5. CASE q = <<Op("PlayerReset", s), Op("ReturnToPool", s)>>
  BY <1>5 DEF Op, Held, IsOp, ReturnCalls
<1>6. CASE q = <<Op("ReturnToPool", s)>>
  BY <1>6 DEF Op, Held, IsOp, ReturnCalls
<1> QED BY <1>1, <1>2, <1>3, <1>4, <1>5, <1>6 DEF Chains

\* A list that is foreign to the pool deletes nothing.
LEMMA ForeignFacts ==
  ASSUME NEW X, NEW q \in Seq(X), Foreign(q)
  PROVE  /\ Held(q) = {}
         /\ q # <<>> => q[1].call \notin OpCalls \cup ReturnCalls
         /\ Tail(q) # <<>> /\ q # <<>> => Tail(q)[1].call \notin OpCalls \cup ReturnCalls
<1>1. Held(q) = {}
  BY DEF Foreign, Held, IsOp, ResultCalls
<1>2. q # <<>> => 1 \in 1 .. Len(q)
  BY NotEmpty
<1>3. q # <<>> /\ Tail(q) # <<>> => 2 \in 1 .. Len(q) /\ Tail(q)[1] = q[2]
  BY SecondCall
<1> QED BY <1>1, <1>2, <1>3 DEF Foreign, ResultCalls, OpCalls, ReturnCalls

-----------------------------------------------------------------------------
(***************************************************************************)
(* The structure of a state, as a predicate of its parts, and the lemmas on*)
(* the steps that change it.                                               *)
(***************************************************************************)
\* Every thread does one of the three.
Shapes(T) ==
  \A t \in Threads :
    \/ Foreign(T[t])
    \/ \E c \in Contexts : Plan(T[t], c)
    \/ \E s \in Sessions : T[t] \in Chains(s)

\* A context that exists and is not in the kernel is deleted by one thread.
Owned(T, L, K) ==
  /\ \A t \in Threads : Held(T[t]) \subseteq L \ K
  /\ \A t, u \in Threads : t # u => Held(T[t]) \cap Held(T[u]) = {}
  /\ \A c \in L \ K : \E t \in Threads : c \in Held(T[t])

\* Session s has no context and none of the other references.
Unused(J, L, I, s) == s \notin I /\ J[s] = 0 /\ \A c \in L : c.session # s

\* A session is in the free list, or on its way there, only when it is unused,
\* and one thread at most returns it.
Idle(J, T, L, I, F) ==
  /\ \A s \in F : Unused(J, L, I, s)
  /\ \A s \in Sessions, t \in Threads :
       T[t] \in Chains(s) => Unused(J, L, I, s) /\ s \notin F
  /\ \A s \in Sessions, t, u \in Threads :
       T[t] \in Chains(s) /\ T[u] \in Chains(s) => t = u

\* The manager's lock is held by the main thread while it issues sessions, and by
\* a worker from ReturnLock to ReturnToPool.
Locking(T, m, a) ==
  /\ a \in {"Loop", "Failed"} => m = Main
  /\ a # "Failed" => T[Main] = <<>>
  /\ \A t \in Threads, s \in Sessions :
       T[t] \in Chains(s) /\ T[t][1].call # "ReturnLock" => m = t /\ t # Main

\* The four together: J counts the references of each session that are neither
\* contexts nor the issue's, T is todo, L is live, K the kernel, I the issued
\* sessions, F the free list, m the lock and a where the main thread is.
Structure(J, T, L, K, I, F, m, a) ==
  /\ Shapes(T)
  /\ Owned(T, L, K)
  /\ Idle(J, T, L, I, F)
  /\ Locking(T, m, a)

\* The main thread is no worker.
LEMMA MainThread == Main \in Threads /\ Main \notin Workers
BY SessionPoolAssumption DEF Threads

\* A plan, a chain and a foreign list are three different things.
LEMMA Kinds ==
  ASSUME NEW X, NEW q \in Seq(X)
  PROVE  /\ \A c \in Contexts : Plan(q, c) => ~ Foreign(q) /\ \A s \in Sessions : q \notin Chains(s)
         /\ \A s \in Sessions : q \in Chains(s) => ~ Foreign(q)
<1>1. FrontCalls \cup LateCalls \cup {"Create", "Load", "Delete"}
        \subseteq (OpCalls \ ReturnCalls) \cup {"Create", "Load", "Delete"}
  BY DEF FrontCalls, LateCalls, OpCalls, ReturnCalls
<1>2. ASSUME NEW c \in Contexts, Plan(q, c)
      PROVE  ~ Foreign(q) /\ \A s \in Sessions : q \notin Chains(s)
  <2>1. c \in Held(q) /\ q[1].call \in FrontCalls \cup LateCalls
    BY <1>2, PlanHeld, PlanHead
  <2>2. ~ Foreign(q)
    BY <2>1, ForeignFacts
  <2>3. ASSUME NEW s \in Sessions, q \in Chains(s)
        PROVE  FALSE
    BY <2>1, <2>3, ChainFacts
  <2> QED BY <2>2, <2>3
<1>3. ASSUME NEW s \in Sessions, q \in Chains(s)
      PROVE  ~ Foreign(q)
  BY <1>3, ChainFacts, ForeignFacts
<1> QED BY <1>2, <1>3

\* A thread that serves c goes on serving it, with the new contexts D, those in
\* P posted and those in H still to be deleted by it.
LEMMA Serving ==
  ASSUME NEW X, NEW J, NEW T \in [Threads -> Seq(X)], NEW L \in SUBSET Contexts,
         NEW K \in SUBSET L, NEW I, NEW F, NEW m, NEW a,
         Structure(J, T, L, K, I, F, m, a),
         NEW t \in Threads, NEW c \in Contexts, Plan(T[t], c),
         NEW q \in Seq(X), Plan(q, c),
         NEW P \in SUBSET Contexts, NEW H \in SUBSET Contexts,
         P \cap H = {}, (P \cup H) \cap L = {}, \A d \in P \cup H : d.session = c.session,
         Held(q) = Held(T[t]) \cup H
  PROVE  Structure(J, [T EXCEPT ![t] = q], L \cup P \cup H, K \cup P, I, F, m, a)
<1> DEFINE U == [T EXCEPT ![t] = q]
<1>1. U[t] = q /\ \A u \in Threads \ {t} : U[u] = T[u]
  OBVIOUS
<1>2. c \in Held(T[t]) /\ c \in L
  BY PlanHeld DEF Structure, Owned
<1>3. \A s \in Sessions : q \notin Chains(s) /\ T[t] \notin Chains(s)
  BY Kinds
<1>4. T[t] # <<>>
  BY DEF Plan
<1> HIDE DEF U
<1>5. Shapes(U)
  BY <1>1 DEF Structure, Shapes
<1>6. Owned(U, L \cup P \cup H, K \cup P)
  <2>1. \A u \in Threads \ {t} : Held(U[u]) = Held(T[u])
    BY <1>1
  <2>2. Held(U[t]) = Held(T[t]) \cup H
    BY <1>1
  <2>3. \A u \in Threads : Held(T[u]) \subseteq L \ K
    BY DEF Structure, Owned
  <2>4. \A u \in Threads : Held(U[u]) \subseteq (L \cup P \cup H) \ (K \cup P)
    BY <2>1, <2>2, <2>3
  <2>5. \A u, v \in Threads : u # v => Held(U[u]) \cap Held(U[v]) = {}
    BY <2>1, <2>2, <2>3 DEF Structure, Owned
  <2>6. \A d \in (L \cup P \cup H) \ (K \cup P) : \E u \in Threads : d \in Held(U[u])
    BY <2>1, <2>2 DEF Structure, Owned
  <2> QED BY <2>4, <2>5, <2>6 DEF Owned
<1>7. Idle(J, U, L \cup P \cup H, I, F)
  <2>1. \A s : Unused(J, L, I, s) => Unused(J, L \cup P \cup H, I, s)
    BY <1>2 DEF Unused
  <2>2. \A s \in Sessions, u \in Threads : U[u] \in Chains(s) => u # t /\ T[u] \in Chains(s)
    BY <1>1, <1>3
  <2> QED BY <2>1, <2>2 DEF Structure, Idle
<1>8. Locking(U, m, a)
  <2>1. a # "Failed" => Main # t /\ U[Main] = <<>>
    BY <1>1, <1>4, MainThread DEF Structure, Locking
  <2>2. \A s \in Sessions, u \in Threads : U[u] \in Chains(s) => U[u] = T[u]
    BY <1>1, <1>3
  <2> QED BY <2>1, <2>2 DEF Structure, Locking
<1> QED BY <1>5, <1>6, <1>7, <1>8 DEF Structure, U

\* A thread that serves c deletes another context of the session first.
LEMMA Deleting ==
  ASSUME NEW X, NEW J, NEW T \in [Threads -> Seq(X)], NEW L \in SUBSET Contexts,
         NEW K \in SUBSET L, NEW I, NEW F, NEW m, NEW a,
         Structure(J, T, L, K, I, F, m, a),
         NEW t \in Threads, NEW c \in Contexts, Plan(T[t], c),
         NEW q \in Seq(X), Plan(q, c),
         NEW d \in Held(T[t]), Held(q) = Held(T[t]) \ {d}
  PROVE  Structure(J, [T EXCEPT ![t] = q], L \ {d}, K, I, F, m, a)
<1> DEFINE U == [T EXCEPT ![t] = q]
<1>1. U[t] = q /\ \A u \in Threads \ {t} : U[u] = T[u]
  OBVIOUS
<1>3. \A s \in Sessions : q \notin Chains(s) /\ T[t] \notin Chains(s)
  BY Kinds
<1>4. T[t] # <<>>
  BY DEF Plan
<1> HIDE DEF U
<1>5. Shapes(U)
  BY <1>1 DEF Structure, Shapes
<1>6. Owned(U, L \ {d}, K)
  <2>1. \A u \in Threads \ {t} : Held(U[u]) = Held(T[u])
    BY <1>1
  <2>2. Held(U[t]) = Held(T[t]) \ {d}
    BY <1>1
  <2>3. \A u \in Threads : Held(T[u]) \subseteq L \ K
    BY DEF Structure, Owned
  <2>4. \A u, v \in Threads : u # v => Held(T[u]) \cap Held(T[v]) = {}
    BY DEF Structure, Owned
  <2>5. \A e \in L \ K : \E u \in Threads : e \in Held(T[u])
    BY DEF Structure, Owned
  <2>6. \A u \in Threads : Held(U[u]) \subseteq (L \ {d}) \ K
    BY <2>1, <2>2, <2>3, <2>4
  <2>7. \A u, v \in Threads : u # v => Held(U[u]) \cap Held(U[v]) = {}
    BY <2>1, <2>2, <2>4
  <2>8. \A e \in (L \ {d}) \ K : \E u \in Threads : e \in Held(U[u])
    BY <2>1, <2>2, <2>5
  <2> QED BY <2>6, <2>7, <2>8 DEF Owned
<1>7. Idle(J, U, L \ {d}, I, F)
  <2>1. \A s : Unused(J, L, I, s) => Unused(J, L \ {d}, I, s)
    BY DEF Unused
  <2>2. \A s \in Sessions, u \in Threads : U[u] \in Chains(s) => u # t /\ T[u] \in Chains(s)
    BY <1>1, <1>3
  <2> QED BY <2>1, <2>2 DEF Structure, Idle
<1>8. Locking(U, m, a)
  <2>1. a # "Failed" => Main # t /\ U[Main] = <<>>
    BY <1>1, <1>4, MainThread DEF Structure, Locking
  <2>2. \A s \in Sessions, u \in Threads : U[u] \in Chains(s) => U[u] = T[u]
    BY <1>1, <1>3
  <2> QED BY <2>1, <2>2 DEF Structure, Locking
<1> QED BY <1>5, <1>6, <1>7, <1>8 DEF Structure, U

\* The last call of a plan deletes its context; the thread is free, or it was
\* the last reference of the session and the thread goes to return it.
LEMMA Finishing ==
  ASSUME NEW X, NEW J, NEW T \in [Threads -> Seq(X)], NEW L \in SUBSET Contexts,
         NEW K \in SUBSET L, NEW I, NEW F \in SUBSET Sessions, NEW m, NEW a,
         Structure(J, T, L, K, I, F, m, a),
         NEW t \in Threads, NEW c \in Contexts, Plan(T[t], c), Held(T[t]) = {c},
         NEW q \in Seq(X),
         \/ q = <<>>
         \/ q = <<Op("ReturnLock", c.session)>> /\ Unused(J, L \ {c}, I, c.session)
  PROVE  Structure(J, [T EXCEPT ![t] = q], L \ {c}, K, I, F, m, a)
<1> DEFINE U == [T EXCEPT ![t] = q]
<1>1. U[t] = q /\ \A u \in Threads \ {t} : U[u] = T[u]
  OBVIOUS
<1>2. c \in L /\ c.session \in Sessions
  BY DEF Structure, Owned, Contexts
<1>3. T[t] # <<>> /\ \A s \in Sessions : T[t] \notin Chains(s)
  BY Kinds DEF Plan
<1>4. Held(q) = {} /\ (Foreign(q) \/ q \in Chains(c.session))
  <2>1. CASE q = <<>>
    BY <2>1, EmptyFacts
  <2>2. CASE q = <<Op("ReturnLock", c.session)>>
    <3>1. q \in Chains(c.session)
      BY <2>2 DEF Chains
    <3> QED BY <3>1, ChainFacts
  <2> QED BY <2>1, <2>2
<1>5. \A s \in Sessions : q \in Chains(s) =>
        s = c.session /\ Unused(J, L \ {c}, I, s) /\ q[1].call = "ReturnLock"
  <2> SUFFICES ASSUME NEW s \in Sessions, q \in Chains(s)
               PROVE  s = c.session /\ Unused(J, L \ {c}, I, s) /\ q[1].call = "ReturnLock"
    OBVIOUS
  <2>1. q # <<>> /\ q[1].obj = s
    BY ChainFacts
  <2> QED BY <2>1 DEF Op
<1> HIDE DEF U
<1>6. Shapes(U)
  BY <1>1, <1>2, <1>4 DEF Structure, Shapes
<1>7. Owned(U, L \ {c}, K)
  <2>1. \A u \in Threads \ {t} : Held(U[u]) = Held(T[u])
    BY <1>1
  <2>2. Held(U[t]) = {} /\ Held(T[t]) = {c}
    BY <1>1, <1>4
  <2>3. \A u \in Threads : Held(T[u]) \subseteq L \ K
    BY DEF Structure, Owned
  <2>4. \A u, v \in Threads : u # v => Held(T[u]) \cap Held(T[v]) = {}
    BY DEF Structure, Owned
  <2>5. \A e \in L \ K : \E u \in Threads : e \in Held(T[u])
    BY DEF Structure, Owned
  <2>6. \A u \in Threads : Held(U[u]) \subseteq (L \ {c}) \ K
    BY <2>1, <2>2, <2>3, <2>4
  <2>7. \A u, v \in Threads : u # v => Held(U[u]) \cap Held(U[v]) = {}
    BY <2>1, <2>2, <2>4
  <2>8. \A e \in (L \ {c}) \ K : \E u \in Threads : e \in Held(U[u])
    BY <2>1, <2>2, <2>5
  <2> QED BY <2>6, <2>7, <2>8 DEF Owned
<1>8. Idle(J, U, L \ {c}, I, F)
  <2>1. \A s : Unused(J, L, I, s) => Unused(J, L \ {c}, I, s) /\ s # c.session
    BY <1>2 DEF Unused
  <2>2. \A s \in F : Unused(J, L \ {c}, I, s) /\ s # c.session
    BY <2>1 DEF Structure, Idle
  <2>3. \A s \in Sessions, u \in Threads \ {t} :
          U[u] \in Chains(s) => Unused(J, L \ {c}, I, s) /\ s \notin F /\ s # c.session
    BY <1>1, <2>1 DEF Structure, Idle
  <2>4. \A s \in Sessions :
          U[t] \in Chains(s) => Unused(J, L \ {c}, I, s) /\ s \notin F /\ s = c.session
    BY <1>1, <1>5, <2>2
  <2>5. \A s \in Sessions, u, v \in Threads \ {t} :
          U[u] \in Chains(s) /\ U[v] \in Chains(s) => u = v
    BY <1>1 DEF Structure, Idle
  <2> QED BY <2>2, <2>3, <2>4, <2>5 DEF Idle
<1>9. Locking(U, m, a)
  <2>1. a # "Failed" => Main # t /\ U[Main] = <<>>
    BY <1>1, <1>3, MainThread DEF Structure, Locking
  <2>2. \A s \in Sessions, u \in Threads :
          U[u] \in Chains(s) /\ U[u][1].call # "ReturnLock" => U[u] = T[u]
    BY <1>1, <1>5
  <2> QED BY <2>1, <2>2 DEF Structure, Locking
<1> QED BY <1>6, <1>7, <1>8, <1>9 DEF Structure, U

\* An idle thread takes a context out of the kernel, or makes one itself.
LEMMA Starting ==
  ASSUME NEW X, NEW J, NEW T \in [Threads -> Seq(X)], NEW L \in SUBSET Contexts,
         NEW K \in SUBSET L, NEW I, NEW F, NEW m, NEW a,
         Structure(J, T, L, K, I, F, m, a),
         NEW t \in Workers, NEW c \in K, T[t] = <<>>,
         NEW q \in Seq(X), Plan(q, c), Held(q) = {c}
  PROVE  Structure(J, [T EXCEPT ![t] = q], L, K \ {c}, I, F, m, a)
<1> DEFINE U == [T EXCEPT ![t] = q]
<1>0. t \in Threads /\ t # Main /\ c \in Contexts
  BY MainThread DEF Threads
<1>1. U[t] = q /\ \A u \in Threads \ {t} : U[u] = T[u]
  BY <1>0
<1>3. \A s \in Sessions : q \notin Chains(s)
  BY <1>0, Kinds
<1>4. Held(T[t]) = {}
  BY EmptyFacts
<1> HIDE DEF U
<1>5. Shapes(U)
  BY <1>0, <1>1 DEF Structure, Shapes
<1>6. Owned(U, L, K \ {c})
  <2>1. \A u \in Threads \ {t} : Held(U[u]) = Held(T[u])
    BY <1>1
  <2>2. Held(U[t]) = {c} /\ Held(T[t]) = {}
    BY <1>1, <1>4
  <2>3. \A u \in Threads : Held(T[u]) \subseteq L \ K
    BY DEF Structure, Owned
  <2>4. \A u, v \in Threads : u # v => Held(T[u]) \cap Held(T[v]) = {}
    BY DEF Structure, Owned
  <2>5. \A e \in L \ K : \E u \in Threads : e \in Held(T[u])
    BY DEF Structure, Owned
  <2>6. \A u \in Threads : Held(U[u]) \subseteq L \ (K \ {c})
    BY <2>1, <2>2, <2>3
  <2>7. ASSUME NEW u \in Threads, NEW v \in Threads, u # v
        PROVE  Held(U[u]) \cap Held(U[v]) = {}
    <3>1. CASE u = t
      <4>1. Held(U[v]) \subseteq L \ K
        BY <2>1, <2>3, <2>7, <3>1
      <4> QED BY <2>2, <3>1, <4>1
    <3>2. CASE v = t
      <4>1. Held(U[u]) \subseteq L \ K
        BY <2>1, <2>3, <2>7, <3>2
      <4> QED BY <2>2, <3>2, <4>1
    <3>3. CASE u # t /\ v # t
      BY <2>1, <2>4, <2>7, <3>3
    <3> QED BY <3>1, <3>2, <3>3
  <2>8. \A e \in L \ (K \ {c}) : \E u \in Threads : e \in Held(U[u])
    BY <1>0, <2>1, <2>2, <2>5
  <2> QED BY <2>6, <2>7, <2>8 DEF Owned
<1>7. Idle(J, U, L, I, F)
  <2>2. \A s \in Sessions, u \in Threads : U[u] \in Chains(s) => u # t /\ T[u] \in Chains(s)
    BY <1>1, <1>3
  <2> QED BY <2>2 DEF Structure, Idle
<1>8. Locking(U, m, a)
  <2>1. a # "Failed" => U[Main] = <<>>
    BY <1>0, <1>1, MainThread DEF Structure, Locking
  <2>2. \A s \in Sessions, u \in Threads : U[u] \in Chains(s) => U[u] = T[u]
    BY <1>1, <1>3
  <2> QED BY <2>1, <2>2 DEF Structure, Locking
<1> QED BY <1>5, <1>6, <1>7, <1>8 DEF Structure, U

\* The thread that returns a session goes on returning it.
LEMMA Chaining ==
  ASSUME NEW X, NEW J, NEW T \in [Threads -> Seq(X)], NEW L, NEW K, NEW I, NEW F,
         NEW m, NEW a, Structure(J, T, L, K, I, F, m, a),
         NEW t \in Threads, NEW s \in Sessions, T[t] \in Chains(s),
         NEW q \in Seq(X), q \in Chains(s),
         NEW n, \/ n = m /\ T[t][1].call # "ReturnLock"
                \/ n = t /\ m = NoThread
  PROVE  Structure(J, [T EXCEPT ![t] = q], L, K, I, F, n, a)
<1> DEFINE U == [T EXCEPT ![t] = q]
<1>1. U[t] = q /\ \A u \in Threads \ {t} : U[u] = T[u]
  OBVIOUS
<1>2. Held(q) = {} /\ Held(T[t]) = {} /\ T[t] # <<>>
  BY ChainFacts
<1>3. \A r \in Sessions : q \in Chains(r) \/ T[t] \in Chains(r) => r = s
  BY ChainFacts
<1>4. Main \in Threads /\ NoThread \notin Threads /\ NoThread # Main
  BY SessionPoolAssumption DEF Threads
<1> HIDE DEF U
<1>5. Shapes(U)
  BY <1>1 DEF Structure, Shapes
<1>6. Owned(U, L, K)
  <2>1. \A u \in Threads : Held(U[u]) = Held(T[u])
    BY <1>1, <1>2
  <2> QED BY <2>1 DEF Structure, Owned
<1>7. Idle(J, U, L, I, F)
  <2>1. \A u \in Threads, r \in Sessions : U[u] \in Chains(r) => T[u] \in Chains(r)
    BY <1>1, <1>3
  <2> QED BY <2>1 DEF Structure, Idle
<1>8. Locking(U, n, a)
  <2>1. CASE n = m /\ T[t][1].call # "ReturnLock"
    <3>1. m = t /\ t # Main
      BY <2>1 DEF Structure, Locking
    <3>2. U[Main] = T[Main]
      BY <1>1, <1>4, <3>1
    <3>3. \A u \in Threads, r \in Sessions :
            U[u] \in Chains(r) /\ U[u][1].call # "ReturnLock" => m = u /\ u # Main
      BY <1>1, <3>1 DEF Structure, Locking
    <3> QED BY <2>1, <3>2, <3>3 DEF Structure, Locking
  <2>2. CASE n = t /\ m = NoThread
    <3>1. a \notin {"Loop", "Failed"} /\ T[Main] = <<>> /\ t # Main
      BY <2>2, <1>2, <1>4 DEF Structure, Locking
    <3>2. U[Main] = <<>>
      BY <1>1, <1>4, <3>1
    <3>3. \A u \in Threads, r \in Sessions :
            U[u] \in Chains(r) /\ U[u][1].call # "ReturnLock" => u = t
      BY <1>1, <1>4, <2>2 DEF Structure, Locking
    <3> QED BY <2>2, <3>1, <3>2, <3>3 DEF Locking
  <2> QED BY <2>1, <2>2
<1> QED BY <1>5, <1>6, <1>7, <1>8 DEF Structure, U

\* The last call of a return: the session is in the free list.
LEMMA Returned ==
  ASSUME NEW X, NEW J, NEW T \in [Threads -> Seq(X)], NEW L, NEW K, NEW I,
         NEW F \in SUBSET Sessions, NEW m, NEW a, Structure(J, T, L, K, I, F, m, a),
         NEW t \in Threads, NEW s \in Sessions, T[t] = <<Op("ReturnToPool", s)>>
  PROVE  /\ Structure(J, [T EXCEPT ![t] = <<>>], L, K, I, F \cup {s}, NoThread, a)
         /\ s \notin F
<1> DEFINE U == [T EXCEPT ![t] = <<>>]
<1>1. U[t] = <<>> /\ \A u \in Threads \ {t} : U[u] = T[u]
  OBVIOUS
<1>2. T[t] \in Chains(s) /\ T[t][1].call = "ReturnToPool"
  BY DEF Chains, Op
<1>3. /\ Held(T[t]) = {} /\ Held(<<>>) = {} /\ Foreign(<<>>)
      /\ \A r \in Sessions : <<>> \notin Chains(r)
  BY <1>2, ChainFacts, EmptyFacts
<1>4. Main \in Threads /\ NoThread \notin Threads /\ NoThread # Main
  BY SessionPoolAssumption DEF Threads
<1>5. m = t /\ t # Main /\ s \notin F /\ Unused(J, L, I, s)
  BY <1>2 DEF Structure, Locking, Idle
<1>6. \A u \in Threads, r \in Sessions : U[u] \in Chains(r) => u # t /\ T[u] \in Chains(r) /\ r # s
  BY <1>1, <1>2, <1>3 DEF Structure, Idle
<1> HIDE DEF U
<1>7. Shapes(U)
  BY <1>1, <1>3 DEF Structure, Shapes
<1>8. Owned(U, L, K)
  <2>1. \A u \in Threads : Held(U[u]) = Held(T[u])
    BY <1>1, <1>3
  <2> QED BY <2>1 DEF Structure, Owned
<1>9. Idle(J, U, L, I, F \cup {s})
  BY <1>5, <1>6 DEF Structure, Idle
<1>10. Locking(U, NoThread, a)
  <2>1. a \notin {"Loop", "Failed"}
    BY <1>5 DEF Structure, Locking
  <2>2. U[Main] = <<>>
    BY <1>1, <1>4, <1>5, <2>1 DEF Structure, Locking
  <2>3. \A u \in Threads, r \in Sessions : U[u] \in Chains(r) => U[u][1].call = "ReturnLock"
    <3> SUFFICES ASSUME NEW u \in Threads, NEW r \in Sessions, U[u] \in Chains(r),
                        U[u][1].call # "ReturnLock"
                 PROVE  FALSE
      OBVIOUS
    <3>1. u # t /\ T[u] \in Chains(r) /\ T[u][1].call # "ReturnLock"
      BY <1>1, <1>6
    <3> QED BY <3>1, <1>5 DEF Structure, Locking
  <2> QED BY <2>1, <2>2, <2>3 DEF Locking
<1> QED BY <1>5, <1>7, <1>8, <1>9, <1>10 DEF Structure, U

\* The main thread enters the lock, and leaves it.
LEMMA Locked ==
  ASSUME NEW J, NEW T, NEW L, NEW K, NEW I, NEW F, NEW a,
         Structure(J, T, L, K, I, F, NoThread, a), a = "Sleep"
  PROVE  Structure(J, T, L, K, I, F, Main, "Loop")
<1>1. NoThread \notin Threads
  BY SessionPoolAssumption DEF Threads
<1>2. Locking(T, Main, "Loop")
  BY <1>1 DEF Structure, Locking
<1> QED BY <1>2 DEF Structure

LEMMA Unlocked ==
  ASSUME NEW J, NEW T, NEW L, NEW K, NEW I, NEW F, NEW m, NEW a, NEW b,
         Structure(J, T, L, K, I, F, m, a),
         \/ a = "Loop" /\ b = "Sleep"
         \/ a = "Failed" /\ T[Main] = <<>> /\ b = "Stopped"
  PROVE  Structure(J, T, L, K, I, F, NoThread, b)
<1>1. Locking(T, NoThread, b)
  BY DEF Structure, Locking
<1> QED BY <1>1 DEF Structure

\* A session of the free list is issued, with a context that is posted or that
\* the main thread deletes.
LEMMA Issuing ==
  ASSUME NEW X, NEW J, NEW T \in [Threads -> Seq(X)], NEW L \in SUBSET Contexts,
         NEW K \in SUBSET L, NEW I, NEW F \in SUBSET Sessions, NEW m,
         Structure(J, T, L, K, I, F, m, "Loop"),
         NEW s \in F, NEW c \in Contexts \ L, c.session = s,
         <<Op("DeleteIoContext", c)>> \in Seq(X)
  PROVE  /\ Structure(J, T, L \cup {c}, K \cup {c}, I \cup {s}, F \ {s}, m, "Loop")
         /\ Structure(J, [T EXCEPT ![Main] = <<Op("DeleteIoContext", c)>>],
                      L \cup {c}, K, I \cup {s}, F \ {s}, m, "Failed")
<1> DEFINE q == <<Op("DeleteIoContext", c)>>
           U == [T EXCEPT ![Main] = q]
<1>1. Main \in Threads /\ T[Main] = <<>> /\ m = Main
  BY MainThread DEF Structure, Locking
<1>2. U[Main] = q /\ \A u \in Threads \ {Main} : U[u] = T[u]
  BY <1>1
<1>3. Rest(q, c) /\ Plan(q, c) /\ Held(q) = {c} /\ \A r \in Sessions : q \notin Chains(r)
  BY RestSingle, PlanRest, RestHeld, Kinds
<1>4. Held(T[Main]) = {}
  BY <1>1, EmptyFacts
<1>5. s \in Sessions /\ Unused(J, L, I, s) /\ \A u \in Threads : T[u] \notin Chains(s)
  BY DEF Structure, Idle
<1> HIDE DEF U, q
<1>6. Shapes(T) /\ Shapes(U)
  BY <1>1, <1>2, <1>3 DEF Structure, Shapes
<1>7. Owned(T, L \cup {c}, K \cup {c})
  BY DEF Structure, Owned
<1>8. Owned(U, L \cup {c}, K)
  <2>1. \A u \in Threads \ {Main} : Held(U[u]) = Held(T[u])
    BY <1>2
  <2>2. Held(U[Main]) = {c} /\ Held(T[Main]) = {}
    BY <1>2, <1>3, <1>4
  <2>3. \A u \in Threads : Held(T[u]) \subseteq L \ K
    BY DEF Structure, Owned
  <2>4. \A u, v \in Threads : u # v => Held(T[u]) \cap Held(T[v]) = {}
    BY DEF Structure, Owned
  <2>5. \A e \in L \ K : \E u \in Threads : e \in Held(T[u])
    BY DEF Structure, Owned
  <2>6. \A u \in Threads : Held(U[u]) \subseteq (L \cup {c}) \ K
    BY <2>1, <2>2, <2>3
  <2>7. \A u, v \in Threads : u # v => Held(U[u]) \cap Held(U[v]) = {}
    <3>1. \A u \in Threads : c \notin Held(T[u])
      BY <2>3
    <3>2. \A u \in Threads \ {Main} :
            Held(U[u]) \cap Held(U[Main]) = {} /\ Held(U[Main]) \cap Held(U[u]) = {}
      BY <2>1, <2>2, <3>1
    <3>3. \A u, v \in Threads \ {Main} : u # v => Held(U[u]) \cap Held(U[v]) = {}
      BY <2>1, <2>4
    <3> SUFFICES ASSUME NEW u \in Threads, NEW v \in Threads, u # v
                 PROVE  Held(U[u]) \cap Held(U[v]) = {}
      OBVIOUS
    <3>4. CASE u = Main
      BY <3>2, <3>4
    <3>5. CASE v = Main
      BY <3>2, <3>5
    <3>6. CASE u # Main /\ v # Main
      BY <3>3, <3>6
    <3> QED BY <3>4, <3>5, <3>6
  <2>8. \A e \in (L \cup {c}) \ K : \E u \in Threads : e \in Held(U[u])
    BY <1>1, <2>1, <2>2, <2>5
  <2> QED BY <2>6, <2>7, <2>8 DEF Owned
<1>9. \A r : r # s /\ Unused(J, L, I, r) => Unused(J, L \cup {c}, I \cup {s}, r)
  BY DEF Unused
<1>10. Idle(J, T, L \cup {c}, I \cup {s}, F \ {s})
  BY <1>5, <1>9 DEF Structure, Idle
<1>11. Idle(J, U, L \cup {c}, I \cup {s}, F \ {s})
  <2>1. \A r \in Sessions, u \in Threads : U[u] \in Chains(r) => T[u] \in Chains(r)
    BY <1>2, <1>3
  <2> QED BY <1>10, <2>1 DEF Idle
<1>12. Locking(T, m, "Loop")
  BY DEF Structure
<1>13. Locking(U, m, "Failed")
  <2>1. \A r \in Sessions, u \in Threads : U[u] \in Chains(r) => U[u] = T[u]
    BY <1>2, <1>3
  <2> QED BY <1>1, <1>12, <2>1 DEF Locking
<1> QED BY <1>6, <1>7, <1>8, <1>10, <1>11, <1>12, <1>13 DEF Structure, U, q

-----------------------------------------------------------------------------
(***************************************************************************)
(* The two tokens of a session.                                            *)
(***************************************************************************)
\* Two tokens of a session.  The connection token is held by the accept context
\* and its completion, and by the disconnect: while it exists mConnected is 0.
\* The receive token is held by the accept context and by the receives, from the
\* posting of one to the posting of the next: it is the right to mRecvBuffer.
ConnCalls == {"AcceptCompletion", "DisconnectEx", "DisconnectCompletion"}
ConnIO == {"IO_ACCEPT", "IO_DISCONNECT"}

RecvCalls ==
  {"AcceptCompletion", "PreRecv", "WSARecvZero", "PostRecv", "WSARecv", "PacketHandling"}
RecvIO == {"IO_ACCEPT", "IO_RECV_ZERO", "IO_RECV"}

OfIO(c, ios, s) == c.session = s /\ c.io \in ios

\* The token exists, in the kernel or with a thread; it exists once at most.
Token(T, K, s, ios, calls) ==
  \/ \E c \in K : OfIO(c, ios, s)
  \/ \E t \in Threads : Starts(T[t], calls, s)

Alone(T, K, s, ios, calls) ==
  /\ \A c, d \in K : OfIO(c, ios, s) /\ OfIO(d, ios, s) => c = d
  /\ \A t, u \in Threads : Starts(T[t], calls, s) /\ Starts(T[u], calls, s) => t = u
  /\ \A c \in K, t \in Threads : ~ (OfIO(c, ios, s) /\ Starts(T[t], calls, s))

\* A thread keeps the token, gives it up, or hands it to a new context.
LEMMA AloneKept ==
  ASSUME NEW T, NEW K, NEW s, NEW ios, NEW calls, Alone(T, K, s, ios, calls),
         DOMAIN T = Threads, NEW t \in Threads, NEW q, NEW M,
         Starts(q, calls, s) => Starts(T[t], calls, s),
         \A d \in M \ K : OfIO(d, ios, s) =>
           Starts(T[t], calls, s) /\ ~ Starts(q, calls, s) /\ \A e \in M \ K : e = d
  PROVE  /\ Alone([T EXCEPT ![t] = q], M, s, ios, calls)
         /\ Token([T EXCEPT ![t] = q], M, s, ios, calls) => Token(T, K, s, ios, calls)
<1> DEFINE U == [T EXCEPT ![t] = q]
<1>1. U[t] = q /\ \A u \in Threads \ {t} : U[u] = T[u]
  OBVIOUS
<1> HIDE DEF U
<1>2. \A u \in Threads : Starts(U[u], calls, s) => Starts(T[u], calls, s)
  BY <1>1
<1>3. \A c, d \in M : OfIO(c, ios, s) /\ OfIO(d, ios, s) => c = d
  BY DEF Alone
<1>4. \A v, u \in Threads : Starts(U[v], calls, s) /\ Starts(U[u], calls, s) => v = u
  BY <1>2 DEF Alone
<1>5. \A c \in M, u \in Threads : ~ (OfIO(c, ios, s) /\ Starts(U[u], calls, s))
  BY <1>1, <1>2 DEF Alone
<1>6. Token(U, M, s, ios, calls) => Token(T, K, s, ios, calls)
  BY <1>2 DEF Token
<1> QED BY <1>3, <1>4, <1>5, <1>6 DEF Alone, U

\* A thread takes a completion out of the kernel, with the token or without.
LEMMA AloneTaken ==
  ASSUME NEW T, NEW K, NEW s, NEW ios, NEW calls, Alone(T, K, s, ios, calls),
         DOMAIN T = Threads, NEW t \in Threads, NEW q, NEW c \in K,
         Starts(q, calls, s) => OfIO(c, ios, s)
  PROVE  /\ Alone([T EXCEPT ![t] = q], K \ {c}, s, ios, calls)
         /\ Token([T EXCEPT ![t] = q], K \ {c}, s, ios, calls) => Token(T, K, s, ios, calls)
<1> DEFINE U == [T EXCEPT ![t] = q]
<1>1. U[t] = q /\ \A u \in Threads \ {t} : U[u] = T[u]
  OBVIOUS
<1> HIDE DEF U
<1> QED BY <1>1 DEF Alone, Token, U

\* Who gives up the token leaves none.
LEMMA AloneDropped ==
  ASSUME NEW T, NEW K, NEW s, NEW ios, NEW calls, Alone(T, K, s, ios, calls),
         DOMAIN T = Threads, NEW t \in Threads, NEW q,
         Starts(T[t], calls, s), ~ Starts(q, calls, s)
  PROVE  ~ Token([T EXCEPT ![t] = q], K, s, ios, calls)
<1> DEFINE U == [T EXCEPT ![t] = q]
<1>1. U[t] = q /\ \A u \in Threads \ {t} : U[u] = T[u]
  OBVIOUS
<1> HIDE DEF U
<1> QED BY <1>1 DEF Alone, Token, U

\* A token is made where there was none.
LEMMA AloneMade ==
  ASSUME NEW T, NEW K, NEW s, NEW ios, NEW calls, ~ Token(T, K, s, ios, calls),
         DOMAIN T = Threads, NEW t \in Threads, NEW q, NEW M,
         \A c, d \in M \ K : c = d,
         M \subseteq K \/ ~ Starts(q, calls, s)
  PROVE  Alone([T EXCEPT ![t] = q], M, s, ios, calls)
<1> DEFINE U == [T EXCEPT ![t] = q]
<1>1. U[t] = q /\ \A u \in Threads \ {t} : U[u] = T[u]
  OBVIOUS
<1> HIDE DEF U
<1> QED BY <1>1 DEF Alone, Token, U

\* Who serves a completion has tokens of its session only; the others have none.
LEMMA StartsServed ==
  ASSUME NEW X, NEW q \in Seq(X), NEW c \in Contexts, Plan(q, c),
         NEW calls \in SUBSET (OpCalls \ (ReturnCalls \cup {"DeleteIoContext"})),
         NEW s, Starts(q, calls, s)
  PROVE  s = c.session
<1>1. CASE q[1].call \in calls /\ q[1].obj = s
  <2>1. q[1].call # "DeleteIoContext"
    BY <1>1
  <2> QED BY <1>1, <2>1, PlanHead
<1>2. CASE Tail(q) # <<>> /\ IsOp(Tail(q)[1], "PreRecv", s)
  <2>1. Tail(q) \in Seq(X) /\ Onward(Tail(q), c)
    BY <1>2, PlanHead
  <2> DEFINE r == Tail(q)
  <2>2. r \in Seq(X) /\ Onward(r, c) /\ r[1].call = "PreRecv" /\ r[1].obj = s
    BY <1>2, <2>1 DEF IsOp
  <2> HIDE DEF r
  <2>3. r[1].call = "PreRecv" => r[1].obj = c.session
    BY <2>2, OnwardHeld
  <2> QED BY <2>2, <2>3
<1> QED BY <1>1, <1>2 DEF Starts

LEMMA StartsNone ==
  ASSUME NEW X, NEW q \in Seq(X), Foreign(q) \/ \E r \in Sessions : q \in Chains(r),
         NEW calls \in SUBSET (OpCalls \ (ReturnCalls \cup {"DeleteIoContext"})), NEW s
  PROVE  ~ Starts(q, calls, s)
<1> SUFFICES ASSUME Starts(q, calls, s)
             PROVE  FALSE
  OBVIOUS
<1>1. "PreRecv" \in OpCalls \ ReturnCalls
  BY DEF OpCalls, ReturnCalls
<1>2. /\ q # <<>>
      /\ \/ q[1].call \in OpCalls \ ReturnCalls
         \/ Tail(q) # <<>> /\ Tail(q)[1].call \in OpCalls \ ReturnCalls
  BY <1>1 DEF Starts, IsOp
<1>3. CASE Foreign(q)
  BY <1>2, <1>3, ForeignFacts
<1>4. ASSUME NEW r \in Sessions, q \in Chains(r)
      PROVE  FALSE
  BY <1>2, <1>4, ChainFacts
<1> QED BY <1>3, <1>4

\* A session that is not used has no token.
LEMMA NoToken ==
  ASSUME NEW X, NEW J, NEW T \in [Threads -> Seq(X)], NEW L \in SUBSET Contexts,
         NEW K \in SUBSET L, NEW I, NEW F, NEW m, NEW a, Structure(J, T, L, K, I, F, m, a),
         NEW s, \A c \in L : c.session # s, NEW ios,
         NEW calls \in SUBSET (OpCalls \ (ReturnCalls \cup {"DeleteIoContext"}))
  PROVE  ~ Token(T, K, s, ios, calls)
<1>1. \A c \in K : c.session # s
  OBVIOUS
<1>2. ASSUME NEW t \in Threads, Starts(T[t], calls, s)
      PROVE  FALSE
  <2>1. T[t] \in Seq(X)
    OBVIOUS
  <2>2. CASE Foreign(T[t])
    BY <1>2, <2>1, <2>2, StartsNone
  <2>3. ASSUME NEW c \in Contexts, Plan(T[t], c)
        PROVE  FALSE
    <3>1. c \in L
      BY <2>3, PlanHeld DEF Structure, Owned
    <3>2. s = c.session
      BY <1>2, <2>1, <2>3, StartsServed
    <3> QED BY <3>1, <3>2
  <2>4. ASSUME NEW r \in Sessions, T[t] \in Chains(r)
        PROVE  FALSE
    BY <1>2, <2>1, <2>4, StartsNone
  <2> QED BY <2>2, <2>3, <2>4 DEF Structure, Shapes
<1> QED BY <1>1, <1>2 DEF Token, OfIO

-----------------------------------------------------------------------------
(***************************************************************************)
(* The invariant, and the steps of the threads.                            *)
(***************************************************************************)
LiveOf(L, s) == {c \in L : c.session = s}

\* The types of the variables, for the calls of X.  No assertion has fired.
TypeInv(X) ==
  /\ mFreeSessionList \in Seq(Sessions)
  /\ mCurrentIssueCount \in 0 .. CounterModulus - 1
  /\ mCurrentReturnCount \in 0 .. CounterModulus - 1
  /\ mLock \in Threads \cup {NoThread}
  /\ mConnected \in [Sessions -> {0, 1}]
  /\ mRefCount \in [Sessions -> Int]
  /\ associated \in [Sessions -> BOOLEAN]
  /\ live \subseteq Contexts /\ IsFiniteSet(live) /\ kernel \subseteq live
  /\ todo \in [Threads -> Seq(X)]
  /\ completionOk \in [Threads -> BOOLEAN]
  /\ accepting \in {"Sleep", "Loop", "Failed", "Stopped"}
  /\ issueRef \subseteq Sessions
  /\ crashed = "no"

Structured(J) == Structure(J, todo, live, kernel, issueRef, Free, mLock, accepting)

\* The connection token of session s is there once at most, and only while the
\* session is issued and its connection is down; a connection that is up belongs
\* to an issued session.
ConnAt(T, K, I, C, s) ==
  /\ Alone(T, K, s, ConnIO, ConnCalls)
  /\ Token(T, K, s, ConnIO, ConnCalls) => s \in I /\ C[s] = 0
  /\ C[s] = 1 => s \in I

ConnInv == \A s \in Sessions : ConnAt(todo, kernel, issueRef, mConnected, s)

RecvInv == \A s \in Sessions : Alone(todo, kernel, s, RecvIO, RecvCalls)

\* The reference count, with J references that are neither contexts nor the
\* issue's.
CountInv(J) ==
  \A s \in Sessions :
    mRefCount[s] = Cardinality(LiveOf(live, s)) + J[s] + (IF s \in issueRef THEN 1 ELSE 0)

\* The inductive invariant.
PoolInv(X, J) ==
  /\ TypeInv(X)
  /\ Structured(J)
  /\ ConnInv
  /\ RecvInv
  /\ CountInv(J)
  /\ PoolAccounting

\* The free list holds sessions.
LEMMA FreeSessions ==
  ASSUME mFreeSessionList \in Seq(Sessions)
  PROVE  Free \in SUBSET Sessions
BY LenProperties DEF Free

\* The counts of references, when a context is made or deleted.
LEMMA CountType ==
  ASSUME NEW L, IsFiniteSet(L), NEW s
  PROVE  /\ Cardinality(LiveOf(L, s)) \in Nat
         /\ Cardinality(LiveOf(L, s)) = 0 <=> LiveOf(L, s) = {}
<1>1. LiveOf(L, s) \in SUBSET L
  BY DEF LiveOf
<1>2. IsFiniteSet(LiveOf(L, s))
  BY <1>1, FS_Subset
<1> QED BY <1>2, FS_CardinalityType, FS_EmptySet

LEMMA CountNew ==
  ASSUME NEW L, IsFiniteSet(L), NEW c, c \notin L
  PROVE  /\ IsFiniteSet(L \cup {c})
         /\ \A s : Cardinality(LiveOf(L \cup {c}, s))
                     = Cardinality(LiveOf(L, s)) + (IF c.session = s THEN 1 ELSE 0)
<1>1. IsFiniteSet(L \cup {c})
  BY FS_AddElement
<1>2. ASSUME NEW s
      PROVE  Cardinality(LiveOf(L \cup {c}, s))
               = Cardinality(LiveOf(L, s)) + (IF c.session = s THEN 1 ELSE 0)
  <2>1. LiveOf(L, s) \in SUBSET L
    BY DEF LiveOf
  <2>2. IsFiniteSet(LiveOf(L, s)) /\ Cardinality(LiveOf(L, s)) \in Nat
    BY <2>1, FS_Subset, CountType
  <2>3. CASE c.session = s
    <3>1. LiveOf(L \cup {c}, s) = LiveOf(L, s) \cup {c} /\ c \notin LiveOf(L, s)
      BY <2>3 DEF LiveOf
    <3> QED BY <3>1, <2>2, <2>3, FS_AddElement
  <2>4. CASE c.session # s
    <3>1. LiveOf(L \cup {c}, s) = LiveOf(L, s)
      BY <2>4 DEF LiveOf
    <3> QED BY <3>1, <2>2, <2>4
  <2> QED BY <2>3, <2>4
<1> QED BY <1>1, <1>2

LEMMA CountDelete ==
  ASSUME NEW L, IsFiniteSet(L), NEW c \in L
  PROVE  /\ IsFiniteSet(L \ {c})
         /\ \A s : Cardinality(LiveOf(L \ {c}, s))
                     = Cardinality(LiveOf(L, s)) - (IF c.session = s THEN 1 ELSE 0)
<1>1. IsFiniteSet(L \ {c})
  BY FS_RemoveElement
<1>2. ASSUME NEW s
      PROVE  Cardinality(LiveOf(L \ {c}, s))
               = Cardinality(LiveOf(L, s)) - (IF c.session = s THEN 1 ELSE 0)
  <2>1. LiveOf(L, s) \in SUBSET L
    BY DEF LiveOf
  <2>2. IsFiniteSet(LiveOf(L, s)) /\ Cardinality(LiveOf(L, s)) \in Nat
    BY <2>1, FS_Subset, CountType
  <2>3. CASE c.session = s
    <3>1. LiveOf(L \ {c}, s) = LiveOf(L, s) \ {c} /\ c \in LiveOf(L, s)
      BY <2>3 DEF LiveOf
    <3> QED BY <3>1, <2>2, <2>3, FS_RemoveElement
  <2>4. CASE c.session # s
    <3>1. LiveOf(L \ {c}, s) = LiveOf(L, s)
      BY <2>4 DEF LiveOf
    <3> QED BY <3>1, <2>2, <2>4
  <2> QED BY <2>3, <2>4
<1> QED BY <1>1, <1>2

\* A new context is new.
LEMMA Fresh ==
  ASSUME NEW s \in Sessions, NEW io, HasNewContext(s, io)
  PROVE  /\ NewContext(s, io) \in Contexts /\ NewContext(s, io) \notin live
         /\ NewContext(s, io).session = s /\ NewContext(s, io).io = io
BY DEF NewContext, HasNewContext

\* Thread t makes the call, which is not a deletion, for the completion of c.
Served(X, t, call, c) ==
  /\ Plan(todo[t], c) /\ Onward(Tail(todo[t]), c)
  /\ call \notin Detours => Rest(Tail(todo[t]), c)
  /\ todo[t] \in Seq(X) /\ Tail(todo[t]) \in Seq(X)
  /\ todo[t] # <<>> /\ todo[t][1].call = call /\ todo[t][1].obj = c.session
  /\ c \in live /\ c \in Contexts /\ c.session \in Sessions /\ Obj(t) = c.session
  /\ Held(todo[t]) = {c}

\* Who makes a call serves a completion, except for the calls of a return.
LEMMA Caller ==
  ASSUME NEW X, NEW J, PoolInv(X, J), NEW t \in Threads,
         NEW call \in OpCalls \ (ReturnCalls \cup {"DeleteIoContext"}),
         Calling(t, call)
  PROVE  \E c \in Contexts : Served(X, t, call, c)
<1> DEFINE q == todo[t]
<1>0. TypeInv(X) /\ Structured(J)
  BY DEF PoolInv
<1>1. q \in Seq(X) /\ q # <<>> /\ Head(q) = q[1] /\ q[1].call = call
  BY <1>0, NotEmpty DEF TypeInv, Calling
<1>2. ~ Foreign(q)
  BY <1>1, ForeignFacts
<1>3. \A s \in Sessions : q \notin Chains(s)
  BY <1>1, ChainFacts
<1>4. PICK c \in Contexts : Plan(q, c)
  BY <1>0, <1>2, <1>3 DEF Structured, Structure, Shapes
<1>5. c \in live
  BY <1>0, <1>1, <1>4, PlanHeld DEF Structured, Structure, Owned
<1>6. /\ Onward(Tail(q), c) /\ Tail(q) \in Seq(X) /\ q[1].obj = c.session
      /\ call \notin Detours => Rest(Tail(q), c)
  <2>1. call # "DeleteIoContext"
    OBVIOUS
  <2> HIDE DEF q
  <2>2. /\ Tail(q) \in Seq(X)
        /\ q[1].call # "DeleteIoContext" => q[1].obj = c.session
        /\ q[1].call \notin Detours => Rest(Tail(q), c)
        /\ q[1].call # "DeleteIoContext" => Onward(Tail(q), c)
    BY <1>1, <1>4, PlanHead
  <2> QED BY <1>1, <2>1, <2>2
<1>7. Held(q) = {c}
  BY <1>1, <1>4, PlanHeld DEF IsOp
<1>8. c.session \in Sessions
  BY DEF Contexts
<1> QED BY <1>1, <1>4, <1>5, <1>6, <1>7, <1>8 DEF Obj, Served

\* What a thread has before it when it has made a call: another call on the
\* session, or what it goes on with.
LEMMA NextCall ==
  ASSUME NEW X, HasPoolOps(X), NEW c \in Contexts, NEW r \in Seq(X), Onward(r, c),
         NEW call \in FrontCalls \ {"DeleteIoContext"}, call \in Detours \/ Rest(r, c)
  PROVE  /\ <<Op(call, c.session)>> \o r \in Seq(X)
         /\ Plan(<<Op(call, c.session)>> \o r, c)
         /\ Held(<<Op(call, c.session)>> \o r) = {c}
         /\ \A calls, s : Starts(<<Op(call, c.session)>> \o r, calls, s)
                            <=> \/ call \in calls /\ s = c.session
                                \/ "PreRecv" \in calls /\ IsOp(r[1], "PreRecv", s)
         /\ Rest(r, c) =>
              \A calls, s : Starts(<<Op(call, c.session)>> \o r, calls, s)
                              <=> call \in calls /\ s = c.session
<1> DEFINE o == Op(call, c.session)
           q == <<o>> \o r
<1>1. o \in X /\ First(o, c) /\ o.call = call /\ o.obj = c.session
  BY DEF HasPoolOps, PoolOps, Op, First, FrontCalls, OpCalls, Contexts
<1> HIDE DEF o
<1>2. Plan(q, c) /\ q \in Seq(X) /\ q # <<>> /\ q[1] = o /\ Tail(q) = r
  <2>1. Plan(q, c)
    BY <1>1, PlanPush
  <2> QED BY <1>1, <2>1, Pushed
<1>0. r # <<>> /\ (Rest(r, c) => r[1].call \in LateCalls)
  BY OnwardHeld, RestHeld
<1> HIDE DEF q
<1>3. Held(q) = {c}
  BY <1>1, <1>2, PlanHeld DEF IsOp
<1>4. \A calls, s : Starts(q, calls, s)
                      <=> \/ call \in calls /\ s = c.session
                          \/ "PreRecv" \in calls /\ IsOp(r[1], "PreRecv", s)
  BY <1>0, <1>1, <1>2 DEF Starts
<1>5. Rest(r, c) => \A s : ~ IsOp(r[1], "PreRecv", s)
  BY <1>0 DEF IsOp, LateCalls
<1>6. Rest(r, c) => \A calls, s : Starts(q, calls, s) <=> call \in calls /\ s = c.session
  BY <1>4, <1>5
<1> QED BY <1>2, <1>3, <1>4, <1>6 DEF q, o

\* What it goes on with is a plan, and holds no token but that of a receive to post.
LEMMA NextRest ==
  ASSUME NEW X, NEW c \in Contexts, NEW r \in Seq(X), Onward(r, c)
  PROVE  /\ Plan(r, c) /\ Held(r) = {c} /\ r # <<>>
         /\ \A s : /\ ~ Starts(r, ConnCalls, s)
                   /\ Starts(r, RecvCalls, s) => IsOp(r[1], "PreRecv", s)
         /\ Rest(r, c) => \A s : ~ Starts(r, RecvCalls, s)
<1>1. /\ Plan(r, c) /\ Held(r) = {c} /\ r # <<>> /\ Tail(r) \in Seq(X)
      /\ r[1].call \in LateCalls \cup {"PreRecv"}
      /\ r[1].call = "PreRecv" => Rest(Tail(r), c)
  BY OnwardHeld
<1>2. /\ LateCalls \cap ConnCalls = {} /\ LateCalls \cap RecvCalls = {}
      /\ "PreRecv" \notin ConnCalls /\ "PreRecv" \notin LateCalls
  BY DEF LateCalls, ConnCalls, RecvCalls
<1>3. Rest(r, c) => r[1].call \in LateCalls
  BY RestHeld
<1>4. ASSUME NEW s, Tail(r) # <<>>, IsOp(Tail(r)[1], "PreRecv", s)
      PROVE  FALSE
  <2>1. CASE Rest(r, c) /\ r[1].call # "DeleteIoContext"
    <3>1. Rest(Tail(r), c)
      BY <2>1, RestTail
    <3>2. Tail(r)[1].call \in LateCalls
      BY <1>1, <3>1, RestHeld
    <3> QED BY <1>2, <1>4, <3>2 DEF IsOp
  <2>2. CASE Rest(r, c) /\ r[1].call = "DeleteIoContext"
    BY <1>4, <2>2, RestHeld
  <2>3. CASE ~ Rest(r, c)
    <3>1. Rest(Tail(r), c)
      BY <2>3 DEF Onward
    <3>2. Tail(r)[1].call \in LateCalls
      BY <1>1, <3>1, RestHeld
    <3> QED BY <1>2, <1>4, <3>2 DEF IsOp
  <2> QED BY <2>1, <2>2, <2>3
<1>5. \A s : ~ Starts(r, ConnCalls, s)
  BY <1>1, <1>2 DEF Starts
<1>6. ASSUME NEW s, Starts(r, RecvCalls, s)
      PROVE  IsOp(r[1], "PreRecv", s)
  BY <1>1, <1>2, <1>4, <1>6 DEF Starts, IsOp
<1>7. Rest(r, c) => \A s : ~ Starts(r, RecvCalls, s)
  BY <1>2, <1>3, <1>6 DEF IsOp
<1> QED BY <1>1, <1>5, <1>6, <1>7

\* What a thread has before it when its call is made.
LEMMA Doing ==
  ASSUME NEW X, NEW t \in Threads, todo \in [Threads -> Seq(X)], todo[t] # <<>>, NEW ops, Do(t, ops)
  PROVE  /\ todo' = [todo EXCEPT ![t] = ops \o Tail(todo[t])]
         /\ ops = <<>> => todo' = [todo EXCEPT ![t] = Tail(todo[t])]
<1>1. <<>> \o Tail(todo[t]) = Tail(todo[t])
  BY NotEmpty
<1> QED BY <1>1 DEF Do

\* The tokens when a thread takes no new one: the connection and receive
\* tokens are kept, dropped, or handed to the new context d.
LEMMA ConnKept ==
  ASSUME NEW T, NEW K, NEW I, NEW C, NEW s, ConnAt(T, K, I, C, s),
         DOMAIN T = Threads, NEW t \in Threads, NEW q, NEW M, NEW I2, NEW D,
         Starts(q, ConnCalls, s) => Starts(T[t], ConnCalls, s),
         \A d \in M \ K : OfIO(d, ConnIO, s) =>
           Starts(T[t], ConnCalls, s) /\ ~ Starts(q, ConnCalls, s) /\ \A e \in M \ K : e = d,
         s \in I => s \in I2,
         D[s] = C[s] \/ D[s] = 0
  PROVE  ConnAt([T EXCEPT ![t] = q], M, I2, D, s)
<1>1. /\ Alone(T, K, s, ConnIO, ConnCalls)
      /\ Token(T, K, s, ConnIO, ConnCalls) => s \in I /\ C[s] = 0
      /\ C[s] = 1 => s \in I
  BY DEF ConnAt
<1>2. /\ Alone([T EXCEPT ![t] = q], M, s, ConnIO, ConnCalls)
      /\ Token([T EXCEPT ![t] = q], M, s, ConnIO, ConnCalls)
           => Token(T, K, s, ConnIO, ConnCalls)
  BY <1>1, AloneKept
<1>3. D[s] = 1 => C[s] = 1
  OBVIOUS
<1>4. C[s] = 0 => D[s] = 0
  OBVIOUS
<1> QED BY <1>1, <1>2, <1>3, <1>4 DEF ConnAt

\* The tokens of all sessions when thread t goes on with q: it takes none it has
\* not, and a context that is posted takes over the thread's.
LEMMA TokensKept ==
  ASSUME NEW X, TypeInv(X), ConnInv, RecvInv, NEW t \in Threads, NEW q,
         todo' = [todo EXCEPT ![t] = q],
         \A s \in Sessions :
           /\ Starts(q, ConnCalls, s) => Starts(todo[t], ConnCalls, s)
           /\ Starts(q, RecvCalls, s) => Starts(todo[t], RecvCalls, s)
           /\ mConnected'[s] = mConnected[s] \/ mConnected'[s] = 0,
         \A s \in Sessions, d \in kernel' \ kernel :
           /\ OfIO(d, ConnIO, s) => Starts(todo[t], ConnCalls, s) /\ ~ Starts(q, ConnCalls, s)
           /\ OfIO(d, RecvIO, s) => Starts(todo[t], RecvCalls, s) /\ ~ Starts(q, RecvCalls, s)
           /\ \A e \in kernel' \ kernel : e = d,
         issueRef' = issueRef
  PROVE  ConnInv' /\ RecvInv'
<1>1. DOMAIN todo = Threads
  BY DEF TypeInv
<1>2. ASSUME NEW s \in Sessions
      PROVE  ConnAt(todo', kernel', issueRef', mConnected', s)
  <2>1. ConnAt(todo, kernel, issueRef, mConnected, s)
    BY DEF ConnInv
  <2>2. \A d \in kernel' \ kernel : OfIO(d, ConnIO, s) =>
          /\ Starts(todo[t], ConnCalls, s) /\ ~ Starts(q, ConnCalls, s)
          /\ \A e \in kernel' \ kernel : e = d
    OBVIOUS
  <2> QED BY <1>1, <2>1, <2>2, ConnKept
<1>3. ASSUME NEW s \in Sessions
      PROVE  Alone(todo', kernel', s, RecvIO, RecvCalls)
  <2>1. Alone(todo, kernel, s, RecvIO, RecvCalls)
    BY DEF RecvInv
  <2>2. Starts(q, RecvCalls, s) => Starts(todo[t], RecvCalls, s)
    OBVIOUS
  <2>3. \A d \in kernel' \ kernel : OfIO(d, RecvIO, s) =>
          /\ Starts(todo[t], RecvCalls, s) /\ ~ Starts(q, RecvCalls, s)
          /\ \A e \in kernel' \ kernel : e = d
    OBVIOUS
  <2> QED BY <1>1, <2>1, <2>2, <2>3, AloneKept
<1>4. ConnInv'
  BY <1>2 DEF ConnInv
<1>5. RecvInv'
  BY <1>3 DEF RecvInv
<1> QED BY <1>4, <1>5

\* A call of a serving thread that touches neither contexts nor the pool.
LEMMA LocalCall ==
  ASSUME NEW X, NEW J, PoolInv(X, J), NEW t \in Threads, NEW c \in Contexts, Plan(todo[t], c),
         NEW q \in Seq(X), Plan(q, c), Held(q) = Held(todo[t]),
         todo' = [todo EXCEPT ![t] = q],
         UNCHANGED <<mRefCount, managerVars, contextVars, accepting, issueRef>>
  PROVE  Structured(J)' /\ CountInv(J)' /\ PoolAccounting'
<1>1. Structure(J, todo', live \cup {} \cup {}, kernel \cup {}, issueRef, Free, mLock, accepting)
  <2>1. /\ todo \in [Threads -> Seq(X)] /\ live \in SUBSET Contexts /\ kernel \in SUBSET live
        /\ Structure(J, todo, live, kernel, issueRef, Free, mLock, accepting)
    BY DEF PoolInv, TypeInv, Structured
  <2>2. {} \in SUBSET Contexts /\ Held(q) = Held(todo[t]) \cup {}
    OBVIOUS
  <2> QED BY <2>1, <2>2, Serving
<1>2. live \cup {} \cup {} = live /\ kernel \cup {} = kernel
  OBVIOUS
<1>3. Free' = Free
  BY DEF Free, managerVars
<1>4. Structured(J)'
  BY <1>1, <1>2, <1>3 DEF Structured, managerVars, contextVars
<1>5. CountInv(J)'
  BY DEF PoolInv, CountInv, contextVars
<1>6. PoolAccounting'
  BY DEF PoolInv, PoolAccounting, Issued, managerVars
<1> QED BY <1>4, <1>5, <1>6

\* The same, with the tokens and the words.
LEMMA LocalStep ==
  ASSUME NEW X, NEW J, PoolInv(X, J), NEW t \in Threads, NEW c \in Contexts, Plan(todo[t], c),
         NEW q \in Seq(X), Plan(q, c), Held(q) = Held(todo[t]),
         todo' = [todo EXCEPT ![t] = q],
         \A s \in Sessions :
           /\ Starts(q, ConnCalls, s) => Starts(todo[t], ConnCalls, s)
           /\ Starts(q, RecvCalls, s) => Starts(todo[t], RecvCalls, s)
           /\ mConnected'[s] = mConnected[s] \/ mConnected'[s] = 0,
         mConnected' \in [Sessions -> {0, 1}],
         associated' \in [Sessions -> BOOLEAN],
         completionOk' \in [Threads -> BOOLEAN],
         UNCHANGED <<mRefCount, managerVars, contextVars, accepting, issueRef, crashed>>
  PROVE  PoolInv(X, J)'
<1>1. Structured(J)' /\ CountInv(J)' /\ PoolAccounting'
  BY LocalCall
<1>2. \A d \in kernel' \ kernel : FALSE
  BY DEF contextVars
<1>3. ConnInv' /\ RecvInv'
  BY <1>2, TokensKept DEF PoolInv
<1>4. TypeInv(X)'
  BY DEF PoolInv, TypeInv, managerVars, contextVars
<1> QED BY <1>1, <1>3, <1>4 DEF PoolInv

\* The same for a call that leaves only the rest, or one more call before it
\* that takes no token the thread has not.
Quiet(ops, call, c) ==
  \/ ops = <<>>
  \/ \E next \in FrontCalls \ {"DeleteIoContext"} :
       /\ ops = <<Op(next, c.session)>>
       /\ next \in Detours \/ call \notin Detours
       /\ next \in ConnCalls => call \in ConnCalls
       /\ next \in RecvCalls => call \in RecvCalls

\* A step of a quiet call.
LEMMA QuietStep ==
  ASSUME NEW X, HasPoolOps(X), NEW J, PoolInv(X, J), NEW t \in Threads,
         NEW call, NEW c \in Contexts, Served(X, t, call, c),
         NEW ops, Do(t, ops), Quiet(ops, call, c),
         mConnected' \in [Sessions -> {0, 1}],
         \A s \in Sessions : mConnected'[s] = mConnected[s] \/ mConnected'[s] = 0,
         associated' \in [Sessions -> BOOLEAN],
         completionOk' \in [Threads -> BOOLEAN],
         UNCHANGED <<mRefCount, managerVars, contextVars, accepting, issueRef, crashed>>
  PROVE  PoolInv(X, J)'
<1> DEFINE r == Tail(todo[t])
<1>1. todo \in [Threads -> Seq(X)]
  BY DEF PoolInv, TypeInv
<1>2. /\ Plan(todo[t], c) /\ Onward(r, c) /\ r \in Seq(X) /\ Held(todo[t]) = {c}
      /\ todo[t] # <<>> /\ todo[t][1].call = call /\ todo[t][1].obj = c.session
      /\ call \notin Detours => Rest(r, c)
  BY DEF Served
<1>0. "PreRecv" \in RecvCalls /\ "PreRecv" \notin ConnCalls
  BY DEF RecvCalls, ConnCalls
<1>5. r # <<>> /\ \A s : IsOp(r[1], "PreRecv", s) => Starts(todo[t], RecvCalls, s)
  <2>1. r # <<>>
    BY <1>2, OnwardHeld
  <2> QED BY <1>0, <1>2, <2>1 DEF Starts
<1>3. CASE ops = <<>>
  <2>1. todo' = [todo EXCEPT ![t] = r]
    BY <1>1, <1>2, <1>3, Doing
  <2> HIDE DEF r
  <2>2. /\ Plan(r, c) /\ Held(r) = Held(todo[t])
        /\ \A s : ~ Starts(r, ConnCalls, s)
        /\ \A s : Starts(r, RecvCalls, s) => IsOp(r[1], "PreRecv", s)
    BY <1>2, NextRest
  <2>3. \A s \in Sessions :
           /\ Starts(r, ConnCalls, s) => Starts(todo[t], ConnCalls, s)
           /\ Starts(r, RecvCalls, s) => Starts(todo[t], RecvCalls, s)
           /\ mConnected'[s] = mConnected[s] \/ mConnected'[s] = 0
    BY <1>5, <2>2
  <2> QED BY <1>2, <2>1, <2>2, <2>3, LocalStep
<1>4. ASSUME NEW next \in FrontCalls \ {"DeleteIoContext"},
             ops = <<Op(next, c.session)>>,
             next \in Detours \/ call \notin Detours,
             next \in ConnCalls => call \in ConnCalls,
             next \in RecvCalls => call \in RecvCalls
      PROVE  PoolInv(X, J)'
  <2> DEFINE q == <<Op(next, c.session)>> \o r
  <2>1. todo' = [todo EXCEPT ![t] = q]
    BY <1>1, <1>2, <1>4, Doing
  <2> HIDE DEF q, r
  <2>4. next \in Detours \/ Rest(r, c)
    BY <1>2, <1>4
  <2>2. /\ q \in Seq(X) /\ Plan(q, c) /\ Held(q) = Held(todo[t])
        /\ \A calls, s : Starts(q, calls, s) <=>
                           \/ next \in calls /\ s = c.session
                           \/ "PreRecv" \in calls /\ IsOp(r[1], "PreRecv", s)
    BY <1>2, <2>4, NextCall DEF q
  <2>3. \A s \in Sessions :
           /\ Starts(q, ConnCalls, s) => Starts(todo[t], ConnCalls, s)
           /\ Starts(q, RecvCalls, s) => Starts(todo[t], RecvCalls, s)
           /\ mConnected'[s] = mConnected[s] \/ mConnected'[s] = 0
    <3>1. \A s \in Sessions : next \in ConnCalls /\ s = c.session => Starts(todo[t], ConnCalls, s)
      BY <1>2, <1>4 DEF Starts
    <3>2. \A s \in Sessions : next \in RecvCalls /\ s = c.session => Starts(todo[t], RecvCalls, s)
      BY <1>2, <1>4 DEF Starts
    <3> QED BY <1>0, <1>5, <2>2, <3>1, <3>2
  <2> QED BY <1>2, <2>1, <2>2, <2>3, LocalStep
<1> QED BY <1>3, <1>4 DEF Quiet

\* Session::PreRecv and Session::PostRecv.
LEMMA CheckConnectedStep ==
  ASSUME NEW X, HasPoolOps(X), NEW J, PoolInv(X, J), NEW t \in Threads,
         NEW call \in {"PreRecv", "PostRecv"}, NEW next \in {"WSARecvZero", "WSARecv"},
         CheckConnected(t, call, next)
  PROVE  PoolInv(X, J)'
<1>1. call \in OpCalls \ (ReturnCalls \cup {"DeleteIoContext"})
  BY DEF OpCalls, ReturnCalls
<1>2. PICK c \in Contexts : Served(X, t, call, c)
  BY <1>1, Caller DEF CheckConnected
<1>3. /\ mConnected' = mConnected /\ mConnected' \in [Sessions -> {0, 1}]
      /\ associated' \in [Sessions -> BOOLEAN] /\ completionOk' \in [Threads -> BOOLEAN]
  BY DEF PoolInv, TypeInv, CheckConnected, sessionVars, Set
<1>4. UNCHANGED <<mRefCount, managerVars, contextVars, accepting, issueRef, crashed>>
  BY DEF CheckConnected, sessionVars
<1>5. Do(t, <<>>) \/ Do(t, <<Op(next, c.session)>>)
  BY <1>2 DEF CheckConnected, Served
<1>6. Quiet(<<>>, call, c) /\ Quiet(<<Op(next, c.session)>>, call, c)
  BY DEF Quiet, FrontCalls, ConnCalls, RecvCalls, Detours
<1> QED BY <1>2, <1>3, <1>4, <1>5, <1>6, QuietStep

LEMMA PostRecvStep ==
  ASSUME NEW X, HasPoolOps(X), NEW J, PoolInv(X, J), NEW t \in Threads, PostRecv(t)
  PROVE  PoolInv(X, J)'
<1>1. CASE CheckConnected(t, "PostRecv", "WSARecv")
  BY <1>1, CheckConnectedStep
<1>2. CASE /\ Calling(t, "PostRecv")
           /\ Do(t, <<>>)
           /\ Set(completionOk, t, FALSE)
           /\ UNCHANGED <<sessionVars, managerVars, contextVars, accepting, issueRef, crashed>>
  <2>1. "PostRecv" \in OpCalls \ (ReturnCalls \cup {"DeleteIoContext"})
    BY DEF OpCalls, ReturnCalls
  <2>2. PICK c \in Contexts : Served(X, t, "PostRecv", c)
    BY <1>2, <2>1, Caller
  <2>3. /\ mConnected' = mConnected /\ mConnected' \in [Sessions -> {0, 1}]
        /\ associated' \in [Sessions -> BOOLEAN] /\ completionOk' \in [Threads -> BOOLEAN]
    BY <1>2 DEF PoolInv, TypeInv, sessionVars, Set
  <2>4. UNCHANGED <<mRefCount, managerVars, contextVars, accepting, issueRef, crashed>>
    BY <1>2 DEF sessionVars
  <2>5. Quiet(<<>>, "PostRecv", c)
    BY DEF Quiet
  <2> QED BY <1>2, <2>2, <2>3, <2>4, <2>5, QuietStep
<1> QED BY <1>1, <1>2 DEF PostRecv

\* SendBaseKey, CheckCompletion and the handling of packets: they change no word,
\* and may ask for the disconnect.
LEMMA LateCallStep ==
  ASSUME NEW X, HasPoolOps(X), NEW J, PoolInv(X, J), NEW t \in Threads,
         SendBaseKey(t) \/ CheckCompletion(t) \/ PacketHandling(t)
  PROVE  PoolInv(X, J)'
<1>1. PICK call \in {"SendBaseKey", "CheckCompletion", "PacketHandling"} :
        /\ Calling(t, call)
        /\ Do(t, <<>>) \/ Do(t, <<Op("DisconnectRequest", Obj(t))>>)
        /\ UNCHANGED <<sessionVars, managerVars, contextVars, completionOk, accepting,
                       issueRef, crashed>>
  BY DEF SendBaseKey, CheckCompletion, PacketHandling
<1>2. call \in OpCalls \ (ReturnCalls \cup {"DeleteIoContext"})
  BY DEF OpCalls, ReturnCalls
<1>3. PICK c \in Contexts : Served(X, t, call, c)
  BY <1>1, <1>2, Caller
<1>4. /\ mConnected' = mConnected /\ mConnected' \in [Sessions -> {0, 1}]
      /\ associated' \in [Sessions -> BOOLEAN] /\ completionOk' \in [Threads -> BOOLEAN]
      /\ UNCHANGED <<mRefCount, managerVars, contextVars, accepting, issueRef, crashed>>
  BY <1>1 DEF PoolInv, TypeInv, sessionVars
<1>5. Quiet(<<>>, call, c) /\ Quiet(<<Op("DisconnectRequest", c.session)>>, call, c)
  BY DEF Quiet, FrontCalls, ConnCalls, RecvCalls, Detours
<1> QED BY <1>1, <1>3, <1>4, <1>5, QuietStep DEF Served

\* Session::DisconnectRequest: the thread that finds the connection up takes
\* the connection token, which nobody has.
LEMMA DisconnectRequestStep ==
  ASSUME NEW X, HasPoolOps(X), NEW J, PoolInv(X, J), NEW t \in Threads, DisconnectRequest(t)
  PROVE  PoolInv(X, J)'
<1>1. "DisconnectRequest" \in OpCalls \ (ReturnCalls \cup {"DeleteIoContext"})
  BY DEF OpCalls, ReturnCalls
<1>2. PICK c \in Contexts : Served(X, t, "DisconnectRequest", c)
  BY <1>1, Caller DEF DisconnectRequest
<1> DEFINE s == c.session
           r == Tail(todo[t])
           q == <<Op("DisconnectEx", s)>> \o r
<1>3. /\ Plan(todo[t], c) /\ Onward(r, c) /\ r \in Seq(X) /\ Held(todo[t]) = {c}
      /\ todo[t] # <<>> /\ todo[t][1].call = "DisconnectRequest" /\ todo[t][1].obj = s
      /\ s \in Sessions /\ Obj(t) = s
  BY <1>2 DEF Served
<1>4. TypeInv(X) /\ ConnInv /\ RecvInv
  BY DEF PoolInv
<1>5. /\ mConnected' = [mConnected EXCEPT ![s] = 0]
      /\ mConnected' \in [Sessions -> {0, 1}] /\ associated' \in [Sessions -> BOOLEAN]
      /\ completionOk' \in [Threads -> BOOLEAN]
      /\ UNCHANGED <<mRefCount, managerVars, contextVars, accepting, issueRef, crashed>>
  BY <1>3, <1>4 DEF TypeInv, DisconnectRequest, Set
<1>6. \A u \in Sessions : mConnected'[u] = mConnected[u] \/ mConnected'[u] = 0
  BY <1>4, <1>5 DEF TypeInv
<1>7. CASE mConnected[s] = 0
  <2>1. Do(t, <<>>)
    BY <1>3, <1>7 DEF DisconnectRequest
  <2>2. Quiet(<<>>, "DisconnectRequest", c)
    BY DEF Quiet
  <2> QED BY <1>2, <1>5, <1>6, <2>1, <2>2, QuietStep
<1>8. CASE mConnected[s] # 0
  <2>1. mConnected[s] = 1
    BY <1>3, <1>4, <1>8 DEF TypeInv
  <2>2. todo \in [Threads -> Seq(X)] /\ DOMAIN todo = Threads
    BY <1>4 DEF TypeInv
  <2>3. Do(t, <<Op("DisconnectEx", s)>>)
    BY <1>3, <1>8 DEF DisconnectRequest
  <2>4. todo' = [todo EXCEPT ![t] = q]
    BY <1>3, <2>2, <2>3, Doing
  <2>5. /\ "DisconnectEx" \in FrontCalls \ {"DeleteIoContext"} /\ "DisconnectEx" \in Detours
        /\ "DisconnectEx" \in ConnCalls \ RecvCalls /\ "PreRecv" \in RecvCalls \ ConnCalls
    BY DEF FrontCalls, Detours, ConnCalls, RecvCalls
  <2>13. r # <<>> /\ \A u : IsOp(r[1], "PreRecv", u) => Starts(todo[t], RecvCalls, u)
    <3>1. r # <<>>
      BY <1>3, OnwardHeld
    <3> QED BY <1>3, <2>5, <3>1 DEF Starts
  <2> HIDE DEF r
  <2>14. /\ q \in Seq(X) /\ Plan(q, c) /\ Held(q) = Held(todo[t])
         /\ \A calls, u : Starts(q, calls, u) <=>
                             \/ "DisconnectEx" \in calls /\ u = s
                             \/ "PreRecv" \in calls /\ IsOp(r[1], "PreRecv", u)
    BY <1>3, <2>5, NextCall
  <2> HIDE DEF q
  <2>6. /\ q \in Seq(X) /\ Plan(q, c) /\ Held(q) = Held(todo[t])
        /\ \A u : Starts(q, ConnCalls, u) <=> u = s
        /\ \A u : Starts(q, RecvCalls, u) => Starts(todo[t], RecvCalls, u)
    BY <2>5, <2>13, <2>14
  <2>7. Structured(J)' /\ CountInv(J)' /\ PoolAccounting'
    BY <1>3, <1>5, <2>4, <2>6, LocalCall
  <2>8. kernel' = kernel /\ issueRef' = issueRef
    BY <1>5 DEF contextVars
  <2>9. ASSUME NEW u \in Sessions
        PROVE  ConnAt(todo', kernel', issueRef', mConnected', u)
    <3>1. ConnAt(todo, kernel, issueRef, mConnected, u)
      BY <1>4 DEF ConnInv
    <3>2. CASE u = s
      <4>1. ~ Token(todo, kernel, s, ConnIO, ConnCalls) /\ s \in issueRef
        BY <2>1, <3>1, <3>2 DEF ConnAt
      <4>2. Alone(todo', kernel, s, ConnIO, ConnCalls)
        BY <2>2, <2>4, <4>1, AloneMade
      <4>3. mConnected'[s] = 0
        BY <1>3, <1>4, <1>5 DEF TypeInv
      <4> QED BY <2>8, <3>2, <4>1, <4>2, <4>3 DEF ConnAt
    <3>3. CASE u # s
      <4>1. ~ Starts(q, ConnCalls, u) /\ \A d \in kernel' \ kernel : FALSE
        BY <2>6, <2>8, <3>3
      <4> QED BY <1>6, <2>2, <2>4, <2>8, <3>1, <4>1, ConnKept
    <3> QED BY <3>2, <3>3
  <2>10. ASSUME NEW u \in Sessions
         PROVE  Alone(todo', kernel', u, RecvIO, RecvCalls)
    <3>1. Alone(todo, kernel, u, RecvIO, RecvCalls)
      BY <1>4 DEF RecvInv
    <3>2. /\ Starts(q, RecvCalls, u) => Starts(todo[t], RecvCalls, u)
          /\ \A d \in kernel' \ kernel : FALSE
      BY <2>6, <2>8
    <3> QED BY <2>2, <2>4, <3>1, <3>2, AloneKept
  <2>11. ConnInv' /\ RecvInv'
    BY <2>9, <2>10 DEF ConnInv, RecvInv
  <2>12. TypeInv(X)'
    BY <1>4, <1>5, <2>2, <2>4, <2>6 DEF TypeInv, managerVars, contextVars
  <2> QED BY <2>7, <2>11, <2>12 DEF PoolInv
<1> QED BY <1>7, <1>8

\* ClientSession::AcceptCompletion: the thread has the connection token, gives
\* it up, and the connection is up.
LEMMA AcceptCompletionWith ==
  ASSUME NEW X, HasPoolOps(X), NEW J, PoolInv(X, J), NEW t \in Threads,
         NEW c \in Contexts, Served(X, t, "AcceptCompletion", c),
         NEW q \in Seq(X), Plan(q, c), Held(q) = {c}, todo' = [todo EXCEPT ![t] = q],
         \A s : ~ Starts(q, ConnCalls, s) /\ (Starts(q, RecvCalls, s) => s = c.session),
         mConnected' = [mConnected EXCEPT ![c.session] = 1],
         associated' \in [Sessions -> BOOLEAN],
         CrashAssert(mConnected[c.session] = 0, "AcceptCompletion"),
         UNCHANGED <<mRefCount, managerVars, contextVars, completionOk, accepting, issueRef>>
  PROVE  PoolInv(X, J)'
<1> DEFINE s == c.session
<1>1. /\ Plan(todo[t], c) /\ Held(todo[t]) = {c} /\ s \in Sessions
      /\ \A u : u = s => Starts(todo[t], ConnCalls, u)
      /\ \A u : u = s => Starts(todo[t], RecvCalls, u)
  BY DEF Served, Starts, ConnCalls, RecvCalls
<1>2. TypeInv(X) /\ ConnInv /\ RecvInv /\ DOMAIN todo = Threads
  BY DEF PoolInv, TypeInv
<1>3. Structured(J)' /\ CountInv(J)' /\ PoolAccounting'
  BY <1>1, LocalCall
<1>4. kernel' = kernel /\ issueRef' = issueRef /\ \A d \in kernel' \ kernel : FALSE
  BY DEF contextVars
<1>5. ConnAt(todo, kernel, issueRef, mConnected, s) /\ Token(todo, kernel, s, ConnIO, ConnCalls)
  BY <1>1, <1>2 DEF ConnInv, Token
<1>6. s \in issueRef /\ mConnected[s] = 0
  BY <1>5 DEF ConnAt
<1>7. ASSUME NEW u \in Sessions
      PROVE  ConnAt(todo', kernel', issueRef', mConnected', u)
  <2>1. ConnAt(todo, kernel, issueRef, mConnected, u)
    BY <1>2 DEF ConnInv
  <2>2. CASE u = s
    <3>1. Alone(todo, kernel, s, ConnIO, ConnCalls)
      BY <1>5 DEF ConnAt
    <3>2. ~ Token(todo', kernel, s, ConnIO, ConnCalls)
      BY <1>1, <1>2, <3>1, AloneDropped
    <3>3. Alone(todo', kernel', s, ConnIO, ConnCalls)
      BY <1>2, <1>4, <3>1, AloneKept
    <3> QED BY <1>4, <1>6, <2>2, <3>2, <3>3 DEF ConnAt
  <2>3. CASE u # s
    <3>1. mConnected'[u] = mConnected[u]
      BY <1>2, <2>3 DEF TypeInv
    <3> QED BY <1>2, <1>4, <2>1, <3>1, ConnKept
  <2> QED BY <2>2, <2>3
<1>8. ASSUME NEW u \in Sessions
      PROVE  Alone(todo', kernel', u, RecvIO, RecvCalls)
  <2>1. Alone(todo, kernel, u, RecvIO, RecvCalls)
    BY <1>2 DEF RecvInv
  <2> QED BY <1>1, <1>2, <1>4, <2>1, AloneKept
<1>9. ConnInv' /\ RecvInv'
  BY <1>7, <1>8 DEF ConnInv, RecvInv
<1>10. mConnected' \in [Sessions -> {0, 1}] /\ crashed' = "no"
  BY <1>1, <1>2, <1>6 DEF TypeInv, CrashAssert
<1>11. TypeInv(X)'
  BY <1>2, <1>10 DEF TypeInv, managerVars, contextVars
<1> QED BY <1>3, <1>9, <1>11 DEF PoolInv

\* AcceptCompletion goes on with PreRecv and SendBaseKey, or disconnects.
LEMMA AcceptCompletionStep ==
  ASSUME NEW X, HasPoolOps(X), NEW J, PoolInv(X, J), NEW t \in Threads, AcceptCompletion(t)
  PROVE  PoolInv(X, J)'
<1>1. "AcceptCompletion" \in OpCalls \ (ReturnCalls \cup {"DeleteIoContext"})
  BY DEF OpCalls, ReturnCalls
<1>2. PICK c \in Contexts : Served(X, t, "AcceptCompletion", c)
  BY <1>1, Caller DEF AcceptCompletion
<1> DEFINE s == c.session
           r == Tail(todo[t])
<1>3. /\ Rest(r, c) /\ Onward(r, c) /\ r \in Seq(X) /\ todo[t] # <<>>
      /\ s \in Sessions /\ Obj(t) = s
  BY <1>2 DEF Served, Detours
<1>4. todo \in [Threads -> Seq(X)]
  BY DEF PoolInv, TypeInv
<1>5. /\ mConnected' = [mConnected EXCEPT ![s] = 1]
      /\ associated' \in [Sessions -> BOOLEAN]
      /\ CrashAssert(mConnected[s] = 0, "AcceptCompletion")
      /\ UNCHANGED <<mRefCount, managerVars, contextVars, completionOk, accepting, issueRef>>
  BY <1>3 DEF PoolInv, TypeInv, AcceptCompletion, Set
<1>6. CASE Do(t, <<Op("PreRecv", s), Op("SendBaseKey", s)>>)
  <2> DEFINE k == <<Op("SendBaseKey", s)>> \o r
             q == <<Op("PreRecv", s)>> \o k
  <2>1. /\ Op("SendBaseKey", s) \in X /\ Op("PreRecv", s) \in X
        /\ Op("SendBaseKey", s).call \in LateCalls \ {"DeleteIoContext"}
        /\ Op("SendBaseKey", s).obj = s
    BY <1>3 DEF HasPoolOps, PoolOps, Op, OpCalls, LateCalls
  <2>2. Rest(k, c) /\ k \in Seq(X)
    BY <1>3, <2>1, RestPush, Pushed
  <2>3. <<Op("PreRecv", s), Op("SendBaseKey", s)>> \o r = q
    <3>1. /\ <<Op("PreRecv", s)>> \in Seq(X) /\ <<Op("SendBaseKey", s)>> \in Seq(X)
          /\ <<Op("PreRecv", s)>> \o <<Op("SendBaseKey", s)>>
               = <<Op("PreRecv", s), Op("SendBaseKey", s)>>
      BY <2>1, Pair
    <3> QED BY <1>3, <3>1, ConcatAssociative
  <2>4. todo' = [todo EXCEPT ![t] = q]
    BY <1>3, <1>4, <1>6, <2>3, Doing
  <2> HIDE DEF k
  <2>5. "PreRecv" \in FrontCalls \ {"DeleteIoContext"}
    BY DEF FrontCalls
  <2>8. Onward(k, c)
    BY <2>2 DEF Onward
  <2>6. /\ q \in Seq(X) /\ Plan(q, c) /\ Held(q) = {c}
        /\ \A calls, u : Starts(q, calls, u) <=> "PreRecv" \in calls /\ u = s
    BY <2>2, <2>5, <2>8, NextCall
  <2>7. "PreRecv" \notin ConnCalls
    BY DEF ConnCalls
  <2> HIDE DEF q
  <2> QED BY <1>2, <1>5, <2>4, <2>6, <2>7, AcceptCompletionWith
<1>7. CASE Do(t, <<Op("DisconnectRequest", s)>>)
  <2> DEFINE q == <<Op("DisconnectRequest", s)>> \o r
  <2>1. todo' = [todo EXCEPT ![t] = q]
    BY <1>3, <1>4, <1>7, Doing
  <2>2. "DisconnectRequest" \in FrontCalls \ {"DeleteIoContext"}
    BY DEF FrontCalls
  <2> HIDE DEF r
  <2>3. /\ q \in Seq(X) /\ Plan(q, c) /\ Held(q) = {c}
        /\ \A calls, u : Starts(q, calls, u) <=> "DisconnectRequest" \in calls /\ u = s
    BY <1>3, <2>2, NextCall
  <2>4. "DisconnectRequest" \notin ConnCalls
    BY DEF ConnCalls
  <2> HIDE DEF q
  <2> QED BY <1>2, <1>5, <2>1, <2>3, <2>4, AcceptCompletionWith
<1> QED BY <1>3, <1>6, <1>7 DEF AcceptCompletion

\* The count of references when a context of session s is made.
LEMMA CountPosted ==
  ASSUME NEW X, NEW J \in [Sessions -> Nat], TypeInv(X), CountInv(J), NEW d \in Contexts,
         d \notin live, mRefCount' = [mRefCount EXCEPT ![d.session] = mRefCount[d.session] + 1],
         live' = live \cup {d}, issueRef' = issueRef
  PROVE  CountInv(J)' /\ IsFiniteSet(live') /\ mRefCount' \in [Sessions -> Int]
<1>1. IsFiniteSet(live) /\ mRefCount \in [Sessions -> Int] /\ d.session \in Sessions
  BY DEF TypeInv, Contexts
<1>2. /\ IsFiniteSet(live')
      /\ \A s : Cardinality(LiveOf(live', s))
                  = Cardinality(LiveOf(live, s)) + (IF d.session = s THEN 1 ELSE 0)
  BY <1>1, CountNew
<1>3. \A s : Cardinality(LiveOf(live, s)) \in Nat
  BY <1>1, CountType
<1>4. ASSUME NEW s \in Sessions
      PROVE  mRefCount'[s] = Cardinality(LiveOf(live', s)) + J[s]
                               + (IF s \in issueRef' THEN 1 ELSE 0)
  <2>1. mRefCount[s] = Cardinality(LiveOf(live, s)) + J[s] + (IF s \in issueRef THEN 1 ELSE 0)
    BY DEF CountInv
  <2>2. mRefCount'[s] = mRefCount[s] + (IF d.session = s THEN 1 ELSE 0)
    BY <1>1
  <2>3. J[s] \in Nat /\ Cardinality(LiveOf(live, s)) \in Nat
    BY <1>3
  <2> QED BY SMTT(30), <1>2, <2>1, <2>2, <2>3
<1> QED BY <1>1, <1>2, <1>4 DEF CountInv

\* The three calls that post an operation: on success the token is the new
\* context's, on failure it is gone and the thread deletes the context.
LEMMA PostStep ==
  ASSUME NEW X, HasPoolOps(X), NEW J \in [Sessions -> Nat], PoolInv(X, J), NEW t \in Threads,
         NEW call, NEW c \in Contexts, Served(X, t, call, c),
         NEW io \in IOTypes, NEW sys, Post(t, Obj(t), io, sys, <<>>),
         io \in ConnIO => call \in ConnCalls,
         io \in RecvIO => call \in RecvCalls \ Detours,
         completionOk' \in [Threads -> BOOLEAN],
         UNCHANGED <<mConnected, associated, managerVars, accepting, issueRef, crashed>>
  PROVE  PoolInv(X, J)'
<1> DEFINE s == c.session
           r == Tail(todo[t])
           d == NewContext(s, io)
<1>1. /\ Plan(todo[t], c) /\ Onward(r, c) /\ r \in Seq(X) /\ Held(todo[t]) = {c}
      /\ todo[t] # <<>> /\ todo[t][1].call = call /\ todo[t][1].obj = s
      /\ s \in Sessions /\ c \in live /\ Obj(t) = s
      /\ call \notin Detours => Rest(r, c)
  BY DEF Served
<1>0. "PreRecv" \in RecvCalls /\ "PreRecv" \notin ConnCalls
  BY DEF RecvCalls, ConnCalls
<1>11. r # <<>> /\ \A u : IsOp(r[1], "PreRecv", u) => Starts(todo[t], RecvCalls, u)
  <2>1. r # <<>>
    BY <1>1, OnwardHeld
  <2> QED BY <1>0, <1>1, <2>1 DEF Starts
<1>2. /\ HasNewContext(s, io)
      /\ mRefCount' = [mRefCount EXCEPT ![s] = mRefCount[s] + 1]
      /\ live' = live \cup {d}
  BY <1>1 DEF Post, AddRef, Set
<1>3. d \in Contexts /\ d \notin live /\ d.session = s /\ d.io = io /\ d # c
  BY <1>1, <1>2, Fresh
<1>4. \/ kernel' = kernel \cup {d} /\ Do(t, <<>>)
      \/ kernel' = kernel /\ Do(t, <<Op("DeleteIoContext", d)>> \o <<>>)
  BY <1>1 DEF Post
<1>5. TypeInv(X) /\ ConnInv /\ RecvInv /\ CountInv(J) /\ DOMAIN todo = Threads
  BY DEF PoolInv, TypeInv
<1>6. /\ todo \in [Threads -> Seq(X)] /\ live \in SUBSET Contexts /\ kernel \in SUBSET live
      /\ Structure(J, todo, live, kernel, issueRef, Free, mLock, accepting)
  BY DEF PoolInv, TypeInv, Structured
<1> HIDE DEF d, r
<1>7. CountInv(J)' /\ IsFiniteSet(live') /\ mRefCount' \in [Sessions -> Int]
  BY <1>2, <1>3, <1>5, CountPosted
<1>8. PoolAccounting' /\ Free' = Free
  BY DEF PoolInv, PoolAccounting, Issued, Free, managerVars
<1>9. CASE kernel' = kernel \cup {d} /\ Do(t, <<>>)
  <2>1. todo' = [todo EXCEPT ![t] = r]
    BY <1>1, <1>6, <1>9, Doing DEF r
  <2>2. /\ Plan(r, c) /\ Held(r) = Held(todo[t]) \cup {}
        /\ \A u : ~ Starts(r, ConnCalls, u)
        /\ \A u : Starts(r, RecvCalls, u) => IsOp(r[1], "PreRecv", u)
        /\ Rest(r, c) => \A u : ~ Starts(r, RecvCalls, u)
    BY <1>1, NextRest
  <2>3. Structure(J, todo', live \cup {d} \cup {}, kernel \cup {d}, issueRef, Free, mLock,
                  accepting)
    <3>1. /\ {d} \in SUBSET Contexts /\ {} \in SUBSET Contexts /\ {d} \cap {} = {}
          /\ ({d} \cup {}) \cap live = {} /\ \A e \in {d} \cup {} : e.session = c.session
      BY <1>3
    <3> QED BY <1>1, <1>6, <2>1, <2>2, <3>1, Serving
  <2>4. live \cup {d} \cup {} = live'
    BY <1>2
  <2>5. Structured(J)'
    BY <1>8, <1>9, <2>3, <2>4 DEF Structured, managerVars
  <2>6. \A u \in Sessions, e \in kernel' \ kernel :
          /\ OfIO(e, ConnIO, u) => Starts(todo[t], ConnCalls, u) /\ ~ Starts(r, ConnCalls, u)
          /\ OfIO(e, RecvIO, u) => Starts(todo[t], RecvCalls, u) /\ ~ Starts(r, RecvCalls, u)
          /\ \A f \in kernel' \ kernel : f = e
    <3>1. call \in ConnCalls => Starts(todo[t], ConnCalls, s)
      BY <1>1 DEF Starts
    <3>2. call \in RecvCalls => Starts(todo[t], RecvCalls, s)
      BY <1>1 DEF Starts
    <3>3. \A e \in kernel' \ kernel : e = d
      BY <1>9
    <3> QED BY <1>1, <1>3, <2>2, <3>1, <3>2, <3>3 DEF OfIO
  <2>7. ConnInv' /\ RecvInv'
    <3>1. \A u \in Sessions :
            /\ Starts(r, ConnCalls, u) => Starts(todo[t], ConnCalls, u)
            /\ Starts(r, RecvCalls, u) => Starts(todo[t], RecvCalls, u)
            /\ mConnected'[u] = mConnected[u] \/ mConnected'[u] = 0
      BY <1>11, <2>2
    <3>2. issueRef' = issueRef
      OBVIOUS
    <3> QED BY <1>5, <2>1, <2>6, <3>1, <3>2, TokensKept
  <2>8. TypeInv(X)'
    BY <1>1, <1>2, <1>3, <1>5, <1>7, <1>9, <2>1 DEF TypeInv, managerVars
  <2> QED BY <1>7, <1>8, <2>5, <2>7, <2>8 DEF PoolInv
<1>10. CASE kernel' = kernel /\ Do(t, <<Op("DeleteIoContext", d)>> \o <<>>)
  <2> DEFINE o == Op("DeleteIoContext", d)
             q == <<o>> \o r
  <2>1. o \in X /\ First(o, c) /\ o.call = "DeleteIoContext" /\ o.obj = d
    BY <1>3 DEF HasPoolOps, PoolOps, Op, OpCalls, First, FrontCalls
  <2>2. <<o>> \o <<>> = <<o>>
    <3>1. <<o>> \in Seq(X)
      BY <2>1
    <3> QED BY <3>1, ConcatEmptySeq
  <2>3. todo' = [todo EXCEPT ![t] = q]
    <3>1. Do(t, <<o>>)
      BY <1>10, <2>2
    <3> QED BY <1>1, <1>6, <3>1, Doing DEF r
  <2> HIDE DEF o
  <2>4. Plan(q, c) /\ q \in Seq(X) /\ q[1] = o /\ Tail(q) = r
    <3>1. o.call \in Detours
      BY <2>1 DEF Detours
    <3>2. Plan(q, c)
      BY <1>1, <2>1, <3>1, PlanPush
    <3> QED BY <1>1, <2>1, <3>2, Pushed
  <2>5. Held(q) = {c} \cup {d}
    <3>1. Held(r) = {c}
      BY <1>1, NextRest
    <3> QED BY <1>1, <1>3, <2>1, <3>1, PushHeld DEF IsOp
  <2>6. \A u : /\ ~ Starts(q, ConnCalls, u)
               /\ Starts(q, RecvCalls, u) => Starts(todo[t], RecvCalls, u)
    <3>1. "DeleteIoContext" \notin ConnCalls \cup RecvCalls
      BY DEF ConnCalls, RecvCalls
    <3>2. \A u : ~ Starts(q, ConnCalls, u)
      BY <1>0, <2>1, <2>4, <3>1 DEF Starts
    <3>3. \A u : Starts(q, RecvCalls, u) => IsOp(r[1], "PreRecv", u)
      BY <2>1, <2>4, <3>1 DEF Starts
    <3> QED BY <1>11, <3>2, <3>3
  <2> HIDE DEF q
  <2>7. Structure(J, todo', live \cup {} \cup {d}, kernel \cup {}, issueRef, Free, mLock, accepting)
    <3>1. /\ {d} \in SUBSET Contexts /\ {} \in SUBSET Contexts /\ {} \cap {d} = {}
          /\ ({} \cup {d}) \cap live = {} /\ \A e \in {} \cup {d} : e.session = c.session
      BY <1>3
    <3>2. Held(q) = Held(todo[t]) \cup {d}
      BY <1>1, <2>5
    <3> QED BY <1>1, <1>6, <2>3, <2>4, <3>1, <3>2, Serving
  <2>8. live \cup {} \cup {d} = live' /\ kernel \cup {} = kernel'
    BY <1>2, <1>10
  <2>9. Structured(J)'
    BY <1>8, <2>7, <2>8 DEF Structured, managerVars
  <2>10. \A e \in kernel' \ kernel : FALSE
    BY <1>10
  <2>11. ConnInv' /\ RecvInv'
    BY <1>5, <2>3, <2>6, <2>10, TokensKept
  <2>12. TypeInv(X)'
    BY <1>2, <1>3, <1>5, <1>7, <1>10, <2>3, <2>4 DEF TypeInv, managerVars
  <2> QED BY <1>7, <1>8, <2>9, <2>11, <2>12 DEF PoolInv
<1> QED BY <1>4, <1>9, <1>10

\* DisconnectEx and the two kinds of WSARecv.
LEMMA PostCallStep ==
  ASSUME NEW X, HasPoolOps(X), NEW J \in [Sessions -> Nat], PoolInv(X, J), NEW t \in Threads,
         DisconnectEx(t) \/ WSARecvZero(t) \/ WSARecv(t)
  PROVE  PoolInv(X, J)'
<1>0. completionOk \in [Threads -> BOOLEAN]
  BY DEF PoolInv, TypeInv
<1>1. CASE DisconnectEx(t)
  <2>1. "DisconnectEx" \in OpCalls \ (ReturnCalls \cup {"DeleteIoContext"})
    BY DEF OpCalls, ReturnCalls
  <2>2. PICK c \in Contexts : Served(X, t, "DisconnectEx", c)
    BY <1>1, <2>1, Caller DEF DisconnectEx
  <2>3. Post(t, Obj(t), "IO_DISCONNECT", "DisconnectEx", <<>>)
    BY <1>1 DEF DisconnectEx
  <2>4. /\ "IO_DISCONNECT" \in IOTypes /\ "IO_DISCONNECT" \notin RecvIO
        /\ "DisconnectEx" \in ConnCalls
    BY DEF IOTypes, RecvIO, ConnCalls
  <2>5. /\ completionOk' \in [Threads -> BOOLEAN]
        /\ UNCHANGED <<mConnected, associated, managerVars, accepting, issueRef, crashed>>
    BY <1>0, <1>1 DEF DisconnectEx
  <2> QED BY <2>2, <2>3, <2>4, <2>5, PostStep
<1>2. CASE WSARecvZero(t)
  <2>1. "WSARecvZero" \in OpCalls \ (ReturnCalls \cup {"DeleteIoContext"})
    BY DEF OpCalls, ReturnCalls
  <2>2. PICK c \in Contexts : Served(X, t, "WSARecvZero", c)
    BY <1>2, <2>1, Caller DEF WSARecvZero
  <2>3. Post(t, Obj(t), "IO_RECV_ZERO", "WSARecvZero", <<>>)
    BY <1>2 DEF WSARecvZero
  <2>4. /\ "IO_RECV_ZERO" \in IOTypes /\ "IO_RECV_ZERO" \notin ConnIO
        /\ "WSARecvZero" \in RecvCalls \ Detours
    BY DEF IOTypes, ConnIO, RecvCalls, Detours
  <2>5. /\ completionOk' \in [Threads -> BOOLEAN]
        /\ UNCHANGED <<mConnected, associated, managerVars, accepting, issueRef, crashed>>
    BY <1>0, <1>2 DEF WSARecvZero, Set
  <2> QED BY <2>2, <2>3, <2>4, <2>5, PostStep
<1>3. CASE WSARecv(t)
  <2>1. "WSARecv" \in OpCalls \ (ReturnCalls \cup {"DeleteIoContext"})
    BY DEF OpCalls, ReturnCalls
  <2>2. PICK c \in Contexts : Served(X, t, "WSARecv", c)
    BY <1>3, <2>1, Caller DEF WSARecv
  <2>3. Post(t, Obj(t), "IO_RECV", "WSARecv", <<>>)
    BY <1>3 DEF WSARecv
  <2>4. /\ "IO_RECV" \in IOTypes /\ "IO_RECV" \notin ConnIO
        /\ "WSARecv" \in RecvCalls \ Detours
    BY DEF IOTypes, ConnIO, RecvCalls, Detours
  <2>5. /\ completionOk' \in [Threads -> BOOLEAN]
        /\ UNCHANGED <<mConnected, associated, managerVars, accepting, issueRef, crashed>>
    BY <1>0, <1>3 DEF WSARecv, Set
  <2> QED BY <2>2, <2>3, <2>4, <2>5, PostStep
<1> QED BY <1>1, <1>2, <1>3

\* The count of references when a context is deleted: at 0 nobody uses the
\* session any more.
LEMMA CountDeleted ==
  ASSUME NEW X, NEW J \in [Sessions -> Nat], TypeInv(X), CountInv(J), NEW d \in live,
         mRefCount' = [mRefCount EXCEPT ![d.session] = mRefCount[d.session] - 1],
         live' = live \ {d}, issueRef' = issueRef
  PROVE  /\ CountInv(J)' /\ IsFiniteSet(live') /\ mRefCount' \in [Sessions -> Int]
         /\ mRefCount[d.session] - 1 \in Nat
         /\ mRefCount[d.session] - 1 = 0 => Unused(J, live', issueRef, d.session)
         /\ \A c \in live' : c.session = d.session => mRefCount[d.session] - 1 # 0
<1>1. /\ IsFiniteSet(live) /\ mRefCount \in [Sessions -> Int] /\ d \in Contexts
      /\ d.session \in Sessions
  BY DEF TypeInv, Contexts
<1>2. /\ IsFiniteSet(live')
      /\ \A s : Cardinality(LiveOf(live', s))
                  = Cardinality(LiveOf(live, s)) - (IF d.session = s THEN 1 ELSE 0)
  BY <1>1, CountDelete
<1>3. /\ \A s : Cardinality(LiveOf(live, s)) \in Nat
      /\ \A s : Cardinality(LiveOf(live', s)) \in Nat
      /\ \A s : Cardinality(LiveOf(live', s)) = 0 <=> LiveOf(live', s) = {}
  BY <1>1, <1>2, CountType
<1>4. ASSUME NEW s \in Sessions
      PROVE  mRefCount'[s] = Cardinality(LiveOf(live', s)) + J[s]
                               + (IF s \in issueRef' THEN 1 ELSE 0)
  <2>1. mRefCount[s] = Cardinality(LiveOf(live, s)) + J[s] + (IF s \in issueRef THEN 1 ELSE 0)
    BY DEF CountInv
  <2>2. mRefCount'[s] = mRefCount[s] - (IF d.session = s THEN 1 ELSE 0)
    BY <1>1
  <2>3. J[s] \in Nat /\ Cardinality(LiveOf(live, s)) \in Nat
    BY <1>3
  <2>4. CASE d.session = s
    BY <1>2, <2>1, <2>2, <2>3, <2>4
  <2>5. CASE d.session # s
    BY <1>2, <2>1, <2>2, <2>3, <2>5
  <2> QED BY <2>4, <2>5
<1>5. mRefCount[d.session] - 1 = Cardinality(LiveOf(live', d.session)) + J[d.session]
                                   + (IF d.session \in issueRef THEN 1 ELSE 0)
  BY <1>1, <1>4
<1>6. J[d.session] \in Nat /\ Cardinality(LiveOf(live', d.session)) \in Nat
  BY <1>1, <1>3
<1>7. mRefCount[d.session] - 1 \in Nat
  BY <1>5, <1>6
<1>8. mRefCount[d.session] - 1 = 0 =>
        /\ Cardinality(LiveOf(live', d.session)) = 0 /\ J[d.session] = 0
        /\ d.session \notin issueRef
  BY <1>5, <1>6
<1>9. mRefCount[d.session] - 1 = 0 => Unused(J, live', issueRef, d.session)
  BY <1>3, <1>8 DEF Unused, LiveOf
<1>10. \A c \in live' : c.session = d.session => mRefCount[d.session] - 1 # 0
  BY <1>9 DEF Unused
<1> QED BY <1>1, <1>2, <1>4, <1>7, <1>9, <1>10 DEF CountInv

\* The deletion of a context, which may be the last reference.
LEMMA DeleteIoContextStep ==
  ASSUME NEW X, HasPoolOps(X), NEW J \in [Sessions -> Nat], PoolInv(X, J), NEW t \in Threads,
         DeleteIoContext(t)
  PROVE  PoolInv(X, J)'
<1> DEFINE q == todo[t]
           d == Obj(t)
           s == d.session
           ret == mRefCount[s] - 1
<1>1. TypeInv(X) /\ ConnInv /\ RecvInv /\ CountInv(J) /\ DOMAIN todo = Threads
  BY DEF PoolInv, TypeInv
<1>2. /\ todo \in [Threads -> Seq(X)] /\ live \in SUBSET Contexts /\ kernel \in SUBSET live
      /\ Free \in SUBSET Sessions
      /\ Structure(J, todo, live, kernel, issueRef, Free, mLock, accepting)
  BY FreeSessions DEF PoolInv, TypeInv, Structured
<1>3. q \in Seq(X) /\ q # <<>> /\ Head(q) = q[1] /\ q[1].call = "DeleteIoContext" /\ d = q[1].obj
  BY <1>2, NotEmpty DEF DeleteIoContext, Calling, Obj
<1>4. "DeleteIoContext" \in OpCalls \ ReturnCalls
  BY DEF OpCalls, ReturnCalls
<1>5. PICK c \in Contexts : Plan(q, c)
  BY <1>2, <1>3, <1>4, ForeignFacts, ChainFacts DEF Structure, Shapes
<1>6. /\ live' = live \ {d}
      /\ mRefCount' = [mRefCount EXCEPT ![s] = ret]
      /\ CrashAssert(ret >= 0, "ReleaseRef")
      /\ Do(t, IF ret = 0 THEN <<Op("ReturnLock", s)>> ELSE <<>>)
      /\ UNCHANGED <<mConnected, associated, managerVars, kernel, completionOk,
                     accepting, issueRef>>
  BY DEF DeleteIoContext, ReleaseRef, Set
<1>7. /\ Tail(q) \in Seq(X)
      /\ \/ d = c /\ Tail(q) = <<>>
         \/ d \in Contexts \ {c} /\ d.session = c.session /\ Onward(Tail(q), c)
  <2> HIDE DEF q, d
  <2> QED BY <1>3, <1>5, PlanHead
<1>8. Held(q) = {c} \cup {d} /\ c \in live /\ d \in live \ kernel
  <2>1. Held(q) = {c} \cup {e \in Contexts : IsOp(q[1], "DeleteIoContext", e)}
    <3> HIDE DEF q
    <3> QED BY <1>3, <1>5, PlanHeld
  <2>2. Held(q) = {c} \cup {d}
    BY <1>3, <1>7, <2>1 DEF IsOp
  <2> QED BY <1>2, <2>2 DEF Structure, Owned
<1> HIDE DEF d
<1>9. /\ CountInv(J)' /\ IsFiniteSet(live') /\ mRefCount' \in [Sessions -> Int]
      /\ ret \in Nat
      /\ ret = 0 => Unused(J, live', issueRef, s)
      /\ \A e \in live' : e.session = s => ret # 0
  BY <1>1, <1>6, <1>8, CountDeleted
<1> HIDE DEF ret
<1>10. PoolAccounting' /\ Free' = Free /\ crashed' = "no" /\ kernel' \in SUBSET live'
  BY <1>1, <1>2, <1>6, <1>8, <1>9
     DEF PoolInv, PoolAccounting, Issued, Free, managerVars, CrashAssert, TypeInv
<1>11. \A e \in kernel' \ kernel : FALSE
  BY <1>6
<1>12. ASSUME NEW p \in Seq(X), todo' = [todo EXCEPT ![t] = p],
              \A u \in Sessions : /\ ~ Starts(p, ConnCalls, u)
                                  /\ Starts(p, RecvCalls, u) => Starts(q, RecvCalls, u),
              Structure(J, todo', live \ {d}, kernel, issueRef, Free, mLock, accepting)
       PROVE  PoolInv(X, J)'
  <2>1. Structured(J)'
    BY <1>6, <1>10, <1>12 DEF Structured, managerVars
  <2>2. \A u \in Sessions : mConnected'[u] = mConnected[u] /\ issueRef' = issueRef
    BY <1>6
  <2>3. ConnInv' /\ RecvInv'
    BY <1>1, <1>6, <1>11, <1>12, <2>2, TokensKept
  <2>4. TypeInv(X)'
    BY <1>1, <1>6, <1>9, <1>10, <1>12 DEF TypeInv, managerVars
  <2> QED BY <1>9, <1>10, <2>1, <2>3, <2>4 DEF PoolInv
<1>13. CASE d = c /\ Tail(q) = <<>>
  <2>1. Held(q) = {c} /\ s = c.session
    BY <1>8, <1>13
  <2>2. CASE ret = 0
    <3> DEFINE p == <<Op("ReturnLock", s)>>
    <3>1. s \in Sessions
      BY <2>1 DEF Contexts
    <3>2. p \in Seq(X)
      BY <3>1 DEF HasPoolOps, PoolOps, Op, OpCalls
    <3>3. p \o <<>> = p
      BY <3>2, ConcatEmptySeq
    <3>4. todo' = [todo EXCEPT ![t] = p]
      <4>1. Do(t, p)
        BY <1>6, <2>2
      <4> HIDE DEF p
      <4>2. todo' = [todo EXCEPT ![t] = p \o Tail(q)]
        BY <1>2, <1>3, <4>1, Doing
      <4> QED BY <1>13, <3>3, <4>2
    <3>5. Unused(J, live \ {c}, issueRef, c.session)
      BY <1>6, <1>9, <1>13, <2>1, <2>2
    <3>6. p[1].call = "ReturnLock" /\ Tail(p) = <<>>
      BY Tails DEF Op
    <3>7. \A u \in Sessions : ~ Starts(p, ConnCalls, u) /\ ~ Starts(p, RecvCalls, u)
      BY <3>6 DEF Starts, ConnCalls, RecvCalls
    <3>8. p = <<Op("ReturnLock", c.session)>>
      BY <2>1
    <3> HIDE DEF p
    <3>9. Structure(J, todo', live \ {c}, kernel, issueRef, Free, mLock, accepting)
      BY <1>2, <1>5, <2>1, <3>2, <3>4, <3>5, <3>8, Finishing
    <3> QED BY <1>12, <1>13, <3>2, <3>4, <3>7, <3>9
  <2>3. CASE ret # 0
    <3>1. todo' = [todo EXCEPT ![t] = <<>>]
      <4>1. Do(t, <<>>)
        BY <1>6, <2>3
      <4> QED BY <1>2, <1>3, <1>13, <4>1, Doing
    <3>2. /\ <<>> \in Seq(X)
          /\ \A u \in Sessions : ~ Starts(<<>>, ConnCalls, u) /\ ~ Starts(<<>>, RecvCalls, u)
      BY DEF Starts
    <3>3. Structure(J, todo', live \ {c}, kernel, issueRef, Free, mLock, accepting)
      BY <1>2, <1>5, <2>1, <3>1, <3>2, Finishing
    <3> QED BY <1>12, <1>13, <3>1, <3>2, <3>3
  <2> QED BY <2>2, <2>3
<1>14. CASE d \in Contexts \ {c} /\ d.session = c.session /\ Onward(Tail(q), c)
  <2> DEFINE r == Tail(q)
  <2>1. ret # 0
    BY <1>6, <1>8, <1>9, <1>14
  <2>2. todo' = [todo EXCEPT ![t] = r]
    <3>1. Do(t, <<>>)
      BY <1>6, <2>1
    <3> QED BY <1>2, <1>3, <3>1, Doing
  <2>3. r \in Seq(X) /\ Onward(r, c)
    BY <1>7, <1>14
  <2>7. \A u : r # <<>> /\ IsOp(r[1], "PreRecv", u) => Starts(q, RecvCalls, u)
    BY <1>3 DEF Starts, RecvCalls
  <2> HIDE DEF r, q
  <2>8. /\ Plan(r, c) /\ Held(r) = {c} /\ r # <<>>
        /\ \A u : ~ Starts(r, ConnCalls, u)
        /\ \A u : Starts(r, RecvCalls, u) => IsOp(r[1], "PreRecv", u)
    BY <2>3, NextRest
  <2>4. /\ Plan(r, c) /\ Held(r) = {c}
        /\ \A u : ~ Starts(r, ConnCalls, u)
        /\ \A u : Starts(r, RecvCalls, u) => Starts(q, RecvCalls, u)
    BY <2>7, <2>8
  <2>5. d \in Held(q) /\ Held(r) = Held(q) \ {d}
    BY <1>8, <1>14, <2>4
  <2>6. Structure(J, todo', live \ {d}, kernel, issueRef, Free, mLock, accepting)
    BY <1>2, <1>5, <2>2, <2>3, <2>4, <2>5, Deleting DEF q
  <2> QED BY <1>12, <2>2, <2>3, <2>4, <2>6
<1> QED BY <1>7, <1>13, <1>14

\* Session::DisconnectCompletion releases the reference of the issue; the
\* context being served keeps the session out of the pool.
LEMMA DisconnectCompletionStep ==
  ASSUME NEW X, HasPoolOps(X), NEW J \in [Sessions -> Nat], PoolInv(X, J), NEW t \in Threads,
         DisconnectCompletion(t)
  PROVE  PoolInv(X, J)'
<1>1. "DisconnectCompletion" \in OpCalls \ (ReturnCalls \cup {"DeleteIoContext"})
  BY DEF OpCalls, ReturnCalls
<1>2. PICK c \in Contexts : Served(X, t, "DisconnectCompletion", c)
  BY <1>1, Caller DEF DisconnectCompletion
<1> DEFINE s == c.session
           r == Tail(todo[t])
           ret == mRefCount[s] - 1
           I == issueRef \ {s}
<1>3. /\ Plan(todo[t], c) /\ Rest(r, c) /\ Onward(r, c) /\ r \in Seq(X) /\ Held(todo[t]) = {c}
      /\ todo[t] # <<>> /\ c \in live /\ s \in Sessions /\ Obj(t) = s
      /\ \A u : u = s => Starts(todo[t], ConnCalls, u)
  BY <1>2 DEF Served, Starts, ConnCalls, Detours
<1>4. /\ issueRef' = I
      /\ mRefCount' = [mRefCount EXCEPT ![s] = ret]
      /\ CrashAssert(ret >= 0, "ReleaseRef")
      /\ Do(t, IF ret = 0 THEN <<Op("ReturnLock", s)>> ELSE <<>>)
      /\ UNCHANGED <<mConnected, associated, managerVars, contextVars, completionOk, accepting>>
  BY <1>3 DEF DisconnectCompletion, ReleaseRef, Set
<1>5. TypeInv(X) /\ ConnInv /\ RecvInv /\ CountInv(J) /\ DOMAIN todo = Threads
  BY DEF PoolInv, TypeInv
<1>6. /\ todo \in [Threads -> Seq(X)] /\ live \in SUBSET Contexts /\ kernel \in SUBSET live
      /\ Structure(J, todo, live, kernel, issueRef, Free, mLock, accepting)
  BY DEF PoolInv, TypeInv, Structured
<1>7. s \in issueRef /\ mConnected[s] = 0 /\ Alone(todo, kernel, s, ConnIO, ConnCalls)
  BY <1>3, <1>5 DEF ConnInv, ConnAt, Token
<1>8. live' = live /\ kernel' = kernel
  BY <1>4 DEF contextVars
<1>9. /\ mRefCount[s] = Cardinality(LiveOf(live, s)) + J[s] + 1
      /\ Cardinality(LiveOf(live, s)) \in Nat \ {0} /\ J[s] \in Nat
  <2>1. IsFiniteSet(live) /\ c \in LiveOf(live, s)
    BY <1>3, <1>5 DEF TypeInv, LiveOf
  <2>2. Cardinality(LiveOf(live, s)) \in Nat /\ Cardinality(LiveOf(live, s)) # 0
    BY <2>1, CountType
  <2> QED BY <1>3, <1>5, <1>7, <2>2 DEF CountInv
<1>10. ret \in Nat \ {0}
  BY <1>9
<1>11. CountInv(J)' /\ mRefCount' \in [Sessions -> Int]
  <2>1. mRefCount \in [Sessions -> Int]
    BY <1>5 DEF TypeInv
  <2>2. ASSUME NEW u \in Sessions
        PROVE  mRefCount'[u] = Cardinality(LiveOf(live, u)) + J[u] + (IF u \in I THEN 1 ELSE 0)
    <3>1. mRefCount[u] = Cardinality(LiveOf(live, u)) + J[u] + (IF u \in issueRef THEN 1 ELSE 0)
      BY <1>5 DEF CountInv
    <3>2. CASE u = s
      BY <1>3, <1>4, <1>9, <2>1, <3>2
    <3>3. CASE u # s
      BY <1>4, <2>1, <3>1, <3>3
    <3> QED BY <3>2, <3>3
  <2>3. mRefCount' \in [Sessions -> Int]
    BY <1>3, <1>4, <1>10, <2>1
  <2> QED BY <1>4, <1>8, <2>2, <2>3 DEF CountInv
<1>12. todo' = [todo EXCEPT ![t] = r]
  <2>1. Do(t, <<>>)
    BY <1>4, <1>10
  <2> QED BY <1>3, <1>6, <2>1, Doing
<1> HIDE DEF r, ret
<1>13. /\ Plan(r, c) /\ Held(r) = Held(todo[t])
       /\ \A u : ~ Starts(r, ConnCalls, u) /\ ~ Starts(r, RecvCalls, u)
  BY <1>3, NextRest
<1>14. Structure(J, todo', live, kernel, issueRef, Free, mLock, accepting)
  <2>1. Structure(J, todo', live \cup {} \cup {}, kernel \cup {}, issueRef, Free, mLock, accepting)
    <3>1. {} \in SUBSET Contexts /\ Held(r) = Held(todo[t]) \cup {}
      BY <1>13
    <3> QED BY ZenonT(60), <1>3, <1>6, <1>12, <1>13, <3>1, Serving
  <2>2. live \cup {} \cup {} = live /\ kernel \cup {} = kernel
    OBVIOUS
  <2> QED BY <2>1, <2>2
<1>15. Structure(J, todo', live, kernel, I, Free, mLock, accepting)
  <2>1. \A u : Unused(J, live, issueRef, u) => Unused(J, live, I, u)
    BY DEF Unused
  <2>2. Idle(J, todo', live, I, Free)
    BY <1>14, <2>1 DEF Structure, Idle
  <2> QED BY <1>14, <2>2 DEF Structure
<1>16. PoolAccounting' /\ Free' = Free /\ crashed' = "no"
  BY <1>4, <1>5, <1>10 DEF PoolInv, PoolAccounting, Issued, Free, managerVars, CrashAssert, TypeInv
<1>17. Structured(J)'
  BY <1>4, <1>8, <1>15, <1>16 DEF Structured, managerVars
<1>18. ASSUME NEW u \in Sessions
       PROVE  ConnAt(todo', kernel', issueRef', mConnected', u)
  <2>1. ConnAt(todo, kernel, issueRef, mConnected, u)
    BY <1>5 DEF ConnInv
  <2>2. mConnected' = mConnected /\ kernel' = kernel /\ issueRef' = I
    BY <1>4, <1>8
  <2>3. CASE u = s
    <3>1. ~ Token(todo', kernel, s, ConnIO, ConnCalls)
      BY <1>3, <1>5, <1>7, <1>12, <1>13, AloneDropped
    <3>2. Alone(todo', kernel, s, ConnIO, ConnCalls)
      BY <1>5, <1>7, <1>12, <1>13, AloneKept
    <3>3. mConnected[s] # 1
      BY <1>7
    <3> QED BY <2>2, <2>3, <3>1, <3>2, <3>3 DEF ConnAt
  <2>4. CASE u # s
    <3>1. u \in issueRef => u \in I
      BY <2>4
    <3> QED BY <1>5, <1>12, <1>13, <2>1, <2>2, <3>1, ConnKept
  <2> QED BY <2>3, <2>4
<1>19. ASSUME NEW u \in Sessions
       PROVE  Alone(todo', kernel', u, RecvIO, RecvCalls)
  <2>1. Alone(todo, kernel, u, RecvIO, RecvCalls) /\ \A e \in kernel' \ kernel : FALSE
    BY <1>5, <1>8 DEF RecvInv
  <2> QED BY <1>5, <1>12, <1>13, <2>1, AloneKept
<1>20. ConnInv' /\ RecvInv'
  BY <1>18, <1>19 DEF ConnInv, RecvInv
<1>21. TypeInv(X)'
  BY <1>3, <1>4, <1>5, <1>8, <1>11, <1>12, <1>16 DEF TypeInv, managerVars
<1> QED BY <1>11, <1>16, <1>17, <1>20, <1>21 DEF PoolInv

-----------------------------------------------------------------------------
(***************************************************************************)
(* The return of a session.                                                *)
(***************************************************************************)
\* Who makes a call of a return has the rest of the return before it.
LEMMA Returner ==
  ASSUME NEW X, NEW J, PoolInv(X, J), NEW t \in Threads, NEW call \in ReturnCalls,
         Calling(t, call)
  PROVE  \E s \in Sessions :
           /\ todo[t] \in Chains(s) /\ todo[t] # <<>> /\ todo[t][1].call = call /\ Obj(t) = s
           /\ Unused(J, live, issueRef, s)
<1> DEFINE q == todo[t]
<1>0. q \in Seq(X) /\ Structured(J)
  BY DEF PoolInv, TypeInv
<1>1. q # <<>> /\ Head(q) = q[1] /\ q[1].call = call /\ Obj(t) = q[1].obj
  BY <1>0, NotEmpty DEF Calling, Obj
<1>2. ReturnCalls \cap (FrontCalls \cup LateCalls) = {}
  BY DEF ReturnCalls, FrontCalls, LateCalls
<1>3. ~ Foreign(q)
  BY <1>0, <1>1, ForeignFacts
<1>4. ASSUME NEW c \in Contexts, Plan(q, c)
      PROVE  FALSE
  <2> HIDE DEF q
  <2> QED BY <1>0, <1>1, <1>2, <1>4, PlanHead
<1>5. PICK s \in Sessions : q \in Chains(s)
  BY <1>0, <1>3, <1>4 DEF Structured, Structure, Shapes
<1>6. q[1].obj = s
  BY <1>5, ChainFacts
<1>7. Unused(J, live, issueRef, s)
  BY <1>0, <1>5 DEF Structured, Structure, Idle
<1> QED BY <1>1, <1>5, <1>6, <1>7

\* The words of a session that nobody uses.
LEMMA UnusedWords ==
  ASSUME NEW X, NEW J \in [Sessions -> Nat], PoolInv(X, J), NEW s \in Sessions,
         Unused(J, live, issueRef, s)
  PROVE  mConnected[s] = 0 /\ mRefCount[s] = 0
<1>1. s \notin issueRef /\ J[s] = 0 /\ LiveOf(live, s) = {}
  BY DEF Unused, LiveOf
<1>2. mConnected[s] # 1 /\ mConnected[s] \in {0, 1}
  BY <1>1 DEF PoolInv, TypeInv, ConnInv, ConnAt
<1>3. Cardinality(LiveOf(live, s)) = 0
  BY <1>1, FS_EmptySet
<1>4. mRefCount[s] = 0 + 0 + 0
  BY <1>1, <1>3 DEF PoolInv, CountInv
<1> QED BY <1>2, <1>4

\* A call of a return other than the last.
LEMMA ChainStep ==
  ASSUME NEW X, NEW J, PoolInv(X, J), NEW t \in Threads, NEW s \in Sessions,
         todo[t] \in Chains(s), NEW q \in Seq(X), q \in Chains(s),
         todo' = [todo EXCEPT ![t] = q],
         \/ mLock' = mLock /\ todo[t][1].call # "ReturnLock"
         \/ mLock' = t /\ mLock = NoThread,
         UNCHANGED <<sessionVars, mFreeSessionList, mCurrentIssueCount, mCurrentReturnCount,
                     contextVars, completionOk, accepting, issueRef, crashed>>
  PROVE  PoolInv(X, J)'
<1>1. TypeInv(X) /\ ConnInv /\ RecvInv /\ CountInv(J)
  BY DEF PoolInv
<1>2. /\ todo \in [Threads -> Seq(X)]
      /\ Structure(J, todo, live, kernel, issueRef, Free, mLock, accepting)
  BY DEF PoolInv, TypeInv, Structured
<1>3. Structure(J, todo', live, kernel, issueRef, Free, mLock', accepting)
  BY <1>2, Chaining
<1>4. Free' = Free /\ PoolAccounting'
  BY DEF PoolInv, PoolAccounting, Issued, Free
<1>5. Structured(J)'
  BY <1>3, <1>4 DEF Structured, contextVars
<1>6. \A u : ~ Starts(q, ConnCalls, u) /\ ~ Starts(q, RecvCalls, u)
  <2>1. /\ ConnCalls \in SUBSET (OpCalls \ (ReturnCalls \cup {"DeleteIoContext"}))
        /\ RecvCalls \in SUBSET (OpCalls \ (ReturnCalls \cup {"DeleteIoContext"}))
    BY DEF ConnCalls, RecvCalls, OpCalls, ReturnCalls
  <2> QED BY <2>1, StartsNone
<1>7. /\ \A e \in kernel' \ kernel : FALSE
      /\ mConnected' = mConnected /\ issueRef' = issueRef
  BY DEF contextVars, sessionVars
<1>8. ConnInv' /\ RecvInv'
  <2>1. \A u \in Sessions :
          /\ Starts(q, ConnCalls, u) => Starts(todo[t], ConnCalls, u)
          /\ Starts(q, RecvCalls, u) => Starts(todo[t], RecvCalls, u)
          /\ mConnected'[u] = mConnected[u] \/ mConnected'[u] = 0
    BY <1>6, <1>7
  <2>2. \A u \in Sessions, d \in kernel' \ kernel :
          /\ OfIO(d, ConnIO, u) => Starts(todo[t], ConnCalls, u) /\ ~ Starts(q, ConnCalls, u)
          /\ OfIO(d, RecvIO, u) => Starts(todo[t], RecvCalls, u) /\ ~ Starts(q, RecvCalls, u)
          /\ \A e \in kernel' \ kernel : e = d
    BY <1>7
  <2>3. issueRef' = issueRef
    BY <1>7
  <2>4. todo' = [todo EXCEPT ![t] = q]
    OBVIOUS
  <2> QED BY <1>1, <2>1, <2>2, <2>3, <2>4, TokensKept
<1>9. CountInv(J)'
  BY <1>1 DEF CountInv, contextVars, sessionVars
<1>10. TypeInv(X)'
  BY <1>1 DEF TypeInv, contextVars, sessionVars
<1> QED BY <1>4, <1>5, <1>8, <1>9, <1>10 DEF PoolInv

\* ClientSessionManager::ReturnClientSession enters mLock.
LEMMA ReturnLockStep ==
  ASSUME NEW X, HasPoolOps(X), NEW J \in [Sessions -> Nat], PoolInv(X, J), NEW t \in Threads,
         ReturnLock(t)
  PROVE  PoolInv(X, J)'
<1>0. "ReturnLock" \in ReturnCalls
  BY DEF ReturnCalls
<1>1. PICK s \in Sessions : /\ todo[t] \in Chains(s) /\ todo[t] # <<>>
                            /\ todo[t][1].call = "ReturnLock" /\ Obj(t) = s
  BY <1>0, Returner DEF ReturnLock
<1>2. todo[t] = <<Op("ReturnLock", s)>>
  BY <1>1 DEF Chains, Op
<1> DEFINE q == <<Op("ReturnAssert", s)>>
<1>3. q \in Seq(X) /\ q \in Chains(s)
  BY DEF HasPoolOps, PoolOps, OpCalls, Op, Chains
<1>4. todo' = [todo EXCEPT ![t] = q]
  <2>1. Do(t, q)
    BY <1>1 DEF ReturnLock
  <2>2. q \o <<>> = q
    BY <1>3, ConcatEmptySeq
  <2>3. Tail(todo[t]) = <<>>
    BY <1>2, Tails
  <2>4. todo \in [Threads -> Seq(X)]
    BY DEF PoolInv, TypeInv
  <2> HIDE DEF q
  <2> QED BY <1>1, <2>1, <2>2, <2>3, <2>4, Doing
<1> HIDE DEF q
<1> QED BY <1>1, <1>3, <1>4, ChainStep DEF ReturnLock

\* Its assertion holds.
LEMMA ReturnAssertStep ==
  ASSUME NEW X, HasPoolOps(X), NEW J \in [Sessions -> Nat], PoolInv(X, J), NEW t \in Threads,
         ReturnAssert(t)
  PROVE  PoolInv(X, J)'
<1>0. "ReturnAssert" \in ReturnCalls
  BY DEF ReturnCalls
<1>1. PICK s \in Sessions : /\ todo[t] \in Chains(s) /\ todo[t] # <<>>
                            /\ todo[t][1].call = "ReturnAssert" /\ Obj(t) = s
                            /\ Unused(J, live, issueRef, s)
  BY <1>0, Returner DEF ReturnAssert
<1>2. todo[t] = <<Op("ReturnAssert", s)>>
  BY <1>1 DEF Chains, Op
<1>3. crashed' = crashed
  BY <1>1, UnusedWords DEF ReturnAssert, CrashAssert
<1> DEFINE q == <<Op("SessionReset", s), Op("ResetSendBuffer", s), Op("ReturnToPool", s)>>
<1>4. q \in Seq(X) /\ q \in Chains(s)
  BY DEF HasPoolOps, PoolOps, OpCalls, Op, Chains
<1>5. todo' = [todo EXCEPT ![t] = q]
  <2>1. Do(t, q)
    BY <1>1 DEF ReturnAssert
  <2>2. q \o <<>> = q
    BY <1>4, ConcatEmptySeq
  <2>3. Tail(todo[t]) = <<>>
    BY <1>2, Tails
  <2>4. todo \in [Threads -> Seq(X)]
    BY DEF PoolInv, TypeInv
  <2> HIDE DEF q
  <2> QED BY <1>1, <2>1, <2>2, <2>3, <2>4, Doing
<1> HIDE DEF q
<1>6. /\ mLock' = mLock /\ todo[t][1].call # "ReturnLock"
      /\ UNCHANGED <<sessionVars, mFreeSessionList, mCurrentIssueCount, mCurrentReturnCount,
                     contextVars, completionOk, accepting, issueRef, crashed>>
  BY <1>1, <1>3 DEF ReturnAssert, managerVars
<1> QED BY <1>1, <1>4, <1>5, <1>6, ChainStep

\* SessionReset overwrites two words that are 0 already.
LEMMA SessionResetStep ==
  ASSUME NEW X, HasPoolOps(X), NEW J \in [Sessions -> Nat], PoolInv(X, J), NEW t \in Threads,
         SessionReset(t)
  PROVE  PoolInv(X, J)'
<1>0. "SessionReset" \in ReturnCalls
  BY DEF ReturnCalls
<1>1. PICK s \in Sessions : /\ todo[t] \in Chains(s) /\ todo[t] # <<>>
                            /\ todo[t][1].call = "SessionReset" /\ Obj(t) = s
                            /\ Unused(J, live, issueRef, s)
  BY <1>0, Returner DEF SessionReset
<1>2. todo[t] = <<Op("SessionReset", s), Op("ResetSendBuffer", s), Op("ReturnToPool", s)>>
  BY <1>1 DEF Chains, Op
<1>3. mConnected' = mConnected /\ mRefCount' = mRefCount
  <2>1. mConnected[s] = 0 /\ mRefCount[s] = 0
    BY <1>1, UnusedWords
  <2>2. mConnected \in [Sessions -> {0, 1}] /\ mRefCount \in [Sessions -> Int]
    BY DEF PoolInv, TypeInv
  <2>3. /\ mConnected' = [mConnected EXCEPT ![s] = 0]
        /\ mRefCount' = [mRefCount EXCEPT ![s] = 0]
    BY <1>1 DEF SessionReset, Set
  <2> QED BY <2>1, <2>2, <2>3
<1> DEFINE q == <<Op("ResetSendBuffer", s), Op("ReturnToPool", s)>>
<1>4. q \in Seq(X) /\ q \in Chains(s)
  BY DEF HasPoolOps, PoolOps, OpCalls, Op, Chains
<1>5. todo' = [todo EXCEPT ![t] = q]
  <2>1. Do(t, <<>>)
    BY <1>1 DEF SessionReset
  <2>2. Tail(todo[t]) = q
    BY <1>2, Tails
  <2>3. todo \in [Threads -> Seq(X)]
    BY DEF PoolInv, TypeInv
  <2> HIDE DEF q
  <2> QED BY <1>1, <2>1, <2>2, <2>3, Doing
<1> HIDE DEF q
<1>6. /\ mLock' = mLock /\ todo[t][1].call # "ReturnLock"
      /\ UNCHANGED <<sessionVars, mFreeSessionList, mCurrentIssueCount, mCurrentReturnCount,
                     contextVars, completionOk, accepting, issueRef, crashed>>
  BY <1>1, <1>3 DEF SessionReset, managerVars, sessionVars
<1> QED BY <1>1, <1>4, <1>5, <1>6, ChainStep

\* The send buffer is reset.
LEMMA ResetSendBufferStep ==
  ASSUME NEW X, HasPoolOps(X), NEW J \in [Sessions -> Nat], PoolInv(X, J), NEW t \in Threads,
         ResetSendBuffer(t)
  PROVE  PoolInv(X, J)'
<1>0. "ResetSendBuffer" \in ReturnCalls
  BY DEF ReturnCalls
<1>1. PICK s \in Sessions : /\ todo[t] \in Chains(s) /\ todo[t] # <<>>
                            /\ todo[t][1].call = "ResetSendBuffer" /\ Obj(t) = s
  BY <1>0, Returner DEF ResetSendBuffer
<1>2. todo[t] = <<Op("ResetSendBuffer", s), Op("ReturnToPool", s)>>
  BY <1>1 DEF Chains, Op
<1> DEFINE q == <<Op("ReturnToPool", s)>>
<1>3. q \in Seq(X) /\ q \in Chains(s)
  BY DEF HasPoolOps, PoolOps, OpCalls, Op, Chains
<1>4. todo' = [todo EXCEPT ![t] = q]
  <2>1. Do(t, <<>>)
    BY <1>1 DEF ResetSendBuffer
  <2>2. Tail(todo[t]) = q
    BY <1>2, Tails
  <2>3. todo \in [Threads -> Seq(X)]
    BY DEF PoolInv, TypeInv
  <2> HIDE DEF q
  <2> QED BY <1>1, <2>1, <2>2, <2>3, Doing
<1> HIDE DEF q
<1>5. /\ mLock' = mLock /\ todo[t][1].call # "ReturnLock"
      /\ UNCHANGED <<sessionVars, mFreeSessionList, mCurrentIssueCount, mCurrentReturnCount,
                     contextVars, completionOk, accepting, issueRef, crashed>>
  BY <1>1 DEF ResetSendBuffer, managerVars
<1> QED BY <1>1, <1>3, <1>4, <1>5, ChainStep

-----------------------------------------------------------------------------
(***************************************************************************)
(* The free list and its two counters.                                     *)
(***************************************************************************)
LEMMA Modulus ==
  ASSUME NEW m \in Nat \ {0}, NEW i \in 0 .. m - 1, NEW r \in 0 .. m - 1
  PROVE  /\ (i - r) % m \in 0 .. m - 1
         /\ (i + 1) % m \in 0 .. m - 1
         /\ ((i - r) % m) + 1 < m => (((i + 1) % m) - r) % m = ((i - r) % m) + 1
         /\ (i - r) % m > 0 => (i - ((r + 1) % m)) % m = ((i - r) % m) - 1
<1>1. \A a \in 0 .. m - 1 : a % m = a
  OBVIOUS
<1>2. \A a \in 0 .. m - 1 : (a - m) % m = a
  OBVIOUS
<1>3. \A a \in 0 .. m - 1 : (a + 1) % m = IF a + 1 = m THEN 0 ELSE a + 1
  OBVIOUS
<1>4. (i - r) % m = IF i >= r THEN i - r ELSE i - r + m
  <2>1. CASE i >= r
    BY <2>1, <1>1
  <2>2. CASE i < r
    <3>1. i - r + m \in 0 .. m - 1 /\ (i - r + m) - m = i - r
      BY <2>2
    <3> QED BY <2>2, <3>1, <1>2
  <2> QED BY <2>1, <2>2
<1>5. \A a, b \in 0 .. m - 1 : (a - b) % m = IF a >= b THEN a - b ELSE a - b + m
  <2> TAKE a \in 0 .. m - 1, b \in 0 .. m - 1
  <2>1. CASE a >= b
    BY <2>1, <1>1
  <2>2. CASE a < b
    <3>1. a - b + m \in 0 .. m - 1 /\ (a - b + m) - m = a - b
      BY <2>2
    <3> QED BY <2>2, <3>1, <1>2
  <2> QED BY <2>1, <2>2
<1>6. (i + 1) % m \in 0 .. m - 1 /\ (r + 1) % m \in 0 .. m - 1
  BY <1>3
<1> DEFINE k == (i - r) % m
           a == (i + 1) % m
           b == (r + 1) % m
<1>7. /\ a = IF i + 1 = m THEN 0 ELSE i + 1
      /\ b = IF r + 1 = m THEN 0 ELSE r + 1
      /\ k = IF i >= r THEN i - r ELSE i - r + m
      /\ (a - r) % m = IF a >= r THEN a - r ELSE a - r + m
      /\ (i - b) % m = IF i >= b THEN i - b ELSE i - b + m
  BY <1>3, <1>4, <1>5, <1>6
<1> HIDE DEF k, a, b
<1>8. k + 1 < m => (a - r) % m = k + 1
  <2>1. CASE i + 1 = m
    BY <1>7, <2>1
  <2>2. CASE i + 1 # m
    BY <1>7, <2>2
  <2> QED BY <2>1, <2>2
<1>9. k > 0 => (i - b) % m = k - 1
  <2>1. CASE r + 1 = m
    BY <1>7, <2>1
  <2>2. CASE r + 1 # m
    BY <1>7, <2>2
  <2> QED BY <2>1, <2>2
<1> QED BY <1>4, <1>6, <1>8, <1>9 DEF k, a, b

\* A list of sessions without repetition is no longer than the pool, and shorter
\* if it lacks one.
LEMMA ListLength ==
  ASSUME NEW f \in Seq(Sessions), IsInjective(f), NEW s \in Sessions,
         \A i \in 1 .. Len(f) : f[i] # s
  PROVE  Len(f) < Cardinality(Sessions)
<1>1. IsFiniteSet(Sessions)
  BY SessionPoolAssumption
<1>2. /\ IsFiniteSet(Sessions \ {s})
      /\ Cardinality(Sessions \ {s}) = Cardinality(Sessions) - 1
      /\ Cardinality(Sessions) \in Nat
  BY <1>1, FS_RemoveElement, FS_CardinalityType
<1>3. Len(f) \in Nat /\ DOMAIN f = 1 .. Len(f) /\ f \in [1 .. Len(f) -> Sessions]
  BY LenProperties
<1>4. f \in [1 .. Len(f) -> Sessions \ {s}]
  BY <1>3
<1>5. f \in Injection(1 .. Len(f), Sessions \ {s})
  BY <1>4 DEF Injection
<1>6. Cardinality(1 .. Len(f)) <= Cardinality(Sessions \ {s})
  BY <1>2, <1>5, FS_Injection
<1>7. Cardinality(1 .. Len(f)) = Len(f)
  <2> DEFINE n == Len(f)
  <2>1. n \in Nat /\ 1 \in Int /\ n \in Int
    BY <1>3
  <2> HIDE DEF n
  <2>2. Cardinality(1 .. n) = IF 1 > n THEN 0 ELSE n - 1 + 1
    BY <2>1, FS_Interval
  <2>3. Cardinality(1 .. n) = n
    BY <2>1, <2>2
  <2> QED BY <2>3 DEF n
<1> QED BY <1>2, <1>3, <1>6, <1>7

\* A session is put at the end of a list that lacks it.
LEMMA ListAppend ==
  ASSUME NEW f \in Seq(Sessions), IsInjective(f), NEW s \in Sessions,
         \A i \in 1 .. Len(f) : f[i] # s
  PROVE  /\ Append(f, s) \in Seq(Sessions) /\ IsInjective(Append(f, s))
         /\ Len(Append(f, s)) = Len(f) + 1
         /\ \A u : (\E i \in DOMAIN Append(f, s) : Append(f, s)[i] = u)
                     <=> u = s \/ \E i \in DOMAIN f : f[i] = u
<1> DEFINE g == Append(f, s)
<1>1. /\ g \in Seq(Sessions) /\ Len(g) = Len(f) + 1
      /\ \A i \in 1 .. Len(f) : g[i] = f[i]
      /\ g[Len(f) + 1] = s
  BY AppendProperties
<1>2. /\ DOMAIN f = 1 .. Len(f) /\ Len(f) \in Nat /\ DOMAIN g = 1 .. Len(f) + 1
  BY <1>1, LenProperties
<1> HIDE DEF g
<1>3. \A i \in DOMAIN g : (i \in 1 .. Len(f) /\ g[i] = f[i]) \/ (i = Len(f) + 1 /\ g[i] = s)
  BY <1>1, <1>2
<1>4. IsInjective(g)
  BY <1>2, <1>3 DEF IsInjective
<1>5. ASSUME NEW u, NEW i \in DOMAIN f, f[i] = u
      PROVE  \E k \in DOMAIN g : g[k] = u
  BY <1>1, <1>2, <1>5
<1>6. \E k \in DOMAIN g : g[k] = s
  <2>1. Len(f) + 1 \in DOMAIN g
    BY <1>2
  <2> QED BY <1>1, <2>1
<1>7. ASSUME NEW u, NEW i \in DOMAIN g, g[i] = u
      PROVE  u = s \/ \E k \in DOMAIN f : f[k] = u
  BY <1>2, <1>3, <1>7
<1> QED BY <1>1, <1>4, <1>5, <1>6, <1>7 DEF g

\* The last session is taken from a list.
LEMMA ListFront ==
  ASSUME NEW f \in Seq(Sessions), IsInjective(f), f # <<>>
  PROVE  /\ Last(f) \in Sessions /\ \E i \in DOMAIN f : f[i] = Last(f)
         /\ Front(f) \in Seq(Sessions) /\ IsInjective(Front(f))
         /\ Len(Front(f)) = Len(f) - 1
         /\ \A u : (\E i \in DOMAIN Front(f) : Front(f)[i] = u)
                     <=> u # Last(f) /\ \E i \in DOMAIN f : f[i] = u
<1> DEFINE g == Front(f)
           n == Len(f)
<1>1. n \in Nat \ {0} /\ DOMAIN f = 1 .. n /\ f \in [1 .. n -> Sessions]
  BY EmptySeq, LenProperties
<1> HIDE DEF n
<1>2. g = SubSeq(f, 1, n - 1)
  BY DEF Front, n
<1>3. n - 1 \in Int /\ 1 \in Int /\ \A i \in 1 .. n - 1 : f[i] \in Sessions
  BY <1>1
<1>4. /\ g \in Seq(Sessions)
      /\ Len(g) = IF 1 <= n - 1 THEN n - 1 - 1 + 1 ELSE 0
      /\ \A i \in 1 .. n - 1 - 1 + 1 : g[i] = f[1 + i - 1]
  <2> HIDE DEF g
  <2> QED BY <1>2, <1>3, SubSeqProperties
<1> HIDE DEF g
<1>5. Len(g) = n - 1 /\ \A i \in 1 .. n - 1 : g[i] = f[i]
  BY <1>1, <1>4
<1>6. DOMAIN g = 1 .. n - 1
  BY <1>4, <1>5, LenProperties
<1>7. Last(f) = f[n] /\ n \in DOMAIN f
  BY <1>1 DEF Last, n
<1>8. IsInjective(g)
  BY <1>1, <1>5, <1>6 DEF IsInjective
<1>9. ASSUME NEW u, NEW i \in DOMAIN g, g[i] = u
      PROVE  u # Last(f) /\ \E k \in DOMAIN f : f[k] = u
  <2>1. i \in DOMAIN f /\ f[i] = u /\ i # n
    BY <1>1, <1>5, <1>6, <1>9
  <2> QED BY <1>7, <2>1 DEF IsInjective
<1>10. ASSUME NEW u, u # Last(f), NEW i \in DOMAIN f, f[i] = u
       PROVE  \E k \in DOMAIN g : g[k] = u
  <2>1. i \in 1 .. n - 1
    BY <1>1, <1>7, <1>10
  <2> QED BY <1>5, <1>6, <1>10, <2>1
<1>11. Last(f) \in Sessions
  BY <1>1, <1>7
<1> QED BY <1>4, <1>5, <1>7, <1>8, <1>9, <1>10, <1>11 DEF g, n

\* A session of the free list is in no thread's way; the list is as long as the
\* counters say.
LEMMA FreeList ==
  ASSUME NEW X, NEW J, PoolInv(X, J)
  PROVE  /\ DOMAIN mFreeSessionList = 1 .. Len(mFreeSessionList)
         /\ Len(mFreeSessionList) \in Nat
         /\ CounterModulus \in Nat \ {0}
         /\ Cardinality(Sessions) \in Nat /\ Cardinality(Sessions) < CounterModulus
         /\ Issued \in 0 .. CounterModulus - 1
         /\ Len(mFreeSessionList) = Cardinality(Sessions) - Issued
         /\ IsInjective(mFreeSessionList)
<1>1. /\ mFreeSessionList \in Seq(Sessions)
      /\ mCurrentIssueCount \in 0 .. CounterModulus - 1
      /\ mCurrentReturnCount \in 0 .. CounterModulus - 1
  BY DEF PoolInv, TypeInv
<1>2. Cardinality(Sessions) \in Nat
  BY SessionPoolAssumption, FS_CardinalityType
<1>3. CounterModulus \in Nat /\ CounterModulus > Cardinality(Sessions)
  BY SessionPoolAssumption
<1>4. CounterModulus \in Nat \ {0} /\ Cardinality(Sessions) < CounterModulus
  BY <1>2, <1>3
<1>5. Issued \in 0 .. CounterModulus - 1
  BY <1>1, <1>4, Modulus DEF Issued
<1> QED BY <1>1, <1>2, <1>4, <1>5, LenProperties DEF PoolInv, PoolAccounting

\* The session is back in the list, and the return is counted.
LEMMA ReturnToPoolStep ==
  ASSUME NEW X, HasPoolOps(X), NEW J \in [Sessions -> Nat], PoolInv(X, J), NEW t \in Threads,
         ReturnToPool(t)
  PROVE  PoolInv(X, J)'
<1>0. "ReturnToPool" \in ReturnCalls
  BY DEF ReturnCalls
<1>1. PICK s \in Sessions : /\ todo[t] \in Chains(s) /\ todo[t] # <<>>
                            /\ todo[t][1].call = "ReturnToPool" /\ Obj(t) = s
  BY <1>0, Returner DEF ReturnToPool
<1>2. todo[t] = <<Op("ReturnToPool", s)>>
  BY <1>1 DEF Chains, Op
<1>3. /\ associated' = [associated EXCEPT ![s] = FALSE]
      /\ mFreeSessionList' = Append(mFreeSessionList, s)
      /\ mCurrentReturnCount' = (mCurrentReturnCount + 1) % CounterModulus
      /\ mLock' = NoThread
      /\ Do(t, <<>>)
      /\ UNCHANGED <<mConnected, mRefCount, mCurrentIssueCount, contextVars, completionOk,
                     accepting, issueRef, crashed>>
  BY <1>1 DEF ReturnToPool, Set
<1>4. TypeInv(X) /\ ConnInv /\ RecvInv /\ CountInv(J)
  BY DEF PoolInv
<1>5. /\ todo \in [Threads -> Seq(X)] /\ mFreeSessionList \in Seq(Sessions)
      /\ Free \in SUBSET Sessions
      /\ Structure(J, todo, live, kernel, issueRef, Free, mLock, accepting)
  BY FreeSessions DEF PoolInv, TypeInv, Structured
<1>6. todo' = [todo EXCEPT ![t] = <<>>]
  <2>1. Tail(todo[t]) = <<>>
    BY <1>2, Tails
  <2> QED BY <1>1, <1>3, <1>5, <2>1, Doing
<1>7. /\ Structure(J, todo', live, kernel, issueRef, Free \cup {s}, NoThread, accepting)
      /\ s \notin Free
  BY <1>2, <1>5, <1>6, Returned
<1>8. \A i \in 1 .. Len(mFreeSessionList) : mFreeSessionList[i] # s
  BY <1>7, FreeList DEF Free
<1>9. /\ mFreeSessionList' \in Seq(Sessions) /\ IsInjective(mFreeSessionList')
      /\ Len(mFreeSessionList') = Len(mFreeSessionList) + 1
      /\ Free' = Free \cup {s}
  <2>1. IsInjective(mFreeSessionList)
    BY FreeList
  <2>2. /\ mFreeSessionList' \in Seq(Sessions) /\ IsInjective(mFreeSessionList')
        /\ Len(mFreeSessionList') = Len(mFreeSessionList) + 1
        /\ \A u : (\E i \in DOMAIN mFreeSessionList' : mFreeSessionList'[i] = u)
                    <=> u = s \/ \E i \in DOMAIN mFreeSessionList : mFreeSessionList[i] = u
    <3>1. /\ Append(mFreeSessionList, s) \in Seq(Sessions)
          /\ IsInjective(Append(mFreeSessionList, s))
          /\ Len(Append(mFreeSessionList, s)) = Len(mFreeSessionList) + 1
          /\ \A u : (\E i \in DOMAIN Append(mFreeSessionList, s) :
                      Append(mFreeSessionList, s)[i] = u)
                      <=> u = s \/ \E i \in DOMAIN mFreeSessionList : mFreeSessionList[i] = u
      BY <1>5, <1>8, <2>1, ListAppend
    <3> QED BY <1>3, <3>1
  <2>3. Free' = Free \cup {s}
    BY <2>2 DEF Free
  <2> QED BY <2>2, <2>3
<1>10. Issued > 0
  <2>1. Len(mFreeSessionList) < Cardinality(Sessions)
    BY <1>5, <1>8, FreeList, ListLength
  <2> QED BY <2>1, FreeList
<1>11. mCurrentReturnCount' \in 0 .. CounterModulus - 1 /\ Issued' = Issued - 1
  <2>1. /\ mCurrentIssueCount \in 0 .. CounterModulus - 1
        /\ mCurrentReturnCount \in 0 .. CounterModulus - 1
        /\ CounterModulus \in Nat \ {0}
    BY <1>4, FreeList DEF TypeInv
  <2>2. (mCurrentReturnCount + 1) % CounterModulus \in 0 .. CounterModulus - 1
    BY <2>1, Modulus
  <2>3. (mCurrentIssueCount - mCurrentReturnCount) % CounterModulus > 0
    BY <1>10 DEF Issued
  <2>4. (mCurrentIssueCount - ((mCurrentReturnCount + 1) % CounterModulus)) % CounterModulus
          = ((mCurrentIssueCount - mCurrentReturnCount) % CounterModulus) - 1
    BY <2>1, <2>3, Modulus
  <2>5. mCurrentIssueCount' = mCurrentIssueCount
    BY <1>3
  <2>6. Issued' = (mCurrentIssueCount - ((mCurrentReturnCount + 1) % CounterModulus))
                    % CounterModulus
    <3>1. Issued' = (mCurrentIssueCount' - mCurrentReturnCount') % CounterModulus
      BY DEF Issued
    <3>2. mCurrentReturnCount' = (mCurrentReturnCount + 1) % CounterModulus
      BY <1>3
    <3> QED BY <2>5, <3>1, <3>2, Zenon
  <2> QED BY <1>3, <2>2, <2>4, <2>6 DEF Issued
<1>12. PoolAccounting'
  <2>1. Len(mFreeSessionList') = Cardinality(Sessions) - Issued'
    BY <1>9, <1>11, FreeList
  <2> QED BY <1>9, <2>1 DEF PoolAccounting
<1>13. Structured(J)'
  BY <1>3, <1>7, <1>9 DEF Structured, contextVars
<1>14. ConnInv' /\ RecvInv'
  <2>1. /\ mConnected' = mConnected /\ issueRef' = issueRef /\ kernel' = kernel
        /\ \A u : ~ Starts(<<>>, ConnCalls, u) /\ ~ Starts(<<>>, RecvCalls, u)
    BY <1>3 DEF contextVars, Starts
  <2>2. \A u \in Sessions :
          /\ Starts(<<>>, ConnCalls, u) => Starts(todo[t], ConnCalls, u)
          /\ Starts(<<>>, RecvCalls, u) => Starts(todo[t], RecvCalls, u)
          /\ mConnected'[u] = mConnected[u] \/ mConnected'[u] = 0
    BY <2>1
  <2>3. \A u \in Sessions, d \in kernel' \ kernel :
          /\ OfIO(d, ConnIO, u) => Starts(todo[t], ConnCalls, u) /\ ~ Starts(<<>>, ConnCalls, u)
          /\ OfIO(d, RecvIO, u) => Starts(todo[t], RecvCalls, u) /\ ~ Starts(<<>>, RecvCalls, u)
          /\ \A e \in kernel' \ kernel : e = d
    BY <2>1
  <2> QED BY <1>4, <1>6, <2>1, <2>2, <2>3, TokensKept
<1>15. CountInv(J)'
  BY <1>3, <1>4 DEF CountInv, contextVars
<1>16. TypeInv(X)'
  <2>1. todo' \in [Threads -> Seq(X)]
    BY <1>5, <1>6
  <2>2. associated' \in [Sessions -> BOOLEAN]
    BY <1>3, <1>4 DEF TypeInv
  <2> QED BY <1>3, <1>4, <1>9, <1>11, <2>1, <2>2 DEF TypeInv, contextVars
<1> QED BY <1>12, <1>13, <1>14, <1>15, <1>16 DEF PoolInv

-----------------------------------------------------------------------------
(***************************************************************************)
(* AcceptClientSessions.                                                   *)
(***************************************************************************)
\* The main thread enters mLock, and leaves it.
LEMMA AcceptLockStep ==
  ASSUME NEW X, NEW J, PoolInv(X, J), AcceptLock
  PROVE  PoolInv(X, J)'
<1>1. TypeInv(X) /\ ConnInv /\ RecvInv /\ CountInv(J) /\ PoolAccounting /\ Structured(J)
  BY DEF PoolInv
<1>2. /\ accepting = "Sleep" /\ mLock = NoThread /\ mLock' = Main /\ accepting' = "Loop"
      /\ UNCHANGED <<sessionVars, mFreeSessionList, mCurrentIssueCount,
                     mCurrentReturnCount, contextVars, threadVars, issueRef, crashed>>
  BY DEF AcceptLock
<1>3. /\ todo' = todo /\ live' = live /\ kernel' = kernel /\ issueRef' = issueRef
      /\ mConnected' = mConnected /\ mRefCount' = mRefCount /\ Free' = Free
  BY <1>2 DEF threadVars, contextVars, sessionVars, Free
<1>4. Structure(J, todo, live, kernel, issueRef, Free, Main, "Loop")
  BY <1>1, <1>2, Locked DEF Structured
<1>5. Structured(J)'
  BY <1>2, <1>3, <1>4 DEF Structured
<1>6. ConnInv' /\ RecvInv'
  BY <1>1, <1>3 DEF ConnInv, RecvInv
<1>7. CountInv(J)' /\ PoolAccounting'
  BY <1>1, <1>2, <1>3 DEF CountInv, PoolAccounting, Issued
<1>8. TypeInv(X)'
  BY <1>1, <1>2, <1>3, MainThread DEF TypeInv, sessionVars, threadVars
<1> QED BY <1>5, <1>6, <1>7, <1>8 DEF PoolInv

LEMMA AcceptUnlockStep ==
  ASSUME NEW X, NEW J, PoolInv(X, J), AcceptUnlock
  PROVE  PoolInv(X, J)'
<1>1. TypeInv(X) /\ ConnInv /\ RecvInv /\ CountInv(J) /\ PoolAccounting /\ Structured(J)
  BY DEF PoolInv
<1>2. /\ \/ accepting = "Loop" /\ accepting' = "Sleep"
         \/ accepting = "Failed" /\ todo[Main] = <<>> /\ accepting' = "Stopped"
      /\ mLock' = NoThread
      /\ UNCHANGED <<sessionVars, mFreeSessionList, mCurrentIssueCount,
                     mCurrentReturnCount, contextVars, threadVars, issueRef, crashed>>
  BY DEF AcceptUnlock
<1>3. /\ todo' = todo /\ live' = live /\ kernel' = kernel /\ issueRef' = issueRef
      /\ mConnected' = mConnected /\ mRefCount' = mRefCount /\ Free' = Free
  BY <1>2 DEF threadVars, contextVars, sessionVars, Free
<1>4. Structure(J, todo, live, kernel, issueRef, Free, NoThread, accepting')
  BY <1>1, <1>2, Unlocked DEF Structured
<1>5. Structured(J)'
  BY <1>2, <1>3, <1>4 DEF Structured
<1>6. ConnInv' /\ RecvInv'
  BY <1>1, <1>3 DEF ConnInv, RecvInv
<1>7. CountInv(J)' /\ PoolAccounting'
  BY <1>1, <1>2, <1>3 DEF CountInv, PoolAccounting, Issued
<1>8. TypeInv(X)'
  BY <1>1, <1>2, <1>3 DEF TypeInv, sessionVars, threadVars
<1> QED BY <1>5, <1>6, <1>7, <1>8 DEF PoolInv

\* The counts when a session is issued: its accept context and the reference of
\* the issue.
LEMMA CountIssued ==
  ASSUME NEW X, NEW J \in [Sessions -> Nat], TypeInv(X), CountInv(J), NEW s \in Sessions,
         s \notin issueRef, NEW c \in Contexts, c \notin live, c.session = s,
         mRefCount' = [mRefCount EXCEPT ![s] = mRefCount[s] + 2],
         live' = live \cup {c}, issueRef' = issueRef \cup {s}
  PROVE  CountInv(J)' /\ IsFiniteSet(live') /\ mRefCount' \in [Sessions -> Int]
<1>1. IsFiniteSet(live) /\ mRefCount \in [Sessions -> Int]
  BY DEF TypeInv
<1>2. /\ IsFiniteSet(live')
      /\ \A u : Cardinality(LiveOf(live', u))
                  = Cardinality(LiveOf(live, u)) + (IF c.session = u THEN 1 ELSE 0)
  BY <1>1, CountNew
<1>3. \A u : Cardinality(LiveOf(live, u)) \in Nat
  BY <1>1, CountType
<1>4. ASSUME NEW u \in Sessions
      PROVE  mRefCount'[u] = Cardinality(LiveOf(live', u)) + J[u]
                               + (IF u \in issueRef' THEN 1 ELSE 0)
  <2>1. mRefCount[u] = Cardinality(LiveOf(live, u)) + J[u] + (IF u \in issueRef THEN 1 ELSE 0)
    BY DEF CountInv
  <2>2. J[u] \in Nat /\ Cardinality(LiveOf(live, u)) \in Nat
    BY <1>3
  <2>3. CASE u = s
    <3>1. mRefCount'[u] = mRefCount[u] + 2 /\ u \in issueRef' /\ u \notin issueRef
      BY <1>1, <2>3
    <3>2. Cardinality(LiveOf(live', u)) = Cardinality(LiveOf(live, u)) + 1
      BY <1>2, <2>3
    <3> QED BY <2>1, <2>2, <3>1, <3>2
  <2>4. CASE u # s
    <3>1. mRefCount'[u] = mRefCount[u] /\ (u \in issueRef' <=> u \in issueRef)
      BY <1>1, <2>4
    <3>2. Cardinality(LiveOf(live', u)) = Cardinality(LiveOf(live, u)) + 0
      BY <1>2, <2>4
    <3> QED BY <2>1, <2>2, <3>1, <3>2
  <2> QED BY <2>3, <2>4
<1>5. mRefCount' \in [Sessions -> Int]
  <2>1. mRefCount[s] + 2 \in Int
    BY <1>1
  <2> QED BY <1>1, <2>1
<1> QED BY <1>2, <1>4, <1>5 DEF CountInv

\* The tokens when session s, which nobody uses, is issued: the accept context
\* has both, or is deleted at once.
LEMMA TokensIssued ==
  ASSUME NEW X, NEW J \in [Sessions -> Nat], PoolInv(X, J), NEW s \in Sessions,
         Unused(J, live, issueRef, s), NEW c, c.session = s,
         todo[Main] = <<>>, NEW q,
         \A u : ~ Starts(q, ConnCalls, u) /\ ~ Starts(q, RecvCalls, u),
         todo' = [todo EXCEPT ![Main] = q],
         kernel' = kernel \/ kernel' = kernel \cup {c},
         issueRef' = issueRef \cup {s}, mConnected' = mConnected
  PROVE  ConnInv' /\ RecvInv'
<1>1. ConnInv /\ RecvInv /\ DOMAIN todo = Threads /\ Main \in Threads
  BY MainThread DEF PoolInv, TypeInv
<1>2. ~ Token(todo, kernel, s, ConnIO, ConnCalls) /\ ~ Token(todo, kernel, s, RecvIO, RecvCalls)
  <2>1. /\ todo \in [Threads -> Seq(X)] /\ live \in SUBSET Contexts /\ kernel \in SUBSET live
        /\ Structure(J, todo, live, kernel, issueRef, Free, mLock, accepting)
        /\ \A d \in live : d.session # s
    BY DEF PoolInv, TypeInv, Structured, Unused
  <2>2. /\ ConnCalls \in SUBSET (OpCalls \ (ReturnCalls \cup {"DeleteIoContext"}))
        /\ RecvCalls \in SUBSET (OpCalls \ (ReturnCalls \cup {"DeleteIoContext"}))
    BY DEF ConnCalls, RecvCalls, OpCalls, ReturnCalls
  <2> QED BY SMTT(30), <2>1, <2>2, NoToken
<1>3. mConnected[s] = 0
  BY UnusedWords
<1>4. \A d \in kernel' \ kernel : d = c
  OBVIOUS
<1>5. ASSUME NEW u \in Sessions
      PROVE  ConnAt(todo', kernel', issueRef', mConnected', u)
  <2>1. CASE u = s
    <3>1. Alone(todo', kernel', s, ConnIO, ConnCalls)
      BY <1>1, <1>2, <1>4, AloneMade
    <3> QED BY <1>3, <2>1, <3>1 DEF ConnAt
  <2>2. CASE u # s
    <3>1. ConnAt(todo, kernel, issueRef, mConnected, u)
      BY <1>1 DEF ConnInv
    <3>2. \A d \in kernel' \ kernel : ~ OfIO(d, ConnIO, u)
      BY <1>4, <2>2 DEF OfIO
    <3>3. u \in issueRef => u \in issueRef'
      OBVIOUS
    <3> QED BY <1>1, <3>1, <3>2, <3>3, ConnKept
  <2> QED BY <2>1, <2>2
<1>6. ASSUME NEW u \in Sessions
      PROVE  Alone(todo', kernel', u, RecvIO, RecvCalls)
  <2>1. CASE u = s
    <3>1. Alone(todo', kernel', s, RecvIO, RecvCalls)
      BY <1>1, <1>2, <1>4, AloneMade
    <3> QED BY <2>1, <3>1
  <2>2. CASE u # s
    <3>1. Alone(todo, kernel, u, RecvIO, RecvCalls)
      BY <1>1 DEF RecvInv
    <3>2. \A d \in kernel' \ kernel : ~ OfIO(d, RecvIO, u)
      BY <1>4, <2>2 DEF OfIO
    <3> QED BY <1>1, <3>1, <3>2, AloneKept
  <2> QED BY <2>1, <2>2
<1> QED BY <1>5, <1>6 DEF ConnInv, RecvInv

\* The session that AcceptClientSessions issues is the last of the free list: the list
\* is not empty, the session is unused, and there is a context for its accept.
LEMMA IssuedSession ==
  ASSUME NEW X, NEW J, PoolInv(X, J), AcceptIssue
  PROVE  LET s == Last(mFreeSessionList)
             c == NewContext(s, "IO_ACCEPT")
         IN  /\ s \in Sessions /\ s \in Free /\ Unused(J, live, issueRef, s)
             /\ mFreeSessionList' \in Seq(Sessions) /\ IsInjective(mFreeSessionList')
             /\ Len(mFreeSessionList') = Len(mFreeSessionList) - 1
             /\ Free' = Free \ {s}
             /\ c \in Contexts /\ c \notin live /\ c.session = s /\ c.io = "IO_ACCEPT"
<1> DEFINE f == mFreeSessionList
           s == Last(f)
           c == NewContext(s, "IO_ACCEPT")
<1>2. /\ f \in Seq(Sessions)
      /\ Structure(J, todo, live, kernel, issueRef, Free, mLock, accepting)
  BY DEF PoolInv, TypeInv, Structured
<1>3. Issued < Cardinality(Sessions) /\ f' = Front(f)
  BY DEF AcceptIssue
<1>4. f # <<>>
  <2>1. Len(f) # 0
    BY <1>3, FreeList
  <2> QED BY <2>1, Empty
<1>5. /\ s \in Sessions /\ s \in Free
      /\ f' \in Seq(Sessions) /\ IsInjective(f') /\ Len(f') = Len(f) - 1
      /\ Free' = Free \ {s}
  <2>1. IsInjective(f)
    BY FreeList
  <2>2. /\ s \in Sessions /\ \E i \in DOMAIN f : f[i] = s
        /\ Front(f) \in Seq(Sessions) /\ IsInjective(Front(f)) /\ Len(Front(f)) = Len(f) - 1
        /\ \A u : (\E i \in DOMAIN Front(f) : Front(f)[i] = u)
                    <=> u # s /\ \E i \in DOMAIN f : f[i] = u
    BY <1>2, <1>4, <2>1, ListFront
  <2> HIDE DEF s
  <2>3. /\ f' \in Seq(Sessions) /\ IsInjective(f') /\ Len(f') = Len(f) - 1
        /\ \A u : (\E i \in DOMAIN f' : f'[i] = u)
                    <=> u # s /\ \E i \in DOMAIN f : f[i] = u
    BY <1>3, <2>2
  <2>4. Free' = Free \ {s}
    BY <2>3 DEF Free
  <2> QED BY <2>2, <2>3, <2>4 DEF Free
<1> HIDE DEF s
<1>6. Unused(J, live, issueRef, s)
  BY <1>2, <1>5 DEF Structure, Idle
<1>7. HasNewContext(s, "IO_ACCEPT")
  <2>1. PICK k \in Slots : TRUE
    BY SessionPoolAssumption
  <2> DEFINE e == [session |-> s, io |-> "IO_ACCEPT", slot |-> k]
  <2>2. e \in Contexts /\ e.session = s /\ e.io = "IO_ACCEPT"
    BY <1>5 DEF Contexts, IOTypes
  <2>3. e \notin live
    BY <1>6, <2>2 DEF Unused
  <2> QED BY <2>2, <2>3 DEF HasNewContext
<1>8. c \in Contexts /\ c \notin live /\ c.session = s /\ c.io = "IO_ACCEPT"
  BY <1>5, <1>7, Fresh
<1> QED BY <1>5, <1>6, <1>8 DEF s

\* AcceptClientSessions issues the last session of the free list, which nobody
\* uses.
LEMMA AcceptIssueStep ==
  ASSUME NEW X, HasPoolOps(X), NEW J \in [Sessions -> Nat], PoolInv(X, J), AcceptIssue
  PROVE  PoolInv(X, J)'
<1> DEFINE f == mFreeSessionList
           s == Last(f)
           c == NewContext(s, "IO_ACCEPT")
           d == <<Op("DeleteIoContext", c)>>
<1>1. TypeInv(X) /\ ConnInv /\ RecvInv /\ CountInv(J) /\ DOMAIN todo = Threads
  BY DEF PoolInv, TypeInv
<1>2. /\ todo \in [Threads -> Seq(X)] /\ f \in Seq(Sessions) /\ Free \in SUBSET Sessions
      /\ live \in SUBSET Contexts /\ kernel \in SUBSET live
      /\ Structure(J, todo, live, kernel, issueRef, Free, mLock, accepting)
  BY FreeSessions DEF PoolInv, TypeInv, Structured
<1>3. /\ accepting = "Loop" /\ Issued < Cardinality(Sessions)
      /\ f' = Front(f)
      /\ mRefCount' = [mRefCount EXCEPT ![s] = mRefCount[s] + 2]
      /\ live' = live \cup {c}
      /\ issueRef' = issueRef \cup {s}
      /\ mCurrentIssueCount' = (mCurrentIssueCount + 1) % CounterModulus
      /\ UNCHANGED <<mConnected, associated, mCurrentReturnCount, mLock, completionOk, crashed>>
      /\ \/ kernel' = kernel \cup {c} /\ todo' = todo /\ accepting' = accepting
         \/ /\ todo' = [todo EXCEPT ![Main] = d]
            /\ accepting' = "Failed" /\ kernel' = kernel
  BY DEF AcceptIssue, Set
<1>4. /\ s \in Sessions /\ s \in Free /\ Unused(J, live, issueRef, s)
      /\ f' \in Seq(Sessions) /\ IsInjective(f') /\ Len(f') = Len(f) - 1
      /\ Free' = Free \ {s}
      /\ c \in Contexts /\ c \notin live /\ c.session = s
  BY IssuedSession
<1> HIDE DEF s, c
<1>9. d \in Seq(X) /\ \A u : ~ Starts(d, ConnCalls, u) /\ ~ Starts(d, RecvCalls, u)
  BY <1>4, Tails DEF HasPoolOps, PoolOps, Op, OpCalls, Starts, ConnCalls, RecvCalls
<1>10. todo[Main] = <<>> /\ Main \in Threads
  BY <1>2, <1>3, MainThread DEF Structure, Locking
<1>11. CountInv(J)' /\ IsFiniteSet(live') /\ mRefCount' \in [Sessions -> Int]
  BY <1>1, <1>3, <1>4, CountIssued DEF Unused
<1>12. /\ Structure(J, todo, live \cup {c}, kernel \cup {c}, issueRef \cup {s}, Free \ {s},
                    mLock, "Loop")
       /\ Structure(J, [todo EXCEPT ![Main] = d], live \cup {c}, kernel, issueRef \cup {s},
                    Free \ {s}, mLock, "Failed")
  BY <1>2, <1>3, <1>4, <1>9, Issuing
<1>13. Structured(J)'
  BY <1>3, <1>4, <1>12 DEF Structured
<1>14. ConnInv' /\ RecvInv'
  <2>1. CASE kernel' = kernel \cup {c} /\ todo' = todo
    <3>1. todo' = [todo EXCEPT ![Main] = <<>>]
      BY <1>2, <1>10, <2>1
    <3>2. \A u : ~ Starts(<<>>, ConnCalls, u) /\ ~ Starts(<<>>, RecvCalls, u)
      BY DEF Starts
    <3> QED BY <1>3, <1>4, <1>10, <2>1, <3>1, <3>2, TokensIssued
  <2>2. CASE kernel' = kernel /\ todo' = [todo EXCEPT ![Main] = d]
    <3> HIDE DEF d
    <3> QED BY <1>3, <1>4, <1>9, <1>10, <2>2, TokensIssued
  <2> QED BY <1>3, <2>1, <2>2
<1>15. mCurrentIssueCount' \in 0 .. CounterModulus - 1 /\ Issued' = Issued + 1
  <2>1. /\ mCurrentIssueCount \in 0 .. CounterModulus - 1
        /\ mCurrentReturnCount \in 0 .. CounterModulus - 1
        /\ CounterModulus \in Nat \ {0}
    BY <1>1, FreeList DEF TypeInv
  <2>2. (mCurrentIssueCount + 1) % CounterModulus \in 0 .. CounterModulus - 1
    BY <2>1, Modulus
  <2>3. Issued + 1 < CounterModulus
    BY <1>3, FreeList
  <2>4. ((mCurrentIssueCount - mCurrentReturnCount) % CounterModulus) + 1 < CounterModulus
    BY <2>3 DEF Issued
  <2>5. (((mCurrentIssueCount + 1) % CounterModulus) - mCurrentReturnCount) % CounterModulus
          = ((mCurrentIssueCount - mCurrentReturnCount) % CounterModulus) + 1
    BY <2>1, <2>4, Modulus
  <2>6. Issued' = (((mCurrentIssueCount + 1) % CounterModulus) - mCurrentReturnCount)
                    % CounterModulus
    <3>1. Issued' = (mCurrentIssueCount' - mCurrentReturnCount') % CounterModulus
      BY DEF Issued
    <3>2. /\ mCurrentIssueCount' = (mCurrentIssueCount + 1) % CounterModulus
          /\ mCurrentReturnCount' = mCurrentReturnCount
      BY <1>3
    <3> QED BY <3>1, <3>2, Zenon
  <2> QED BY <1>3, <2>2, <2>5, <2>6 DEF Issued
<1>16. PoolAccounting'
  <2>1. Len(f') = Cardinality(Sessions) - Issued'
    BY SMTT(30), <1>4, <1>15, FreeList
  <2> QED BY <1>4, <2>1 DEF PoolAccounting
<1>17. TypeInv(X)'
  <2>1. todo' \in [Threads -> Seq(X)] /\ accepting' \in {"Sleep", "Loop", "Failed", "Stopped"}
    BY <1>2, <1>3, <1>9
  <2>2. kernel' \subseteq live' /\ live' \subseteq Contexts /\ issueRef' \subseteq Sessions
    BY <1>1, <1>3, <1>4 DEF TypeInv
  <2> QED BY <1>1, <1>3, <1>4, <1>11, <1>15, <2>1, <2>2 DEF TypeInv
<1> QED BY <1>11, <1>13, <1>14, <1>16, <1>17 DEF PoolInv

-----------------------------------------------------------------------------
(***************************************************************************)
(* DoIocpJob.                                                              *)
(***************************************************************************)
\* A worker takes context c out of the kernel and starts to serve it with the
\* calls q.  It takes the tokens c has, and no others.
Service(X, q, c) ==
  /\ q \in Seq(X) /\ Plan(q, c) /\ Held(q) = {c}
  /\ \A s : /\ Starts(q, ConnCalls, s) => OfIO(c, ConnIO, s)
            /\ Starts(q, RecvCalls, s) => OfIO(c, RecvIO, s)

\* The worker starts to serve the completion.
LEMMA CompleteStep ==
  ASSUME NEW X, NEW J, PoolInv(X, J), NEW t \in Workers, NEW c \in kernel, todo[t] = <<>>,
         NEW q, Service(X, q, c), todo' = [todo EXCEPT ![t] = q], kernel' = kernel \ {c},
         completionOk' \in [Threads -> BOOLEAN],
         UNCHANGED <<sessionVars, managerVars, live, accepting, issueRef, crashed>>
  PROVE  PoolInv(X, J)'
<1>1. /\ TypeInv(X) /\ ConnInv /\ RecvInv /\ CountInv(J) /\ DOMAIN todo = Threads
      /\ t \in Threads
  BY DEF PoolInv, TypeInv, Threads
<1>2. /\ todo \in [Threads -> Seq(X)] /\ live \in SUBSET Contexts /\ kernel \in SUBSET live
      /\ Structure(J, todo, live, kernel, issueRef, Free, mLock, accepting)
  BY DEF PoolInv, TypeInv, Structured
<1>3. q \in Seq(X) /\ Plan(q, c) /\ Held(q) = {c}
  BY DEF Service
<1>4. Structure(J, todo', live, kernel', issueRef, Free, mLock, accepting)
  BY <1>2, <1>3, Starting
<1>5. mConnected' = mConnected /\ mRefCount' = mRefCount /\ associated' = associated
  BY DEF sessionVars
<1>6. Free' = Free /\ PoolAccounting' /\ mLock' = mLock
  BY DEF PoolInv, PoolAccounting, Issued, Free, managerVars
<1>7. Structured(J)'
  BY <1>4, <1>6 DEF Structured
<1>8. ASSUME NEW s \in Sessions
      PROVE  ConnAt(todo', kernel', issueRef', mConnected', s)
  <2>1. ConnAt(todo, kernel, issueRef, mConnected, s)
    BY <1>1 DEF ConnInv
  <2>2. Alone(todo, kernel, s, ConnIO, ConnCalls)
    BY <2>1 DEF ConnAt
  <2>3. Starts(q, ConnCalls, s) => OfIO(c, ConnIO, s)
    BY DEF Service
  <2>4. /\ Alone(todo', kernel', s, ConnIO, ConnCalls)
        /\ Token(todo', kernel', s, ConnIO, ConnCalls) => Token(todo, kernel, s, ConnIO, ConnCalls)
    BY <1>1, <2>2, <2>3, AloneTaken
  <2> QED BY <1>5, <2>1, <2>4 DEF ConnAt
<1>9. ASSUME NEW s \in Sessions
      PROVE  Alone(todo', kernel', s, RecvIO, RecvCalls)
  <2>1. Alone(todo, kernel, s, RecvIO, RecvCalls)
    BY <1>1 DEF RecvInv
  <2>2. Starts(q, RecvCalls, s) => OfIO(c, RecvIO, s)
    BY DEF Service
  <2> QED BY <1>1, <2>1, <2>2, AloneTaken
<1>10. ConnInv' /\ RecvInv'
  BY <1>8, <1>9 DEF ConnInv, RecvInv
<1>11. CountInv(J)'
  BY <1>1, <1>5 DEF CountInv
<1>12. TypeInv(X)'
  BY <1>1, <1>2, <1>3, <1>5 DEF TypeInv, managerVars
<1> QED BY <1>6, <1>7, <1>10, <1>11, <1>12 DEF PoolInv

\* The services of IOThread::DoIocpJob: one call before the rest, or two.
LEMMA OneCall ==
  ASSUME NEW X, HasPoolOps(X), NEW c \in Contexts, NEW r \in Seq(X), Rest(r, c),
         NEW call \in FrontCalls \ {"DeleteIoContext"},
         call \in ConnCalls => c.io \in ConnIO,
         call \in RecvCalls => c.io \in RecvIO
  PROVE  Service(X, <<Op(call, c.session)>> \o r, c)
<1> DEFINE q == <<Op(call, c.session)>> \o r
<1>0. Onward(r, c)
  BY DEF Onward
<1>1. /\ q \in Seq(X) /\ Plan(q, c) /\ Held(q) = {c}
      /\ \A calls, s : Starts(q, calls, s) <=> call \in calls /\ s = c.session
  BY <1>0, NextCall
<1> HIDE DEF q
<1>2. Service(X, q, c)
  BY <1>1 DEF Service, OfIO
<1> QED BY <1>2 DEF q

\* A receive that brought bytes: the packets, then the next receive.
LEMMA PacketCalls ==
  ASSUME NEW X, HasPoolOps(X), NEW c \in Contexts, NEW r \in Seq(X), Rest(r, c),
         c.io = "IO_RECV"
  PROVE  Service(X, <<Op("PacketHandling", c.session)>> \o (<<Op("PreRecv", c.session)>> \o r), c)
<1> DEFINE o == Op("PacketHandling", c.session)
           p == Op("PreRecv", c.session)
           k == <<p>> \o r
           q == <<o>> \o k
<1>1. /\ o \in X /\ p \in X /\ IsOp(o, "PacketHandling", c.session) /\ IsOp(p, "PreRecv", c.session)
      /\ o.call = "PacketHandling" /\ o.obj = c.session
  BY DEF HasPoolOps, PoolOps, Op, OpCalls, IsOp, Contexts
<1> HIDE DEF o, p
<1>2. Plan(q, c)
  BY <1>1, PlanPackets
<1>3. k \in Seq(X) /\ k[1] = p
  BY <1>1, Pushed
<1> HIDE DEF k
<1>4. q \in Seq(X) /\ q[1] = o /\ Tail(q) = k
  BY <1>1, <1>3, Pushed
<1> HIDE DEF q
<1>5. Held(q) = {c}
  BY <1>1, <1>2, <1>4, PlanHeld DEF IsOp
<1>6. \A s : ~ Starts(q, ConnCalls, s) /\ (Starts(q, RecvCalls, s) => OfIO(c, RecvIO, s))
  BY <1>1, <1>3, <1>4 DEF Starts, ConnCalls, RecvCalls, OfIO, RecvIO, IsOp
<1>7. Service(X, q, c)
  BY <1>2, <1>4, <1>5, <1>6 DEF Service
<1> QED BY <1>7 DEF q, k, o, p

\* What a worker does with a completion is a service of it.
LEMMA HandlingServes ==
  ASSUME NEW X, HasPoolOps(X), NEW c \in Contexts, NEW ok \in BOOLEAN
  PROVE  Service(X, Handling(c, ok), c)
<1> DEFINE s == c.session
           done == <<Op("DeleteIoContext", c)>>
           checked == <<Op("CheckCompletion", s)>> \o done
<1>1. s \in Sessions /\ c.io \in IOTypes
  BY DEF Contexts
<1>2. done \in Seq(X) /\ Rest(done, c)
  BY RestSingle DEF HasPoolOps, PoolOps, Op, OpCalls
<1>3. checked \in Seq(X) /\ Rest(checked, c)
  <2>1. /\ Op("CheckCompletion", s) \in X /\ Op("CheckCompletion", s).obj = s
        /\ Op("CheckCompletion", s).call \in LateCalls \ {"DeleteIoContext"}
    BY <1>1 DEF HasPoolOps, PoolOps, Op, OpCalls, LateCalls
  <2> HIDE DEF done
  <2> QED BY <1>2, <2>1, RestPush, Pushed
<1>4. CASE c.io = "IO_ACCEPT"
  <2>1. Handling(c, ok) = <<Op("AcceptCompletion", s)>> \o done
    BY <1>4, Zenon DEF Handling
  <2>2. "AcceptCompletion" \in FrontCalls \ {"DeleteIoContext"}
    BY DEF FrontCalls
  <2>3. c.io \in ConnIO /\ c.io \in RecvIO
    BY <1>4 DEF ConnIO, RecvIO
  <2> HIDE DEF done
  <2>4. Service(X, <<Op("AcceptCompletion", s)>> \o done, c)
    BY <1>2, <2>2, <2>3, OneCall
  <2> QED BY <2>1, <2>4
<1>5. CASE c.io = "IO_DISCONNECT"
  <2>1. Handling(c, ok) = <<Op("DisconnectCompletion", s)>> \o done
    BY <1>5, Zenon DEF Handling
  <2>2. /\ "DisconnectCompletion" \in FrontCalls \ {"DeleteIoContext"}
        /\ "DisconnectCompletion" \notin RecvCalls
    BY DEF FrontCalls, RecvCalls
  <2>3. c.io \in ConnIO
    BY <1>5 DEF ConnIO
  <2> HIDE DEF done
  <2>4. Service(X, <<Op("DisconnectCompletion", s)>> \o done, c)
    BY <1>2, <2>2, <2>3, OneCall
  <2> QED BY <2>1, <2>4
<1>6. CASE c.io = "IO_RECV_ZERO"
  <2>1. Handling(c, ok) = <<Op("PostRecv", s)>> \o checked
    BY <1>6, Zenon DEF Handling
  <2>2. "PostRecv" \in FrontCalls \ {"DeleteIoContext"} /\ "PostRecv" \notin ConnCalls
    BY DEF FrontCalls, ConnCalls
  <2>3. c.io \in RecvIO
    BY <1>6 DEF RecvIO
  <2> HIDE DEF checked
  <2>4. Service(X, <<Op("PostRecv", s)>> \o checked, c)
    BY <1>3, <2>2, <2>3, OneCall
  <2> QED BY <2>1, <2>4
<1>7. CASE c.io = "IO_RECV" /\ ok
  <2>1. Handling(c, ok) = <<Op("PacketHandling", s), Op("PreRecv", s)>> \o checked
    BY <1>7, Zenon DEF Handling
  <2>2. <<Op("PacketHandling", s), Op("PreRecv", s)>> \o checked
          = <<Op("PacketHandling", s)>> \o (<<Op("PreRecv", s)>> \o checked)
    <3>1. /\ Op("PacketHandling", s) \in X /\ Op("PreRecv", s) \in X
      BY <1>1 DEF HasPoolOps, PoolOps, Op, OpCalls
    <3>2. /\ <<Op("PacketHandling", s)>> \in Seq(X) /\ <<Op("PreRecv", s)>> \in Seq(X)
          /\ <<Op("PacketHandling", s)>> \o <<Op("PreRecv", s)>>
               = <<Op("PacketHandling", s), Op("PreRecv", s)>>
      BY <3>1, Pair
    <3> HIDE DEF checked
    <3> QED BY <1>3, <3>2, ConcatAssociative
  <2> HIDE DEF checked
  <2>3. Service(X, <<Op("PacketHandling", s)>> \o (<<Op("PreRecv", s)>> \o checked), c)
    BY <1>3, <1>7, PacketCalls
  <2> QED BY <2>1, <2>2, <2>3
<1>8. CASE c.io = "IO_SEND" /\ ok
  <2>1. Handling(c, ok) = <<Op("SendCompletion", s)>> \o checked
    BY <1>8, Zenon DEF Handling
  <2>2. /\ "SendCompletion" \in FrontCalls \ {"DeleteIoContext"}
        /\ "SendCompletion" \notin ConnCalls /\ "SendCompletion" \notin RecvCalls
    BY DEF FrontCalls, ConnCalls, RecvCalls
  <2> HIDE DEF checked
  <2>3. Service(X, <<Op("SendCompletion", s)>> \o checked, c)
    BY <1>3, <2>2, OneCall
  <2> QED BY <2>1, <2>3
<1>9. CASE c.io \in {"IO_RECV", "IO_SEND"} /\ ~ ok
  <2>1. Handling(c, ok) = <<Op("DisconnectRequest", s)>> \o done
    BY <1>9, Zenon DEF Handling
  <2>2. /\ "DisconnectRequest" \in FrontCalls \ {"DeleteIoContext"}
        /\ "DisconnectRequest" \notin ConnCalls /\ "DisconnectRequest" \notin RecvCalls
    BY DEF FrontCalls, ConnCalls, RecvCalls
  <2> HIDE DEF done
  <2>3. Service(X, <<Op("DisconnectRequest", s)>> \o done, c)
    BY <1>2, <2>2, OneCall
  <2> QED BY <2>1, <2>3
<1> QED BY <1>1, <1>4, <1>5, <1>6, <1>7, <1>8, <1>9 DEF IOTypes

\* IOThread::DoIocpJob takes any completion that is delivered.
LEMMA DoIocpJobStep ==
  ASSUME NEW X, HasPoolOps(X), NEW J, PoolInv(X, J), NEW t \in Workers, DoIocpJob(t)
  PROVE  PoolInv(X, J)'
<1>1. PICK c \in kernel, ok \in BOOLEAN :
        /\ todo[t] = <<>>
        /\ kernel' = kernel \ {c}
        /\ todo' = [todo EXCEPT ![t] = Handling(c, ok)]
        /\ completionOk' = [completionOk EXCEPT ![t] = FALSE]
        /\ UNCHANGED <<sessionVars, managerVars, live, accepting, issueRef, crashed>>
  BY DEF DoIocpJob, Complete, Set
<1>2. c \in Contexts /\ completionOk' \in [Threads -> BOOLEAN]
  BY <1>1 DEF PoolInv, TypeInv
<1>3. Service(X, Handling(c, ok), c)
  BY <1>2, HandlingServes
<1> QED BY <1>1, <1>2, <1>3, CompleteStep

-----------------------------------------------------------------------------
(***************************************************************************)
(* The invariant of the specification.                                     *)
(***************************************************************************)
\* The pool alone: every reference is a context or the issue's.
NoJobs == [s \in Sessions |-> 0]

\* The free list of the start holds every session once.
LEMMA InitialList ==
  /\ SetToSeq(Sessions) \in Seq(Sessions)
  /\ IsInjective(SetToSeq(Sessions))
  /\ Len(SetToSeq(Sessions)) = Cardinality(Sessions)
<1> DEFINE n == Cardinality(Sessions)
           Enumerates(f) == f \in [1 .. n -> Sessions] /\ IsInjective(f)
<1>1. n \in Nat /\ ExistsBijection(1 .. n, Sessions)
  BY SessionPoolAssumption, FS_CardinalityType
<1>2. \E f \in [1 .. n -> Sessions] : IsInjective(f)
  BY <1>1 DEF ExistsBijection, Bijection, Injection
<1>3. SetToSeq(Sessions) \in [1 .. n -> Sessions] /\ IsInjective(SetToSeq(Sessions))
  <2> HIDE DEF n
  <2>1. SetToSeq(Sessions) = CHOOSE f \in [1 .. n -> Sessions] : IsInjective(f)
    BY DEF SetToSeq, n
  <2> QED BY <1>2, <2>1
<1> DEFINE f == SetToSeq(Sessions)
<1> HIDE DEF f, n
<1>4. f \in [1 .. n -> Sessions] /\ IsInjective(f)
  BY <1>3 DEF f, n
<1>5. f \in Seq(Sessions)
  BY <1>1, <1>4, IsASeq
<1>6. Len(f) = n
  BY <1>1, <1>4, <1>5, LenProperties
<1> QED BY <1>4, <1>5, <1>6 DEF f, n

\* The invariant at the start.
LEMMA InitialPool ==
  ASSUME NEW X, Init
  PROVE  PoolInv(X, NoJobs)
<1>1. /\ mFreeSessionList = SetToSeq(Sessions)
      /\ mCurrentIssueCount = 0 /\ mCurrentReturnCount = 0
      /\ mLock = NoThread
      /\ mConnected = [s \in Sessions |-> 0]
      /\ mRefCount = [s \in Sessions |-> 0]
      /\ associated = [s \in Sessions |-> FALSE]
      /\ live = {} /\ kernel = {}
      /\ todo = [t \in Threads |-> <<>>]
      /\ completionOk = [t \in Threads |-> FALSE]
      /\ accepting = "Sleep"
      /\ issueRef = {}
      /\ crashed = "no"
  BY DEF Init
<1>2. /\ CounterModulus \in Nat \ {0} /\ Cardinality(Sessions) \in Nat
  <2>1. Cardinality(Sessions) \in Nat
    BY SessionPoolAssumption, FS_CardinalityType
  <2> QED BY <2>1, SessionPoolAssumption
<1>3. TypeInv(X)
  <2>1. 0 \in 0 .. CounterModulus - 1
    BY <1>2
  <2>2. IsFiniteSet({})
    BY FS_EmptySet
  <2>3. <<>> \in Seq(X)
    OBVIOUS
  <2> QED BY <1>1, <2>1, <2>2, <2>3, InitialList DEF TypeInv
<1>4. Free \in SUBSET Sessions
  BY <1>3, FreeSessions DEF TypeInv
<1>5. \A t \in Threads : /\ todo[t] = <<>> /\ Foreign(todo[t]) /\ Held(todo[t]) = {}
                         /\ \A s \in Sessions : todo[t] \notin Chains(s)
                         /\ \A s, calls : ~ Starts(todo[t], calls, s)
  BY <1>1, EmptyFacts, ChainFacts DEF Starts
<1>6. Structured(NoJobs)
  <2>1. Shapes(todo) /\ Owned(todo, live, kernel)
    BY <1>1, <1>5 DEF Shapes, Owned
  <2>2. Idle(NoJobs, todo, live, issueRef, Free)
    BY <1>1, <1>4, <1>5 DEF Idle, Unused, NoJobs
  <2>3. Locking(todo, mLock, accepting)
    BY <1>1, <1>5, MainThread DEF Locking
  <2> QED BY <2>1, <2>2, <2>3 DEF Structured, Structure
<1>7. ConnInv /\ RecvInv
  BY <1>1, <1>5 DEF ConnInv, RecvInv, ConnAt, Alone, Token
<1>8. CountInv(NoJobs)
  <2>1. \A s : LiveOf(live, s) = {}
    BY <1>1 DEF LiveOf
  <2>2. \A s : Cardinality(LiveOf(live, s)) = 0
    BY <2>1, FS_EmptySet
  <2> QED BY <1>1, <2>2 DEF CountInv, NoJobs
<1>9. PoolAccounting
  <2>1. Issued = 0
    <3>1. 0 - 0 = 0 /\ 0 % CounterModulus = 0
      BY <1>2
    <3> QED BY <1>1, <3>1 DEF Issued
  <2>2. Len(mFreeSessionList) = Cardinality(Sessions) - Issued
    BY <1>1, <1>2, <2>1, InitialList
  <2> QED BY <1>1, <2>2, InitialList DEF PoolAccounting
<1> QED BY <1>3, <1>6, <1>7, <1>8, <1>9 DEF PoolInv

\* Every step of the pool keeps the invariant.
LEMMA PoolStep ==
  ASSUME NEW X, HasPoolOps(X), NEW J \in [Sessions -> Nat], PoolInv(X, J), Next
  PROVE  PoolInv(X, J)'
<1>1. CASE AcceptClientSessions
  BY <1>1, AcceptLockStep, AcceptIssueStep, AcceptUnlockStep DEF AcceptClientSessions
<1>2. ASSUME NEW t \in Threads, Call(t)
      PROVE  PoolInv(X, J)'
  <2>1. CASE DeleteIoContext(t)
    BY <2>1, DeleteIoContextStep
  <2>2. CASE DisconnectRequest(t)
    BY <2>2, DisconnectRequestStep
  <2>3. CASE DisconnectEx(t) \/ WSARecvZero(t) \/ WSARecv(t)
    BY <2>3, PostCallStep
  <2>4. CASE PreRecv(t)
    BY <2>4, CheckConnectedStep DEF PreRecv
  <2>5. CASE PostRecv(t)
    BY <2>5, PostRecvStep
  <2>6. CASE AcceptCompletion(t)
    BY <2>6, AcceptCompletionStep
  <2>7. CASE SendBaseKey(t) \/ CheckCompletion(t) \/ PacketHandling(t)
    BY <2>7, LateCallStep
  <2>9. CASE DisconnectCompletion(t)
    BY <2>9, DisconnectCompletionStep
  <2>10. CASE ReturnAssert(t)
    BY <2>10, ReturnAssertStep
  <2>11. CASE SessionReset(t)
    BY <2>11, SessionResetStep
  <2>12. CASE ResetSendBuffer(t)
    BY <2>12, ResetSendBufferStep
  <2>13. CASE ReturnToPool(t)
    BY <2>13, ReturnToPoolStep
  <2> QED BY <1>2, <2>1, <2>2, <2>3, <2>4, <2>5, <2>6, <2>7, <2>9, <2>10, <2>11,
             <2>12, <2>13 DEF Call
<1>3. ASSUME NEW t \in Threads, ReturnLock(t)
      PROVE  PoolInv(X, J)'
  BY <1>3, ReturnLockStep
<1>4. ASSUME NEW t \in Workers, DoIocpJob(t)
      PROVE  PoolInv(X, J)'
  BY <1>4, DoIocpJobStep
<1> QED BY <1>1, <1>2, <1>3, <1>4 DEF Next

\* The invariant is about the variables of the pool only.
LEMMA PoolStutter ==
  ASSUME NEW X, NEW J, PoolInv(X, J), UNCHANGED vars
  PROVE  PoolInv(X, J)'
<1>1. /\ TypeInv(X) /\ ConnInv /\ RecvInv /\ CountInv(J) /\ PoolAccounting /\ Structured(J)
  BY DEF PoolInv
<1>2. /\ mConnected' = mConnected /\ mRefCount' = mRefCount /\ associated' = associated
      /\ mFreeSessionList' = mFreeSessionList /\ mCurrentIssueCount' = mCurrentIssueCount
      /\ mCurrentReturnCount' = mCurrentReturnCount /\ mLock' = mLock
      /\ live' = live /\ kernel' = kernel /\ todo' = todo /\ completionOk' = completionOk
      /\ accepting' = accepting /\ issueRef' = issueRef /\ crashed' = crashed
  BY DEF vars, sessionVars, managerVars, contextVars, threadVars
<1>3. Free' = Free
  BY <1>2 DEF Free
<1>4. Structured(J)'
  BY <1>1, <1>2, <1>3 DEF Structured
<1>5. ConnInv' /\ RecvInv'
  BY <1>1, <1>2 DEF ConnInv, RecvInv
<1>6. CountInv(J)' /\ PoolAccounting'
  BY <1>1, <1>2 DEF CountInv, PoolAccounting, Issued
<1>7. TypeInv(X)'
  BY <1>1, <1>2 DEF TypeInv
<1> QED BY <1>4, <1>5, <1>6, <1>7 DEF PoolInv

\* The invariant holds of every behaviour of the session pool, for any number of
\* sessions, workers and context slots and any set of failing system calls.
THEOREM PoolInvariant == Spec => []PoolInv(PoolOps, NoJobs)
<1>1. HasPoolOps(PoolOps) /\ NoJobs \in [Sessions -> Nat]
  BY DEF HasPoolOps, NoJobs
<1>2. Init => PoolInv(PoolOps, NoJobs)
  BY InitialPool
<1>3. PoolInv(PoolOps, NoJobs) /\ [Next]_vars => PoolInv(PoolOps, NoJobs)'
  BY <1>1, PoolStep, PoolStutter
<1> QED BY <1>2, <1>3, PTL DEF Spec

-----------------------------------------------------------------------------
(***************************************************************************)
(* What the invariant says of the pending calls.                           *)
(***************************************************************************)
\* A call of a list is its head or one of its tail.
LEMMA HeadOrTail ==
  ASSUME NEW X, NEW q \in Seq(X), q # <<>>, NEW i \in 1 .. Len(q)
  PROVE  i = 1 \/ (i - 1 \in 1 .. Len(Tail(q)) /\ q[i] = Tail(q)[i - 1])
<1>1. /\ Len(q) \in Nat /\ Len(Tail(q)) = Len(q) - 1
      /\ \A k \in 1 .. Len(q) - 1 : Tail(q)[k] = q[k + 1]
  BY NotEmpty
<1>2. CASE i # 1
  <2>1. i - 1 \in 1 .. Len(q) - 1 /\ (i - 1) + 1 = i
    BY <1>1, <1>2
  <2> QED BY <1>1, <2>1
<1> QED BY <1>2

\* The call o serves a completion of context c.
Serves(o, c) ==
  \/ o.call = "DeleteIoContext" /\ o.obj \in Contexts /\ o.obj.session = c.session
  \/ o.call \in (FrontCalls \cup LateCalls) \ {"DeleteIoContext"} /\ o.obj = c.session

\* The call o deletes context d.
Deletes(o, d) == o.call = "DeleteIoContext" /\ o.obj = d

\* The calls of a rest.
LEMMA RestOps ==
  ASSUME NEW X, NEW c \in Contexts, NEW r \in Seq(X), Rest(r, c), NEW i \in 1 .. Len(r)
  PROVE  /\ Serves(r[i], c) /\ r[i].call \in LateCalls
         /\ r[i].call = "DeleteIoContext" => i = Len(r) /\ r[i].obj = c
<1>1. Len(r) \in Nat /\ Len(r) >= 1
  BY NotEmpty DEF Rest
<1>2. CASE i = Len(r)
  BY <1>2 DEF Rest, IsOp, Serves, LateCalls
<1>3. CASE i # Len(r)
  <2>1. i \in 1 .. Len(r) - 1
    BY <1>1, <1>3
  <2> QED BY <2>1 DEF Rest, Serves
<1> QED BY <1>2, <1>3

\* The calls a thread goes on with.
LEMMA OnwardOps ==
  ASSUME NEW X, NEW c \in Contexts, NEW r \in Seq(X), Onward(r, c), NEW i \in 1 .. Len(r)
  PROVE  /\ Serves(r[i], c)
         /\ r[i].call \in LateCalls \/ (r # <<>> /\ IsOp(r[1], "PreRecv", c.session))
         /\ r[i].call = "DeleteIoContext" => i = Len(r) /\ r[i].obj = c
<1>1. CASE Rest(r, c)
  BY <1>1, RestOps
<1>2. CASE r # <<>> /\ IsOp(r[1], "PreRecv", c.session) /\ Rest(Tail(r), c)
  <2> DEFINE p == Tail(r)
  <2>1. /\ p \in Seq(X) /\ Len(r) \in Nat /\ Len(p) = Len(r) - 1
        /\ i = 1 \/ (i - 1 \in 1 .. Len(p) /\ r[i] = p[i - 1])
    BY <1>2, NotEmpty, HeadOrTail
  <2>2. Rest(p, c)
    BY <1>2
  <2> HIDE DEF p
  <2>3. CASE i = 1
    BY <1>2, <2>3 DEF IsOp, Serves, FrontCalls
  <2>4. CASE i - 1 \in 1 .. Len(p) /\ r[i] = p[i - 1]
    <3> DEFINE k == i - 1
    <3>1. k \in 1 .. Len(p) /\ r[i] = p[k]
      BY <2>4
    <3>2. k = Len(p) => i = Len(r)
      BY <2>1
    <3> HIDE DEF k
    <3>3. Serves(p[k], c) /\ (p[k].call = "DeleteIoContext" => k = Len(p) /\ p[k].obj = c)
      BY <2>1, <2>2, <3>1, RestOps
    <3> QED BY <1>2, <3>1, <3>2, <3>3
  <2> QED BY <2>1, <2>3, <2>4
<1> QED BY <1>1, <1>2 DEF Onward

\* Every call of a plan is on its session; a receive that is not the next call
\* is the one behind it; no context is deleted twice.
LEMMA PlanOps ==
  ASSUME NEW X, NEW c \in Contexts, NEW q \in Seq(X), Plan(q, c)
  PROVE  /\ \A i \in 1 .. Len(q) :
              /\ Serves(q[i], c)
              /\ q[i].call \in RecvCalls => Starts(q, RecvCalls, c.session)
         /\ \A i, j \in 1 .. Len(q) : \A d : Deletes(q[i], d) /\ Deletes(q[j], d) => i = j
<1>1. q # <<>> /\ Tail(q) \in Seq(X) /\ Len(q) \in Nat /\ Len(Tail(q)) \in Nat
  <2>1. q # <<>>
    BY DEF Plan
  <2> QED BY <2>1, NotEmpty, LenProperties
<1>2. LateCalls \cap RecvCalls = {} /\ "DeleteIoContext" \notin RecvCalls
  BY DEF LateCalls, RecvCalls
<1>3. CASE Rest(q, c)
  <2>1. \A i \in 1 .. Len(q) :
          /\ Serves(q[i], c) /\ q[i].call \in LateCalls
          /\ q[i].call = "DeleteIoContext" => i = Len(q)
    BY <1>3, RestOps
  <2> QED BY <1>2, <2>1 DEF Deletes
<1>4. CASE First(q[1], c) /\ Onward(Tail(q), c)
  <2>1. \A i \in 1 .. Len(Tail(q)) :
          /\ Serves(Tail(q)[i], c)
          /\ \/ Tail(q)[i].call \in LateCalls
             \/ Tail(q) # <<>> /\ IsOp(Tail(q)[1], "PreRecv", c.session)
          /\ Tail(q)[i].call = "DeleteIoContext" => i = Len(Tail(q)) /\ Tail(q)[i].obj = c
    <3> DEFINE p == Tail(q)
    <3>1. p \in Seq(X) /\ Onward(p, c)
      BY <1>1, <1>4
    <3> HIDE DEF p
    <3>2. \A i \in 1 .. Len(p) :
            /\ Serves(p[i], c)
            /\ p[i].call \in LateCalls \/ (p # <<>> /\ IsOp(p[1], "PreRecv", c.session))
            /\ p[i].call = "DeleteIoContext" => i = Len(p) /\ p[i].obj = c
      BY <3>1, OnwardOps
    <3> QED BY <3>2 DEF p
  <2>2. Serves(q[1], c) /\ ~ Deletes(q[1], c) /\ (q[1].call \in RecvCalls => q[1].obj = c.session)
    BY <1>2, <1>4 DEF First, Serves, Deletes
  <2>6. Tail(q) # <<>> /\ IsOp(Tail(q)[1], "PreRecv", c.session)
          => Starts(q, RecvCalls, c.session)
    BY <1>1 DEF Starts, RecvCalls
  <2>3. \A i \in 1 .. Len(q) : \/ i = 1
                               \/ /\ Serves(q[i], c)
                                  /\ \/ q[i].call \in LateCalls
                                     \/ Tail(q) # <<>> /\ IsOp(Tail(q)[1], "PreRecv", c.session)
                                  /\ q[i].call = "DeleteIoContext"
                                       => i - 1 = Len(Tail(q)) /\ q[i].obj = c
    BY <1>1, <2>1, HeadOrTail
  <2>4. ASSUME NEW i \in 1 .. Len(q)
        PROVE  Serves(q[i], c) /\ (q[i].call \in RecvCalls => Starts(q, RecvCalls, c.session))
    <3>1. q[1].call \in RecvCalls => Starts(q, RecvCalls, c.session)
      BY <1>1, <2>2 DEF Starts
    <3> QED BY <1>2, <2>2, <2>3, <2>6, <3>1
  <2>5. ASSUME NEW i \in 1 .. Len(q), NEW j \in 1 .. Len(q), NEW d,
               Deletes(q[i], d), Deletes(q[j], d)
        PROVE  i = j
    <3>1. i = 1 \/ (i - 1 = Len(Tail(q)) /\ d = c)
      BY <2>3, <2>5 DEF Deletes
    <3>2. j = 1 \/ (j - 1 = Len(Tail(q)) /\ d = c)
      BY <2>3, <2>5 DEF Deletes
    <3>3. i = 1 \/ j = 1 => i = 1 /\ j = 1
      BY <2>2, <2>5, <3>1, <3>2
    <3>4. i \in Int /\ j \in Int
      OBVIOUS
    <3> QED BY <1>1, <3>1, <3>2, <3>3, <3>4
  <2> QED BY <2>4, <2>5
<1> QED BY <1>3, <1>4 DEF Plan, Onward

\* Every pending call serves a completion, or returns a session.
LEMMA PendingOps ==
  ASSUME NEW J, PoolInv(PoolOps, J), NEW t \in Threads, NEW op \in Pending(t)
  PROVE  /\ op \in PoolOps
         /\ \/ \E c \in Contexts : /\ Plan(todo[t], c) /\ c \in live \ kernel /\ Serves(op, c)
                                   /\ op.call \in RecvCalls => Starts(todo[t], RecvCalls, c.session)
            \/ \E s \in Sessions : /\ todo[t] \in Chains(s) /\ Unused(J, live, issueRef, s)
                                   /\ s \notin Free
                                   /\ op.call \in ReturnCalls /\ op.obj = s
<1> DEFINE q == todo[t]
<1>1. q \in Seq(PoolOps) /\ Structured(J)
  BY DEF PoolInv, TypeInv
<1>2. PICK i \in 1 .. Len(q) : op = q[i]
  BY <1>1, LenProperties DEF Pending
<1>3. op \in PoolOps
  BY <1>1, <1>2, ElementOfSeq
<1>4. ~ Foreign(q)
  BY <1>2, <1>3 DEF Foreign, PoolOps, OpCalls, ResultCalls
<1>5. CASE \E c \in Contexts : Plan(q, c)
  <2>1. PICK c \in Contexts : Plan(q, c)
    BY <1>5
  <2>2. c \in live \ kernel
    BY <1>1, <2>1, PlanHeld DEF Structured, Structure, Owned
  <2>3. Serves(op, c) /\ (op.call \in RecvCalls => Starts(q, RecvCalls, c.session))
    BY <1>1, <1>2, <2>1, PlanOps
  <2> QED BY <1>3, <2>1, <2>2, <2>3
<1>6. CASE \E s \in Sessions : q \in Chains(s)
  <2>1. PICK s \in Sessions : q \in Chains(s)
    BY <1>6
  <2>2. Unused(J, live, issueRef, s) /\ s \notin Free
    BY <1>1, <2>1 DEF Structured, Structure, Idle
  <2>3. op.call \in ReturnCalls /\ op.obj = s
    BY <1>2, <2>1, ChainFacts
  <2> QED BY <1>3, <2>1, <2>2, <2>3
<1> QED BY <1>1, <1>4, <1>5, <1>6 DEF Structured, Structure, Shapes

-----------------------------------------------------------------------------
(***************************************************************************)
(* The properties.                                                         *)
(***************************************************************************)
\* The invariant gives the types.
LEMMA PoolTypeOK ==
  ASSUME NEW J, PoolInv(PoolOps, J)
  PROVE  TypeOK
<1>1. TypeInv(PoolOps)
  BY DEF PoolInv
<1>2. ASSUME NEW t \in Threads, NEW op \in Pending(t)
      PROVE  op.obj \in (IF op.call = "DeleteIoContext" THEN Contexts ELSE Sessions)
  <2>1. CASE \E c \in Contexts : Serves(op, c)
    <3>1. PICK c \in Contexts : Serves(op, c)
      BY <2>1
    <3>2. c.session \in Sessions
      BY DEF Contexts
    <3> QED BY <3>1, <3>2 DEF Serves
  <2>2. CASE \E s \in Sessions : op.call \in ReturnCalls /\ op.obj = s
    BY <2>2 DEF ReturnCalls
  <2> QED BY <2>1, <2>2, PendingOps
<1>3. \A t \in Threads : todo[t] \in Seq([call : OpCalls, obj : Sessions \cup Contexts])
  BY <1>1 DEF TypeInv, PoolOps
<1> QED BY <1>1, <1>2, <1>3 DEF TypeInv, TypeOK

\* Who uses a session serves a context of it, or returns it.
LEMMA Users ==
  ASSUME NEW J, PoolInv(PoolOps, J), NEW t \in Threads, NEW s, Uses(t, s)
  PROVE  \/ \E c \in Contexts : c \in live \ kernel /\ c.session = s /\ Plan(todo[t], c)
         \/ s \in Sessions /\ todo[t] \in Chains(s) /\ s \notin Free
<1>1. PICK op \in Pending(t) : SessionOf(op) = s
  BY DEF Uses
<1>2. CASE \E c \in Contexts : Plan(todo[t], c) /\ c \in live \ kernel /\ Serves(op, c)
  BY <1>1, <1>2 DEF Serves, SessionOf
<1>3. CASE \E r \in Sessions : /\ todo[t] \in Chains(r) /\ r \notin Free
                               /\ op.call \in ReturnCalls /\ op.obj = r
  BY <1>1, <1>3 DEF SessionOf, ReturnCalls
<1> QED BY <1>1, <1>2, <1>3, PendingOps

\* Who is returning a session has the rest of the return before it.
LEMMA Returners ==
  ASSUME NEW J, PoolInv(PoolOps, J), NEW t \in Threads, NEW s, Returning(t, s)
  PROVE  s \in Sessions /\ todo[t] \in Chains(s) /\ Unused(J, live, issueRef, s) /\ s \notin Free
<1>1. PICK op \in Pending(t) :
        op.obj = s /\ op.call \in {"ReturnLock", "ReturnAssert", "SessionReset",
                                   "ResetSendBuffer", "ReturnToPool"}
  BY DEF Returning
<1>2. \A c : ~ Serves(op, c)
  BY <1>1 DEF Serves, FrontCalls, LateCalls
<1> QED BY <1>1, <1>2, PendingOps

\* A session that is free or being returned is unused, so nobody else uses it.
LEMMA PoolReturnedUnused ==
  ASSUME NEW J \in [Sessions -> Nat], PoolInv(PoolOps, J)
  PROVE  ReturnedUnused
<1>1. Structured(J) /\ kernel \subseteq live
  BY DEF PoolInv, TypeInv
<1>2. ASSUME NEW s \in Sessions, s \in Free
      PROVE  /\ mConnected[s] = 0 /\ mRefCount[s] = 0
             /\ \A t \in Threads : ~ Uses(t, s)
             /\ \A c \in live : c.session # s
  <2>1. Unused(J, live, issueRef, s)
    BY <1>1, <1>2 DEF Structured, Structure, Idle
  <2> QED BY <1>2, <2>1, UnusedWords, Users DEF Unused
<1>3. ASSUME NEW s \in Sessions, NEW t \in Threads, Returning(t, s)
      PROVE  /\ s \notin Free
             /\ \A u \in Threads \ {t} : ~ Uses(u, s)
             /\ \A c \in kernel : c.session # s
  <2>1. todo[t] \in Chains(s) /\ Unused(J, live, issueRef, s) /\ s \notin Free
    BY <1>3, Returners
  <2>2. \A u \in Threads \ {t} : todo[u] \notin Chains(s)
    BY <1>1, <2>1 DEF Structured, Structure, Idle
  <2> QED BY <1>1, <2>1, <2>2, Users DEF Unused
<1> QED BY <1>2, <1>3 DEF ReturnedUnused

\* Without other references the count is the one of RefCountExact.
LEMMA PoolRefCountExact ==
  ASSUME PoolInv(PoolOps, NoJobs)
  PROVE  RefCountExact
<1>1. ASSUME NEW s \in Sessions
      PROVE  mRefCount[s] = Cardinality({c \in live : c.session = s})
                              + (IF s \in issueRef THEN 1 ELSE 0)
  <2>1. mRefCount[s] = Cardinality(LiveOf(live, s)) + NoJobs[s] + (IF s \in issueRef THEN 1 ELSE 0)
    BY DEF PoolInv, CountInv
  <2>2. Cardinality(LiveOf(live, s)) \in Nat
    BY CountType DEF PoolInv, TypeInv
  <2>3. mRefCount[s] = Cardinality(LiveOf(live, s)) + (IF s \in issueRef THEN 1 ELSE 0)
    BY <2>1, <2>2 DEF NoJobs
  <2> QED BY <2>3 DEF LiveOf
<1> QED BY <1>1 DEF RefCountExact

\* A context outside the kernel is in the plan of one thread, at one place.
LEMMA PoolContextsOwned ==
  ASSUME NEW J, PoolInv(PoolOps, J)
  PROVE  ContextsOwned
<1> DEFINE places == UNION {{t} \X DOMAIN todo[t] : t \in Threads}
           deleters(c) == {d \in places : todo[d[1]][d[2]] = Op("DeleteIoContext", c)}
<1>1. Structured(J) /\ live \subseteq Contexts /\ todo \in [Threads -> Seq(PoolOps)]
  BY DEF PoolInv, TypeInv
<1>2. \A t \in Threads : DOMAIN todo[t] = 1 .. Len(todo[t])
  BY <1>1, LenProperties
<1>3. \A d : d \in places <=> \E t \in Threads : \E i \in 1 .. Len(todo[t]) : d = <<t, i>>
  BY <1>2
<1> HIDE DEF places
<1>4. \A t \in Threads : \A i \in 1 .. Len(todo[t]) : \A c :
        todo[t][i] = Op("DeleteIoContext", c) <=> IsOp(todo[t][i], "DeleteIoContext", c)
  <2> SUFFICES ASSUME NEW t \in Threads, NEW i \in 1 .. Len(todo[t]), NEW c
               PROVE  todo[t][i] = Op("DeleteIoContext", c)
                        <=> IsOp(todo[t][i], "DeleteIoContext", c)
    OBVIOUS
  <2>1. todo[t][i] \in PoolOps
    BY <1>1, ElementOfSeq
  <2> DEFINE o == todo[t][i]
  <2> HIDE DEF o
  <2>2. o \in PoolOps => (o = Op("DeleteIoContext", c) <=> IsOp(o, "DeleteIoContext", c))
    BY DEF PoolOps, Op, IsOp
  <2> QED BY <2>1, <2>2 DEF o
<1>5. ASSUME NEW c \in live, c \in kernel
      PROVE  deleters(c) = {}
  <2>1. \A t \in Threads : c \notin Held(todo[t])
    BY <1>1, <1>5 DEF Structured, Structure, Owned
  <2> QED BY <1>1, <1>3, <1>4, <2>1 DEF Held
<1>6. ASSUME NEW c \in live, c \notin kernel
      PROVE  \E d : deleters(c) = {d}
  <2>1. PICK t \in Threads : c \in Held(todo[t])
    BY <1>1, <1>6 DEF Structured, Structure, Owned
  <2>2. PICK i \in 1 .. Len(todo[t]) : IsOp(todo[t][i], "DeleteIoContext", c)
    BY <2>1 DEF Held
  <2>3. \A u \in Threads : c \in Held(todo[u]) => u = t
    BY <1>1, <2>1 DEF Structured, Structure, Owned
  <2>4. \A j \in 1 .. Len(todo[t]) : IsOp(todo[t][j], "DeleteIoContext", c) => j = i
    <3>1. todo[t] \in Seq(PoolOps)
      BY <1>1
    <3>2. ~ Foreign(todo[t]) /\ \A s \in Sessions : todo[t] \notin Chains(s)
      BY <2>1, <3>1, ForeignFacts, ChainFacts
    <3>3. PICK e \in Contexts : Plan(todo[t], e)
      BY <1>1, <3>2 DEF Structured, Structure, Shapes
    <3>4. \A k, j \in 1 .. Len(todo[t]) : \A d :
            Deletes(todo[t][k], d) /\ Deletes(todo[t][j], d) => k = j
      BY <3>1, <3>3, PlanOps
    <3> QED BY <2>2, <3>4 DEF Deletes, IsOp
  <2>5. \A u \in Threads : \A j \in 1 .. Len(todo[u]) :
          todo[u][j] = Op("DeleteIoContext", c) => u = t /\ j = i
    <3> SUFFICES ASSUME NEW u \in Threads, NEW j \in 1 .. Len(todo[u]),
                        todo[u][j] = Op("DeleteIoContext", c)
                 PROVE  u = t /\ j = i
      OBVIOUS
    <3>1. IsOp(todo[u][j], "DeleteIoContext", c)
      BY <1>4
    <3>2. c \in Held(todo[u])
      BY <1>1, <3>1 DEF Held
    <3> QED BY <2>3, <2>4, <3>1, <3>2
  <2>6. <<t, i>> \in places /\ todo[t][i] = Op("DeleteIoContext", c)
    BY <1>3, <1>4, <2>2
  <2>7. deleters(c) = {<<t, i>>}
    BY <1>3, <2>5, <2>6
  <2> QED BY <2>7
<1>7. ASSUME NEW c \in live
      PROVE  Cardinality(deleters(c)) = IF c \in kernel THEN 0 ELSE 1
  <2>1. CASE c \in kernel
    BY <1>5, <2>1, FS_EmptySet
  <2>2. CASE c \notin kernel
    BY <1>6, <2>2, FS_Singleton
  <2> QED BY <2>1, <2>2
<1> QED BY <1>7 DEF ContextsOwned, places

\* A set without two different elements.
LEMMA AtMostOne ==
  ASSUME NEW S, \A x, y \in S : x = y
  PROVE  Cardinality(S) <= 1
<1>1. CASE S = {}
  BY <1>1, FS_EmptySet
<1>2. CASE S # {}
  <2>1. PICK x \in S : TRUE
    BY <1>2
  <2>2. S = {x}
    BY <2>1
  <2> QED BY <2>2, FS_Singleton
<1> QED BY <1>1, <1>2

\* Every party that may touch mRecvBuffer holds the receive token, or resets an
\* unused session.
LEMMA PoolOneReceiver ==
  ASSUME NEW J, PoolInv(PoolOps, J)
  PROVE  OneReceiver
<1>1. Structured(J) /\ RecvInv /\ kernel \subseteq live
  BY DEF PoolInv, TypeInv
<1>2. ASSUME NEW s \in Sessions
      PROVE  Cardinality(RecvParties(s)) <= 1
  <2> DEFINE inKernel(c) == c \in kernel /\ OfIO(c, RecvIO, s)
             serving(t) == t \in Threads /\ Starts(todo[t], RecvCalls, s)
             resetting(t) == t \in Threads /\ todo[t] \in Chains(s)
  <2>1. \A x \in RecvParties(s) : inKernel(x) \/ serving(x) \/ resetting(x)
    <3>1. ASSUME NEW c \in kernel, c.session = s, c.io \in {"IO_RECV_ZERO", "IO_RECV"}
          PROVE  inKernel(c)
      BY <3>1 DEF OfIO, RecvIO
    <3>2. ASSUME NEW t \in Threads, NEW op \in Pending(t), SessionOf(op) = s,
                 op.call \in {"PostRecv", "WSARecv", "PacketHandling", "PreRecv",
                              "WSARecvZero", "SessionReset"}
          PROVE  serving(t) \/ resetting(t)
      <4>1. op.call # "DeleteIoContext" /\ op.obj = s
        BY <3>2 DEF SessionOf
      <4>2. ASSUME NEW c \in Contexts, Serves(op, c),
                   op.call \in RecvCalls => Starts(todo[t], RecvCalls, c.session)
            PROVE  serving(t)
        <5>1. c.session = s
          BY <4>1, <4>2 DEF Serves
        <5>2. op.call # "SessionReset"
          BY <4>2 DEF Serves, FrontCalls, LateCalls
        <5>3. op.call \in RecvCalls
          BY <3>2, <5>2 DEF RecvCalls
        <5> QED BY <4>2, <5>1, <5>3
      <4>3. ASSUME NEW r \in Sessions, todo[t] \in Chains(r), op.obj = r
            PROVE  resetting(t)
        BY <4>1, <4>3
      <4> QED BY <4>2, <4>3, PendingOps
    <3> HIDE DEF inKernel, serving, resetting
    <3> QED BY <3>1, <3>2 DEF RecvParties
  <2>2. Alone(todo, kernel, s, RecvIO, RecvCalls)
    BY <1>1 DEF RecvInv
  <2>3. \A x, y : inKernel(x) /\ inKernel(y) => x = y
    BY <2>2 DEF Alone
  <2>4. \A x, y : serving(x) /\ serving(y) => x = y
    BY <2>2 DEF Alone
  <2>5. \A x, y : inKernel(x) /\ serving(y) => FALSE
    BY <2>2 DEF Alone
  <2>6. \A x, y : resetting(x) /\ resetting(y) => x = y
    BY <1>1 DEF Structured, Structure, Idle
  <2>7. \A x, y : resetting(x) => ~ inKernel(y) /\ ~ serving(y)
    <3> SUFFICES ASSUME NEW t \in Threads, todo[t] \in Chains(s)
                 PROVE  \A y : ~ inKernel(y) /\ ~ serving(y)
      OBVIOUS
    <3>1. /\ todo \in [Threads -> Seq(PoolOps)] /\ live \in SUBSET Contexts
          /\ kernel \in SUBSET live
          /\ Structure(J, todo, live, kernel, issueRef, Free, mLock, accepting)
      BY DEF PoolInv, TypeInv, Structured
    <3>2. \A c \in live : c.session # s
      BY <3>1 DEF Structure, Idle, Unused
    <3>3. RecvCalls \in SUBSET (OpCalls \ (ReturnCalls \cup {"DeleteIoContext"}))
      BY DEF RecvCalls, OpCalls, ReturnCalls
    <3>4. ~ Token(todo, kernel, s, RecvIO, RecvCalls)
      BY <3>1, <3>2, <3>3, NoToken
    <3> QED BY <3>4 DEF Token
  <2> HIDE DEF inKernel, serving, resetting
  <2>8. \A x, y \in RecvParties(s) : x = y
    BY <2>1, <2>3, <2>4, <2>5, <2>6, <2>7
  <2> QED BY <2>8, AtMostOne
<1> QED BY <1>2 DEF OneReceiver

-----------------------------------------------------------------------------
\* The words, lists and sets of the pool have their types, and the kernel holds no
\* deleted context (OverlappedIOContext.cpp:6-21).
THEOREM SpecTypeOK == Spec => []TypeOK
<1>1. PoolInv(PoolOps, NoJobs) => TypeOK
  BY PoolTypeOK
<1> QED BY <1>1, PoolInvariant, PTL

\* The reference count of a session is the number of its references in every
\* state: contexts, and the one of the issue (OverlappedIOContext.cpp:11, 21,
\* ClientSessionManager.cpp:66, Session.cpp:204, ClientSession.cpp:29).
THEOREM SpecRefCountExact == Spec => []RefCountExact
<1>1. PoolInv(PoolOps, NoJobs) => RefCountExact
  BY PoolRefCountExact
<1> QED BY <1>1, PoolInvariant, PTL

\* Every context is in the kernel or deleted exactly once, by one thread
\* (IOThread.cpp:85, 148, Session.cpp:35, 61, 93, ClientSession.cpp:76).
THEOREM SpecContextsOwned == Spec => []ContextsOwned
<1>1. PoolInv(PoolOps, NoJobs) => ContextsOwned
  BY PoolContextsOwned
<1> QED BY <1>1, PoolInvariant, PTL

\* A session is reused only when nobody can touch it any more
\* (ClientSession.cpp:25-41, ClientSessionManager.cpp:38-53).
THEOREM SpecReturnedUnused == Spec => []ReturnedUnused
<1>1. PoolInv(PoolOps, NoJobs) => ReturnedUnused
  <2>1. NoJobs \in [Sessions -> Nat]
    BY DEF NoJobs
  <2> QED BY <2>1, PoolReturnedUnused
<1> QED BY <1>1, PoolInvariant, PTL

\* The two counters tell how many sessions the free list holds, so it is not empty
\* when AcceptClientSessions takes one (ClientSessionManager.cpp:55-73).
THEOREM SpecPoolAccounting == Spec => []PoolAccounting
<1>1. PoolInv(PoolOps, NoJobs) => PoolAccounting
  BY DEF PoolInv
<1> QED BY <1>1, PoolInvariant, PTL

\* No CRASH_ASSERT of the session's life can fire: the reference count is never
\* negative (Session.cpp:244), a session is accepted once (ClientSession.cpp:95),
\* and returned without connection and references (ClientSessionManager.cpp:42).
THEOREM SpecNoCrash == Spec => []NoCrash
<1>1. PoolInv(PoolOps, NoJobs) => NoCrash
  BY DEF PoolInv, TypeInv, NoCrash
<1> QED BY <1>1, PoolInvariant, PTL

\* One party at most may touch the receive buffer, which has no lock
\* (Session.cpp:42-101, ClientSession.cpp:29-33).
THEOREM SpecOneReceiver == Spec => []OneReceiver
<1>1. PoolInv(PoolOps, NoJobs) => OneReceiver
  BY PoolOneReceiver
<1> QED BY <1>1, PoolInvariant, PTL

-----------------------------------------------------------------------------
(***************************************************************************)
(* Who watches a connection: nobody may give up its receive without        *)
(* another receive or the disconnect being next, or a test of the result   *)
(* to come that will find it failed.                                       *)
(***************************************************************************)
WatchCalls ==
  {"PreRecv", "WSARecvZero", "PostRecv", "WSARecv", "PacketHandling", "DisconnectRequest"}
WatchIO == {"IO_RECV_ZERO", "IO_RECV"}

\* The list holds the test of the result for session s.
Checks(q, s) == \E i \in 1 .. Len(q) : IsOp(q[i], "CheckCompletion", s)

\* A receive that may be refused is followed by the test of its result, and packets
\* by the next receive (IOThread.cpp:96-143).
Promise(q) ==
  q # <<>> =>
    /\ q[1].call \in {"PostRecv", "WSARecv"} => Checks(Tail(q), q[1].obj)
    /\ q[1].call = "PacketHandling" => Tail(q) # <<>> /\ IsOp(Tail(q)[1], "PreRecv", q[1].obj)

\* A thread with the list q and completionOk = ok watches the connection of s.
Watches(q, ok, s) == Starts(q, WatchCalls, s) \/ (~ ok /\ Checks(q, s))

Receives(K, s) == \E c \in K : OfIO(c, WatchIO, s)

WatchInv ==
  /\ \A t \in Threads : Promise(todo[t])
  /\ \A s \in Sessions : mConnected[s] = 1 =>
       Receives(kernel, s) \/ \E t \in Threads : Watches(todo[t], completionOk[t], s)

\* Tests of a list and of its parts.
LEMMA ChecksTail ==
  ASSUME NEW X, NEW q \in Seq(X), q # <<>>, NEW s, Checks(q, s),
         q[1].call # "CheckCompletion"
  PROVE  Checks(Tail(q), s)
<1>1. PICK i \in 1 .. Len(q) : IsOp(q[i], "CheckCompletion", s)
  BY DEF Checks
<1>2. i # 1
  BY <1>1 DEF IsOp
<1> QED BY <1>1, <1>2, HeadOrTail DEF Checks

LEMMA ChecksPush ==
  ASSUME NEW X, NEW r \in Seq(X), NEW o \in X, NEW s, Checks(r, s)
  PROVE  Checks(<<o>> \o r, s)
<1> DEFINE q == <<o>> \o r
<1>1. /\ Len(q) = Len(r) + 1 /\ Len(r) \in Nat /\ \A i \in 1 .. Len(r) : q[i + 1] = r[i]
  BY Pushed, LenProperties
<1>2. PICK i \in 1 .. Len(r) : IsOp(r[i], "CheckCompletion", s)
  BY DEF Checks
<1> HIDE DEF q
<1>3. i + 1 \in 1 .. Len(q) /\ q[i + 1] = r[i]
  BY <1>1
<1>4. Checks(q, s)
  BY <1>2, <1>3 DEF Checks
<1> QED BY <1>4 DEF q

\* A plan watches its own session only, a chain and an empty list none.
LEMMA PlanWatches ==
  ASSUME NEW X, NEW c \in Contexts, NEW q \in Seq(X), Plan(q, c), NEW ok, NEW s,
         Watches(q, ok, s)
  PROVE  s = c.session
<1>1. q # <<>> /\ 1 \in 1 .. Len(q)
  BY NotEmpty DEF Plan
<1>2. \A i \in 1 .. Len(q) : Serves(q[i], c)
  BY PlanOps
<1>3. CASE Starts(q, WatchCalls, s)
  <2>1. WatchCalls \in SUBSET (OpCalls \ (ReturnCalls \cup {"DeleteIoContext"}))
    BY DEF WatchCalls, OpCalls, ReturnCalls
  <2> QED BY <1>3, <2>1, StartsServed
<1>4. CASE Checks(q, s)
  BY <1>2, <1>4 DEF Checks, IsOp, Serves
<1> QED BY <1>3, <1>4 DEF Watches

LEMMA ChainWatches ==
  ASSUME NEW r, NEW q \in Chains(r)
  PROVE  Promise(q) /\ \A ok, s : ~ Watches(q, ok, s)
<1>1. /\ q # <<>> /\ q[1].call \in ReturnCalls
      /\ \A i \in 1 .. Len(q) : q[i].call \in ReturnCalls
      /\ Tail(q) # <<>> => Tail(q)[1].call \in ReturnCalls
  BY ChainFacts
<1>2. ReturnCalls \cap (WatchCalls \cup {"CheckCompletion", "PreRecv"}) = {}
  BY DEF ReturnCalls, WatchCalls
<1>3. Promise(q)
  BY <1>1 DEF Promise, ReturnCalls
<1>4. \A ok, s : ~ Watches(q, ok, s)
  BY <1>1, <1>2 DEF Watches, Starts, Checks, IsOp
<1> QED BY <1>3, <1>4

LEMMA EmptyWatches ==
  Promise(<<>>) /\ \A ok, s : ~ Watches(<<>>, ok, s)
BY Empty DEF Promise, Watches, Starts, Checks

\* A late call or a receive to post is no promise.
LEMMA OnwardPromise ==
  ASSUME NEW X, NEW c \in Contexts, NEW r \in Seq(X), Onward(r, c)
  PROVE  Promise(r)
<1>1. r[1].call \in LateCalls \cup {"PreRecv"}
  BY OnwardHeld
<1> QED BY <1>1 DEF Promise, LateCalls

LEMMA CallPromise ==
  ASSUME NEW X, NEW o \in X, NEW r \in Seq(X),
         o.call \notin {"PostRecv", "WSARecv", "PacketHandling"}
  PROVE  Promise(<<o>> \o r)
<1>1. (<<o>> \o r)[1] = o
  BY Pushed
<1> QED BY <1>1 DEF Promise

\* Thread t goes on with q: every connection is watched as before, or by t, or by
\* the kernel.
LEMMA WatchKept ==
  ASSUME NEW X, TypeInv(X), WatchInv, NEW t \in Threads, NEW q, Promise(q),
         todo' = [todo EXCEPT ![t] = q],
         \A u \in Threads \ {t} : completionOk'[u] = completionOk[u],
         \A s \in Sessions : mConnected'[s] = 1 =>
           \/ Watches(q, completionOk'[t], s)
           \/ Receives(kernel', s)
           \/ /\ mConnected[s] = 1
              /\ ~ Watches(todo[t], completionOk[t], s)
              /\ \A c \in kernel \ kernel' : ~ OfIO(c, WatchIO, s)
  PROVE  WatchInv'
<1>1. /\ todo'[t] = q /\ \A u \in Threads \ {t} : todo'[u] = todo[u]
  BY DEF TypeInv
<1>2. \A u \in Threads : Promise(todo'[u])
  BY <1>1 DEF WatchInv
<1>3. ASSUME NEW s \in Sessions, mConnected'[s] = 1
      PROVE  Receives(kernel', s) \/ \E u \in Threads : Watches(todo'[u], completionOk'[u], s)
  <2>1. CASE Watches(q, completionOk'[t], s)
    BY <1>1, <2>1
  <2>2. CASE Receives(kernel', s)
    BY <2>2
  <2>3. CASE /\ mConnected[s] = 1 /\ ~ Watches(todo[t], completionOk[t], s)
             /\ \A c \in kernel \ kernel' : ~ OfIO(c, WatchIO, s)
    <3>1. Receives(kernel, s) \/ \E u \in Threads : Watches(todo[u], completionOk[u], s)
      BY <2>3 DEF WatchInv
    <3>2. CASE Receives(kernel, s)
      BY <2>3, <3>2 DEF Receives
    <3>3. ASSUME NEW u \in Threads, Watches(todo[u], completionOk[u], s)
          PROVE  Watches(todo'[u], completionOk'[u], s)
      <4>1. u # t
        BY <2>3, <3>3
      <4>2. todo'[u] = todo[u] /\ completionOk'[u] = completionOk[u]
        BY <1>1, <4>1
      <4> QED BY <3>3, <4>2
    <3> QED BY <3>1, <3>2, <3>3
  <2> QED BY <1>3, <2>1, <2>2, <2>3
<1> QED BY <1>2, <1>3 DEF WatchInv

\* A thread that watches nobody goes on.
LEMMA WatchIdle ==
  ASSUME NEW X, TypeInv(X), WatchInv, NEW t \in Threads, NEW q, Promise(q),
         todo' = [todo EXCEPT ![t] = q],
         \A s : ~ Watches(todo[t], completionOk[t], s),
         \A u \in Threads \ {t} : completionOk'[u] = completionOk[u],
         \A s \in Sessions : mConnected'[s] = mConnected[s] \/ mConnected'[s] = 0,
         kernel \subseteq kernel'
  PROVE  WatchInv'
<1>1. \A s \in Sessions : mConnected'[s] = 1 =>
        /\ mConnected[s] = 1
        /\ ~ Watches(todo[t], completionOk[t], s)
        /\ \A c \in kernel \ kernel' : ~ OfIO(c, WatchIO, s)
  OBVIOUS
<1> QED BY <1>1, WatchKept

\* The same thread serves a completion of c and may have watched the connection.
LEMMA WatchServed ==
  ASSUME NEW X, TypeInv(X), WatchInv, NEW t \in Threads, NEW c \in Contexts,
         Plan(todo[t], c), NEW q \in Seq(X), Promise(q),
         todo' = [todo EXCEPT ![t] = q],
         \A u \in Threads \ {t} : completionOk'[u] = completionOk[u],
         \A s \in Sessions \ {c.session} : mConnected'[s] = mConnected[s],
         kernel \subseteq kernel',
         mConnected'[c.session] = 1 =>
           \/ Watches(q, completionOk'[t], c.session)
           \/ Receives(kernel', c.session)
           \/ mConnected[c.session] = 1 /\ ~ Watches(todo[t], completionOk[t], c.session)
  PROVE  WatchInv'
<1>1. todo[t] \in Seq(X)
  BY DEF TypeInv
<1>2. \A s : Watches(todo[t], completionOk[t], s) => s = c.session
  BY <1>1, PlanWatches
<1>3. ASSUME NEW s \in Sessions, mConnected'[s] = 1
      PROVE  \/ Watches(q, completionOk'[t], s)
             \/ Receives(kernel', s)
             \/ /\ mConnected[s] = 1
                /\ ~ Watches(todo[t], completionOk[t], s)
                /\ \A d \in kernel \ kernel' : ~ OfIO(d, WatchIO, s)
  <2>1. CASE s = c.session
    BY <1>3, <2>1
  <2>2. CASE s # c.session
    BY <1>2, <1>3, <2>2
  <2> QED BY <2>1, <2>2
<1> QED BY <1>3, WatchKept

\* What a serving thread knows of itself.
LEMMA ServedWatch ==
  ASSUME NEW X, NEW J, PoolInv(X, J), WatchInv, NEW t \in Threads, NEW call,
         NEW c \in Contexts, Served(X, t, call, c)
  PROVE  /\ TypeInv(X) /\ todo \in [Threads -> Seq(X)] /\ Promise(todo[t])
         /\ Plan(todo[t], c) /\ todo[t] # <<>> /\ Tail(todo[t]) \in Seq(X)
         /\ Onward(Tail(todo[t]), c) /\ Promise(Tail(todo[t]))
         /\ call \notin Detours => Rest(Tail(todo[t]), c)
         /\ call \notin WatchCalls \cup Detours =>
              \A s : Watches(todo[t], completionOk[t], s)
                       => ~ completionOk[t] /\ Checks(todo[t], s)
         /\ call \notin WatchCalls \cup {"CheckCompletion"} =>
              \A s : Watches(todo[t], completionOk[t], s)
                       => Watches(Tail(todo[t]), completionOk[t], s)
<1>1. /\ TypeInv(X) /\ todo \in [Threads -> Seq(X)] /\ Promise(todo[t])
  BY DEF PoolInv, TypeInv, WatchInv
<1>2. /\ Plan(todo[t], c) /\ todo[t] # <<>> /\ Tail(todo[t]) \in Seq(X)
      /\ Onward(Tail(todo[t]), c) /\ (call \notin Detours => Rest(Tail(todo[t]), c))
      /\ todo[t][1].call = call
  BY DEF Served
<1>3. Promise(Tail(todo[t]))
  BY <1>2, OnwardPromise
<1>4. call \notin WatchCalls \cup Detours =>
        \A s : Watches(todo[t], completionOk[t], s)
                 => ~ completionOk[t] /\ Checks(todo[t], s)
  <2> DEFINE r == Tail(todo[t])
  <2>1. r \in Seq(X) /\ (Rest(r, c) => r[1].call \in LateCalls)
    BY <1>2, RestHeld
  <2>2. Rest(r, c) => r[1].call # "PreRecv"
    BY <2>1 DEF LateCalls
  <2> QED BY <1>2, <2>2 DEF Watches, Starts, IsOp
<1>5. call # "CheckCompletion" => \A s : Checks(todo[t], s) => Checks(Tail(todo[t]), s)
  BY <1>1, <1>2, ChecksTail
<1>6. call \notin WatchCalls \cup {"CheckCompletion"} =>
        \A s : Watches(todo[t], completionOk[t], s)
                 => Watches(Tail(todo[t]), completionOk[t], s)
  BY <1>2, <1>5 DEF Watches, Starts, IsOp, WatchCalls
<1> QED BY <1>1, <1>2, <1>3, <1>4, <1>6

\* A call put in front, with the tests behind it.
LEMMA PushWatches ==
  ASSUME NEW X, HasPoolOps(X), NEW c \in Contexts, NEW r \in Seq(X), NEW call \in OpCalls
  PROVE  /\ <<Op(call, c.session)>> \o r \in Seq(X)
         /\ call \notin {"PostRecv", "WSARecv", "PacketHandling"}
              => Promise(<<Op(call, c.session)>> \o r)
         /\ call \in {"PostRecv", "WSARecv"} /\ Checks(r, c.session)
              => Promise(<<Op(call, c.session)>> \o r)
         /\ call \in WatchCalls
              => \A ok : Watches(<<Op(call, c.session)>> \o r, ok, c.session)
         /\ \A ok, s : ~ ok /\ Checks(r, s) => Watches(<<Op(call, c.session)>> \o r, ok, s)
<1> DEFINE o == Op(call, c.session)
           q == <<o>> \o r
<1>1. o \in X /\ o.call = call /\ o.obj = c.session
  BY DEF HasPoolOps, PoolOps, Op, Contexts
<1> HIDE DEF o
<1>2. q \in Seq(X) /\ q # <<>> /\ q[1] = o /\ Tail(q) = r
  BY <1>1, Pushed
<1>3. \A s : Checks(r, s) => Checks(q, s)
  BY <1>1, ChecksPush
<1> HIDE DEF q
<1>4. call \notin {"PostRecv", "WSARecv", "PacketHandling"} => Promise(q)
  BY <1>1, <1>2 DEF Promise
<1>5. call \in {"PostRecv", "WSARecv"} /\ Checks(r, c.session) => Promise(q)
  BY <1>1, <1>2 DEF Promise
<1>6. call \in WatchCalls => \A ok : Watches(q, ok, c.session)
  BY <1>1, <1>2 DEF Watches, Starts
<1>7. \A ok, s : ~ ok /\ Checks(r, s) => Watches(q, ok, s)
  BY <1>3 DEF Watches
<1> QED BY <1>2, <1>4, <1>5, <1>6, <1>7 DEF q, o

\* PreRecv and PostRecv: the receive is next, or the connection is down.
LEMMA CheckConnectedWatch ==
  ASSUME NEW X, HasPoolOps(X), NEW J, PoolInv(X, J), WatchInv, NEW t \in Threads,
         NEW call, NEW next,
         \/ call = "PreRecv" /\ next = "WSARecvZero"
         \/ call = "PostRecv" /\ next = "WSARecv",
         CheckConnected(t, call, next)
  PROVE  WatchInv'
<1>1. call \in OpCalls \ (ReturnCalls \cup {"DeleteIoContext"})
  BY DEF OpCalls, ReturnCalls
<1>2. PICK c \in Contexts : Served(X, t, call, c)
  BY <1>1, Caller DEF CheckConnected
<1> DEFINE s == c.session
           r == Tail(todo[t])
           q == <<Op(next, s)>> \o r
<1>3. /\ TypeInv(X) /\ todo \in [Threads -> Seq(X)] /\ Promise(todo[t])
      /\ Plan(todo[t], c) /\ todo[t] # <<>> /\ r \in Seq(X) /\ Onward(r, c) /\ Promise(r)
  BY <1>2, ServedWatch
<1>4. todo[t][1].call = call /\ todo[t][1].obj = s /\ s \in Sessions /\ Obj(t) = s
  BY <1>2 DEF Served
<1>5. mConnected' = mConnected /\ kernel' = kernel
  BY DEF CheckConnected, sessionVars, contextVars
<1>6. \A u \in Threads \ {t} : completionOk'[u] = completionOk[u]
  BY <1>3 DEF CheckConnected, Set, TypeInv
<1>7. CASE mConnected[s] = 1 /\ Do(t, <<Op(next, s)>>)
  <2>1. todo' = [todo EXCEPT ![t] = q]
    BY <1>3, <1>7, Doing
  <2>2. next = "WSARecv" => Checks(r, s)
    BY <1>3, <1>4 DEF Promise
  <2>3. next \in OpCalls /\ next \in WatchCalls
    BY DEF OpCalls, WatchCalls
  <2> HIDE DEF r
  <2>4. q \in Seq(X) /\ Promise(q) /\ \A ok : Watches(q, ok, s)
    BY <1>3, <2>2, <2>3, PushWatches
  <2> HIDE DEF q
  <2> QED BY <1>3, <1>5, <1>6, <2>1, <2>4, WatchServed
<1>8. CASE mConnected[s] = 0 /\ Do(t, <<>>)
  <2>1. todo' = [todo EXCEPT ![t] = r]
    BY <1>3, <1>8, Doing
  <2>2. mConnected'[s] # 1
    BY <1>5, <1>8
  <2> HIDE DEF r
  <2> QED BY <1>3, <1>5, <1>6, <2>1, <2>2, WatchServed
<1> QED BY <1>4, <1>7, <1>8 DEF CheckConnected

LEMMA PostRecvWatch ==
  ASSUME NEW X, HasPoolOps(X), NEW J, PoolInv(X, J), WatchInv, NEW t \in Threads, PostRecv(t)
  PROVE  WatchInv'
<1>1. CASE CheckConnected(t, "PostRecv", "WSARecv")
  BY <1>1, CheckConnectedWatch
<1>2. CASE /\ Calling(t, "PostRecv")
           /\ Do(t, <<>>)
           /\ Set(completionOk, t, FALSE)
           /\ UNCHANGED <<sessionVars, managerVars, contextVars, accepting, issueRef, crashed>>
  <2>1. "PostRecv" \in OpCalls \ (ReturnCalls \cup {"DeleteIoContext"})
    BY DEF OpCalls, ReturnCalls
  <2>2. PICK c \in Contexts : Served(X, t, "PostRecv", c)
    BY <1>2, <2>1, Caller
  <2> DEFINE r == Tail(todo[t])
  <2>3. /\ TypeInv(X) /\ todo \in [Threads -> Seq(X)] /\ Promise(todo[t])
        /\ Plan(todo[t], c) /\ todo[t] # <<>> /\ r \in Seq(X) /\ Onward(r, c) /\ Promise(r)
    BY <2>2, ServedWatch
  <2>4. todo[t][1].call = "PostRecv" /\ todo[t][1].obj = c.session
    BY <2>2 DEF Served
  <2>5. mConnected' = mConnected /\ kernel' = kernel
    BY <1>2 DEF sessionVars, contextVars
  <2>6. completionOk'[t] = FALSE /\ \A u \in Threads \ {t} : completionOk'[u] = completionOk[u]
    BY <1>2, <2>3 DEF Set, TypeInv
  <2>7. todo' = [todo EXCEPT ![t] = r]
    BY <1>2, <2>3, Doing
  <2>8. Watches(r, completionOk'[t], c.session)
    BY <2>3, <2>4, <2>6 DEF Promise, Watches
  <2> HIDE DEF r
  <2> QED BY <2>3, <2>5, <2>6, <2>7, <2>8, WatchServed
<1> QED BY <1>1, <1>2 DEF PostRecv

\* SendBaseKey watches nobody; CheckCompletion asks for the disconnect when the
\* result is bad.
LEMMA LateCallWatch ==
  ASSUME NEW X, HasPoolOps(X), NEW J, PoolInv(X, J), WatchInv, NEW t \in Threads,
         SendBaseKey(t) \/ CheckCompletion(t)
  PROVE  WatchInv'
<1>1. PICK call \in {"SendBaseKey", "CheckCompletion"} :
        /\ Calling(t, call)
        /\ \/ Do(t, <<>>) /\ (call = "CheckCompletion" => completionOk[t])
           \/ Do(t, <<Op("DisconnectRequest", Obj(t))>>)
        /\ UNCHANGED <<sessionVars, managerVars, contextVars, completionOk, accepting,
                       issueRef, crashed>>
  BY DEF SendBaseKey, CheckCompletion
<1>2. call \in OpCalls \ (ReturnCalls \cup {"DeleteIoContext"})
  BY DEF OpCalls, ReturnCalls
<1>3. PICK c \in Contexts : Served(X, t, call, c)
  BY <1>1, <1>2, Caller
<1> DEFINE s == c.session
           r == Tail(todo[t])
           q == <<Op("DisconnectRequest", s)>> \o r
<1>4. /\ TypeInv(X) /\ todo \in [Threads -> Seq(X)]
      /\ Plan(todo[t], c) /\ todo[t] # <<>> /\ r \in Seq(X) /\ Onward(r, c) /\ Promise(r)
  BY <1>3, ServedWatch
<1>5. Obj(t) = s
  BY <1>3 DEF Served
<1>6. mConnected' = mConnected /\ kernel' = kernel /\ completionOk' = completionOk
  BY <1>1 DEF sessionVars, contextVars
<1>7. CASE Do(t, <<>>) /\ (call = "CheckCompletion" => completionOk[t])
  <2>1. todo' = [todo EXCEPT ![t] = r]
    BY <1>4, <1>7, Doing
  <2>2. call \notin WatchCalls \cup Detours
    BY DEF WatchCalls, Detours
  <2>3. Watches(todo[t], completionOk[t], s) => Watches(r, completionOk[t], s)
    BY <1>3, <1>7, <2>2, ServedWatch
  <2>4. \/ Watches(r, completionOk'[t], s)
        \/ ~ Watches(todo[t], completionOk[t], s)
    BY <1>6, <2>3
  <2> HIDE DEF r
  <2> QED BY <1>4, <1>6, <2>1, <2>4, WatchServed
<1>8. CASE Do(t, <<Op("DisconnectRequest", s)>>)
  <2>1. todo' = [todo EXCEPT ![t] = q]
    BY <1>4, <1>8, Doing
  <2>2. "DisconnectRequest" \in OpCalls /\ "DisconnectRequest" \in WatchCalls
    BY DEF OpCalls, WatchCalls
  <2> HIDE DEF r
  <2>3. q \in Seq(X) /\ Promise(q) /\ \A ok : Watches(q, ok, s)
    BY <1>4, <2>2, PushWatches
  <2> HIDE DEF q
  <2> QED BY <1>4, <1>6, <2>1, <2>3, WatchServed
<1> QED BY <1>1, <1>5, <1>7, <1>8

\* Behind the packets is the next receive, before them a disconnect perhaps.
LEMMA PacketHandlingWatch ==
  ASSUME NEW X, HasPoolOps(X), NEW J, PoolInv(X, J), WatchInv, NEW t \in Threads,
         PacketHandling(t)
  PROVE  WatchInv'
<1> DEFINE q == todo[t]
           r == Tail(q)
<1>1. todo \in [Threads -> Seq(X)] /\ TypeInv(X) /\ Structured(J) /\ Promise(q)
  BY DEF PoolInv, TypeInv, WatchInv
<1>2. q \in Seq(X) /\ q # <<>> /\ Head(q) = q[1] /\ q[1].call = "PacketHandling" /\ r \in Seq(X)
  BY <1>1, NotEmpty DEF PacketHandling, Calling
<1>3. "PacketHandling" \in OpCalls \ ReturnCalls
  BY DEF OpCalls, ReturnCalls
<1>4. PICK c \in Contexts : Plan(q, c)
  BY <1>1, <1>2, <1>3, ForeignFacts, ChainFacts DEF Structured, Structure, Shapes
<1>5. q[1].obj = c.session
  <2> HIDE DEF q
  <2> QED BY <1>2, <1>4, PlanHead
<1>6. r # <<>> /\ IsOp(r[1], "PreRecv", c.session)
  BY <1>1, <1>2, <1>5 DEF Promise
<1>7. mConnected' = mConnected /\ kernel' = kernel /\ completionOk' = completionOk
  BY DEF PacketHandling, sessionVars, contextVars
<1>8. CASE Do(t, <<>>)
  <2>1. todo' = [todo EXCEPT ![t] = r]
    BY <1>1, <1>2, <1>8, Doing
  <2> HIDE DEF r
  <2>2. Promise(r) /\ \A ok : Watches(r, ok, c.session)
    BY <1>6 DEF Promise, Watches, Starts, IsOp, WatchCalls
  <2> QED BY <1>1, <1>2, <1>4, <1>7, <2>1, <2>2, WatchServed
<1>9. CASE Do(t, <<Op("DisconnectRequest", c.session)>>)
  <2> DEFINE p == <<Op("DisconnectRequest", c.session)>> \o r
  <2>1. todo' = [todo EXCEPT ![t] = p]
    BY <1>1, <1>2, <1>9, Doing
  <2>2. "DisconnectRequest" \in OpCalls /\ "DisconnectRequest" \in WatchCalls
    BY DEF OpCalls, WatchCalls
  <2> HIDE DEF r
  <2>3. p \in Seq(X) /\ Promise(p) /\ \A ok : Watches(p, ok, c.session)
    BY <1>2, <2>2, PushWatches
  <2> HIDE DEF p, q
  <2> QED BY <1>1, <1>4, <1>7, <2>1, <2>3, WatchServed DEF q
<1>10. Obj(t) = c.session
  BY <1>2, <1>5 DEF Obj
<1> QED BY <1>8, <1>9, <1>10 DEF PacketHandling

\* DisconnectRequest: the connection is down.
LEMMA DisconnectRequestWatch ==
  ASSUME NEW X, HasPoolOps(X), NEW J, PoolInv(X, J), WatchInv, NEW t \in Threads,
         DisconnectRequest(t)
  PROVE  WatchInv'
<1>1. "DisconnectRequest" \in OpCalls \ (ReturnCalls \cup {"DeleteIoContext"})
  BY DEF OpCalls, ReturnCalls
<1>2. PICK c \in Contexts : Served(X, t, "DisconnectRequest", c)
  BY <1>1, Caller DEF DisconnectRequest
<1> DEFINE s == c.session
           r == Tail(todo[t])
           q == <<Op("DisconnectEx", s)>> \o r
<1>3. /\ TypeInv(X) /\ todo \in [Threads -> Seq(X)]
      /\ Plan(todo[t], c) /\ todo[t] # <<>> /\ r \in Seq(X) /\ Onward(r, c) /\ Promise(r)
  BY <1>2, ServedWatch
<1>4. Obj(t) = s /\ s \in Sessions
  BY <1>2 DEF Served
<1>5. /\ mConnected' = [mConnected EXCEPT ![s] = 0]
      /\ mConnected'[s] # 1 /\ \A u \in Sessions \ {s} : mConnected'[u] = mConnected[u]
      /\ kernel' = kernel /\ completionOk' = completionOk
  BY <1>3, <1>4 DEF DisconnectRequest, Set, TypeInv, contextVars
<1>6. CASE Do(t, <<>>)
  <2>1. todo' = [todo EXCEPT ![t] = r]
    BY <1>3, <1>6, Doing
  <2> HIDE DEF r
  <2> QED BY <1>3, <1>5, <2>1, WatchServed
<1>7. CASE Do(t, <<Op("DisconnectEx", s)>>)
  <2>1. todo' = [todo EXCEPT ![t] = q]
    BY <1>3, <1>7, Doing
  <2>2. "DisconnectEx" \in OpCalls
    BY DEF OpCalls
  <2> HIDE DEF r
  <2>3. q \in Seq(X) /\ Promise(q)
    BY <1>3, <2>2, PushWatches
  <2> HIDE DEF q
  <2> QED BY <1>3, <1>5, <2>1, <2>3, WatchServed
<1> QED BY <1>4, <1>6, <1>7 DEF DisconnectRequest

\* The three calls that post: a receive is in the kernel, or the test of the result
\* behind the call finds it bad.
LEMMA PostWatch ==
  ASSUME NEW X, HasPoolOps(X), NEW J, PoolInv(X, J), WatchInv, NEW t \in Threads,
         NEW call, NEW c \in Contexts, Served(X, t, call, c),
         NEW io, NEW sys, Post(t, Obj(t), io, sys, <<>>),
         \A u \in Threads \ {t} : completionOk'[u] = completionOk[u],
         mConnected' = mConnected,
         \/ call = "DisconnectEx" /\ completionOk' = completionOk
         \/ /\ call \in WatchCalls /\ io \in WatchIO
            /\ completionOk'[t] = (kernel' # kernel)
            /\ call = "WSARecv" \/ sys \notin Faults
  PROVE  WatchInv'
<1> DEFINE s == c.session
           r == Tail(todo[t])
           d == NewContext(s, io)
           o == Op("DeleteIoContext", d)
           q == <<o>> \o r
<1>1. /\ TypeInv(X) /\ todo \in [Threads -> Seq(X)] /\ Promise(todo[t])
      /\ Plan(todo[t], c) /\ todo[t] # <<>> /\ r \in Seq(X) /\ Onward(r, c) /\ Promise(r)
  BY ServedWatch
<1>2. /\ todo[t][1].call = call /\ todo[t][1].obj = s /\ s \in Sessions /\ Obj(t) = s
  BY DEF Served
<1>3. HasNewContext(s, io)
  BY <1>2 DEF Post
<1>4. d \in Contexts /\ d \notin live /\ d.session = s /\ d.io = io
  BY <1>2, <1>3, Fresh
<1>5. kernel \subseteq live
  BY <1>1 DEF TypeInv
<1>6. \/ kernel' = kernel \cup {d} /\ Do(t, <<>>)
      \/ kernel' = kernel /\ sys \in Faults /\ Do(t, <<o>> \o <<>>)
  BY <1>2 DEF Post
<1>7. call = "DisconnectEx" => \A u : Watches(todo[t], completionOk[t], u)
                                        => Watches(r, completionOk[t], u)
  <2>1. "DisconnectEx" \notin WatchCalls \cup {"CheckCompletion"}
    BY DEF WatchCalls
  <2> QED BY <2>1, ServedWatch
<1>8. o \in X /\ o.call = "DeleteIoContext"
  BY <1>4 DEF HasPoolOps, PoolOps, Op, OpCalls
<1> HIDE DEF d
<1>9. CASE kernel' = kernel \cup {d} /\ Do(t, <<>>)
  <2>1. todo' = [todo EXCEPT ![t] = r]
    BY <1>1, <1>9, Doing
  <2>2. \/ Watches(r, completionOk'[t], s)
        \/ Receives(kernel', s)
        \/ ~ Watches(todo[t], completionOk[t], s)
    <3>1. CASE call = "DisconnectEx" /\ completionOk' = completionOk
      BY <1>7, <3>1
    <3>2. CASE io \in WatchIO
      <4>1. OfIO(d, WatchIO, s) /\ d \in kernel'
        BY <1>4, <1>9, <3>2 DEF OfIO
      <4> QED BY <4>1 DEF Receives
    <3> QED BY <3>1, <3>2
  <2>3. kernel \subseteq kernel'
    BY <1>9
  <2> HIDE DEF r
  <2> QED BY <1>1, <2>1, <2>2, <2>3, WatchServed
<1>10. CASE kernel' = kernel /\ sys \in Faults /\ Do(t, <<o>> \o <<>>)
  <2>1. <<o>> \o <<>> = <<o>>
    <3>1. <<o>> \in Seq(X)
      BY <1>8
    <3> QED BY <3>1, ConcatEmptySeq
  <2>2. todo' = [todo EXCEPT ![t] = q]
    <3>1. Do(t, <<o>>)
      BY <1>10, <2>1
    <3> HIDE DEF o
    <3> QED BY <1>1, <3>1, Doing
  <2> HIDE DEF o, r
  <2>3. q \in Seq(X) /\ Promise(q) /\ q # <<>> /\ Tail(q) = r
    BY <1>1, <1>8, CallPromise, Pushed
  <2>4. \A u : Checks(r, u) => Checks(q, u)
    BY <1>1, <1>8, ChecksPush
  <2>5. Watches(q, completionOk'[t], s) \/ ~ Watches(todo[t], completionOk[t], s)
    <3>1. CASE call = "DisconnectEx" /\ completionOk' = completionOk
      <4>1. \A u : Starts(todo[t], WatchCalls, u) => IsOp(r[1], "PreRecv", u) /\ r # <<>>
        BY <1>2, <3>1 DEF Starts, WatchCalls, r
      <4>2. \A u : IsOp(r[1], "PreRecv", u) /\ r # <<>> => Starts(q, WatchCalls, u)
        BY <2>3 DEF Starts, WatchCalls
      <4>3. \A u : Checks(todo[t], u) => Checks(r, u)
        BY <1>1, <1>2, <3>1, ChecksTail DEF r
      <4> QED BY <2>4, <3>1, <4>1, <4>2, <4>3 DEF Watches
    <3>2. CASE /\ completionOk'[t] = (kernel' # kernel)
               /\ call = "WSARecv" \/ sys \notin Faults
      <4>1. call = "WSARecv" /\ ~ completionOk'[t]
        BY <1>10, <3>2
      <4>2. Checks(r, s)
        BY <1>1, <1>2, <4>1 DEF Promise, r
      <4> QED BY <2>4, <4>1, <4>2 DEF Watches
    <3> QED BY <3>1, <3>2
  <2> HIDE DEF q
  <2> QED BY <1>1, <1>10, <2>2, <2>3, <2>5, WatchServed
<1> QED BY <1>6, <1>9, <1>10

LEMMA PostCallWatch ==
  ASSUME NEW X, HasPoolOps(X), NEW J, PoolInv(X, J), WatchInv, NEW t \in Threads,
         "WSARecvZero" \notin Faults,
         DisconnectEx(t) \/ WSARecvZero(t) \/ WSARecv(t)
  PROVE  WatchInv'
<1>0. DOMAIN completionOk = Threads
  BY DEF PoolInv, TypeInv
<1>1. CASE DisconnectEx(t)
  <2>1. "DisconnectEx" \in OpCalls \ (ReturnCalls \cup {"DeleteIoContext"})
    BY DEF OpCalls, ReturnCalls
  <2>2. PICK c \in Contexts : Served(X, t, "DisconnectEx", c)
    BY <1>1, <2>1, Caller DEF DisconnectEx
  <2>3. /\ Post(t, Obj(t), "IO_DISCONNECT", "DisconnectEx", <<>>)
        /\ mConnected' = mConnected /\ completionOk' = completionOk
    BY <1>1 DEF DisconnectEx
  <2> QED BY <2>2, <2>3, PostWatch
<1>2. CASE WSARecvZero(t)
  <2>1. "WSARecvZero" \in OpCalls \ (ReturnCalls \cup {"DeleteIoContext"})
    BY DEF OpCalls, ReturnCalls
  <2>2. PICK c \in Contexts : Served(X, t, "WSARecvZero", c)
    BY <1>2, <2>1, Caller DEF WSARecvZero
  <2>3. /\ Post(t, Obj(t), "IO_RECV_ZERO", "WSARecvZero", <<>>)
        /\ mConnected' = mConnected /\ completionOk'[t] = (kernel' # kernel)
        /\ \A u \in Threads \ {t} : completionOk'[u] = completionOk[u]
    BY <1>0, <1>2 DEF WSARecvZero, Set
  <2>4. "WSARecvZero" \in WatchCalls /\ "IO_RECV_ZERO" \in WatchIO
    BY DEF WatchCalls, WatchIO
  <2> QED BY <2>2, <2>3, <2>4, PostWatch
<1>3. CASE WSARecv(t)
  <2>1. "WSARecv" \in OpCalls \ (ReturnCalls \cup {"DeleteIoContext"})
    BY DEF OpCalls, ReturnCalls
  <2>2. PICK c \in Contexts : Served(X, t, "WSARecv", c)
    BY <1>3, <2>1, Caller DEF WSARecv
  <2>3. /\ Post(t, Obj(t), "IO_RECV", "WSARecv", <<>>)
        /\ mConnected' = mConnected /\ completionOk'[t] = (kernel' # kernel)
        /\ \A u \in Threads \ {t} : completionOk'[u] = completionOk[u]
    BY <1>0, <1>3 DEF WSARecv, Set
  <2>4. "WSARecv" \in WatchCalls /\ "IO_RECV" \in WatchIO
    BY DEF WatchCalls, WatchIO
  <2> QED BY <2>2, <2>3, <2>4, PostWatch
<1> QED BY <1>1, <1>2, <1>3

\* AcceptCompletion: the connection is up, and the next call watches it.
LEMMA AcceptCompletionWatch ==
  ASSUME NEW X, HasPoolOps(X), NEW J, PoolInv(X, J), WatchInv, NEW t \in Threads,
         AcceptCompletion(t)
  PROVE  WatchInv'
<1>1. "AcceptCompletion" \in OpCalls \ (ReturnCalls \cup {"DeleteIoContext"})
  BY DEF OpCalls, ReturnCalls
<1>2. PICK c \in Contexts : Served(X, t, "AcceptCompletion", c)
  BY <1>1, Caller DEF AcceptCompletion
<1> DEFINE s == c.session
           r == Tail(todo[t])
<1>3. /\ TypeInv(X) /\ todo \in [Threads -> Seq(X)]
      /\ Plan(todo[t], c) /\ todo[t] # <<>> /\ r \in Seq(X) /\ Rest(r, c)
  BY <1>2, ServedWatch DEF Detours
<1>4. Obj(t) = s /\ s \in Sessions
  BY <1>2 DEF Served
<1>5. /\ \A u \in Sessions \ {s} : mConnected'[u] = mConnected[u]
      /\ kernel' = kernel /\ completionOk' = completionOk
  BY <1>3, <1>4 DEF AcceptCompletion, Set, TypeInv, contextVars
<1>6. CASE Do(t, <<Op("PreRecv", s), Op("SendBaseKey", s)>>)
  <2> DEFINE k == <<Op("SendBaseKey", s)>> \o r
             q == <<Op("PreRecv", s)>> \o k
  <2>1. /\ Op("SendBaseKey", s) \in X /\ Op("PreRecv", s) \in X
        /\ Op("SendBaseKey", s).call \in LateCalls \ {"DeleteIoContext"}
        /\ Op("SendBaseKey", s).obj = s
    BY <1>4 DEF HasPoolOps, PoolOps, Op, OpCalls, LateCalls
  <2>2. Rest(k, c) /\ k \in Seq(X)
    BY <1>3, <2>1, RestPush, Pushed
  <2>3. <<Op("PreRecv", s), Op("SendBaseKey", s)>> \o r = q
    <3>1. /\ <<Op("PreRecv", s)>> \in Seq(X) /\ <<Op("SendBaseKey", s)>> \in Seq(X)
          /\ <<Op("PreRecv", s)>> \o <<Op("SendBaseKey", s)>>
               = <<Op("PreRecv", s), Op("SendBaseKey", s)>>
      BY <2>1, Pair
    <3> QED BY <1>3, <3>1, ConcatAssociative
  <2>4. todo' = [todo EXCEPT ![t] = q]
    BY <1>3, <1>6, <2>3, Doing
  <2> HIDE DEF k
  <2>5. "PreRecv" \in OpCalls /\ "PreRecv" \in WatchCalls
    BY DEF OpCalls, WatchCalls
  <2>6. q \in Seq(X) /\ Promise(q) /\ \A ok : Watches(q, ok, s)
    BY <2>2, <2>5, PushWatches
  <2> HIDE DEF q
  <2> QED BY <1>3, <1>5, <2>4, <2>6, WatchServed
<1>7. CASE Do(t, <<Op("DisconnectRequest", s)>>)
  <2> DEFINE q == <<Op("DisconnectRequest", s)>> \o r
  <2>1. todo' = [todo EXCEPT ![t] = q]
    BY <1>3, <1>7, Doing
  <2>2. "DisconnectRequest" \in OpCalls /\ "DisconnectRequest" \in WatchCalls
    BY DEF OpCalls, WatchCalls
  <2> HIDE DEF r
  <2>3. q \in Seq(X) /\ Promise(q) /\ \A ok : Watches(q, ok, s)
    BY <1>3, <2>2, PushWatches
  <2> HIDE DEF q
  <2> QED BY <1>3, <1>5, <2>1, <2>3, WatchServed
<1> QED BY <1>4, <1>6, <1>7 DEF AcceptCompletion

\* A thread that releases a reference watches, with the rest, as before.
LEMMA ReleaseWatch ==
  ASSUME NEW X, HasPoolOps(X), TypeInv(X), WatchInv, NEW t \in Threads, todo[t] # <<>>,
         todo[t][1].call \notin WatchCalls \cup {"CheckCompletion"},
         Promise(Tail(todo[t])), NEW s \in Sessions,
         Do(t, <<>>) \/ Do(t, <<Op("ReturnLock", s)>>),
         mConnected' = mConnected, completionOk' = completionOk, kernel' = kernel
  PROVE  WatchInv'
<1> DEFINE r == Tail(todo[t])
           o == Op("ReturnLock", s)
           q == <<o>> \o r
<1>1. todo \in [Threads -> Seq(X)] /\ todo[t] \in Seq(X) /\ r \in Seq(X)
  <2>1. todo \in [Threads -> Seq(X)]
    BY DEF TypeInv
  <2> QED BY <2>1, NotEmpty
<1>2. \A u : Watches(todo[t], completionOk[t], u) =>
        \/ r # <<>> /\ IsOp(r[1], "PreRecv", u)
        \/ ~ completionOk[t] /\ Checks(r, u)
  BY <1>1, ChecksTail DEF Watches, Starts
<1>3. o \in X /\ o.call = "ReturnLock"
  BY DEF HasPoolOps, PoolOps, Op, OpCalls
<1>4. CASE Do(t, <<>>)
  <2>1. todo' = [todo EXCEPT ![t] = r]
    BY <1>1, <1>4, Doing
  <2>2. \A u : Watches(todo[t], completionOk[t], u) => Watches(r, completionOk'[t], u)
    BY <1>2 DEF Watches, Starts, IsOp, WatchCalls
  <2>3. Promise(r)
    OBVIOUS
  <2> HIDE DEF r
  <2> QED BY <2>1, <2>2, <2>3, WatchKept
<1>5. CASE Do(t, <<o>>)
  <2>1. todo' = [todo EXCEPT ![t] = q]
    BY <1>1, <1>5, Doing
  <2> HIDE DEF o, r
  <2>2. Promise(q) /\ q # <<>> /\ Tail(q) = r
    BY <1>1, <1>3, CallPromise, Pushed
  <2>3. \A u : Checks(r, u) => Checks(q, u)
    BY <1>1, <1>3, ChecksPush
  <2> HIDE DEF q
  <2>4. \A u : Watches(todo[t], completionOk[t], u) => Watches(q, completionOk'[t], u)
    BY <1>2, <2>2, <2>3 DEF Watches, Starts, WatchCalls
  <2> QED BY <2>1, <2>2, <2>4, WatchKept
<1> QED BY <1>4, <1>5

LEMMA DeleteIoContextWatch ==
  ASSUME NEW X, HasPoolOps(X), NEW J, PoolInv(X, J), WatchInv, NEW t \in Threads,
         DeleteIoContext(t)
  PROVE  WatchInv'
<1> DEFINE q == todo[t]
           d == Obj(t)
<1>1. /\ TypeInv(X) /\ todo \in [Threads -> Seq(X)] /\ Structured(J)
  BY DEF PoolInv, TypeInv
<1>2. q \in Seq(X) /\ q # <<>> /\ Head(q) = q[1] /\ q[1].call = "DeleteIoContext" /\ d = q[1].obj
  BY <1>1, NotEmpty DEF DeleteIoContext, Calling, Obj
<1>3. "DeleteIoContext" \in OpCalls \ ReturnCalls
  BY DEF OpCalls, ReturnCalls
<1>4. PICK c \in Contexts : Plan(q, c)
  BY <1>1, <1>2, <1>3, ForeignFacts, ChainFacts DEF Structured, Structure, Shapes
<1>5. /\ Tail(q) \in Seq(X)
      /\ \/ d = c /\ Tail(q) = <<>>
         \/ d \in Contexts /\ Onward(Tail(q), c)
  <2> HIDE DEF q, d
  <2> QED BY <1>2, <1>4, PlanHead
<1>6. Promise(Tail(q)) /\ d.session \in Sessions
  <2>1. d \in Contexts
    BY <1>5
  <2>2. d.session \in Sessions
    BY <2>1 DEF Contexts
  <2> HIDE DEF q
  <2> QED BY <1>5, <2>2, EmptyWatches, OnwardPromise
<1>7. q[1].call \notin WatchCalls \cup {"CheckCompletion"}
  BY <1>2 DEF WatchCalls
<1>8. /\ Do(t, <<>>) \/ Do(t, <<Op("ReturnLock", d.session)>>)
      /\ mConnected' = mConnected /\ completionOk' = completionOk /\ kernel' = kernel
  BY DEF DeleteIoContext, ReleaseRef
<1> HIDE DEF d
<1> QED BY <1>1, <1>2, <1>6, <1>7, <1>8, ReleaseWatch

LEMMA DisconnectCompletionWatch ==
  ASSUME NEW X, HasPoolOps(X), NEW J, PoolInv(X, J), WatchInv, NEW t \in Threads,
         DisconnectCompletion(t)
  PROVE  WatchInv'
<1>1. "DisconnectCompletion" \in OpCalls \ (ReturnCalls \cup {"DeleteIoContext"})
  BY DEF OpCalls, ReturnCalls
<1>2. PICK c \in Contexts : Served(X, t, "DisconnectCompletion", c)
  BY <1>1, Caller DEF DisconnectCompletion
<1>3. TypeInv(X) /\ todo[t] # <<>> /\ Promise(Tail(todo[t]))
  BY <1>2, ServedWatch
<1>4. c.session \in Sessions /\ Obj(t) = c.session /\ todo[t][1].call = "DisconnectCompletion"
  BY <1>2 DEF Served
<1>5. todo[t][1].call \notin WatchCalls \cup {"CheckCompletion"}
  BY <1>4 DEF WatchCalls
<1>6. /\ Do(t, <<>>) \/ Do(t, <<Op("ReturnLock", c.session)>>)
      /\ mConnected' = mConnected /\ completionOk' = completionOk /\ kernel' = kernel
  BY <1>4 DEF DisconnectCompletion, ReleaseRef, contextVars
<1> QED BY <1>3, <1>4, <1>5, <1>6, ReleaseWatch

\* Who returns a session watches nobody.
LEMMA ChainWatch ==
  ASSUME NEW X, TypeInv(X), WatchInv, NEW t \in Threads, NEW s \in Sessions,
         todo[t] \in Chains(s), NEW q, q \in Chains(s) \/ q = <<>>,
         todo' = [todo EXCEPT ![t] = q],
         mConnected' = mConnected \/ mConnected' = [mConnected EXCEPT ![s] = 0],
         completionOk' = completionOk, kernel' = kernel
  PROVE  WatchInv'
<1>1. Promise(q) /\ \A u : ~ Watches(todo[t], completionOk[t], u)
  BY ChainWatches, EmptyWatches
<1>2. \A u \in Sessions : mConnected'[u] = mConnected[u] \/ mConnected'[u] = 0
  BY DEF TypeInv
<1> QED BY <1>1, <1>2, WatchIdle

LEMMA ReturnWatch ==
  ASSUME NEW X, HasPoolOps(X), NEW J, PoolInv(X, J), WatchInv, NEW t \in Threads,
         \/ ReturnLock(t) \/ ReturnAssert(t) \/ SessionReset(t) \/ ResetSendBuffer(t)
         \/ ReturnToPool(t)
  PROVE  WatchInv'
<1>1. TypeInv(X) /\ todo \in [Threads -> Seq(X)]
  BY DEF PoolInv, TypeInv
<1>2. PICK call \in ReturnCalls : Calling(t, call)
  BY DEF ReturnLock, ReturnAssert, SessionReset, ResetSendBuffer, ReturnToPool, ReturnCalls
<1>3. PICK s \in Sessions : todo[t] \in Chains(s) /\ todo[t] # <<>> /\ todo[t][1].call = call
                            /\ Obj(t) = s
  BY <1>2, Returner
<1>4. todo[t] \in Seq(X) /\ Head(todo[t]) = todo[t][1]
  BY <1>1, <1>3, NotEmpty
<1>5. /\ mConnected' = mConnected \/ mConnected' = [mConnected EXCEPT ![s] = 0]
      /\ completionOk' = completionOk /\ kernel' = kernel
  BY <1>3 DEF ReturnLock, ReturnAssert, SessionReset, ResetSendBuffer, ReturnToPool,
              sessionVars, contextVars, Set
<1>6. CASE ReturnLock(t) \/ ReturnAssert(t)
  <2> DEFINE q == IF call = "ReturnLock" THEN <<Op("ReturnAssert", s)>>
                  ELSE <<Op("SessionReset", s), Op("ResetSendBuffer", s), Op("ReturnToPool", s)>>
  <2>1. call \in {"ReturnLock", "ReturnAssert"} /\ Do(t, q)
    BY <1>2, <1>3, <1>4, <1>6 DEF ReturnLock, ReturnAssert, Calling
  <2>2. q \in Seq(X) /\ q \in Chains(s)
    BY <2>1 DEF HasPoolOps, PoolOps, OpCalls, Op, Chains
  <2>3. Tail(todo[t]) = <<>>
    <3>1. todo[t] = <<Op("ReturnLock", s)>> \/ todo[t] = <<Op("ReturnAssert", s)>>
      BY <1>3, <2>1 DEF Chains, Op
    <3> QED BY <3>1, Tails
  <2> HIDE DEF q
  <2>4. q \o <<>> = q
    BY <2>2, ConcatEmptySeq
  <2>5. todo' = [todo EXCEPT ![t] = q]
    BY <1>1, <1>3, <2>1, <2>3, <2>4, Doing
  <2> QED BY <1>1, <1>3, <1>5, <2>2, <2>5, ChainWatch
<1>7. CASE SessionReset(t) \/ ResetSendBuffer(t) \/ ReturnToPool(t)
  <2> DEFINE q == Tail(todo[t])
  <2>1. call \in {"SessionReset", "ResetSendBuffer", "ReturnToPool"} /\ Do(t, <<>>)
    BY <1>2, <1>3, <1>4, <1>7 DEF SessionReset, ResetSendBuffer, ReturnToPool, Calling
  <2>2. q \in Chains(s) \/ q = <<>>
    <3>1. \/ todo[t] = <<Op("SessionReset", s), Op("ResetSendBuffer", s), Op("ReturnToPool", s)>>
          \/ todo[t] = <<Op("ResetSendBuffer", s), Op("ReturnToPool", s)>>
          \/ todo[t] = <<Op("ReturnToPool", s)>>
      BY <1>3, <2>1 DEF Chains, Op
    <3>2. \/ q = <<Op("ResetSendBuffer", s), Op("ReturnToPool", s)>>
          \/ q = <<Op("ReturnToPool", s)>>
          \/ q = <<>>
      <4>1. /\ Tail(<<Op("SessionReset", s), Op("ResetSendBuffer", s), Op("ReturnToPool", s)>>)
                 = <<Op("ResetSendBuffer", s), Op("ReturnToPool", s)>>
            /\ Tail(<<Op("ResetSendBuffer", s), Op("ReturnToPool", s)>>) = <<Op("ReturnToPool", s)>>
            /\ Tail(<<Op("ReturnToPool", s)>>) = <<>>
        BY Tails
      <4> QED BY <3>1, <4>1, Zenon
    <3> HIDE DEF q
    <3> QED BY <3>2 DEF Chains
  <2>3. todo' = [todo EXCEPT ![t] = q]
    BY <1>1, <1>3, <2>1, Doing
  <2> HIDE DEF q
  <2> QED BY <1>1, <1>3, <1>5, <2>2, <2>3, ChainWatch
<1> QED BY <1>6, <1>7

\* The main thread watches nobody.
LEMMA AcceptWatch ==
  ASSUME NEW X, NEW J, PoolInv(X, J), WatchInv, AcceptClientSessions
  PROVE  WatchInv'
<1>1. TypeInv(X) /\ Structured(J)
  BY DEF PoolInv
<1>2. /\ mConnected' = mConnected /\ completionOk' = completionOk
  BY DEF AcceptClientSessions, AcceptLock, AcceptIssue, AcceptUnlock, sessionVars, threadVars
<1>3. CASE AcceptLock \/ AcceptUnlock
  <2>1. todo' = todo /\ kernel' = kernel
    BY <1>3 DEF AcceptLock, AcceptUnlock, threadVars, contextVars
  <2> QED BY <1>2, <2>1 DEF WatchInv
<1>4. CASE AcceptIssue
  <2>1. todo[Main] = <<>> /\ Main \in Threads
    BY <1>1, <1>4, MainThread DEF Structured, Structure, Locking, AcceptIssue
  <2>2. \A u : ~ Watches(todo[Main], completionOk[Main], u)
    BY <2>1, EmptyWatches
  <2>3. PICK c : \/ kernel' = kernel \cup {c} /\ todo' = todo
                 \/ kernel' = kernel /\ todo' = [todo EXCEPT ![Main] = <<Op("DeleteIoContext", c)>>]
    BY <1>4 DEF AcceptIssue, Set
  <2>4. CASE kernel' = kernel \cup {c} /\ todo' = todo
    <3>1. todo' = [todo EXCEPT ![Main] = <<>>]
      BY <1>1, <2>1, <2>4 DEF TypeInv
    <3> QED BY <1>1, <1>2, <2>1, <2>2, <2>4, <3>1, EmptyWatches, WatchIdle
  <2>5. CASE kernel' = kernel /\ todo' = [todo EXCEPT ![Main] = <<Op("DeleteIoContext", c)>>]
    <3> DEFINE q == <<Op("DeleteIoContext", c)>>
    <3>1. Promise(q)
      BY DEF Promise, Op
    <3> HIDE DEF q
    <3> QED BY <1>1, <1>2, <2>1, <2>2, <2>5, <3>1, WatchIdle DEF q
  <2> QED BY <2>3, <2>4, <2>5
<1> QED BY <1>3, <1>4 DEF AcceptClientSessions

\* What a worker does with a completed receive watches the connection.
LEMMA HandlingWatches ==
  ASSUME NEW X, HasPoolOps(X), NEW c \in Contexts, NEW ok \in BOOLEAN
  PROVE  /\ Promise(Handling(c, ok))
         /\ c.io \in WatchIO => Starts(Handling(c, ok), WatchCalls, c.session)
<1> DEFINE s == c.session
           done == <<Op("DeleteIoContext", c)>>
           checked == <<Op("CheckCompletion", s)>> \o done
<1>1. s \in Sessions /\ c.io \in IOTypes
  BY DEF Contexts
<1>2. \A call \in OpCalls \ {"DeleteIoContext"} :
        Op(call, s) \in X /\ Op(call, s).call = call /\ Op(call, s).obj = s
  BY <1>1 DEF HasPoolOps, PoolOps, Op
<1>3. done \in Seq(X)
  BY RestSingle DEF HasPoolOps, PoolOps, Op, OpCalls
<1>4. checked \in Seq(X) /\ Checks(checked, s)
  <2>1. Op("CheckCompletion", s) \in X /\ IsOp(Op("CheckCompletion", s), "CheckCompletion", s)
    BY <1>2 DEF OpCalls, IsOp
  <2> DEFINE o == Op("CheckCompletion", s)
             q == <<o>> \o done
  <2> HIDE DEF done, o
  <2>2. q \in Seq(X) /\ q[1] = o /\ q # <<>>
    BY <1>3, <2>1, Pushed DEF o
  <2> HIDE DEF q
  <2>3. 1 \in 1 .. Len(q)
    BY <2>2, NotEmpty
  <2>4. Checks(q, s)
    BY <2>1, <2>2, <2>3 DEF Checks, o
  <2> QED BY <2>2, <2>4 DEF q, o
<1> HIDE DEF done
<1>5. ASSUME NEW call \in {"AcceptCompletion", "DisconnectCompletion", "DisconnectRequest"}
      PROVE  /\ Promise(<<Op(call, s)>> \o done)
             /\ call \in WatchCalls => Starts(<<Op(call, s)>> \o done, WatchCalls, s)
  <2>1. Op(call, s) \in X /\ Op(call, s).call = call /\ Op(call, s).obj = s
    BY <1>2 DEF OpCalls
  <2> DEFINE o == Op(call, s)
             q == <<o>> \o done
  <2> HIDE DEF o
  <2>2. q \in Seq(X) /\ q[1] = o /\ q # <<>>
    BY <1>3, <2>1, Pushed DEF o
  <2> HIDE DEF q
  <2>3. Promise(q) /\ (call \in WatchCalls => Starts(q, WatchCalls, s))
    BY <2>1, <2>2 DEF Promise, Starts, o
  <2> QED BY <2>3 DEF q, o
<1> HIDE DEF checked
<1>6. ASSUME NEW call \in {"PostRecv", "SendCompletion"}
      PROVE  /\ Promise(<<Op(call, s)>> \o checked)
             /\ call \in WatchCalls => Starts(<<Op(call, s)>> \o checked, WatchCalls, s)
  <2>1. Op(call, s) \in X /\ Op(call, s).call = call /\ Op(call, s).obj = s
    BY <1>2 DEF OpCalls
  <2> DEFINE o == Op(call, s)
             q == <<o>> \o checked
  <2> HIDE DEF o
  <2>2. q \in Seq(X) /\ q[1] = o /\ q # <<>> /\ Tail(q) = checked
    BY <1>4, <2>1, Pushed DEF o
  <2> HIDE DEF q
  <2>3. Promise(q) /\ (call \in WatchCalls => Starts(q, WatchCalls, s))
    BY <1>4, <2>1, <2>2 DEF Promise, Starts, o
  <2> QED BY <2>3 DEF q, o
<1>7. CASE c.io = "IO_ACCEPT"
  <2>1. Handling(c, ok) = <<Op("AcceptCompletion", s)>> \o done
    BY <1>7, Zenon DEF Handling, done
  <2> QED BY <1>5, <1>7, <2>1 DEF WatchIO
<1>8. CASE c.io = "IO_DISCONNECT"
  <2>1. Handling(c, ok) = <<Op("DisconnectCompletion", s)>> \o done
    BY <1>8, Zenon DEF Handling, done
  <2> QED BY <1>5, <1>8, <2>1 DEF WatchIO
<1>9. CASE c.io = "IO_RECV_ZERO"
  <2>1. Handling(c, ok) = <<Op("PostRecv", s)>> \o checked
    BY <1>9, Zenon DEF Handling, checked, done
  <2> QED BY <1>6, <2>1 DEF WatchCalls
<1>10. CASE c.io = "IO_RECV" /\ ok
  <2> DEFINE o == Op("PacketHandling", s)
             p == <<Op("PreRecv", s)>> \o checked
             q == <<o>> \o p
  <2>1. Handling(c, ok) = <<Op("PacketHandling", s), Op("PreRecv", s)>> \o checked
    BY <1>10, Zenon DEF Handling, checked, done
  <2>2. Op("PacketHandling", s) \in X /\ Op("PreRecv", s) \in X
    BY <1>2 DEF OpCalls
  <2>3. <<Op("PacketHandling", s), Op("PreRecv", s)>> \o checked = q
    <3>1. /\ <<Op("PacketHandling", s)>> \in Seq(X) /\ <<Op("PreRecv", s)>> \in Seq(X)
          /\ <<Op("PacketHandling", s)>> \o <<Op("PreRecv", s)>>
               = <<Op("PacketHandling", s), Op("PreRecv", s)>>
      BY <2>2, Pair
    <3> QED BY <1>4, <3>1, ConcatAssociative
  <2>4. p \in Seq(X) /\ p # <<>> /\ p[1] = Op("PreRecv", s)
    BY <1>4, <2>2, Pushed
  <2>5. IsOp(p[1], "PreRecv", s)
    BY <1>2, <2>4 DEF IsOp, OpCalls
  <2>6. o.call = "PacketHandling" /\ o.obj = s
    BY <1>2 DEF OpCalls
  <2> HIDE DEF p, o
  <2>7. q # <<>> /\ q[1] = o /\ Tail(q) = p
    BY <2>2, <2>4, Pushed DEF o
  <2> HIDE DEF q
  <2>8. Promise(q) /\ Starts(q, WatchCalls, s)
    BY <2>4, <2>5, <2>6, <2>7 DEF Promise, Starts, WatchCalls
  <2> QED BY <2>1, <2>3, <2>8
<1>11. CASE c.io = "IO_SEND" /\ ok
  <2>1. Handling(c, ok) = <<Op("SendCompletion", s)>> \o checked
    BY <1>11, Zenon DEF Handling, checked, done
  <2> QED BY <1>6, <1>11, <2>1 DEF WatchIO
<1>12. CASE c.io \in {"IO_RECV", "IO_SEND"} /\ ~ ok
  <2>1. Handling(c, ok) = <<Op("DisconnectRequest", s)>> \o done
    BY <1>12, Zenon DEF Handling, done
  <2> QED BY <1>5, <2>1 DEF WatchCalls
<1> QED BY <1>1, <1>7, <1>8, <1>9, <1>10, <1>11, <1>12 DEF IOTypes

\* The completion leaves the kernel and the worker watches in its place.
LEMMA DoIocpJobWatch ==
  ASSUME NEW X, HasPoolOps(X), NEW J, PoolInv(X, J), WatchInv, NEW t \in Workers, DoIocpJob(t)
  PROVE  WatchInv'
<1>1. PICK c \in kernel, ok \in BOOLEAN :
        /\ todo[t] = <<>>
        /\ kernel' = kernel \ {c}
        /\ todo' = [todo EXCEPT ![t] = Handling(c, ok)]
        /\ completionOk' = [completionOk EXCEPT ![t] = FALSE]
        /\ UNCHANGED <<sessionVars, managerVars, live, accepting, issueRef, crashed>>
  BY DEF DoIocpJob, Complete, Set
<1> DEFINE q == Handling(c, ok)
<1>2. c \in Contexts /\ TypeInv(X) /\ t \in Threads
  BY <1>1 DEF PoolInv, TypeInv, Threads
<1>3. Promise(q) /\ (c.io \in WatchIO => Starts(q, WatchCalls, c.session))
  BY <1>2, HandlingWatches
<1>4. todo' = [todo EXCEPT ![t] = q]
  BY <1>1
<1> HIDE DEF q
<1>5. \A u \in Threads \ {t} : completionOk'[u] = completionOk[u]
  BY <1>1, <1>2 DEF TypeInv
<1>6. mConnected' = mConnected
  BY <1>1 DEF sessionVars
<1>7. \A s : ~ Watches(todo[t], completionOk[t], s)
  BY <1>1, EmptyWatches
<1>8. ASSUME NEW s \in Sessions, mConnected'[s] = 1
      PROVE  \/ Watches(q, completionOk'[t], s)
             \/ /\ mConnected[s] = 1
                /\ ~ Watches(todo[t], completionOk[t], s)
                /\ \A d \in kernel \ kernel' : ~ OfIO(d, WatchIO, s)
  <2>1. CASE OfIO(c, WatchIO, s)
    BY <1>3, <2>1 DEF OfIO, Watches
  <2>2. CASE ~ OfIO(c, WatchIO, s)
    BY <1>1, <1>6, <1>7, <1>8, <2>2
  <2> QED BY <2>1, <2>2
<1> QED BY <1>2, <1>3, <1>4, <1>5, <1>8, WatchKept

LEMMA PreRecvWatch ==
  ASSUME NEW X, HasPoolOps(X), NEW J, PoolInv(X, J), WatchInv, NEW t \in Threads, PreRecv(t)
  PROVE  WatchInv'
BY CheckConnectedWatch DEF PreRecv

\* Every step of the pool keeps every connection watched.
LEMMA WatchStep ==
  ASSUME NEW X, HasPoolOps(X), NEW J, PoolInv(X, J), WatchInv, "WSARecvZero" \notin Faults,
         Next
  PROVE  WatchInv'
<1>1. CASE AcceptClientSessions
  BY <1>1, AcceptWatch
<1>2. ASSUME NEW t \in Threads, Call(t)
      PROVE  WatchInv'
  <2>1. CASE DeleteIoContext(t)
    BY <2>1, DeleteIoContextWatch
  <2>2. CASE DisconnectRequest(t)
    BY <2>2, DisconnectRequestWatch
  <2>3. CASE DisconnectEx(t) \/ WSARecvZero(t) \/ WSARecv(t)
    BY <2>3, PostCallWatch
  <2>4. CASE PreRecv(t)
    BY <2>4, PreRecvWatch
  <2>5. CASE PostRecv(t)
    BY <2>5, PostRecvWatch
  <2>6. CASE AcceptCompletion(t)
    BY <2>6, AcceptCompletionWatch
  <2>7. CASE SendBaseKey(t) \/ CheckCompletion(t)
    BY <2>7, LateCallWatch
  <2>8. CASE PacketHandling(t)
    BY <2>8, PacketHandlingWatch
  <2>9. CASE DisconnectCompletion(t)
    BY <2>9, DisconnectCompletionWatch
  <2>10. CASE ReturnAssert(t) \/ SessionReset(t) \/ ResetSendBuffer(t) \/ ReturnToPool(t)
    BY <2>10, ReturnWatch
  <2> QED BY <1>2, <2>1, <2>2, <2>3, <2>4, <2>5, <2>6, <2>7, <2>8, <2>9, <2>10 DEF Call
<1>3. ASSUME NEW t \in Threads, ReturnLock(t)
      PROVE  WatchInv'
  BY <1>3, ReturnWatch
<1>4. ASSUME NEW t \in Workers, DoIocpJob(t)
      PROVE  WatchInv'
  BY <1>4, DoIocpJobWatch
<1> QED BY <1>1, <1>2, <1>3, <1>4 DEF Next

LEMMA WatchStutter ==
  ASSUME WatchInv, UNCHANGED vars
  PROVE  WatchInv'
<1>1. mConnected' = mConnected /\ kernel' = kernel /\ todo' = todo /\ completionOk' = completionOk
  BY DEF vars, sessionVars, contextVars, threadVars
<1> QED BY <1>1 DEF WatchInv

LEMMA InitialWatch == Init => WatchInv
<1> SUFFICES ASSUME Init PROVE WatchInv
  OBVIOUS
<1>1. (\A t \in Threads : todo[t] = <<>>) /\ (\A s \in Sessions : mConnected[s] = 0)
  BY DEF Init
<1> QED BY <1>1, EmptyWatches DEF WatchInv

\* Who watches a session uses it.
LEMMA PoolWatched ==
  ASSUME NEW X, NEW J, PoolInv(X, J), WatchInv
  PROVE  Watched
<1>1. todo \in [Threads -> Seq(X)]
  BY DEF PoolInv, TypeInv
<1>2. ASSUME NEW s \in Sessions, NEW t \in Threads, Watches(todo[t], completionOk[t], s)
      PROVE  Uses(t, s)
  <2> DEFINE q == todo[t]
  <2>1. q \in Seq(X)
    BY <1>1
  <2>2. PICK i \in 1 .. Len(q) : /\ q[i].call \in WatchCalls \cup {"CheckCompletion"}
                                 /\ q[i].obj = s
    <3>1. CASE Starts(q, WatchCalls, s)
      <4>1. 1 \in 1 .. Len(q)
        BY <2>1, <3>1, NotEmpty DEF Starts
      <4>2. Tail(q) # <<>> => 2 \in 1 .. Len(q) /\ Tail(q)[1] = q[2]
        BY <2>1, <3>1, SecondCall DEF Starts
      <4> QED BY <3>1, <4>1, <4>2 DEF Starts, IsOp, WatchCalls
    <3>2. CASE Checks(q, s)
      BY <3>2 DEF Checks, IsOp
    <3> QED BY <1>2, <3>1, <3>2 DEF Watches
  <2>3. q[i] \in Pending(t)
    BY <2>1, LenProperties DEF Pending
  <2>4. SessionOf(q[i]) = s
    BY <2>2 DEF SessionOf, WatchCalls
  <2> QED BY <2>3, <2>4 DEF Uses
<1>3. ASSUME NEW s \in Sessions, Receives(kernel, s)
      PROVE  \E c \in kernel : c.session = s /\ c.io \in {"IO_RECV_ZERO", "IO_RECV"}
  BY <1>3 DEF Receives, OfIO, WatchIO
<1> QED BY <1>2, <1>3 DEF WatchInv, Watched

\* A connection that is up has a receive pending, or a thread that is busy with it: its
\* end is noticed (Session.cpp:42-101, IOThread.cpp:110-148).  The posting of the receive of
\* zero bytes must not fail: in AcceptCompletion that failure is only logged
\* (ClientSession.cpp:152).
THEOREM SpecWatched ==
  ASSUME "WSARecvZero" \notin Faults
  PROVE  Spec => []Watched
<1>1. HasPoolOps(PoolOps) /\ NoJobs \in [Sessions -> Nat]
  BY DEF HasPoolOps, NoJobs
<1> DEFINE Inv == PoolInv(PoolOps, NoJobs) /\ WatchInv
<1>2. Init => Inv
  BY InitialPool, InitialWatch
<1>3. Inv /\ [Next]_vars => Inv'
  BY <1>1, PoolStep, PoolStutter, WatchStep, WatchStutter
<1>4. Inv => Watched
  BY PoolWatched
<1> QED BY <1>2, <1>3, <1>4, PTL DEF Spec
=============================================================================
