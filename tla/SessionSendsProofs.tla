------------------------ MODULE SessionSendsProofs -------------------------
(***************************************************************************)
(* Theorems about SessionSends, for any sessions, workers, context slots,  *)
(* buffer capacity and failing system calls: one send of a session is in   *)
(* the kernel at a time, the buffer holds what it reads, and a session is  *)
(* reset when nothing but a send through a plain pointer is left of it.    *)
(*                                                                         *)
(* A flush takes a reference of a session that it has none of, so a pooled *)
(* session is not unused, as in SessionPoolProofs, but bare: not issued,   *)
(* not connected, and without a context but the one that the thread inside *)
(* its send lock, whose WSASend has failed, deletes next.  When this is    *)
(* the last reference the thread returns the session a second time, with   *)
(* the lock held, and the reset of the buffer ends in an assertion; so the *)
(* returns that matter are the ones without the lock.                      *)
(***************************************************************************)
EXTENDS SessionSends, SessionPoolProofs

\* The pending calls, and the calls on a session that is returned.
SendOps == [call : OpCalls \cup SendCalls, obj : Sessions \cup Contexts]

Returns == {"ReturnLock", "ReturnAssert", "SessionReset", "ResetSendBuffer", "ReturnToPool"}
Past    == {"ReturnAssert", "SessionReset", "ResetSendBuffer", "ReturnToPool"}
Resets  == {"SessionReset", "ResetSendBuffer", "ReturnToPool"}

\* The calls inside the send lock of the session.
LockCalls == {"WSASend", "CountSend", "FlushUnlock"}

\* The calls that may wait behind another; the ones that a thread makes only while
\* it serves a completion of the session; the ones of a flush that has failed.
BehindCalls ==
  {"DeleteIoContext", "DisconnectRequest", "PreRecv", "SendBaseKey", "CheckCompletion",
   "PostSend", "FlushSend", "FlushUnlock", "ResetSendBuffer", "ReturnToPool"}
RefCalls ==
  {"AcceptCompletion", "DisconnectCompletion", "PreRecv", "PostRecv", "WSARecvZero",
   "WSARecv", "PacketHandling", "SendBaseKey", "SendCompletion", "CheckCompletion"}
InsideCalls == {"DeleteIoContext", "DisconnectRequest", "DisconnectEx"} \cup Returns

\* What a call is called on.
Typed(o) == o.obj \in (IF o.call = "DeleteIoContext" THEN Contexts ELSE Sessions)

\* What may be before a call p of a list, and immediately before it.
Before(o, p) ==
  /\ p.call = "FlushUnlock" => o.call \in InsideCalls
  /\ p.call = "DeleteIoContext" => ~ IsOp(o, "DeleteIoContext", p.obj)

Precedes(o, p) ==
  /\ p.call = "ResetSendBuffer" => IsOp(o, "SessionReset", p.obj)
  /\ p.call = "ReturnToPool" => IsOp(o, "ResetSendBuffer", p.obj)

\* The calls of a list are in the order the code makes them.
Listed(q) ==
  /\ \A i \in 1 .. Len(q) : Typed(q[i])
  /\ \A i \in 2 .. Len(q) : q[i].call \in BehindCalls
  /\ \A i, j \in 1 .. Len(q) : i < j => Before(q[i], q[j])
  /\ \A i \in 1 .. Len(q) - 1 : Precedes(q[i], q[i + 1])
  /\ q # <<>> /\ q[1].call = "SessionReset" =>
       Len(q) > 1 /\ IsOp(q[2], "ResetSendBuffer", q[1].obj)

\* The calls that need a reference are followed by the release of one.
Backed(q) ==
  \A i \in 1 .. Len(q) : q[i].call \in RefCalls =>
    q[Len(q)].call = "DeleteIoContext" /\ q[Len(q)].obj.session = q[i].obj

Lists(T) == \A t \in Threads : Listed(T[t]) /\ Backed(T[t])

\* A thread that has calls to make inside a send lock is inside it.
Inside(T, SL) ==
  \A t \in Threads : \A i \in 1 .. Len(T[t]) :
    T[t][i].call \in LockCalls => SL[T[t][i].obj] = t

\* Session s is not issued, not connected, and has no context but one of a send
\* that the thread inside the send lock deletes next.
Bare(T, L, I, C, SL, s) ==
  /\ s \notin I /\ C[s] = 0
  /\ \A c \in L : c.session = s =>
       /\ c.io = "IO_SEND"
       /\ SL[s] \in Threads /\ T[SL[s]] # <<>>
       /\ IsOp(T[SL[s]][1], "DeleteIoContext", c)

\* The thread returns session s, and is not inside its send lock.
Retiring(T, SL, t, s) == Starts(T[t], Returns, s) /\ SL[s] # t

\* A session is in the free list, is returned, or is reset, only when it is bare;
\* one thread at most returns it without its send lock, and only this one puts
\* it back.
Pooled(T, L, I, C, SL, F) ==
  /\ \A s \in F : Bare(T, L, I, C, SL, s)
  /\ \A s \in Sessions, t \in Threads : Retiring(T, SL, t, s) =>
       /\ Bare(T, L, I, C, SL, s) /\ s \notin F
       /\ \A u \in Threads : Retiring(T, SL, u, s) => u = t
  /\ \A s \in Sessions, t \in Threads : Starts(T[t], Resets, s) => Bare(T, L, I, C, SL, s)
  /\ \A s \in Sessions, t \in Threads : Starts(T[t], {"ReturnToPool"}, s) => SL[s] # t

\* The manager's lock.
Managed(T, m, a) ==
  /\ a \in {"Loop", "Failed"} => m = Main
  /\ T[Main] # <<>> => a = "Failed"
  /\ \A t \in Threads, s \in Sessions : Starts(T[t], Past, s) => m = t /\ t # Main

\* The reference count is exact, except that SessionReset may have overwritten it
\* while a flush held a reference.
Overwritten(s) == mRefCount[s] = 0 /\ \E t \in Threads : Starts(todo[t], {"ResetSendBuffer"}, s)

CountsInv ==
  \A s \in Sessions :
    \/ mRefCount[s] = Cardinality(LiveOf(live, s)) + (IF s \in issueRef THEN 1 ELSE 0)
    \/ Overwritten(s)

\* One send, in the kernel or completed and not yet counted down, at most; it is
\* counted, or the thread that posted it is about to count it.
SendIO == {"IO_SEND"}
SendDone == {"SendCompletion"}

SendAt(T, K, P, s) ==
  /\ Alone(T, K, s, SendIO, SendDone)
  /\ Token(T, K, s, SendIO, SendDone) =>
       P[s] > 0 \/ \E t \in Threads : Starts(T[t], {"CountSend"}, s)
  /\ \A t \in Threads : Starts(T[t], {"WSASend"}, s) => P[s] = 0

SendsInv == \A s \in Sessions : SendAt(todo, kernel, mSendPendingCount, s)

BufferInv ==
  /\ \A s \in Sessions : 0 <= inFlight[s] /\ inFlight[s] <= stored[s]
  /\ \A s \in Sessions : Sending(s) # {} => inFlight[s] >= 1

SendTypes ==
  /\ TypeInv(SendOps)
  /\ sendLock \in [Sessions -> Threads \cup {NoThread}]
  /\ mSendPendingCount \in [Sessions -> Nat]
  /\ stored \in [Sessions -> Nat] /\ inFlight \in [Sessions -> Nat]
  /\ sendList \in [Threads -> Seq(Sessions)]

PoolStructure(T, L, K, I, C, SL, F, m, a) ==
  /\ Lists(T)
  /\ Owned(T, L, K)
  /\ Inside(T, SL)
  /\ Pooled(T, L, I, C, SL, F)
  /\ Managed(T, m, a)

SendStructured ==
  PoolStructure(todo, live, kernel, issueRef, mConnected, sendLock, Free, mLock, accepting)

SendInv ==
  /\ SendTypes
  /\ SendStructured
  /\ ConnInv
  /\ CountsInv
  /\ SendsInv
  /\ BufferInv
  /\ PoolAccounting

-----------------------------------------------------------------------------
(***************************************************************************)
(* Lists of calls.                                                         *)
(***************************************************************************)
LEMMA NothingListed ==
  Listed(<<>>) /\ Backed(<<>>) /\ Held(<<>>) = {} /\ Len(<<>>) = 0
BY EmptyFacts DEF Listed, Backed

\* What is behind the head of a list.
LEMMA BehindHead ==
  ASSUME NEW X, NEW q \in Seq(X), q # <<>>, Listed(q)
  PROVE  /\ Tail(q) \in Seq(X) /\ Len(q) \in Nat /\ Len(q) >= 1 /\ Len(Tail(q)) = Len(q) - 1
         /\ Head(q) = q[1] /\ q[1] \in X /\ Typed(q[1])
         /\ \A i \in 1 .. Len(Tail(q)) :
              /\ i + 1 \in 2 .. Len(q) /\ Tail(q)[i] = q[i + 1] /\ Tail(q)[i] \in X
              /\ Tail(q)[i].call \in BehindCalls /\ Before(q[1], Tail(q)[i])
         /\ Tail(q) # <<>> => 1 \in 1 .. Len(Tail(q)) /\ Precedes(q[1], Tail(q)[1])
<1>1. /\ Len(q) \in Nat /\ Len(q) >= 1 /\ q[1] \in X /\ Head(q) = q[1] /\ Tail(q) \in Seq(X)
      /\ Len(Tail(q)) = Len(q) - 1
      /\ \A i \in 1 .. Len(q) - 1 : Tail(q)[i] = q[i + 1]
      /\ \A i \in 1 .. Len(q) : q[i] \in X
  BY NotEmpty
<1>2. ASSUME NEW i \in 1 .. Len(Tail(q))
      PROVE  /\ i + 1 \in 2 .. Len(q) /\ Tail(q)[i] = q[i + 1] /\ Tail(q)[i] \in X
             /\ Tail(q)[i].call \in BehindCalls /\ Before(q[1], Tail(q)[i])
  <2>1. i \in 1 .. Len(q) - 1 /\ i + 1 \in 2 .. Len(q) /\ i + 1 \in 1 .. Len(q)
        /\ 1 \in 1 .. Len(q) /\ 1 < i + 1
    BY <1>1
  <2>2. Before(q[1], q[i + 1])
    BY <2>1 DEF Listed
  <2>3. q[i + 1].call \in BehindCalls
    BY <2>1 DEF Listed
  <2> QED BY <1>1, <2>1, <2>2, <2>3
<1>3. ASSUME Tail(q) # <<>>
      PROVE  1 \in 1 .. Len(Tail(q)) /\ Precedes(q[1], Tail(q)[1])
  <2>1. Len(Tail(q)) # 0
    BY <1>1, <1>3, Empty
  <2>2. 1 \in 1 .. Len(Tail(q)) /\ 1 \in 1 .. Len(q) - 1
    BY <1>1, <2>1
  <2>3. Precedes(q[1], q[1 + 1])
    BY <2>2 DEF Listed
  <2> QED BY <1>1, <2>2, <2>3
<1>4. Typed(q[1])
  BY <1>1 DEF Listed
<1> QED BY <1>1, <1>2, <1>3, <1>4

\* The calls that the head of a list may make.
Allowed(q, ops) ==
  /\ Listed(ops)
  /\ \A i \in 1 .. Len(ops) :
       /\ ops[i].call \in RefCalls => q[1].call \in RefCalls /\ ops[i].obj = q[1].obj
       /\ q[1].call \in InsideCalls => ops[i].call \in InsideCalls
       /\ ops[i].call = "DeleteIoContext" =>
            \A j \in 2 .. Len(q) : ~ IsOp(q[j], "DeleteIoContext", ops[i].obj)
       /\ q[1].call \notin {"SessionReset", "ResetSendBuffer"}

\* The head of a list makes them: they come before the rest.
LEMMA DoListed ==
  ASSUME NEW X, NEW q \in Seq(X), q # <<>>, Listed(q), Backed(q),
         NEW ops \in Seq(X), Allowed(q, ops)
  PROVE  /\ ops \o Tail(q) \in Seq(X)
         /\ Listed(ops \o Tail(q)) /\ Backed(ops \o Tail(q))
<1> DEFINE r == Tail(q)
           w == ops \o r
           n == Len(ops)
           k == Len(r)
<1>1. /\ r \in Seq(X) /\ k \in Nat /\ n \in Nat /\ Len(q) \in Nat /\ Len(q) = k + 1
      /\ \A i \in 1 .. k :
           /\ i + 1 \in 2 .. Len(q) /\ r[i] = q[i + 1]
           /\ r[i].call \in BehindCalls /\ Before(q[1], r[i])
      /\ r # <<>> => Precedes(q[1], r[1])
  BY BehindHead, LenProperties
<1>2. /\ w \in Seq(X) /\ Len(w) = n + k
      /\ \A i \in 1 .. n + k : w[i] = IF i <= n THEN ops[i] ELSE r[i - n]
  BY <1>1, ConcatProperties
<1>n. n = Len(ops) /\ k = Len(r)
  OBVIOUS
<1>o. /\ Listed(ops)
      /\ \A i \in 1 .. Len(ops) :
           /\ ops[i].call \in RefCalls => q[1].call \in RefCalls /\ ops[i].obj = q[1].obj
           /\ q[1].call \in InsideCalls => ops[i].call \in InsideCalls
           /\ ops[i].call = "DeleteIoContext" =>
                \A j \in 2 .. Len(q) : ~ IsOp(q[j], "DeleteIoContext", ops[i].obj)
           /\ q[1].call \notin {"SessionReset", "ResetSendBuffer"}
  BY DEF Allowed
<1>e. /\ w = <<>> <=> n + k = 0
      /\ ops = <<>> <=> n = 0
      /\ r = <<>> <=> k = 0
  BY <1>1, <1>2, EmptySeq
<1> HIDE DEF r, w, n, k
<1>3. ASSUME NEW i \in 1 .. Len(w)
      PROVE  \/ i \in 1 .. n /\ w[i] = ops[i]
             \/ i > n /\ i - n \in 1 .. k /\ w[i] = r[i - n]
  BY <1>1, <1>2
<1>4. ASSUME NEW i \in 1 .. Len(w) PROVE Typed(w[i])
  <2>1. CASE i \in 1 .. n /\ w[i] = ops[i]
    BY <2>1, <1>n, <1>o DEF Listed
  <2>2. CASE i > n /\ i - n \in 1 .. k /\ w[i] = r[i - n]
    <3>1. (i - n) + 1 \in 1 .. Len(q) /\ w[i] = q[(i - n) + 1]
      BY <2>2, <1>1
    <3> QED BY <3>1 DEF Listed
  <2> QED BY <1>3, <2>1, <2>2
<1>5. ASSUME NEW i \in 2 .. Len(w) PROVE w[i].call \in BehindCalls
  <2>0. i \in 1 .. Len(w)
    BY <1>1, <1>2
  <2>1. CASE i \in 1 .. n /\ w[i] = ops[i]
    <3>1. i \in 2 .. n
      BY <2>1, <1>1
    <3> QED BY <2>1, <3>1, <1>n, <1>o DEF Listed
  <2>2. CASE i > n /\ i - n \in 1 .. k /\ w[i] = r[i - n]
    BY <2>2, <1>1
  <2> QED BY <1>3, <2>0, <2>1, <2>2
<1>6. ASSUME NEW i \in 1 .. n, NEW j \in 1 .. k PROVE Before(ops[i], r[j])
  <2>1. Before(q[1], r[j]) /\ j + 1 \in 2 .. Len(q) /\ r[j] = q[j + 1]
    BY <1>1
  <2>2. /\ q[1].call \in InsideCalls => ops[i].call \in InsideCalls
        /\ ops[i].call = "DeleteIoContext" => ~ IsOp(q[j + 1], "DeleteIoContext", ops[i].obj)
    BY <1>n, <1>o, <2>1
  <2> QED BY <2>1, <2>2 DEF Before, IsOp
<1>7. ASSUME NEW i \in 1 .. Len(w), NEW j \in 1 .. Len(w), i < j PROVE Before(w[i], w[j])
  <2>1. CASE j <= n
    <3>1. i \in 1 .. n /\ j \in 1 .. n /\ w[i] = ops[i] /\ w[j] = ops[j]
      <4>1. /\ i \in 1 .. n /\ i \in 1 .. n + k /\ i <= n
            /\ j \in 1 .. n /\ j \in 1 .. n + k
        BY <2>1, <1>1, <1>2, <1>7
      <4> QED BY <4>1, <2>1, <1>2
    <3> QED BY <3>1, <1>7, <1>n, <1>o DEF Listed
  <2>2. CASE i <= n /\ ~ (j <= n)
    <3>1. i \in 1 .. n /\ j - n \in 1 .. k /\ w[i] = ops[i] /\ w[j] = r[j - n]
      <4>1. /\ i \in 1 .. n /\ i \in 1 .. n + k
            /\ j - n \in 1 .. k /\ j \in 1 .. n + k
        BY <2>2, <1>1, <1>2, <1>7
      <4> QED BY <4>1, <2>2, <1>2
    <3> QED BY <3>1, <1>6
  <2>3. CASE ~ (i <= n)
    <3>1. i - n \in 1 .. k /\ j - n \in 1 .. k /\ w[i] = r[i - n] /\ w[j] = r[j - n]
      <4>1. /\ i - n \in 1 .. k /\ i \in 1 .. n + k
            /\ j - n \in 1 .. k /\ j \in 1 .. n + k /\ ~ (j <= n)
        BY <2>3, <1>1, <1>2, <1>7
      <4> QED BY <4>1, <2>3, <1>2
    <3>2. /\ (i - n) + 1 \in 1 .. Len(q) /\ (j - n) + 1 \in 1 .. Len(q)
          /\ (i - n) + 1 < (j - n) + 1
      BY <3>1, <1>1, <1>7
    <3>3. w[i] = q[(i - n) + 1] /\ w[j] = q[(j - n) + 1]
      BY <3>1, <1>1
    <3> QED BY <3>2, <3>3 DEF Listed
  <2> QED BY <2>1, <2>2, <2>3, <1>1, <1>2
<1>8. ASSUME NEW i \in 1 .. Len(w) - 1 PROVE Precedes(w[i], w[i + 1])
  <2>1. CASE i + 1 <= n
    <3>1. i \in 1 .. n - 1 /\ w[i] = ops[i] /\ w[i + 1] = ops[i + 1]
      <4>1. /\ i \in 1 .. n - 1 /\ i \in 1 .. n + k /\ i <= n
            /\ i + 1 \in 1 .. n + k
        BY <2>1, <1>1, <1>2
      <4> QED BY <4>1, <2>1, <1>2
    <3> QED BY <3>1, <1>n, <1>o DEF Listed
  <2>2. CASE i = n
    <3>1. n \in 1 .. n /\ w[i] = ops[n] /\ w[i + 1] = r[1] /\ k > 0
      <4>1. /\ n \in 1 .. n /\ k > 0 /\ i \in 1 .. n + k /\ i <= n
            /\ i + 1 \in 1 .. n + k /\ ~ (i + 1 <= n) /\ (i + 1) - n = 1
        BY <2>2, <1>1, <1>2
      <4>2. w[i] = ops[i] /\ w[i + 1] = r[(i + 1) - n]
        BY <4>1, <1>2
      <4> QED BY <4>1, <4>2, <2>2
    <3>2. Precedes(q[1], r[1])
      BY <3>1, <1>1, <1>e
    <3>3. q[1].call \notin {"SessionReset", "ResetSendBuffer"}
      BY <3>1, <1>n, <1>o
    <3> QED BY <3>1, <3>2, <3>3 DEF Precedes, IsOp
  <2>3. CASE i > n
    <3>1. i - n \in 1 .. k /\ (i - n) + 1 \in 1 .. k /\ w[i] = r[i - n] /\ w[i + 1] = r[(i - n) + 1]
      <4>1. i - n \in 1 .. k /\ (i + 1) - n \in 1 .. k /\ (i + 1) - n = (i - n) + 1
        BY <2>3, <1>1, <1>2
      <4>2. i \in 1 .. n + k /\ i + 1 \in 1 .. n + k /\ ~ (i <= n) /\ ~ (i + 1 <= n)
        BY <2>3, <1>1, <1>2
      <4> QED BY <4>1, <4>2, <1>2
    <3>2. PICK j \in 1 .. k : j = i - n
      BY <3>1
    <3>3. j + 1 \in 1 .. Len(q) - 1 /\ w[i] = q[j + 1] /\ w[i + 1] = q[(j + 1) + 1]
      <4>1. r[j] = q[j + 1] /\ j + 1 \in 1 .. k /\ r[j + 1] = q[(j + 1) + 1]
        BY <3>1, <3>2, <1>1
      <4> QED BY <4>1, <3>1, <3>2, <1>1
    <3> QED BY <3>3 DEF Listed
  <2> QED BY <2>1, <2>2, <2>3, <1>1, <1>2
<1>9. ASSUME w # <<>>, w[1].call = "SessionReset"
      PROVE  Len(w) > 1 /\ IsOp(w[2], "ResetSendBuffer", w[1].obj)
  <2>1. 1 \in 1 .. Len(w)
    BY <1>1, <1>2, <1>9, <1>e
  <2>2. CASE 1 \in 1 .. n /\ w[1] = ops[1]
    <3>1. ops # <<>> /\ ops[1].call = "SessionReset"
      BY <2>2, <1>1, <1>9, <1>e
    <3>2. n > 1 /\ IsOp(ops[2], "ResetSendBuffer", ops[1].obj)
      BY <3>1, <1>n, <1>o DEF Listed
    <3>3. w[2] = ops[2] /\ Len(w) > 1
      BY <3>2, <1>1, <1>2
    <3> QED BY <2>2, <3>2, <3>3
  <2>3. CASE 1 > n /\ 1 - n \in 1 .. k /\ w[1] = r[1 - n]
    <3>1. w[1].call \in BehindCalls
      BY <2>3, <1>1
    <3> QED BY <3>1, <1>9 DEF BehindCalls
  <2> QED BY <2>1, <2>2, <2>3, <1>3
<1>10. Listed(w)
  BY <1>4, <1>5, <1>7, <1>8, <1>9 DEF Listed
<1>11. ASSUME NEW i \in 1 .. Len(w), w[i].call \in RefCalls
       PROVE  w[Len(w)].call = "DeleteIoContext" /\ w[Len(w)].obj.session = w[i].obj
  <2>1. PICK j \in 1 .. Len(q) : q[j].call \in RefCalls /\ q[j].obj = w[i].obj
    <3>1. CASE i \in 1 .. n /\ w[i] = ops[i]
      <4>1. 1 \in 1 .. Len(q)
        BY <1>1
      <4> QED BY <3>1, <4>1, <1>11, <1>n, <1>o
    <3>2. CASE i > n /\ i - n \in 1 .. k /\ w[i] = r[i - n]
      <4>1. (i - n) + 1 \in 1 .. Len(q) /\ w[i] = q[(i - n) + 1]
        BY <3>2, <1>1
      <4> QED BY <4>1, <1>11
    <3> QED BY <3>1, <3>2, <1>3
  <2>2. q[Len(q)].call = "DeleteIoContext" /\ q[Len(q)].obj.session = w[i].obj
    BY <2>1 DEF Backed
  <2>3. Len(q) # j
    BY <2>1, <2>2 DEF RefCalls
  <2>4. k \in 1 .. k /\ r[k] = q[k + 1]
    BY <2>3, <1>1
  <2>5. Len(w) \in 1 .. n + k /\ ~ (Len(w) <= n) /\ Len(w) - n = k
    BY <2>4, <1>1, <1>2
  <2>6. w[Len(w)] = r[k]
    BY <2>5, <1>2
  <2> QED BY <2>2, <2>4, <2>6, <1>1
<1>12. Backed(w)
  BY <1>11 DEF Backed
<1> QED BY <1>2, <1>10, <1>12 DEF w, r

\* A list is the calls that its head makes, then what was behind the head.
Follows(w, q, ops) ==
  /\ ops # <<>> => w # <<>> /\ w[1] = ops[1] /\ 1 \in 1 .. Len(ops)
  /\ ops = <<>> => w = Tail(q)
  /\ ops = <<>> /\ w # <<>> =>
       w[1].call \in BehindCalls /\ Precedes(q[1], w[1]) /\ Before(q[1], w[1])
  /\ \A i \in 1 .. Len(w) :
       \/ \E k \in 1 .. Len(ops) : w[i] = ops[k]
       \/ \E j \in 2 .. Len(q) :
            w[i] = q[j] /\ q[j].call \in BehindCalls /\ Before(q[1], q[j])
  /\ \A k \in 1 .. Len(ops) : \E i \in 1 .. Len(w) : w[i] = ops[k]
  /\ \A j \in 2 .. Len(q) : \E i \in 1 .. Len(w) : w[i] = q[j]

LEMMA AfterDo ==
  ASSUME NEW X, NEW q \in Seq(X), q # <<>>, Listed(q), NEW ops \in Seq(X)
  PROVE  ops \o Tail(q) \in Seq(X) /\ Follows(ops \o Tail(q), q, ops)
<1> DEFINE w == ops \o Tail(q)
<1> DEFINE r == Tail(q)
           n == Len(ops)
           k == Len(r)
<1>1. /\ r \in Seq(X) /\ k \in Nat /\ n \in Nat /\ Len(q) \in Nat /\ Len(q) = k + 1
      /\ \A i \in 1 .. k :
           /\ i + 1 \in 2 .. Len(q) /\ r[i] = q[i + 1]
           /\ r[i].call \in BehindCalls /\ Before(q[1], r[i])
      /\ r # <<>> => Precedes(q[1], r[1]) /\ 1 \in 1 .. Len(r)
  <2>1. r \in Seq(X) /\ k \in Nat /\ n \in Nat /\ Len(q) \in Nat /\ Len(q) = k + 1
    BY BehindHead, LenProperties
  <2>2. /\ \A i \in 1 .. k :
             /\ i + 1 \in 2 .. Len(q) /\ r[i] = q[i + 1]
             /\ r[i].call \in BehindCalls /\ Before(q[1], r[i])
        /\ r # <<>> => Precedes(q[1], r[1]) /\ 1 \in 1 .. Len(r)
    BY BehindHead
  <2> QED BY <2>1, <2>2
<1>2. /\ w \in Seq(X) /\ Len(w) = n + k
      /\ \A i \in 1 .. n + k : w[i] = IF i <= n THEN ops[i] ELSE r[i - n]
  BY <1>1, ConcatProperties
<1>n. n = Len(ops) /\ k = Len(r)
  OBVIOUS
<1>e. /\ w = <<>> <=> n + k = 0
      /\ ops = <<>> <=> n = 0
      /\ r = <<>> <=> k = 0
  BY <1>1, <1>2, EmptySeq
<1>3. ops = <<>> => w = r
  BY <1>1, ConcatEmptySeq
<1> HIDE DEF r, n, k, w
<1>4. ASSUME ops # <<>> PROVE w # <<>> /\ w[1] = ops[1] /\ 1 \in 1 .. Len(ops)
  BY <1>1, <1>2, <1>4, <1>e, <1>n
<1>5. ASSUME ops = <<>>, w # <<>>
      PROVE  w[1].call \in BehindCalls /\ Precedes(q[1], w[1]) /\ Before(q[1], w[1])
  BY <1>1, <1>3, <1>5, <1>n
<1>6. ASSUME NEW i \in 1 .. Len(w)
      PROVE  \/ \E e \in 1 .. Len(ops) : w[i] = ops[e]
             \/ \E j \in 2 .. Len(q) :
                  w[i] = q[j] /\ q[j].call \in BehindCalls /\ Before(q[1], q[j])
  <2>1. CASE i <= n
    BY <2>1, <1>1, <1>2, <1>n
  <2>2. CASE ~ (i <= n)
    <3>1. i - n \in 1 .. k /\ i \in 1 .. n + k
      BY <2>2, <1>1, <1>2
    <3>2. w[i] = r[i - n]
      BY <2>2, <3>1, <1>2
    <3> QED BY <3>1, <3>2, <1>1
  <2> QED BY <2>1, <2>2
<1>7. ASSUME NEW e \in 1 .. Len(ops) PROVE \E i \in 1 .. Len(w) : w[i] = ops[e]
  <2>1. e \in 1 .. Len(w) /\ e <= n /\ e \in 1 .. n + k
    BY <1>1, <1>2, <1>n
  <2> QED BY <2>1, <1>2
<1>8. ASSUME NEW j \in 2 .. Len(q) PROVE \E i \in 1 .. Len(w) : w[i] = q[j]
  <2>1. PICK i \in 1 .. k : i = j - 1
    BY <1>1
  <2>2. r[i] = q[j]
    BY <2>1, <1>1
  <2>3. n + i \in 1 .. n + k /\ ~ (n + i <= n) /\ (n + i) - n = i
    BY <1>1
  <2> QED BY <2>2, <2>3, <1>2
<1>9. Follows(w, q, ops)
  BY <1>3, <1>4, <1>5, <1>6, <1>7, <1>8 DEF r, Follows
<1> QED BY <1>2, <1>9 DEF w, r

\* The contexts it deletes.
LEMMA HeldAfter ==
  ASSUME NEW X, NEW q \in Seq(X), q # <<>>, Listed(q), NEW w \in Seq(X), NEW ops, Follows(w, q, ops)
  PROVE  /\ q[1].call # "DeleteIoContext" => Held(w) = Held(q) \cup Held(ops)
         /\ q[1].call = "DeleteIoContext" =>
              /\ q[1].obj \in Held(q)
              /\ Held(w) = (Held(q) \ {q[1].obj}) \cup Held(ops)
<1>1. /\ w \in Seq(X)
      /\ \A i \in 1 .. Len(w) :
           \/ \E k \in 1 .. Len(ops) : w[i] = ops[k]
           \/ \E j \in 2 .. Len(q) : w[i] = q[j] /\ Before(q[1], q[j])
  BY DEF Follows
<1>0. /\ \A k \in 1 .. Len(ops) : \E i \in 1 .. Len(w) : w[i] = ops[k]
      /\ \A j \in 2 .. Len(q) : \E i \in 1 .. Len(w) : w[i] = q[j]
  BY DEF Follows
<1>2. /\ Len(q) \in Nat /\ 1 \in 1 .. Len(q) /\ Typed(q[1])
      /\ \A j \in 1 .. Len(q) : j = 1 \/ j \in 2 .. Len(q)
      /\ \A j \in 2 .. Len(q) : j \in 1 .. Len(q)
  BY BehindHead
<1>3. ASSUME NEW c \in Contexts, NEW i \in 1 .. Len(w), IsOp(w[i], "DeleteIoContext", c)
      PROVE  c \in Held(ops) \/ (c \in Held(q) /\ ~ IsOp(q[1], "DeleteIoContext", c))
  <2>1. CASE \E k \in 1 .. Len(ops) : w[i] = ops[k]
    <3>1. PICK k \in 1 .. Len(ops) : w[i] = ops[k]
      BY <2>1
    <3> QED BY <1>3, <3>1 DEF Held
  <2>2. CASE \E j \in 2 .. Len(q) : w[i] = q[j] /\ Before(q[1], q[j])
    <3>1. PICK j \in 2 .. Len(q) : w[i] = q[j] /\ Before(q[1], q[j])
      BY <2>2
    <3>2. c \in Held(q)
      BY <1>2, <1>3, <3>1 DEF Held
    <3>3. ~ IsOp(q[1], "DeleteIoContext", c)
      BY <1>3, <3>1 DEF Before, IsOp
    <3> QED BY <3>2, <3>3
  <2> QED BY <1>1, <2>1, <2>2
<1>4. ASSUME NEW c \in Contexts, NEW k \in 1 .. Len(ops), IsOp(ops[k], "DeleteIoContext", c)
      PROVE  c \in Held(w)
  <2>1. PICK i \in 1 .. Len(w) : w[i] = ops[k]
    BY <1>0
  <2> QED BY <1>4, <2>1 DEF Held
<1>5. ASSUME NEW c \in Contexts, NEW j \in 1 .. Len(q), IsOp(q[j], "DeleteIoContext", c),
             ~ IsOp(q[1], "DeleteIoContext", c)
      PROVE  c \in Held(w)
  <2>1. j \in 2 .. Len(q)
    BY <1>2, <1>5
  <2>2. PICK i \in 1 .. Len(w) : w[i] = q[j]
    BY <1>0, <2>1
  <2> QED BY <1>5, <2>2 DEF Held
<1>6. Held(w) = {c \in Held(q) : ~ IsOp(q[1], "DeleteIoContext", c)} \cup Held(ops)
  BY <1>3, <1>4, <1>5 DEF Held
<1>7. ASSUME q[1].call # "DeleteIoContext" PROVE Held(w) = Held(q) \cup Held(ops)
  BY <1>6, <1>7 DEF IsOp
<1>8. ASSUME q[1].call = "DeleteIoContext"
      PROVE  /\ q[1].obj \in Held(q)
             /\ Held(w) = (Held(q) \ {q[1].obj}) \cup Held(ops)
  <2>1. q[1].obj \in Contexts
    BY <1>2, <1>8 DEF Typed
  <2>2. q[1].obj \in Held(q)
    BY <1>2, <1>8, <2>1 DEF Held, IsOp
  <2>3. \A c : IsOp(q[1], "DeleteIoContext", c) <=> c = q[1].obj
    BY <1>8 DEF IsOp
  <2> QED BY <1>6, <2>2, <2>3
<1> QED BY <1>7, <1>8
\* The next call of the list, when it is of a kind that waits behind no other.
LEMMA HeadAfter ==
  ASSUME NEW q, NEW w, NEW ops, Follows(w, q, ops), NEW calls, calls \cap BehindCalls = {},
         ops # <<>> => ops[1].call \notin calls
  PROVE  \A s : ~ Starts(w, calls, s)
<1>1. CASE ops # <<>>
  <2>1. w[1] = ops[1]
    BY <1>1 DEF Follows
  <2> QED BY <1>1, <2>1 DEF Starts, BehindCalls
<1>2. CASE ops = <<>>
  <2>1. w # <<>> => w[1].call \in BehindCalls
    BY <1>2 DEF Follows
  <2> QED BY <2>1 DEF Starts, BehindCalls
<1> QED BY <1>1, <1>2

\* After other calls comes no call of a return.
LEMMA NoReturnAfter ==
  ASSUME NEW q, NEW w, NEW ops, Follows(w, q, ops),
         q[1].call \notin {"SessionReset", "ResetSendBuffer"},
         ops # <<>> => ops[1].call \notin Returns
  PROVE  \A s : ~ Starts(w, Returns, s)
<1>1. CASE ops # <<>>
  <2>1. w[1] = ops[1]
    BY <1>1 DEF Follows
  <2> QED BY <1>1, <2>1 DEF Starts, Returns
<1>2. CASE ops = <<>>
  <2>1. w # <<>> => w[1].call \in BehindCalls /\ Precedes(q[1], w[1])
    BY <1>2 DEF Follows
  <2>2. w # <<>> => w[1].call \notin Returns
    BY <2>1 DEF Precedes, IsOp, BehindCalls, Returns
  <2> QED BY <2>2 DEF Starts, Returns
<1> QED BY <1>1, <1>2

\* After a call of a reset comes one, or none, of the same reset.
LEMMA ResetAfter ==
  ASSUME NEW q, NEW w, NEW ops, Follows(w, q, ops), ops = <<>>
  PROVE  \A s : Starts(w, Returns, s) => /\ q[1].call \in {"SessionReset", "ResetSendBuffer"}
                                         /\ q[1].obj = s
                                         /\ Starts(w, Resets, s)
<1>1. w # <<>> => w[1].call \in BehindCalls /\ Precedes(q[1], w[1])
  BY DEF Follows
<1> QED BY <1>1 DEF Starts, Precedes, IsOp, BehindCalls, Returns, Resets

\* The calls inside a send lock that the list still has.
LEMMA LocksAfter ==
  ASSUME NEW X, NEW q \in Seq(X), q # <<>>, Listed(q), NEW w, NEW ops, Follows(w, q, ops),
         NEW i \in 1 .. Len(w), w[i].call \in LockCalls
  PROVE  \/ \E k \in 1 .. Len(ops) : w[i] = ops[k]
         \/ /\ q[1].call \in InsideCalls /\ w[i].call = "FlushUnlock"
            /\ \E j \in 1 .. Len(q) : w[i] = q[j]
<1>1. CASE \E k \in 1 .. Len(ops) : w[i] = ops[k]
  BY <1>1
<1>2. CASE \E j \in 2 .. Len(q) :
             w[i] = q[j] /\ q[j].call \in BehindCalls /\ Before(q[1], q[j])
  <2>1. PICK j \in 2 .. Len(q) :
          w[i] = q[j] /\ q[j].call \in BehindCalls /\ Before(q[1], q[j])
    BY <1>2
  <2>2. w[i].call = "FlushUnlock"
    BY <2>1 DEF LockCalls, BehindCalls
  <2>3. q[1].call \in InsideCalls
    BY <2>1, <2>2 DEF Before
  <2>4. j \in 1 .. Len(q)
    BY BehindHead
  <2> QED BY <2>1, <2>2, <2>3, <2>4
<1> QED BY <1>1, <1>2 DEF Follows

\* A list of calls none of which must wait for, or give back, anything.
PlainCalls ==
  {"DisconnectRequest", "PreRecv", "SendBaseKey", "CheckCompletion", "PostSend", "FlushSend"}

LEMMA PlainListed ==
  ASSUME NEW X, NEW ops \in Seq(X), \A i \in 1 .. Len(ops) : Typed(ops[i]),
         \A i \in 2 .. Len(ops) : ops[i].call \in PlainCalls,
         ops # <<>> =>
           ops[1].call \notin {"DeleteIoContext", "SessionReset", "FlushUnlock",
                               "ResetSendBuffer", "ReturnToPool"}
  PROVE  Listed(ops) /\ Held(ops) = {}
<1>0. Len(ops) \in Nat /\ (ops # <<>> => Len(ops) >= 1)
  BY NotEmpty, LenProperties
<1>1. \A i \in 1 .. Len(ops) : i = 1 \/ i \in 2 .. Len(ops)
  BY <1>0
<1>2. ASSUME NEW i \in 1 .. Len(ops)
      PROVE  ops[i].call \notin {"DeleteIoContext", "FlushUnlock", "ResetSendBuffer",
                                 "ReturnToPool"}
  <2>1. CASE i = 1
    <3>1. ops # <<>>
      BY <2>1, <1>0, Empty
    <3> QED BY <2>1, <3>1
  <2>2. CASE i \in 2 .. Len(ops)
    BY <2>2 DEF PlainCalls
  <2> QED BY <1>1, <2>1, <2>2
<1>3. \A i \in 2 .. Len(ops) : ops[i].call \in BehindCalls
  BY DEF PlainCalls, BehindCalls
<1>4. \A i, j \in 1 .. Len(ops) : i < j => Before(ops[i], ops[j])
  BY <1>2 DEF Before
<1>5. \A i \in 1 .. Len(ops) - 1 : Precedes(ops[i], ops[i + 1])
  <2> TAKE i \in 1 .. Len(ops) - 1
  <2>1. i + 1 \in 1 .. Len(ops)
    BY <1>0
  <2> QED BY <1>2, <2>1 DEF Precedes
<1>6. Held(ops) = {}
  BY <1>2 DEF Held, IsOp
<1> QED BY <1>3, <1>4, <1>5, <1>6 DEF Listed

-----------------------------------------------------------------------------
(***************************************************************************)
(* The structure of a state, as a predicate of its parts.                  *)
(***************************************************************************)
\* Only thread t has other calls before it.
Moves(T, U, t) == \A u \in Threads \ {t} : U[u] = T[u]

\* Thread t has deleted the contexts D and made those in P, which it posted, and
\* in H, which it deletes.
LEMMA OwnedServed ==
  ASSUME NEW T, NEW L \in SUBSET Contexts, NEW K \in SUBSET L,
         Owned(T, L, K), NEW t \in Threads, NEW U, Moves(T, U, t),
         NEW D \in SUBSET Held(T[t]), NEW P, NEW H,
         P \cap H = {}, (P \cup H) \cap L = {}, Held(U[t]) = (Held(T[t]) \ D) \cup H
  PROVE  Owned(U, (L \ D) \cup P \cup H, K \cup P)
<1> DEFINE M == (L \ D) \cup P \cup H
<1>1. \A u \in Threads \ {t} : U[u] = T[u]
  BY DEF Moves
<1>2. \A u \in Threads : Held(T[u]) \subseteq L \ K
  BY DEF Owned
<1>3. \A u, v \in Threads : u # v => Held(T[u]) \cap Held(T[v]) = {}
  BY DEF Owned
<1>4. \A c \in L \ K : \E u \in Threads : c \in Held(T[u])
  BY DEF Owned
<1>5. ASSUME NEW u \in Threads, u # t
      PROVE  Held(U[u]) \subseteq M \ (K \cup P) /\ Held(U[u]) \cap Held(U[t]) = {}
  <2>1. Held(U[u]) = Held(T[u]) /\ Held(T[u]) \cap Held(T[t]) = {}
    BY <1>1, <1>3, <1>5
  <2>2. Held(T[u]) \subseteq L \ K
    BY <1>2
  <2> QED BY <2>1, <2>2
<1>6. Held(U[t]) \subseteq M \ (K \cup P)
  BY <1>2
<1>7. \A u \in Threads : Held(U[u]) \subseteq M \ (K \cup P)
  BY <1>1, <1>5, <1>6
<1>8. ASSUME NEW u \in Threads, NEW v \in Threads, u # v
      PROVE  Held(U[u]) \cap Held(U[v]) = {}
  <2>1. CASE u = t
    BY <1>1, <1>5, <1>8, <2>1
  <2>2. CASE v = t
    BY <1>1, <1>5, <1>8, <2>2
  <2>3. CASE u # t /\ v # t
    BY <1>1, <1>3, <1>8, <2>3
  <2> QED BY <2>1, <2>2, <2>3
<1>9. ASSUME NEW c \in M \ (K \cup P) PROVE \E u \in Threads : c \in Held(U[u])
  <2>1. CASE c \in H
    BY <1>1, <2>1
  <2>2. CASE c \notin H
    <3>1. c \in L \ K /\ c \notin D
      BY <2>2
    <3>2. PICK u \in Threads : c \in Held(T[u])
      BY <1>4, <3>1
    <3>3. CASE u = t
      BY <1>1, <3>1, <3>2, <3>3
    <3>4. CASE u # t
      BY <1>1, <3>2, <3>4
    <3> QED BY <3>3, <3>4
  <2> QED BY <2>1, <2>2
<1> QED BY <1>7, <1>8, <1>9 DEF Owned

\* A thread takes context c out of the kernel.
LEMMA OwnedTaken ==
  ASSUME NEW T, NEW L \in SUBSET Contexts, NEW K \in SUBSET L,
         Owned(T, L, K), NEW t \in Threads, NEW U, Moves(T, U, t), NEW c \in K,
         Held(T[t]) = {}, Held(U[t]) = {c}
  PROVE  Owned(U, L, K \ {c})
<1>1. \A u \in Threads \ {t} : U[u] = T[u]
  BY DEF Moves
<1>2. \A u \in Threads : Held(T[u]) \subseteq L \ K
  BY DEF Owned
<1>3. \A u, v \in Threads : u # v => Held(T[u]) \cap Held(T[v]) = {}
  BY DEF Owned
<1>4. \A e \in L \ K : \E u \in Threads : e \in Held(T[u])
  BY DEF Owned
<1>5. ASSUME NEW u \in Threads, u # t
      PROVE  Held(U[u]) \subseteq L \ (K \ {c}) /\ Held(U[u]) \cap Held(U[t]) = {}
  <2>1. Held(U[u]) = Held(T[u]) /\ Held(T[u]) \subseteq L \ K
    BY <1>1, <1>2, <1>5
  <2> QED BY <2>1
<1>7. \A u \in Threads : Held(U[u]) \subseteq L \ (K \ {c})
  BY <1>1, <1>5
<1>8. ASSUME NEW u \in Threads, NEW v \in Threads, u # v
      PROVE  Held(U[u]) \cap Held(U[v]) = {}
  <2>1. CASE u = t
    BY <1>1, <1>5, <1>8, <2>1
  <2>2. CASE v = t
    BY <1>1, <1>5, <1>8, <2>2
  <2>3. CASE u # t /\ v # t
    BY <1>1, <1>3, <1>8, <2>3
  <2> QED BY <2>1, <2>2, <2>3
<1>9. ASSUME NEW e \in L \ (K \ {c}) PROVE \E u \in Threads : e \in Held(U[u])
  <2>1. CASE e = c
    BY <1>1, <2>1
  <2>2. CASE e # c
    <3>1. PICK u \in Threads : e \in Held(T[u])
      BY <1>4, <2>2
    <3>2. u # t
      BY <3>1
    <3> QED BY <1>1, <3>1, <3>2
  <2> QED BY <2>1, <2>2
<1> QED BY <1>7, <1>8, <1>9 DEF Owned

\* The send locks: thread t enters or leaves some.
LEMMA InsideKept ==
  ASSUME NEW T, Lists(T), NEW SL, NEW R, Inside(T, SL),
         NEW t \in Threads, NEW U, Moves(T, U, t),
         \A i \in 1 .. Len(U[t]) : U[t][i].call \in LockCalls => R[U[t][i].obj] = t,
         \A s \in Sessions, u \in Threads \ {t} : SL[s] = u => R[s] = u
  PROVE  Inside(U, R)
<1>1. \A u \in Threads \ {t} : U[u] = T[u]
  BY DEF Moves
<1>2. ASSUME NEW u \in Threads, NEW i \in 1 .. Len(U[u]), U[u][i].call \in LockCalls
      PROVE  R[U[u][i].obj] = u
  <2>1. CASE u = t
    BY <1>1, <1>2, <2>1
  <2>2. CASE u # t
    <3>1. SL[T[u][i].obj] = u
      BY <1>1, <1>2, <2>2 DEF Inside
    <3>2. T[u][i].obj \in Sessions
      BY <1>1, <1>2, <2>2 DEF Lists, Listed, Typed, LockCalls
    <3> QED BY <1>1, <2>2, <3>1, <3>2
  <2> QED BY <2>1, <2>2
<1> QED BY <1>2 DEF Inside

\* A session stays bare: what thread t does next is not the deletion that its
\* flush owes the session, and the contexts it makes are of a flush that fails.
LEMMA BareKept ==
  ASSUME NEW T, NEW L, NEW I, NEW C, NEW SL, NEW s,
         Bare(T, L, I, C, SL, s), NEW t \in Threads, NEW U, Moves(T, U, t),
         NEW M, NEW J, NEW E, NEW R,
         s \notin J, E[s] = 0, R[s] = SL[s] \/ SL[s] \in {NoThread, t},
         \A c \in M : c.session = s =>
           \/ c \in L /\ ~ (T[t] # <<>> /\ IsOp(T[t][1], "DeleteIoContext", c))
           \/ c.io = "IO_SEND" /\ R[s] = t /\ U[t] # <<>> /\ IsOp(U[t][1], "DeleteIoContext", c)
  PROVE  Bare(U, M, J, E, R, s)
<1>1. \A u \in Threads \ {t} : U[u] = T[u]
  BY DEF Moves
<1>2. NoThread \notin Threads
  BY SessionPoolAssumption DEF Threads
<1>3. ASSUME NEW c \in M, c.session = s
      PROVE  /\ c.io = "IO_SEND"
             /\ R[s] \in Threads /\ U[R[s]] # <<>>
             /\ IsOp(U[R[s]][1], "DeleteIoContext", c)
  <2>1. CASE c \in L /\ ~ (T[t] # <<>> /\ IsOp(T[t][1], "DeleteIoContext", c))
    <3>1. /\ c.io = "IO_SEND" /\ SL[s] \in Threads /\ T[SL[s]] # <<>>
          /\ IsOp(T[SL[s]][1], "DeleteIoContext", c)
      BY <1>3, <2>1 DEF Bare
    <3>2. SL[s] # t /\ SL[s] # NoThread
      BY <1>2, <2>1, <3>1
    <3>3. R[s] = SL[s] /\ U[R[s]] = T[SL[s]]
      BY <1>1, <3>1, <3>2
    <3> QED BY <3>1, <3>3
  <2>2. CASE c.io = "IO_SEND" /\ R[s] = t /\ U[t] # <<>> /\ IsOp(U[t][1], "DeleteIoContext", c)
    BY <1>1, <2>2
  <2> QED BY <1>3, <2>1, <2>2
<1> QED BY <1>3 DEF Bare

\* The bare sessions, when thread t has no new session to return.
LEMMA PooledKept ==
  ASSUME NEW T, NEW L, NEW I, NEW C, NEW SL, NEW F \in SUBSET Sessions,
         Pooled(T, L, I, C, SL, F), NEW t \in Threads, NEW U, Moves(T, U, t),
         NEW M, NEW J, NEW E, NEW R,
         \A s \in Sessions :
           /\ Bare(T, L, I, C, SL, s) => Bare(U, M, J, E, R, s)
           /\ \A u \in Threads \ {t} : SL[s] = u <=> R[s] = u
           /\ Starts(U[t], Returns, s) /\ R[s] # t =>
                \/ Retiring(T, SL, t, s)
                \/ Bare(T, L, I, C, SL, s) /\ s \notin F
                     /\ \A u \in Threads \ {t} : ~ Retiring(T, SL, u, s)
           /\ Starts(U[t], Resets, s) => Bare(T, L, I, C, SL, s)
           /\ Starts(U[t], {"ReturnToPool"}, s) => R[s] # t
  PROVE  Pooled(U, M, J, E, R, F)
<1>1. \A u \in Threads \ {t} : U[u] = T[u]
  BY DEF Moves
<1>2. \A s \in Sessions : Bare(T, L, I, C, SL, s) => Bare(U, M, J, E, R, s)
  OBVIOUS
<1>3. \A s \in F : Bare(U, M, J, E, R, s)
  BY <1>2 DEF Pooled
<1>4. \A s \in Sessions, u \in Threads : u # t => (Retiring(U, R, u, s) <=> Retiring(T, SL, u, s))
  BY <1>1 DEF Retiring
<1>5. ASSUME NEW s \in Sessions, NEW u \in Threads, Retiring(U, R, u, s)
      PROVE  /\ Bare(U, M, J, E, R, s) /\ s \notin F
             /\ \A v \in Threads : Retiring(U, R, v, s) => v = u
  <2>1. CASE u # t /\ ~ Retiring(U, R, t, s)
    <3>1. Retiring(T, SL, u, s)
      BY <1>4, <1>5, <2>1
    <3>2. /\ Bare(T, L, I, C, SL, s) /\ s \notin F
          /\ \A v \in Threads : Retiring(T, SL, v, s) => v = u
      BY <3>1 DEF Pooled
    <3> QED BY <1>2, <1>4, <2>1, <3>2
  <2>2. CASE Retiring(U, R, t, s)
    <3>1. Starts(U[t], Returns, s) /\ R[s] # t
      BY <1>1, <2>2 DEF Retiring
    <3>2. CASE Retiring(T, SL, t, s)
      <4>1. /\ Bare(T, L, I, C, SL, s) /\ s \notin F
            /\ \A v \in Threads : Retiring(T, SL, v, s) => v = t
        BY <3>2 DEF Pooled
      <4>2. \A v \in Threads : Retiring(U, R, v, s) => v = t
        BY <1>4, <4>1
      <4> QED BY <1>2, <1>5, <4>1, <4>2
    <3>3. CASE Bare(T, L, I, C, SL, s) /\ s \notin F
                 /\ \A v \in Threads \ {t} : ~ Retiring(T, SL, v, s)
      <4>2. \A v \in Threads : Retiring(U, R, v, s) => v = t
        BY <1>4, <3>3
      <4> QED BY <1>2, <1>5, <3>3, <4>2
    <3> QED BY <3>1, <3>2, <3>3
  <2>3. CASE u = t
    BY <1>5, <2>2, <2>3
  <2> QED BY <2>1, <2>2, <2>3
<1>6. ASSUME NEW s \in Sessions, NEW u \in Threads, Starts(U[u], Resets, s)
      PROVE  Bare(U, M, J, E, R, s)
  <2>1. Bare(T, L, I, C, SL, s)
    <3>1. CASE u = t
      BY <1>1, <1>6, <3>1
    <3>2. CASE u # t
      BY <1>1, <1>6, <3>2 DEF Pooled
    <3> QED BY <3>1, <3>2
  <2> QED BY <1>2, <2>1
<1>7. ASSUME NEW s \in Sessions, NEW u \in Threads, Starts(U[u], {"ReturnToPool"}, s)
      PROVE  R[s] # u
  <2>1. CASE u = t
    BY <1>1, <1>7, <2>1
  <2>2. CASE u # t
    <3>1. SL[s] # u
      BY <1>1, <1>7, <2>2 DEF Pooled
    <3> QED BY <2>2, <3>1
  <2> QED BY <2>1, <2>2
<1> QED BY <1>3, <1>5, <1>6, <1>7 DEF Pooled

\* The manager's lock, when thread t has no call to make inside it, or is in it.
LEMMA ManagedKept ==
  ASSUME NEW T, NEW m, NEW a, Managed(T, m, a), NEW t \in Threads, NEW U, Moves(T, U, t),
         t = Main /\ U[t] # <<>> => T[Main] # <<>>, NEW n,
         n = m \/ (m = NoThread /\ n = t) \/ (m = t /\ t # Main /\ n = NoThread),
         \A s \in Sessions : Starts(U[t], Past, s) => n = t /\ t # Main
  PROVE  Managed(U, n, a)
<1>1. \A u \in Threads \ {t} : U[u] = T[u]
  BY DEF Moves
<1>2. Main \in Threads /\ NoThread \notin Threads
  BY MainThread, SessionPoolAssumption DEF Threads
<1>3. a \in {"Loop", "Failed"} => n = Main
  BY <1>2 DEF Managed
<1>4. U[Main] # <<>> => a = "Failed"
  BY <1>1, <1>2 DEF Managed
<1>5. ASSUME NEW u \in Threads, NEW s \in Sessions, Starts(U[u], Past, s)
      PROVE  n = u /\ u # Main
  <2>1. CASE u = t
    BY <1>1, <1>5, <2>1
  <2>2. CASE u # t
    <3>1. m = u /\ u # Main
      BY <1>1, <1>5, <2>2 DEF Managed
    <3> QED BY <1>2, <2>2, <3>1
  <2> QED BY <2>1, <2>2
<1> QED BY <1>3, <1>4, <1>5 DEF Managed

-----------------------------------------------------------------------------
(***************************************************************************)
(* The steps of the threads.                                               *)
(***************************************************************************)
\* The call that thread t makes, and what the invariant says of its list.
LEMMA CallFacts ==
  ASSUME SendInv, NEW t \in Threads, NEW call, Calling(t, call)
  PROVE  /\ crashed = "no" /\ todo \in [Threads -> Seq(SendOps)] /\ DOMAIN todo = Threads
         /\ todo[t] \in Seq(SendOps) /\ todo[t] # <<>> /\ Listed(todo[t]) /\ Backed(todo[t])
         /\ todo[t][1] \in SendOps /\ todo[t][1].call = call /\ Obj(t) = todo[t][1].obj
         /\ 1 \in 1 .. Len(todo[t])
         /\ call # "DeleteIoContext" => Obj(t) \in Sessions
         /\ call = "DeleteIoContext" => Obj(t) \in Contexts
<1>1. /\ crashed = "no" /\ todo \in [Threads -> Seq(SendOps)]
      /\ todo[t] # <<>> /\ Head(todo[t]).call = call
  BY DEF Calling, SendInv, SendTypes, TypeInv
<1>2. Listed(todo[t]) /\ Backed(todo[t])
  BY DEF SendInv, SendStructured, PoolStructure, Lists
<1>3. todo[t] \in Seq(SendOps)
  BY <1>1
<1>4. /\ Head(todo[t]) = todo[t][1] /\ todo[t][1] \in SendOps /\ Typed(todo[t][1])
      /\ Len(todo[t]) \in Nat /\ Len(todo[t]) >= 1
  BY <1>1, <1>2, <1>3, BehindHead
<1>5. /\ call # "DeleteIoContext" => Obj(t) \in Sessions
      /\ call = "DeleteIoContext" => Obj(t) \in Contexts
  BY <1>1, <1>4 DEF Obj, Typed
<1> QED BY <1>1, <1>2, <1>3, <1>4, <1>5 DEF Obj

\* What thread t has before it after its call.
LEMMA DoFacts ==
  ASSUME SendInv, NEW t \in Threads, NEW call, Calling(t, call),
         NEW ops \in Seq(SendOps), Do(t, ops), Allowed(todo[t], ops)
  PROVE  /\ todo' = [todo EXCEPT ![t] = todo'[t]] /\ Moves(todo, todo', t)
         /\ todo'[t] \in Seq(SendOps) /\ Listed(todo'[t]) /\ Backed(todo'[t])
         /\ Follows(todo'[t], todo[t], ops)
         /\ todo' \in [Threads -> Seq(SendOps)] /\ DOMAIN todo' = Threads
<1>1. /\ todo \in [Threads -> Seq(SendOps)] /\ todo[t] \in Seq(SendOps) /\ todo[t] # <<>>
      /\ Listed(todo[t]) /\ Backed(todo[t])
  BY CallFacts
<1>2. todo' = [todo EXCEPT ![t] = ops \o Tail(todo[t])]
  BY <1>1, Doing
<1> DEFINE w == ops \o Tail(todo[t])
<1>3. w \in Seq(SendOps) /\ Listed(w) /\ Backed(w) /\ Follows(w, todo[t], ops)
  BY <1>1, DoListed, AfterDo
<1> HIDE DEF w
<1>4. todo' = [todo EXCEPT ![t] = w]
  BY <1>2 DEF w
<1>5. todo'[t] = w
  BY <1>1, <1>4
<1>6. Moves(todo, todo', t)
  BY <1>1, <1>4 DEF Moves
<1> QED BY <1>1, <1>3, <1>4, <1>5, <1>6

\* A thread that makes a call which needs a reference has one: the session is not
\* bare.
LEMMA ReferredNotBare ==
  ASSUME SendInv, NEW t \in Threads, NEW i \in 1 .. Len(todo[t]), todo[t][i].call \in RefCalls,
         NEW s, s = todo[t][i].obj
  PROVE  ~ Bare(todo, live, issueRef, mConnected, sendLock, s)
<1> DEFINE q == todo[t]
           n == Len(q)
           c == q[n].obj
<1>1. /\ q \in Seq(SendOps) /\ Listed(q) /\ Backed(q) /\ n \in Nat /\ i \in 1 .. n
  BY LenProperties DEF SendInv, SendStructured, PoolStructure, Lists, SendTypes, TypeInv
<1>2. q[n].call = "DeleteIoContext" /\ c.session = s
  BY <1>1 DEF Backed
<1>3. n \in 1 .. n /\ 1 \in 1 .. n /\ i # n /\ 1 < n
  BY <1>1, <1>2 DEF RefCalls
<1>4. c \in Contexts
  BY <1>1, <1>2, <1>3 DEF Listed, Typed
<1>5. c \in Held(q)
  BY <1>2, <1>3, <1>4 DEF Held, IsOp
<1>6. Owned(todo, live, kernel)
  BY DEF SendInv, SendStructured, PoolStructure
<1>7. c \in live
  BY <1>5, <1>6 DEF Owned
<1>8. SUFFICES ASSUME Bare(todo, live, issueRef, mConnected, sendLock, s) PROVE FALSE
  OBVIOUS
<1> DEFINE u == sendLock[s]
<1>9. u \in Threads /\ todo[u] # <<>> /\ IsOp(todo[u][1], "DeleteIoContext", c)
  BY <1>2, <1>7, <1>8 DEF Bare
<1>10. c \in Held(todo[u])
  <2>1. todo[u] \in Seq(SendOps)
    BY <1>9 DEF SendInv, SendTypes, TypeInv
  <2>2. 1 \in 1 .. Len(todo[u])
    BY <2>1, <1>9, NotEmpty
  <2> QED BY <2>2, <1>4, <1>9 DEF Held
<1>11. u = t
  BY <1>5, <1>6, <1>9, <1>10 DEF Owned
<1>12. Before(q[1], q[n])
  BY <1>1, <1>3 DEF Listed
<1> QED BY <1>2, <1>9, <1>11, <1>12 DEF Before, IsOp

\* A session that is issued is not bare, and a context in the kernel is of none.
LEMMA BareFacts ==
  ASSUME SendInv, NEW s \in Sessions, Bare(todo, live, issueRef, mConnected, sendLock, s)
  PROVE  /\ s \notin issueRef /\ mConnected[s] = 0
         /\ \A c \in kernel : c.session # s
         /\ \A c \in live : c.session = s =>
              /\ c.io = "IO_SEND" /\ sendLock[s] \in Threads /\ todo[sendLock[s]] # <<>>
              /\ IsOp(todo[sendLock[s]][1], "DeleteIoContext", c)
              /\ c \in Held(todo[sendLock[s]])
<1>1. /\ Owned(todo, live, kernel) /\ kernel \subseteq live /\ live \subseteq Contexts
      /\ todo \in [Threads -> Seq(SendOps)]
  BY DEF SendInv, SendStructured, PoolStructure, SendTypes, TypeInv
<1>2. ASSUME NEW c \in live, c.session = s
      PROVE  /\ c.io = "IO_SEND" /\ sendLock[s] \in Threads /\ todo[sendLock[s]] # <<>>
             /\ IsOp(todo[sendLock[s]][1], "DeleteIoContext", c)
             /\ c \in Held(todo[sendLock[s]])
  <2>1. /\ c.io = "IO_SEND" /\ sendLock[s] \in Threads /\ todo[sendLock[s]] # <<>>
        /\ IsOp(todo[sendLock[s]][1], "DeleteIoContext", c)
    BY <1>2 DEF Bare
  <2>2. 1 \in 1 .. Len(todo[sendLock[s]])
    BY <1>1, <2>1, NotEmpty
  <2> QED BY <1>1, <2>1, <2>2 DEF Held
<1>3. \A c \in kernel : c.session # s
  BY <1>1, <1>2 DEF Owned
<1> QED BY <1>2, <1>3 DEF Bare

\* A call that neither deletes a context nor belongs to a return.
PlainCall(t, call, ops) ==
  /\ Calling(t, call) /\ call \notin Returns \cup {"DeleteIoContext"}
  /\ ops \in Seq(SendOps) /\ Do(t, ops) /\ Allowed(todo[t], ops)
  /\ Held(ops) = {}
  /\ ops # <<>> => ops[1].call \notin Returns

\* Thread t enters send locks that nobody is inside, or leaves its own.
LEMMA LocksMoved ==
  ASSUME SendInv, NEW t \in Threads, NEW call, NEW ops, PlainCall(t, call, ops),
         \A s \in Sessions :
           \/ sendLock'[s] = sendLock[s]
           \/ sendLock[s] = NoThread /\ sendLock'[s] = t
           \/ call \in {"CountSend", "FlushUnlock"} /\ s = Obj(t) /\ sendLock'[s] = NoThread,
         \A i \in 1 .. Len(ops) : ops[i].call \in LockCalls => sendLock'[ops[i].obj] = t
  PROVE  /\ Inside(todo', sendLock')
         /\ \A s \in Sessions :
              /\ \A u \in Threads \ {t} : sendLock[s] = u <=> sendLock'[s] = u
              /\ sendLock'[s] = sendLock[s] \/ sendLock[s] \in {NoThread, t}
<1>0. NoThread \notin Threads
  BY SessionPoolAssumption DEF Threads
<1>1. /\ todo[t] \in Seq(SendOps) /\ todo[t] # <<>> /\ Listed(todo[t])
      /\ todo[t][1].call = call /\ Obj(t) = todo[t][1].obj /\ 1 \in 1 .. Len(todo[t])
  BY CallFacts DEF PlainCall
<1>2. Moves(todo, todo', t) /\ Follows(todo'[t], todo[t], ops)
  BY DoFacts DEF PlainCall
<1>3. Lists(todo) /\ Inside(todo, sendLock)
  BY DEF SendInv, SendStructured, PoolStructure
<1>4. call \in {"CountSend", "FlushUnlock"} => sendLock[Obj(t)] = t
  BY <1>1, <1>3 DEF Inside, LockCalls
<1>5. ASSUME NEW s \in Sessions
      PROVE  /\ \A u \in Threads \ {t} : sendLock[s] = u <=> sendLock'[s] = u
             /\ sendLock'[s] = sendLock[s] \/ sendLock[s] \in {NoThread, t}
  BY <1>0, <1>4
<1>6. ASSUME NEW i \in 1 .. Len(todo'[t]), todo'[t][i].call \in LockCalls
      PROVE  sendLock'[todo'[t][i].obj] = t
  <2>1. CASE \E k \in 1 .. Len(ops) : todo'[t][i] = ops[k]
    BY <1>6, <2>1
  <2>2. CASE /\ todo[t][1].call \in InsideCalls
             /\ \E j \in 1 .. Len(todo[t]) : todo'[t][i] = todo[t][j]
    <3>1. PICK j \in 1 .. Len(todo[t]) : todo'[t][i] = todo[t][j]
      BY <2>2
    <3>2. sendLock[todo[t][j].obj] = t /\ todo[t][j].obj \in Sessions
      BY <1>1, <1>3, <1>6, <3>1 DEF Inside, Listed, Typed, LockCalls
    <3>3. call \notin {"CountSend", "FlushUnlock"}
      BY <1>1, <2>2 DEF InsideCalls, Returns
    <3> QED BY <1>0, <3>1, <3>2, <3>3
  <2> QED BY <1>1, <1>2, <1>6, <2>1, <2>2, LocksAfter
<1>7. \A s \in Sessions, u \in Threads \ {t} : sendLock[s] = u => sendLock'[s] = u
  BY <1>5
<1>8. Inside(todo', sendLock')
  <2> DEFINE U == todo'
             R == sendLock'
  <2>1. Lists(todo) /\ Inside(todo, sendLock) /\ Moves(todo, U, t)
    BY <1>2, <1>3
  <2>2. \A i \in 1 .. Len(U[t]) : U[t][i].call \in LockCalls => R[U[t][i].obj] = t
    BY <1>6
  <2>3. \A s \in Sessions, u \in Threads \ {t} : sendLock[s] = u => R[s] = u
    BY <1>7
  <2> HIDE DEF U, R
  <2>4. Inside(U, R)
    BY <2>1, <2>2, <2>3, InsideKept
  <2> QED BY <2>4 DEF U, R
<1> QED BY <1>5, <1>8

\* A plain call keeps the structure of the pool and the counts.
LEMMA PlainStep ==
  ASSUME SendInv, NEW t \in Threads, NEW call, NEW ops, PlainCall(t, call, ops),
         \A s \in Sessions :
           \/ sendLock'[s] = sendLock[s]
           \/ sendLock[s] = NoThread /\ sendLock'[s] = t
           \/ call \in {"CountSend", "FlushUnlock"} /\ s = Obj(t) /\ sendLock'[s] = NoThread,
         \A i \in 1 .. Len(ops) : ops[i].call \in LockCalls => sendLock'[ops[i].obj] = t,
         \A s \in Sessions :
           \/ mConnected'[s] = mConnected[s] \/ mConnected'[s] = 0
           \/ call \in RefCalls /\ s = Obj(t),
         mConnected' \in [Sessions -> {0, 1}], associated' \in [Sessions -> BOOLEAN],
         completionOk' \in [Threads -> BOOLEAN],
         UNCHANGED <<mRefCount, managerVars, contextVars, accepting, issueRef, crashed>>
  PROVE  TypeInv(SendOps)' /\ SendStructured' /\ CountsInv' /\ PoolAccounting'
<1>1. /\ todo[t] \in Seq(SendOps) /\ todo[t] # <<>> /\ Listed(todo[t])
      /\ todo[t][1].call = call /\ Obj(t) = todo[t][1].obj /\ 1 \in 1 .. Len(todo[t])
  BY CallFacts DEF PlainCall
<1>2. /\ Moves(todo, todo', t) /\ Follows(todo'[t], todo[t], ops)
      /\ Listed(todo'[t]) /\ Backed(todo'[t])
      /\ todo'[t] \in Seq(SendOps) /\ todo' \in [Threads -> Seq(SendOps)]
  BY DoFacts DEF PlainCall
<1>3. /\ mFreeSessionList' = mFreeSessionList /\ mCurrentIssueCount' = mCurrentIssueCount
      /\ mCurrentReturnCount' = mCurrentReturnCount /\ mLock' = mLock
      /\ live' = live /\ kernel' = kernel /\ accepting' = accepting /\ issueRef' = issueRef
      /\ mRefCount' = mRefCount /\ crashed' = crashed /\ Free' = Free
  BY DEF managerVars, contextVars, Free
<1>4. /\ Lists(todo) /\ Owned(todo, live, kernel) /\ Inside(todo, sendLock)
      /\ Pooled(todo, live, issueRef, mConnected, sendLock, Free)
      /\ Managed(todo, mLock, accepting)
  BY DEF SendInv, SendStructured, PoolStructure
<1>5. /\ live \in SUBSET Contexts /\ kernel \in SUBSET live /\ Free \in SUBSET Sessions
  BY FreeSessions DEF SendInv, SendTypes, TypeInv
<1>6. TypeInv(SendOps)'
  BY <1>2, <1>3 DEF SendInv, SendTypes, TypeInv
<1>7. /\ \A s \in Sessions :
           /\ \A u \in Threads \ {t} : sendLock[s] = u <=> sendLock'[s] = u
           /\ sendLock'[s] = sendLock[s] \/ sendLock[s] \in {NoThread, t}
      /\ Inside(todo', sendLock')
  BY LocksMoved
<1>8. \A s : ~ Starts(todo'[t], Returns, s)
  BY <1>1, <1>2, NoReturnAfter DEF PlainCall, Returns
<1>9. \A s : /\ ~ Starts(todo'[t], Resets, s) /\ ~ Starts(todo'[t], Past, s)
             /\ ~ Starts(todo'[t], {"ReturnToPool"}, s)
  BY <1>8 DEF Starts, Returns, Resets, Past
<1>10. Lists(todo')
  BY <1>2, <1>4 DEF Lists, Moves
<1>11. Owned(todo', live, kernel)
  <2>1. Held(todo'[t]) = (Held(todo[t]) \ {}) \cup {}
    <3>1. /\ todo[t] \in Seq(SendOps) /\ todo[t] # <<>> /\ Listed(todo[t])
          /\ todo'[t] \in Seq(SendOps) /\ Follows(todo'[t], todo[t], ops)
          /\ todo[t][1].call # "DeleteIoContext"
      BY <1>1, <1>2 DEF PlainCall
    <3>2. Held(todo'[t]) = Held(todo[t]) \cup Held(ops)
      BY <3>1, HeldAfter
    <3> QED BY <3>2 DEF PlainCall
  <2>2. Owned(todo', (live \ {}) \cup {} \cup {}, kernel \cup {})
    <3>1. Moves(todo, todo', t) /\ Owned(todo, live, kernel)
      BY <1>2, <1>4
    <3>2. {} \in SUBSET Held(todo[t]) /\ {} \cap {} = {} /\ ({} \cup {}) \cap live = {}
      OBVIOUS
    <3> QED BY <1>5, <2>1, <3>1, <3>2, OwnedServed
  <2>3. (live \ {}) \cup {} \cup {} = live /\ kernel \cup {} = kernel
    OBVIOUS
  <2> QED BY <2>2, <2>3
<1>12. ASSUME NEW s \in Sessions, Bare(todo, live, issueRef, mConnected, sendLock, s)
       PROVE  Bare(todo', live, issueRef, mConnected', sendLock', s)
  <2>1. s \notin issueRef /\ mConnected[s] = 0
    BY <1>12 DEF Bare
  <2>2. ~ (call \in RefCalls /\ s = Obj(t))
    BY <1>1, <1>12, ReferredNotBare
  <2>3. mConnected'[s] = 0
    BY <2>1, <2>2
  <2>4. sendLock'[s] = sendLock[s] \/ sendLock[s] \in {NoThread, t}
    BY <1>7
  <2>5. todo[t][1].call # "DeleteIoContext"
    BY <1>1 DEF PlainCall
  <2>6. \A c \in live : ~ (todo[t] # <<>> /\ IsOp(todo[t][1], "DeleteIoContext", c))
    BY <2>5 DEF IsOp
  <2> QED BY <1>2, <1>12, <2>1, <2>3, <2>4, <2>6, BareKept
<1>13. Pooled(todo', live, issueRef, mConnected', sendLock', Free)
  <2>1. ASSUME NEW s \in Sessions
        PROVE  /\ Bare(todo, live, issueRef, mConnected, sendLock, s) =>
                    Bare(todo', live, issueRef, mConnected', sendLock', s)
               /\ \A u \in Threads \ {t} : sendLock[s] = u <=> sendLock'[s] = u
               /\ Starts(todo'[t], Returns, s) /\ sendLock'[s] # t =>
                    \/ Retiring(todo, sendLock, t, s)
                    \/ Bare(todo, live, issueRef, mConnected, sendLock, s) /\ s \notin Free
                         /\ \A u \in Threads \ {t} : ~ Retiring(todo, sendLock, u, s)
               /\ Starts(todo'[t], Resets, s) =>
                    Bare(todo, live, issueRef, mConnected, sendLock, s)
               /\ Starts(todo'[t], {"ReturnToPool"}, s) => sendLock'[s] # t
    BY <1>7, <1>8, <1>9, <1>12
  <2>2. /\ Moves(todo, todo', t) /\ Free \in SUBSET Sessions
        /\ Pooled(todo, live, issueRef, mConnected, sendLock, Free)
    BY <1>2, <1>4, <1>5
  <2> QED BY <2>1, <2>2, PooledKept
<1>14. Managed(todo', mLock, accepting)
  <2>1. \A s \in Sessions : Starts(todo'[t], Past, s) => mLock = t /\ t # Main
    BY <1>9
  <2>2. t = Main /\ todo'[t] # <<>> => todo[Main] # <<>>
    BY <1>1
  <2> QED BY <1>2, <1>4, <2>1, <2>2, ManagedKept
<1>15. SendStructured'
  BY <1>3, <1>7, <1>10, <1>11, <1>13, <1>14 DEF SendStructured, PoolStructure
<1>16. CountsInv'
  <2>1. ASSUME NEW s \in Sessions, Overwritten(s) PROVE Overwritten(s)'
    <3>1. PICK u \in Threads : Starts(todo[u], {"ResetSendBuffer"}, s)
      BY <2>1 DEF Overwritten
    <3>2. u # t
      BY <1>1, <3>1 DEF Starts, PlainCall, Returns
    <3>3. todo'[u] = todo[u]
      BY <1>2, <3>2 DEF Moves
    <3> QED BY <1>3, <2>1, <3>1, <3>3 DEF Overwritten
  <2> QED BY <1>3, <2>1 DEF SendInv, CountsInv
<1>17. PoolAccounting'
  BY <1>3 DEF SendInv, PoolAccounting, Issued
<1> QED BY <1>6, <1>15, <1>16, <1>17

\* The connection tokens, when the thread neither takes nor hands on one.
LEMMA ConnSame ==
  ASSUME SendInv, NEW t \in Threads, NEW w, todo' = [todo EXCEPT ![t] = w],
         \A s \in Sessions : ~ Starts(w, ConnCalls, s),
         \A d \in kernel' \ kernel : d.io \notin ConnIO,
         \A s \in Sessions : mConnected'[s] = mConnected[s] \/ mConnected'[s] = 0,
         issueRef' = issueRef
  PROVE  ConnInv'
<1> DEFINE M == kernel'
           C == mConnected'
<1>1. DOMAIN todo = Threads
  BY DEF SendInv, SendTypes, TypeInv
<1>2. \A d \in M \ kernel : d.io \notin ConnIO
  OBVIOUS
<1>3. \A s \in Sessions : C[s] = mConnected[s] \/ C[s] = 0
  OBVIOUS
<1> HIDE DEF M, C
<1>4. ASSUME NEW s \in Sessions PROVE ConnAt([todo EXCEPT ![t] = w], M, issueRef, C, s)
  <2>1. ConnAt(todo, kernel, issueRef, mConnected, s)
    BY DEF SendInv, ConnInv
  <2>2. \A d \in M \ kernel : ~ OfIO(d, ConnIO, s)
    BY <1>2 DEF OfIO
  <2> QED BY <1>1, <1>3, <2>1, <2>2, ConnKept
<1>5. \A s \in Sessions : ConnAt(todo', kernel', issueRef', mConnected', s)
  BY <1>4 DEF M, C
<1> QED BY <1>5 DEF ConnInv

\* The sends, when the thread neither posts, counts nor completes one.
LEMMA SendsKept ==
  ASSUME NEW T, DOMAIN T = Threads, NEW K, NEW P, NEW s, SendAt(T, K, P, s),
         NEW t \in Threads, NEW w, NEW M,
         Starts(w, SendDone, s) => Starts(T[t], SendDone, s),
         \A d \in M \ K : ~ OfIO(d, SendIO, s),
         ~ Starts(T[t], {"CountSend"}, s),
         Starts(w, {"WSASend"}, s) => P[s] = 0
  PROVE  SendAt([T EXCEPT ![t] = w], M, P, s)
<1> DEFINE U == [T EXCEPT ![t] = w]
<1>1. U[t] = w /\ \A u \in Threads \ {t} : U[u] = T[u]
  OBVIOUS
<1>2. Alone(T, K, s, SendIO, SendDone)
  BY DEF SendAt
<1>3. /\ Alone(U, M, s, SendIO, SendDone)
      /\ Token(U, M, s, SendIO, SendDone) => Token(T, K, s, SendIO, SendDone)
  BY <1>2, AloneKept
<1> HIDE DEF U
<1>4. ASSUME Token(U, M, s, SendIO, SendDone)
      PROVE  P[s] > 0 \/ \E u \in Threads : Starts(U[u], {"CountSend"}, s)
  <2>1. P[s] > 0 \/ \E u \in Threads : Starts(T[u], {"CountSend"}, s)
    BY <1>3, <1>4 DEF SendAt
  <2> QED BY <1>1, <2>1
<1>5. ASSUME NEW u \in Threads, Starts(U[u], {"WSASend"}, s) PROVE P[s] = 0
  <2>1. CASE u = t
    BY <1>1, <1>5, <2>1
  <2>2. CASE u # t
    BY <1>1, <1>5, <2>2 DEF SendAt
  <2> QED BY <2>1, <2>2
<1> QED BY <1>3, <1>4, <1>5 DEF SendAt, U

LEMMA SendsSame ==
  ASSUME SendInv, NEW t \in Threads, NEW w, todo' = [todo EXCEPT ![t] = w],
         \A s \in Sessions : Starts(w, SendDone, s) => Starts(todo[t], SendDone, s),
         \A d \in kernel' \ kernel : d.io \notin SendIO,
         \A s \in Sessions : ~ Starts(todo[t], {"CountSend"}, s),
         \A s \in Sessions : Starts(w, {"WSASend"}, s) => mSendPendingCount[s] = 0,
         mSendPendingCount' = mSendPendingCount
  PROVE  SendsInv'
<1> DEFINE M == kernel'
<1>1. DOMAIN todo = Threads
  BY DEF SendInv, SendTypes, TypeInv
<1>2. \A d \in M \ kernel : d.io \notin SendIO
  OBVIOUS
<1> HIDE DEF M
<1>4. ASSUME NEW s \in Sessions PROVE SendAt([todo EXCEPT ![t] = w], M, mSendPendingCount, s)
  <2>1. SendAt(todo, kernel, mSendPendingCount, s)
    BY DEF SendInv, SendsInv
  <2>2. \A d \in M \ kernel : ~ OfIO(d, SendIO, s)
    BY <1>2 DEF OfIO
  <2> QED BY <1>1, <2>1, <2>2, SendsKept
<1>5. \A s \in Sessions : SendAt(todo', kernel', mSendPendingCount', s)
  BY <1>4 DEF M
<1> QED BY <1>5 DEF SendsInv

\* A plain call that touches no send and no connection keeps the invariant.
LEMMA SilentStep ==
  ASSUME SendInv, NEW t \in Threads, NEW call, NEW ops, PlainCall(t, call, ops),
         call \notin LockCalls,
         \A i \in 1 .. Len(ops) : ops[i].call \notin ConnCalls \cup SendDone \cup LockCalls,
         completionOk' \in [Threads -> BOOLEAN],
         UNCHANGED <<sessionVars, managerVars, contextVars, accepting, issueRef, crashed,
                     sendLock, mSendPendingCount, inFlight>>,
         stored' \in [Sessions -> Nat], \A s \in Sessions : stored[s] <= stored'[s],
         sendList' \in [Threads -> Seq(Sessions)]
  PROVE  SendInv'
<1>1. /\ UNCHANGED <<mRefCount, managerVars, contextVars, accepting, issueRef, crashed>>
      /\ mConnected' = mConnected /\ associated' = associated /\ sendLock' = sendLock
      /\ kernel' = kernel /\ issueRef' = issueRef
  BY DEF sessionVars, managerVars, contextVars
<1>2. mConnected \in [Sessions -> {0, 1}] /\ associated \in [Sessions -> BOOLEAN]
  BY DEF SendInv, SendTypes, TypeInv
<1>3. TypeInv(SendOps)' /\ SendStructured' /\ CountsInv' /\ PoolAccounting'
  BY <1>1, <1>2, PlainStep
<1> DEFINE w == todo'[t]
<1>4. todo' = [todo EXCEPT ![t] = w] /\ Follows(w, todo[t], ops)
  BY DoFacts DEF PlainCall
<1>5. todo[t][1].call = call
  BY CallFacts DEF PlainCall
<1>6. ops # <<>> => ops[1].call \notin ConnCalls \cup SendDone \cup LockCalls
  <2>1. ops # <<>> => 1 \in 1 .. Len(ops)
    BY <1>4 DEF Follows
  <2> QED BY <2>1
<1> HIDE DEF w
<1>7. \A s : /\ ~ Starts(w, ConnCalls, s) /\ ~ Starts(w, SendDone, s)
             /\ ~ Starts(w, {"WSASend"}, s)
  <2>1. \A s : ~ Starts(w, ConnCalls, s)
    BY <1>4, <1>6, HeadAfter DEF ConnCalls, BehindCalls
  <2>2. \A s : ~ Starts(w, SendDone, s)
    BY <1>4, <1>6, HeadAfter DEF SendDone, BehindCalls
  <2>3. \A s : ~ Starts(w, {"WSASend"}, s)
    <3>1. {"WSASend"} \cap BehindCalls = {} /\ (ops # <<>> => ops[1].call \notin {"WSASend"})
      BY <1>6 DEF BehindCalls, LockCalls
    <3> QED BY <1>4, <3>1, HeadAfter
  <2> QED BY <2>1, <2>2, <2>3
<1>8. ConnInv'
  BY <1>1, <1>4, <1>7, ConnSame
<1>9. SendsInv'
  <2>1. \A s : ~ Starts(todo[t], {"CountSend"}, s)
    BY <1>5 DEF Starts, LockCalls
  <2>2. mSendPendingCount' = mSendPendingCount
    OBVIOUS
  <2> QED BY <1>1, <1>4, <1>7, <2>1, <2>2, SendsSame
<1>10. BufferInv'
  <2>1. inFlight' = inFlight /\ \A s : Sending(s)' = Sending(s)
    BY <1>1 DEF Sending
  <2>2. \A s \in Sessions : inFlight[s] \in Nat /\ stored[s] \in Nat /\ stored'[s] \in Nat
    BY DEF SendInv, SendTypes
  <2>3. \A s \in Sessions : /\ 0 <= inFlight[s] /\ inFlight[s] <= stored[s]
                            /\ Sending(s) # {} => inFlight[s] >= 1
    BY DEF SendInv, BufferInv
  <2>4. \A s \in Sessions : inFlight[s] <= stored'[s]
    <3> TAKE s \in Sessions
    <3> QED BY <2>2, <2>3
  <2> QED BY <2>1, <2>3, <2>4 DEF BufferInv
<1>11. SendTypes'
  BY <1>1, <1>3 DEF SendInv, SendTypes
<1> QED BY <1>3, <1>8, <1>9, <1>10, <1>11 DEF SendInv


-----------------------------------------------------------------------------
(***************************************************************************)
(* The quiet calls: tests, posts into the buffer, and what packets cause.  *)
(***************************************************************************)
\* The calls that a plain call makes.
PlainOps(t, call, ops) ==
  /\ ops \in Seq(SendOps)
  /\ \A i \in 1 .. Len(ops) :
       /\ Typed(ops[i])
       /\ ops[i].call \in RefCalls => call \in RefCalls /\ ops[i].obj = Obj(t)
       /\ call \in InsideCalls => ops[i].call \in InsideCalls
  /\ \A i \in 2 .. Len(ops) : ops[i].call \in PlainCalls
  /\ ops # <<>> => ops[1].call \notin {"DeleteIoContext", "FlushUnlock"} \cup Returns

LEMMA PlainMade ==
  ASSUME SendInv, NEW t \in Threads, NEW call, Calling(t, call),
         call \notin Returns \cup {"DeleteIoContext"},
         NEW ops, PlainOps(t, call, ops), Do(t, ops)
  PROVE  PlainCall(t, call, ops)
<1>1. todo[t][1].call = call /\ Obj(t) = todo[t][1].obj
  BY CallFacts
<1>2. Listed(ops) /\ Held(ops) = {}
  <2>1. /\ ops \in Seq(SendOps) /\ \A i \in 1 .. Len(ops) : Typed(ops[i])
        /\ \A i \in 2 .. Len(ops) : ops[i].call \in PlainCalls
        /\ ops # <<>> => ops[1].call \notin {"DeleteIoContext", "SessionReset", "FlushUnlock",
                                             "ResetSendBuffer", "ReturnToPool"}
    BY DEF PlainOps, Returns
  <2> QED BY <2>1, PlainListed
<1>3. ASSUME NEW i \in 1 .. Len(ops) PROVE ops[i].call # "DeleteIoContext"
  <2>0. \/ Typed(ops[i]) /\ IsOp(ops[i], "DeleteIoContext", ops[i].obj)
        \/ ops[i].call # "DeleteIoContext"
    BY DEF PlainOps, IsOp
  <2>1. ASSUME ops[i].call = "DeleteIoContext" PROVE FALSE
    <3>1. ops[i].obj \in Contexts
      BY <2>1 DEF PlainOps, Typed
    <3>2. ops[i].obj \in Held(ops)
      BY <2>1, <3>1 DEF Held, IsOp
    <3> QED BY <3>2, <1>2
  <2> QED BY <2>1
<1>4. Allowed(todo[t], ops)
  BY <1>1, <1>2, <1>3 DEF Allowed, PlainOps, Returns
<1> QED BY <1>2, <1>4 DEF PlainCall, PlainOps

\* It makes no call, or one.
LEMMA NoOps ==
  ASSUME NEW t, NEW call
  PROVE  PlainOps(t, call, <<>>) /\ Len(<<>>) = 0
BY EmptyFacts DEF PlainOps

LEMMA OneOp ==
  ASSUME NEW t, NEW call, Obj(t) \in Sessions, NEW next \in OpCalls \cup SendCalls,
         next \notin {"DeleteIoContext", "FlushUnlock"} \cup Returns,
         next \in RefCalls => call \in RefCalls,
         call \in InsideCalls => next \in InsideCalls
  PROVE  /\ PlainOps(t, call, <<Op(next, Obj(t))>>)
         /\ \A i \in 1 .. Len(<<Op(next, Obj(t))>>) :
              <<Op(next, Obj(t))>>[i].call = next /\ <<Op(next, Obj(t))>>[i].obj = Obj(t)
<1> DEFINE o == Op(next, Obj(t))
           ops == <<o>>
<1>1. o \in SendOps /\ o.call = next /\ o.obj = Obj(t)
  BY DEF Op, SendOps
<1> HIDE DEF o
<1>2. /\ ops \in Seq(SendOps) /\ ops[1] = o /\ Len(ops) = 1
      /\ \A i \in 1 .. Len(ops) : ops[i] = o
      /\ 2 .. Len(ops) = {}
  BY <1>1
<1> HIDE DEF ops
<1>3. Typed(o)
  BY <1>1 DEF Typed
<1>4. PlainOps(t, call, ops)
  BY <1>1, <1>2, <1>3 DEF PlainOps
<1>5. \A i \in 1 .. Len(ops) : ops[i].call = next /\ ops[i].obj = Obj(t)
  BY <1>1, <1>2
<1> QED BY <1>4, <1>5 DEF ops, o

\* It posts to sessions, flushes them or disconnects them.
SendingOps == [call : {"PostSend", "FlushSend", "DisconnectRequest"}, obj : Sessions]

LEMMA SendingCalls ==
  ASSUME NEW t, NEW call, call \notin InsideCalls, NEW ops \in Seq(SendingOps)
  PROVE  /\ PlainOps(t, call, ops)
         /\ \A i \in 1 .. Len(ops) : ops[i].call \notin ConnCalls \cup SendDone \cup LockCalls
<1>1. \A i \in 1 .. Len(ops) : ops[i] \in SendingOps
  BY ElementOfSeq
<1>2. SendingOps \subseteq SendOps
  BY DEF SendingOps, SendOps, OpCalls, SendCalls
<1>3. ops \in Seq(SendOps)
  BY <1>2
<1>4. \A o \in SendingOps :
        /\ Typed(o) /\ o.call \in PlainCalls
        /\ o.call \notin RefCalls
        /\ o.call \notin {"DeleteIoContext", "FlushUnlock"} \cup Returns
        /\ o.call \notin ConnCalls \cup SendDone \cup LockCalls
  BY DEF SendingOps, Typed, PlainCalls, RefCalls, Returns, ConnCalls, SendDone, LockCalls
<1>5. /\ \A i \in 2 .. Len(ops) : i \in 1 .. Len(ops)
      /\ ops # <<>> => 1 \in 1 .. Len(ops)
  BY <1>3, NotEmpty, LenProperties
<1>6. PlainOps(t, call, ops)
  BY <1>1, <1>3, <1>4, <1>5 DEF PlainOps
<1> QED BY <1>1, <1>4, <1>6

\* The shared part of the quiet steps.
LEMMA SilentMade ==
  ASSUME SendInv, NEW t \in Threads, NEW call, Calling(t, call),
         call \notin Returns \cup {"DeleteIoContext"} \cup LockCalls,
         NEW ops, PlainOps(t, call, ops), Do(t, ops),
         \A i \in 1 .. Len(ops) : ops[i].call \notin ConnCalls \cup SendDone \cup LockCalls,
         completionOk' \in [Threads -> BOOLEAN],
         UNCHANGED <<sessionVars, managerVars, contextVars, accepting, issueRef, crashed>>,
         UNCHANGED sendVars
  PROVE  SendInv'
<1>1. PlainCall(t, call, ops)
  BY PlainMade
<1>2. /\ stored' = stored /\ sendList' = sendList /\ sendLock' = sendLock
      /\ mSendPendingCount' = mSendPendingCount /\ inFlight' = inFlight
  BY DEF sendVars
<1>3. /\ stored' \in [Sessions -> Nat] /\ sendList' \in [Threads -> Seq(Sessions)]
      /\ \A s \in Sessions : stored[s] <= stored'[s]
  BY <1>2 DEF SendInv, SendTypes
<1>4. UNCHANGED <<sessionVars, managerVars, contextVars, accepting, issueRef, crashed,
                  sendLock, mSendPendingCount, inFlight>>
  BY <1>2
<1> QED BY <1>1, <1>3, <1>4, SilentStep

\* PoolUnchanged, and the flag of the completion that is served.
LEMMA FlagType ==
  ASSUME SendInv
  PROVE  /\ completionOk \in [Threads -> BOOLEAN]
         /\ \A t \in Threads : Set(completionOk, t, FALSE) => completionOk' \in [Threads -> BOOLEAN]
<1>1. completionOk \in [Threads -> BOOLEAN]
  BY DEF SendInv, SendTypes, TypeInv
<1> QED BY <1>1 DEF Set

LEMMA SilentNone ==
  ASSUME SendInv, NEW t \in Threads, NEW call, Calling(t, call),
         call \notin Returns \cup {"DeleteIoContext"} \cup LockCalls, Do(t, <<>>),
         completionOk' \in [Threads -> BOOLEAN],
         UNCHANGED <<sessionVars, managerVars, contextVars, accepting, issueRef, crashed>>,
         UNCHANGED sendVars
  PROVE  SendInv'
<1>1. PlainOps(t, call, <<>>) /\ \A i \in 1 .. Len(<<>>) : FALSE
  BY NoOps
<1> QED BY <1>1, SilentMade

LEMMA SilentOne ==
  ASSUME SendInv, NEW t \in Threads, NEW call, Calling(t, call),
         call \notin Returns \cup {"DeleteIoContext"} \cup LockCalls,
         NEW next \in OpCalls \cup SendCalls, Do(t, <<Op(next, Obj(t))>>),
         next \notin {"DeleteIoContext", "FlushUnlock"} \cup Returns,
         next \notin ConnCalls \cup SendDone \cup LockCalls,
         next \in RefCalls => call \in RefCalls,
         call \in InsideCalls => next \in InsideCalls,
         completionOk' \in [Threads -> BOOLEAN],
         UNCHANGED <<sessionVars, managerVars, contextVars, accepting, issueRef, crashed>>,
         UNCHANGED sendVars
  PROVE  SendInv'
<1> DEFINE ops == <<Op(next, Obj(t))>>
<1>1. Obj(t) \in Sessions
  BY CallFacts
<1>2. PlainOps(t, call, ops) /\ \A i \in 1 .. Len(ops) : ops[i].call = next
  BY <1>1, OneOp
<1>3. Do(t, ops)
  OBVIOUS
<1> HIDE DEF ops
<1>4. \A i \in 1 .. Len(ops) : ops[i].call \notin ConnCalls \cup SendDone \cup LockCalls
  BY <1>2
<1> QED BY <1>2, <1>3, <1>4, SilentMade

LEMMA PostSendStep ==
  ASSUME SendInv, NEW t \in Threads, PostSend(t)
  PROVE  SendInv'
<1>1. /\ Calling(t, "PostSend") /\ completionOk' \in [Threads -> BOOLEAN]
      /\ UNCHANGED <<sessionVars, managerVars, contextVars, accepting, issueRef, crashed>>
      /\ UNCHANGED sendVars
  BY FlagType DEF PostSend, PoolUnchanged
<1>2. Do(t, <<>>) \/ Do(t, <<Op("PostCommit", Obj(t))>>)
  BY DEF PostSend
<1>3. "PostSend" \notin Returns \cup {"DeleteIoContext"} \cup LockCalls \cup InsideCalls
  BY DEF Returns, LockCalls, InsideCalls
<1>4. /\ "PostCommit" \in OpCalls \cup SendCalls
      /\ "PostCommit" \notin {"DeleteIoContext", "FlushUnlock"} \cup Returns
      /\ "PostCommit" \notin ConnCalls \cup SendDone \cup LockCalls \cup RefCalls
  BY DEF OpCalls, SendCalls, Returns, ConnCalls, SendDone, LockCalls, RefCalls
<1>5. CASE Do(t, <<>>)
  BY <1>1, <1>3, <1>5, SilentNone
<1>6. CASE Do(t, <<Op("PostCommit", Obj(t))>>)
  BY <1>1, <1>3, <1>4, <1>6, SilentOne
<1> QED BY <1>2, <1>5, <1>6

LEMMA PostCommitStep ==
  ASSUME SendInv, NEW t \in Threads, PostCommit(t)
  PROVE  SendInv'
<1>1. /\ Calling(t, "PostCommit") /\ Do(t, <<>>)
      /\ completionOk' \in [Threads -> BOOLEAN]
      /\ UNCHANGED <<sessionVars, managerVars, contextVars, accepting, issueRef, crashed,
                     sendLock, mSendPendingCount, inFlight>>
  BY FlagType DEF PostCommit, PoolUnchanged
<1>2. "PostCommit" \notin Returns \cup {"DeleteIoContext"} \cup LockCalls
  BY DEF Returns, LockCalls
<1>3. PlainOps(t, "PostCommit", <<>>) /\ \A i \in 1 .. Len(<<>>) : FALSE
  BY NoOps
<1>4. PlainCall(t, "PostCommit", <<>>)
  BY <1>1, <1>2, <1>3, PlainMade
<1>5. /\ Obj(t) \in Sessions /\ stored \in [Sessions -> Nat]
      /\ sendList \in [Threads -> Seq(Sessions)]
  BY <1>1, CallFacts DEF SendInv, SendTypes
<1>6. stored' \in [Sessions -> Nat] /\ \A s \in Sessions : stored[s] <= stored'[s]
  <2>1. CASE stored' = stored
    BY <2>1, <1>5
  <2>2. CASE stored' = [stored EXCEPT ![Obj(t)] = stored[Obj(t)] + 1]
    <3>1. PICK n \in Nat : n = stored[Obj(t)]
      BY <1>5
    <3>2. /\ stored' = [stored EXCEPT ![Obj(t)] = n + 1] /\ n + 1 \in Nat /\ n <= n + 1
      BY <2>2, <3>1
    <3>3. \A s \in Sessions : stored'[s] = IF s = Obj(t) THEN n + 1 ELSE stored[s]
      BY <3>2, <1>5
    <3>4. \A s \in Sessions : stored[s] \in Nat
      BY <1>5
    <3> QED BY <3>1, <3>2, <3>3, <3>4, <1>5
  <2> QED BY <2>1, <2>2 DEF PostCommit, Set
<1>7. sendList' \in [Threads -> Seq(Sessions)]
  <2>1. \/ sendList' = [sendList EXCEPT ![t] = Append(sendList[t], Obj(t))]
        \/ sendList' = sendList
    BY DEF PostCommit, Set
  <2>2. Append(sendList[t], Obj(t)) \in Seq(Sessions)
    BY <1>5, AppendProperties
  <2> QED BY <2>1, <2>2, <1>5
<1> QED BY <1>1, <1>2, <1>3, <1>4, <1>6, <1>7, SilentStep

LEMMA FlushSendStep ==
  ASSUME SendInv, NEW t \in Threads, FlushSend(t)
  PROVE  SendInv'
<1>1. /\ Calling(t, "FlushSend") /\ completionOk' \in [Threads -> BOOLEAN]
      /\ UNCHANGED <<sessionVars, managerVars, contextVars, accepting, issueRef, crashed>>
      /\ UNCHANGED sendVars
  BY FlagType DEF FlushSend, PoolUnchanged
<1>2. \E next \in {"FlushLock", "DisconnectRequest"} : Do(t, <<Op(next, Obj(t))>>)
  BY DEF FlushSend
<1>3. "FlushSend" \notin Returns \cup {"DeleteIoContext"} \cup LockCalls \cup InsideCalls
  BY DEF Returns, LockCalls, InsideCalls
<1>4. PICK next \in {"FlushLock", "DisconnectRequest"} : Do(t, <<Op(next, Obj(t))>>)
  BY <1>2
<1>5. /\ next \in OpCalls \cup SendCalls
      /\ next \notin {"DeleteIoContext", "FlushUnlock"} \cup Returns
      /\ next \notin ConnCalls \cup SendDone \cup LockCalls \cup RefCalls
  BY DEF OpCalls, SendCalls, Returns, ConnCalls, SendDone, LockCalls, RefCalls
<1> QED BY <1>1, <1>3, <1>4, <1>5, SilentOne

LEMMA PreRecvCallStep ==
  ASSUME SendInv, NEW t \in Threads, NEW call \in {"PreRecv", "PostRecv"},
         NEW next \in {"WSARecvZero", "WSARecv"}, CheckConnected(t, call, next),
         UNCHANGED sendVars
  PROVE  SendInv'
<1>1. /\ Calling(t, call) /\ completionOk' \in [Threads -> BOOLEAN]
      /\ UNCHANGED <<sessionVars, managerVars, contextVars, accepting, issueRef, crashed>>
  BY FlagType DEF CheckConnected
<1>2. Do(t, <<>>) \/ Do(t, <<Op(next, Obj(t))>>)
  BY DEF CheckConnected
<1>3. /\ call \notin Returns \cup {"DeleteIoContext"} \cup LockCalls \cup InsideCalls
      /\ call \in RefCalls
  BY DEF Returns, LockCalls, InsideCalls, RefCalls
<1>4. /\ next \in OpCalls \cup SendCalls
      /\ next \notin {"DeleteIoContext", "FlushUnlock"} \cup Returns
      /\ next \notin ConnCalls \cup SendDone \cup LockCalls
  BY DEF OpCalls, SendCalls, Returns, ConnCalls, SendDone, LockCalls, RefCalls
<1>5. CASE Do(t, <<>>)
  BY <1>1, <1>3, <1>5, SilentNone
<1>6. CASE Do(t, <<Op(next, Obj(t))>>)
  BY <1>1, <1>3, <1>4, <1>6, SilentOne
<1> QED BY <1>2, <1>5, <1>6

LEMMA ReceiveStep ==
  ASSUME SendInv, NEW t \in Threads, PreRecv(t) \/ PostRecv(t), UNCHANGED sendVars
  PROVE  SendInv'
<1>1. CASE PreRecv(t)
  BY <1>1, PreRecvCallStep DEF PreRecv
<1>2. CASE CheckConnected(t, "PostRecv", "WSARecv")
  BY <1>2, PreRecvCallStep
<1>3. CASE PostRecv(t) /\ ~ CheckConnected(t, "PostRecv", "WSARecv")
  <2>1. /\ Calling(t, "PostRecv") /\ Do(t, <<>>) /\ completionOk' \in [Threads -> BOOLEAN]
        /\ UNCHANGED <<sessionVars, managerVars, contextVars, accepting, issueRef, crashed>>
    BY <1>3, FlagType DEF PostRecv
  <2>2. "PostRecv" \notin Returns \cup {"DeleteIoContext"} \cup LockCalls
    BY DEF Returns, LockCalls
  <2> QED BY <2>1, <2>2, SilentNone
<1> QED BY <1>1, <1>2, <1>3

LEMMA CheckStep ==
  ASSUME SendInv, NEW t \in Threads, CheckCompletion(t), UNCHANGED sendVars
  PROVE  SendInv'
<1>1. /\ Calling(t, "CheckCompletion") /\ completionOk' \in [Threads -> BOOLEAN]
      /\ UNCHANGED <<sessionVars, managerVars, contextVars, accepting, issueRef, crashed>>
  BY FlagType DEF CheckCompletion
<1>2. Do(t, <<>>) \/ Do(t, <<Op("DisconnectRequest", Obj(t))>>)
  BY DEF CheckCompletion
<1>3. "CheckCompletion" \notin Returns \cup {"DeleteIoContext"} \cup LockCalls \cup InsideCalls
  BY DEF Returns, LockCalls, InsideCalls
<1>4. /\ "DisconnectRequest" \in OpCalls \cup SendCalls
      /\ "DisconnectRequest" \notin {"DeleteIoContext", "FlushUnlock"} \cup Returns
      /\ "DisconnectRequest" \notin ConnCalls \cup SendDone \cup LockCalls \cup RefCalls
  BY DEF OpCalls, SendCalls, Returns, ConnCalls, SendDone, LockCalls, RefCalls
<1>5. CASE Do(t, <<>>)
  BY <1>1, <1>3, <1>5, SilentNone
<1>6. CASE Do(t, <<Op("DisconnectRequest", Obj(t))>>)
  BY <1>1, <1>3, <1>4, <1>6, SilentOne
<1> QED BY <1>2, <1>5, <1>6

LEMMA SilentSends ==
  ASSUME SendInv, NEW t \in Threads, NEW call \in {"SendBaseKey", "PacketHandling"},
         Calling(t, call), NEW ops \in Seq(SendingOps), Do(t, ops),
         UNCHANGED sendVars, UNCHANGED crashed, PoolUnchanged
  PROVE  SendInv'
<1>1. /\ completionOk' \in [Threads -> BOOLEAN]
      /\ UNCHANGED <<sessionVars, managerVars, contextVars, accepting, issueRef, crashed>>
  BY FlagType DEF PoolUnchanged
<1>2. call \notin Returns \cup {"DeleteIoContext"} \cup LockCalls /\ call \notin InsideCalls
  BY DEF Returns, LockCalls, InsideCalls
<1>3. /\ PlainOps(t, call, ops)
      /\ \A i \in 1 .. Len(ops) : ops[i].call \notin ConnCalls \cup SendDone \cup LockCalls
  BY <1>2, SendingCalls
<1> QED BY <1>1, <1>2, <1>3, SilentMade

LEMMA PostBaseKeyStep ==
  ASSUME SendInv, NEW t \in Threads, PostBaseKey(t)
  PROVE  SendInv'
<1>1. /\ Calling(t, "SendBaseKey")
      /\ UNCHANGED sendVars /\ UNCHANGED crashed /\ PoolUnchanged
  BY DEF PostBaseKey
<1>2. Obj(t) \in Sessions
  BY <1>1, CallFacts
<1> DEFINE a == <<Op("PostSend", Obj(t))>>
           b == <<Op("PostSend", Obj(t)), Op("DisconnectRequest", Obj(t))>>
<1>3. Do(t, a) \/ Do(t, b)
  BY DEF PostBaseKey
<1>4. Op("PostSend", Obj(t)) \in SendingOps /\ Op("DisconnectRequest", Obj(t)) \in SendingOps
  BY <1>2 DEF Op, SendingOps
<1>5. a \in Seq(SendingOps) /\ b \in Seq(SendingOps)
  BY <1>4
<1> HIDE DEF a, b
<1> QED BY <1>1, <1>3, <1>5, SilentSends

\* The answer to a key exchange, and the posts of a receive, are lists of such calls.
LEMMA KeyExchangeCalls ==
  ASSUME NEW s \in Sessions, NEW q \in KeyExchanges(s)
  PROVE  q \in Seq(SendingOps)
<1>1. PICK posted, shared \in {<<>>, <<Op("DisconnectRequest", s)>>} :
        q = <<Op("PostSend", s)>> \o posted \o <<Op("FlushSend", s)>> \o shared
  BY DEF KeyExchanges
<1> DEFINE a == <<Op("PostSend", s)>>
           b == <<Op("FlushSend", s)>>
<1>2. /\ Op("PostSend", s) \in SendingOps /\ Op("DisconnectRequest", s) \in SendingOps
      /\ Op("FlushSend", s) \in SendingOps
  BY DEF Op, SendingOps
<1>3. a \in Seq(SendingOps) /\ b \in Seq(SendingOps)
  BY <1>2
<1>4. posted \in Seq(SendingOps) /\ shared \in Seq(SendingOps)
  <2>1. <<>> \in Seq(SendingOps) /\ <<Op("DisconnectRequest", s)>> \in Seq(SendingOps)
    BY <1>2
  <2> QED BY <2>1
<1>5. q = a \o posted \o b \o shared
  BY <1>1
<1> HIDE DEF a, b
<1>6. a \o posted \in Seq(SendingOps)
  BY <1>3, <1>4, ConcatProperties
<1>7. a \o posted \o b \in Seq(SendingOps)
  BY <1>3, <1>6, ConcatProperties
<1> QED BY <1>4, <1>5, <1>7, ConcatProperties

LEMMA PostCalls ==
  ASSUME NEW posts \in BoundedSeq(Sessions \ Free, MaxPosts)
  PROVE  [i \in DOMAIN posts |-> Op("PostSend", posts[i])] \in Seq(SendingOps)
<1>1. PICK m \in 0 .. MaxPosts : posts \in [1 .. m -> Sessions]
  BY DEF BoundedSeq, SeqOf
<1>2. m \in Nat
  BY SessionSendsAssumption
<1>3. \A s \in Sessions : Op("PostSend", s) \in SendingOps
  BY DEF Op, SendingOps
<1>4. [i \in DOMAIN posts |-> Op("PostSend", posts[i])] \in [1 .. m -> SendingOps]
  BY <1>1, <1>3
<1> QED BY <1>2, <1>4, IsASeq

LEMMA HandlePacketsStep ==
  ASSUME SendInv, NEW t \in Threads, HandlePackets(t)
  PROVE  SendInv'
<1>1. /\ Calling(t, "PacketHandling")
      /\ UNCHANGED sendVars /\ UNCHANGED crashed /\ PoolUnchanged
  BY DEF HandlePackets
<1>2. Obj(t) \in Sessions
  BY <1>1, CallFacts
<1>3. PICK exchange \in {<<>>} \cup KeyExchanges(Obj(t)),
           posts \in BoundedSeq(Sessions \ Free, MaxPosts) :
        Do(t, exchange \o [i \in DOMAIN posts |-> Op("PostSend", posts[i])])
  BY DEF HandlePackets
<1> DEFINE calls == [i \in DOMAIN posts |-> Op("PostSend", posts[i])]
<1>4. calls \in Seq(SendingOps)
  BY PostCalls
<1>5. exchange \in Seq(SendingOps)
  <2>1. <<>> \in Seq(SendingOps)
    OBVIOUS
  <2> QED BY <1>2, <2>1, KeyExchangeCalls
<1>6. Do(t, exchange \o calls)
  BY <1>3
<1> HIDE DEF calls
<1>7. exchange \o calls \in Seq(SendingOps)
  BY <1>4, <1>5, ConcatProperties
<1> QED BY <1>1, <1>6, <1>7, SilentSends

-----------------------------------------------------------------------------
(***************************************************************************)
(* The send lock, the connection and the count of sends.                   *)
(***************************************************************************)
\* The thread that is at a call inside the lock is inside it; nobody is at one when
\* nobody is inside.
LEMMA InsideFacts ==
  ASSUME SendInv, NEW t \in Threads, NEW s \in Sessions, NEW calls \in SUBSET LockCalls,
         Starts(todo[t], calls, s)
  PROVE  sendLock[s] = t /\ sendLock[s] # NoThread
<1>1. todo[t] \in Seq(SendOps) /\ todo[t] # <<>>
  BY DEF SendInv, SendTypes, TypeInv, Starts
<1>2. 1 \in 1 .. Len(todo[t])
  BY <1>1, NotEmpty
<1>3. sendLock[s] = t
  BY <1>2 DEF SendInv, SendStructured, PoolStructure, Inside, Starts, LockCalls
<1> QED BY <1>3, SessionPoolAssumption DEF Threads

\* What the invariant says of one session.
LEMMA SessionFacts ==
  ASSUME SendInv, NEW s \in Sessions
  PROVE  /\ mConnected[s] \in {0, 1} /\ mSendPendingCount[s] \in Nat
         /\ stored[s] \in Nat /\ inFlight[s] \in Nat /\ inFlight[s] <= stored[s]
         /\ SendAt(todo, kernel, mSendPendingCount, s)
         /\ ConnAt(todo, kernel, issueRef, mConnected, s)
BY DEF SendInv, SendTypes, TypeInv, BufferInv, SendsInv, ConnInv

\* The calls of the send lock change no connection and no buffer.
LEMMA LockStep ==
  ASSUME SendInv, NEW t \in Threads, NEW call, NEW ops, PlainCall(t, call, ops),
         call \notin RefCalls,
         \A s \in Sessions :
           \/ sendLock'[s] = sendLock[s]
           \/ sendLock[s] = NoThread /\ sendLock'[s] = t
           \/ call \in {"CountSend", "FlushUnlock"} /\ s = Obj(t) /\ sendLock'[s] = NoThread,
         \A i \in 1 .. Len(ops) :
           ops[i].call \notin ConnCalls /\ (ops[i].call \in LockCalls => sendLock'[ops[i].obj] = t),
         sendLock' \in [Sessions -> Threads \cup {NoThread}],
         mSendPendingCount' \in [Sessions -> Nat], SendsInv',
         UNCHANGED <<stored, inFlight, sendList, crashed>>, PoolUnchanged
  PROVE  SendInv'
<1>1. /\ UNCHANGED <<mRefCount, managerVars, contextVars, accepting, issueRef, crashed>>
      /\ mConnected' = mConnected /\ associated' = associated /\ completionOk' = completionOk
      /\ kernel' = kernel /\ issueRef' = issueRef
  BY DEF PoolUnchanged, sessionVars, managerVars, contextVars
<1>2. /\ mConnected' \in [Sessions -> {0, 1}] /\ associated' \in [Sessions -> BOOLEAN]
      /\ completionOk' \in [Threads -> BOOLEAN]
      /\ \A s \in Sessions :
           \/ mConnected'[s] = mConnected[s] \/ mConnected'[s] = 0
           \/ call \in RefCalls /\ s = Obj(t)
  BY <1>1 DEF SendInv, SendTypes, TypeInv
<1>3. TypeInv(SendOps)' /\ SendStructured' /\ CountsInv' /\ PoolAccounting'
  BY <1>1, <1>2, PlainStep
<1>4. todo' = [todo EXCEPT ![t] = todo'[t]] /\ Follows(todo'[t], todo[t], ops)
  BY DoFacts DEF PlainCall
<1>5. ops # <<>> => ops[1].call \notin ConnCalls
  BY <1>4 DEF Follows
<1>6. \A s : ~ Starts(todo'[t], ConnCalls, s)
  BY <1>4, <1>5, HeadAfter DEF ConnCalls, BehindCalls
<1>7. ConnInv'
  BY <1>1, <1>4, <1>6, ConnSame
<1>8. BufferInv'
  BY <1>1 DEF SendInv, BufferInv, Sending
<1>9. SendTypes'
  BY <1>3 DEF SendInv, SendTypes
<1> QED BY <1>3, <1>7, <1>8, <1>9 DEF SendInv

LEMMA FlushLockStep ==
  ASSUME SendInv, NEW t \in Threads, FlushLock(t)
  PROVE  SendInv'
<1> DEFINE s == Obj(t)
           ops == <<Op("WSASend", s)>>
<1>1. Calling(t, "FlushLock") /\ s \in Sessions
  BY CallFacts DEF FlushLock
<1>2. "FlushLock" \notin Returns \cup {"DeleteIoContext"} \cup LockCalls \cup InsideCalls
                         \cup RefCalls
  BY DEF Returns, LockCalls, InsideCalls, RefCalls
<1>3. CASE Do(t, <<>>) /\ UNCHANGED sendLock
  <2>1. /\ completionOk' \in [Threads -> BOOLEAN] /\ UNCHANGED sendVars
        /\ UNCHANGED <<sessionVars, managerVars, contextVars, accepting, issueRef, crashed>>
    BY <1>3, FlagType DEF FlushLock, PoolUnchanged, sendVars
  <2> QED BY <1>1, <1>2, <1>3, <2>1, SilentNone
<1>4. CASE /\ ~ (stored[s] = 0 \/ mSendPendingCount[s] > 0)
           /\ Do(t, ops) /\ Set(sendLock, s, t)
  <2>1. mSendPendingCount[s] = 0
    BY <1>1, <1>4, SessionFacts
  <2>2. /\ sendLock \in [Sessions -> Threads \cup {NoThread}] /\ sendLock[s] = NoThread
        /\ sendLock' = [sendLock EXCEPT ![s] = t]
    BY <1>4 DEF FlushLock, Set, SendInv, SendTypes
  <2>3. /\ UNCHANGED <<mSendPendingCount, stored, inFlight, sendList, crashed>> /\ PoolUnchanged
        /\ mSendPendingCount' \in [Sessions -> Nat]
    BY DEF FlushLock, SendInv, SendTypes
  <2>4. /\ "WSASend" \in OpCalls \cup SendCalls
        /\ "WSASend" \notin {"DeleteIoContext", "FlushUnlock"} \cup Returns
        /\ "WSASend" \notin RefCalls \cup ConnCalls \cup SendDone
    BY DEF OpCalls, SendCalls, Returns, RefCalls, ConnCalls, SendDone
  <2>5. /\ PlainOps(t, "FlushLock", ops)
        /\ \A i \in 1 .. Len(ops) : ops[i].call = "WSASend" /\ ops[i].obj = s
    BY <1>1, <1>2, <2>4, OneOp
  <2>6. PlainCall(t, "FlushLock", ops)
    BY <1>1, <1>2, <1>4, <2>5, PlainMade
  <2>7. /\ todo' = [todo EXCEPT ![t] = todo'[t]]
        /\ todo'[t] # <<>> /\ todo'[t][1].call = "WSASend" /\ todo'[t][1].obj = s
    <3>1. todo' = [todo EXCEPT ![t] = todo'[t]] /\ Follows(todo'[t], todo[t], ops)
      BY <2>6, DoFacts DEF PlainCall
    <3> QED BY <3>1, <2>5 DEF Follows
  <2> HIDE DEF ops, s
  <2>8. SendsInv'
    <3>1. \A r \in Sessions : Starts(todo'[t], SendDone, r) => Starts(todo[t], SendDone, r)
      BY <2>7 DEF Starts, SendDone
    <3>2. \A r \in Sessions : Starts(todo'[t], {"WSASend"}, r) => mSendPendingCount[r] = 0
      BY <2>1, <2>7 DEF Starts
    <3>3. \A r \in Sessions : ~ Starts(todo[t], {"CountSend"}, r)
      <4>1. todo[t][1].call = "FlushLock"
        BY <1>1, CallFacts
      <4> QED BY <4>1 DEF Starts
    <3>4. \A d \in kernel' \ kernel : d.io \notin SendIO
      BY <2>3 DEF PoolUnchanged, contextVars
    <3> QED BY <2>3, <2>7, <3>1, <3>2, <3>3, <3>4, SendsSame
  <2>9. /\ sendLock' \in [Sessions -> Threads \cup {NoThread}]
        /\ \A r \in Sessions :
             \/ sendLock'[r] = sendLock[r]
             \/ sendLock[r] = NoThread /\ sendLock'[r] = t
             \/ "FlushLock" \in {"CountSend", "FlushUnlock"} /\ r = Obj(t)
                  /\ sendLock'[r] = NoThread
        /\ sendLock'[s] = t
    BY <1>1, <2>2
  <2>10. \A i \in 1 .. Len(ops) :
           /\ ops[i].call \notin ConnCalls
           /\ ops[i].call \in LockCalls => sendLock'[ops[i].obj] = t
    BY <2>4, <2>5, <2>9
  <2> QED BY <1>2, <2>3, <2>6, <2>8, <2>9, <2>10, LockStep
<1> QED BY <1>3, <1>4 DEF FlushLock

\* Thread t leaves the lock it is in.
LEMMA LeaveLock ==
  ASSUME SendInv, NEW t \in Threads, NEW call \in {"CountSend", "FlushUnlock"}, Calling(t, call),
         Do(t, <<>>), Set(sendLock, Obj(t), NoThread),
         UNCHANGED <<stored, inFlight, sendList, crashed>>, PoolUnchanged
  PROVE  /\ Obj(t) \in Sessions /\ sendLock[Obj(t)] = t
         /\ todo[t] # <<>> /\ todo[t][1].call = call /\ todo[t][1].obj = Obj(t)
         /\ todo' = [todo EXCEPT ![t] = todo'[t]] /\ kernel' = kernel
         /\ \A s : ~ Starts(todo'[t], SendDone, s) /\ ~ Starts(todo'[t], {"WSASend"}, s)
                     /\ ~ Starts(todo'[t], {"CountSend"}, s)
         /\ mSendPendingCount' \in [Sessions -> Nat] /\ SendsInv' => SendInv'
<1>1. /\ Obj(t) \in Sessions /\ todo[t] # <<>> /\ todo[t][1].call = call
      /\ todo[t][1].obj = Obj(t)
  BY CallFacts
<1>2. sendLock[Obj(t)] = t
  BY <1>1, InsideFacts DEF Starts, LockCalls
<1>3. call \notin Returns \cup {"DeleteIoContext"} \cup RefCalls
  BY DEF Returns, RefCalls
<1>4. PlainOps(t, call, <<>>) /\ Len(<<>>) = 0
  BY NoOps
<1>5. PlainCall(t, call, <<>>)
  BY <1>3, <1>4, PlainMade
<1>6. todo' = [todo EXCEPT ![t] = todo'[t]] /\ Follows(todo'[t], todo[t], <<>>)
  BY <1>5, DoFacts DEF PlainCall
<1>7. \A s : /\ ~ Starts(todo'[t], SendDone, s) /\ ~ Starts(todo'[t], {"WSASend"}, s)
             /\ ~ Starts(todo'[t], {"CountSend"}, s)
  <2>1. {"SendCompletion", "WSASend", "CountSend"} \cap BehindCalls = {}
    BY DEF BehindCalls
  <2>2. \A s : ~ Starts(todo'[t], {"SendCompletion", "WSASend", "CountSend"}, s)
    BY <1>6, <2>1, HeadAfter
  <2> QED BY <2>2 DEF Starts, SendDone
<1>8. ASSUME mSendPendingCount' \in [Sessions -> Nat], SendsInv' PROVE SendInv'
  <2>1. /\ sendLock \in [Sessions -> Threads \cup {NoThread}]
        /\ sendLock' = [sendLock EXCEPT ![Obj(t)] = NoThread]
    BY DEF Set, SendInv, SendTypes
  <2>2. /\ sendLock' \in [Sessions -> Threads \cup {NoThread}]
        /\ \A r \in Sessions :
             \/ sendLock'[r] = sendLock[r]
             \/ sendLock[r] = NoThread /\ sendLock'[r] = t
             \/ call \in {"CountSend", "FlushUnlock"} /\ r = Obj(t)
                  /\ sendLock'[r] = NoThread
    BY <1>1, <2>1
  <2>3. \A i \in 1 .. Len(<<>>) :
          /\ <<>>[i].call \notin ConnCalls
          /\ <<>>[i].call \in LockCalls => sendLock'[<<>>[i].obj] = t
    BY <1>4
  <2> QED BY <1>3, <1>5, <1>8, <2>2, <2>3, LockStep
<1>9. kernel' = kernel
  BY DEF PoolUnchanged, contextVars
<1> QED BY <1>1, <1>2, <1>6, <1>7, <1>8, <1>9

LEMMA FlushUnlockStep ==
  ASSUME SendInv, NEW t \in Threads, FlushUnlock(t)
  PROVE  SendInv'
<1>1. /\ Calling(t, "FlushUnlock") /\ Do(t, <<>>) /\ Set(sendLock, Obj(t), NoThread)
      /\ UNCHANGED <<mSendPendingCount, stored, inFlight, sendList, crashed>> /\ PoolUnchanged
  BY DEF FlushUnlock
<1>2. /\ todo[t] # <<>> /\ todo[t][1].call = "FlushUnlock"
      /\ todo' = [todo EXCEPT ![t] = todo'[t]] /\ kernel' = kernel
      /\ \A s : ~ Starts(todo'[t], SendDone, s) /\ ~ Starts(todo'[t], {"WSASend"}, s)
      /\ mSendPendingCount' \in [Sessions -> Nat] /\ SendsInv' => SendInv'
  BY <1>1, LeaveLock
<1>3. mSendPendingCount' = mSendPendingCount /\ mSendPendingCount' \in [Sessions -> Nat]
  BY <1>1 DEF SendInv, SendTypes
<1>4. \A s : ~ Starts(todo[t], {"CountSend"}, s)
  BY <1>2 DEF Starts
<1>5. SendsInv'
  BY <1>2, <1>3, <1>4, SendsSame
<1> QED BY <1>2, <1>3, <1>5

LEMMA CountSendStep ==
  ASSUME SendInv, NEW t \in Threads, CountSend(t)
  PROVE  SendInv'
<1>1. /\ Calling(t, "CountSend") /\ Do(t, <<>>) /\ Set(sendLock, Obj(t), NoThread)
      /\ UNCHANGED <<stored, inFlight, sendList, crashed>> /\ PoolUnchanged
  BY DEF CountSend
<1>2. /\ Obj(t) \in Sessions /\ sendLock[Obj(t)] = t
      /\ todo[t] # <<>> /\ todo[t][1].call = "CountSend" /\ todo[t][1].obj = Obj(t)
      /\ todo' = [todo EXCEPT ![t] = todo'[t]] /\ kernel' = kernel
      /\ \A s : ~ Starts(todo'[t], SendDone, s) /\ ~ Starts(todo'[t], {"WSASend"}, s)
      /\ mSendPendingCount' \in [Sessions -> Nat] /\ SendsInv' => SendInv'
  BY <1>1, LeaveLock
<1>3. PICK n \in Nat : n = mSendPendingCount[Obj(t)]
  BY <1>2, SessionFacts
<1>4. /\ mSendPendingCount \in [Sessions -> Nat]
      /\ mSendPendingCount' = [mSendPendingCount EXCEPT ![Obj(t)] = n + 1]
      /\ n + 1 \in Nat /\ n + 1 > 0
  BY <1>3 DEF CountSend, Set, SendInv, SendTypes
<1>5. mSendPendingCount' \in [Sessions -> Nat]
  BY <1>4
<1>6. DOMAIN todo = Threads
  BY DEF SendInv, SendTypes, TypeInv
<1>7. ASSUME NEW s \in Sessions PROVE SendAt(todo', kernel', mSendPendingCount', s)
  <2>1. SendAt(todo, kernel, mSendPendingCount, s)
    BY SessionFacts
  <2>2. CASE s # Obj(t)
    <3>1. ~ Starts(todo[t], {"CountSend"}, s)
      BY <1>2, <2>2 DEF Starts
    <3>2. SendAt([todo EXCEPT ![t] = todo'[t]], kernel, mSendPendingCount, s)
      BY <1>2, <1>6, <2>1, <3>1, SendsKept
    <3>3. SendAt(todo', kernel', mSendPendingCount, s)
      BY <1>2, <3>2
    <3>4. mSendPendingCount'[s] = mSendPendingCount[s]
      BY <1>4, <2>2
    <3> QED BY <3>3, <3>4 DEF SendAt
  <2>3. CASE s = Obj(t)
    <3>1. Alone([todo EXCEPT ![t] = todo'[t]], kernel, s, SendIO, SendDone)
      <4>1. Alone(todo, kernel, s, SendIO, SendDone)
        BY <2>1 DEF SendAt
      <4> QED BY <1>2, <1>6, <4>1, AloneKept
    <3>2. Alone(todo', kernel', s, SendIO, SendDone)
      BY <1>2, <3>1
    <3>3. mSendPendingCount'[s] > 0
      BY <1>4, <2>3
    <3>4. ASSUME NEW u \in Threads, Starts(todo'[u], {"WSASend"}, s) PROVE FALSE
      <4>1. u # t /\ todo'[u] = todo[u]
        BY <1>2, <1>6, <3>4
      <4>2. sendLock[s] = u
        BY <3>4, <4>1, InsideFacts DEF LockCalls
      <4> QED BY <1>2, <2>3, <4>1, <4>2
    <3> QED BY <3>2, <3>3, <3>4 DEF SendAt
  <2> QED BY <2>2, <2>3
<1>8. SendsInv'
  BY <1>7 DEF SendsInv
<1> QED BY <1>2, <1>5, <1>8

\* A call that concerns the connection, or the flag of the completion, only.
LEMMA ConnStep ==
  ASSUME SendInv, NEW t \in Threads, NEW call, NEW ops, PlainCall(t, call, ops),
         call \notin LockCalls,
         \A i \in 1 .. Len(ops) : ops[i].call \notin SendDone \cup LockCalls,
         \A s \in Sessions :
           \/ mConnected'[s] = mConnected[s] \/ mConnected'[s] = 0
           \/ call \in RefCalls /\ s = Obj(t),
         mConnected' \in [Sessions -> {0, 1}], associated' \in [Sessions -> BOOLEAN],
         ConnInv',
         UNCHANGED <<mRefCount, managerVars, contextVars, accepting, issueRef, crashed,
                     completionOk>>,
         UNCHANGED sendVars
  PROVE  SendInv'
<1>1. /\ UNCHANGED <<mRefCount, managerVars, contextVars, accepting, issueRef, crashed>>
      /\ kernel' = kernel /\ completionOk' = completionOk /\ sendLock' = sendLock
      /\ stored' = stored /\ sendList' = sendList /\ inFlight' = inFlight
      /\ mSendPendingCount' = mSendPendingCount
  BY DEF contextVars, sendVars
<1>2. completionOk' \in [Threads -> BOOLEAN]
  BY <1>1 DEF SendInv, SendTypes, TypeInv
<1>3. TypeInv(SendOps)' /\ SendStructured' /\ CountsInv' /\ PoolAccounting'
  BY <1>1, <1>2, PlainStep
<1>4. todo' = [todo EXCEPT ![t] = todo'[t]] /\ Follows(todo'[t], todo[t], ops)
  BY DoFacts DEF PlainCall
<1>5. ops # <<>> => ops[1].call \notin SendDone \cup LockCalls
  BY <1>4 DEF Follows
<1>6. \A s : ~ Starts(todo'[t], SendDone, s) /\ ~ Starts(todo'[t], {"WSASend"}, s)
  <2>1. /\ {"SendCompletion", "WSASend"} \cap BehindCalls = {}
        /\ ops # <<>> => ops[1].call \notin {"SendCompletion", "WSASend"}
    BY <1>5 DEF BehindCalls, SendDone, LockCalls
  <2>2. \A s : ~ Starts(todo'[t], {"SendCompletion", "WSASend"}, s)
    BY <1>4, <2>1, HeadAfter
  <2> QED BY <2>2 DEF Starts, SendDone
<1>7. \A s : ~ Starts(todo[t], {"CountSend"}, s)
  <2>1. todo[t][1].call = call
    BY CallFacts DEF PlainCall
  <2> QED BY <2>1 DEF Starts, LockCalls
<1>8. SendsInv'
  BY <1>1, <1>4, <1>6, <1>7, SendsSame
<1>9. BufferInv'
  BY <1>1 DEF SendInv, BufferInv, Sending
<1>10. SendTypes'
  BY <1>1, <1>3 DEF SendInv, SendTypes
<1> QED BY <1>3, <1>8, <1>9, <1>10 DEF SendInv

\* A session with its connection up has no connection token.
LEMMA UpNoToken ==
  ASSUME SendInv, NEW s \in Sessions, mConnected[s] # 0
  PROVE  ~ Token(todo, kernel, s, ConnIO, ConnCalls) /\ s \in issueRef
BY SessionFacts DEF ConnAt

LEMMA TakesNone ==
  ASSUME NEW T, NEW K, NEW s, NEW ios, NEW calls, ~ Token(T, K, s, ios, calls)
  PROVE  Alone(T, K, s, ios, calls)
BY DEF Token, Alone

LEMMA DisconnectedStep ==
  ASSUME SendInv, NEW t \in Threads, DisconnectRequest(t), UNCHANGED sendVars
  PROVE  SendInv'
<1> DEFINE call == "DisconnectRequest"
<1>1. /\ Calling(t, call) /\ Obj(t) \in Sessions /\ todo[t][1].call = call
      /\ UNCHANGED <<mRefCount, managerVars, contextVars, accepting, issueRef, crashed,
                     completionOk>>
      /\ associated' = associated /\ kernel' = kernel /\ issueRef' = issueRef
  BY CallFacts DEF DisconnectRequest, contextVars
<1>2. /\ mConnected \in [Sessions -> {0, 1}]
      /\ mConnected' = [mConnected EXCEPT ![Obj(t)] = 0]
      /\ associated' \in [Sessions -> BOOLEAN] /\ DOMAIN todo = Threads
  BY <1>1 DEF DisconnectRequest, Set, SendInv, SendTypes, TypeInv
<1>3. /\ mConnected' \in [Sessions -> {0, 1}]
      /\ \A s \in Sessions : mConnected'[s] = IF s = Obj(t) THEN 0 ELSE mConnected[s]
      /\ \A s \in Sessions : mConnected'[s] = mConnected[s] \/ mConnected'[s] = 0
  BY <1>1, <1>2
<1>4. call \notin Returns \cup {"DeleteIoContext"} \cup LockCalls
  BY DEF Returns, LockCalls
<1>5. CASE mConnected[Obj(t)] = 0 /\ Do(t, <<>>)
  <2>1. PlainOps(t, call, <<>>) /\ \A i \in 1 .. Len(<<>>) : FALSE
    BY NoOps
  <2>2. PlainCall(t, call, <<>>)
    BY <1>1, <1>4, <1>5, <2>1, PlainMade
  <2>3. todo' = [todo EXCEPT ![t] = todo'[t]] /\ Follows(todo'[t], todo[t], <<>>)
    BY <2>2, DoFacts DEF PlainCall
  <2>4. \A s : ~ Starts(todo'[t], ConnCalls, s)
    BY <2>3, HeadAfter DEF ConnCalls, BehindCalls
  <2>5. ConnInv'
    BY <1>1, <1>3, <2>3, <2>4, ConnSame
  <2> QED BY <1>1, <1>2, <1>3, <1>4, <2>1, <2>2, <2>5, ConnStep
<1>6. CASE mConnected[Obj(t)] # 0 /\ Do(t, <<Op("DisconnectEx", Obj(t))>>)
  <2> DEFINE ops == <<Op("DisconnectEx", Obj(t))>>
  <2>0. /\ "DisconnectEx" \in OpCalls \cup SendCalls
        /\ "DisconnectEx" \notin {"DeleteIoContext", "FlushUnlock"} \cup Returns
        /\ "DisconnectEx" \notin RefCalls \cup SendDone \cup LockCalls
        /\ "DisconnectEx" \in InsideCalls
    BY DEF OpCalls, SendCalls, Returns, RefCalls, SendDone, LockCalls, InsideCalls
  <2>1. /\ PlainOps(t, call, ops)
        /\ \A i \in 1 .. Len(ops) : ops[i].call = "DisconnectEx" /\ ops[i].obj = Obj(t)
    BY <1>1, <2>0, OneOp
  <2>2. PlainCall(t, call, ops)
    BY <1>1, <1>4, <1>6, <2>1, PlainMade
  <2>3. todo' = [todo EXCEPT ![t] = todo'[t]] /\ Follows(todo'[t], todo[t], ops)
    BY <2>2, DoFacts DEF PlainCall
  <2> HIDE DEF ops
  <2>4. \A s : Starts(todo'[t], ConnCalls, s) => s = Obj(t)
    <3>1. CASE ops # <<>>
      BY <2>1, <2>3, <3>1 DEF Follows, Starts, ConnCalls
    <3>2. CASE ops = <<>>
      <4>1. todo'[t] # <<>> => todo'[t][1].call \in BehindCalls
        BY <2>3, <3>2 DEF Follows
      <4> QED BY <4>1 DEF Starts, BehindCalls, ConnCalls
    <3> QED BY <3>1, <3>2
  <2>5. ASSUME NEW s \in Sessions PROVE ConnAt(todo', kernel', issueRef', mConnected', s)
    <3>1. CASE s = Obj(t)
      <4>1. ~ Token(todo, kernel, s, ConnIO, ConnCalls) /\ s \in issueRef
        BY <1>6, <3>1, UpNoToken
      <4>2. Alone([todo EXCEPT ![t] = todo'[t]], kernel, s, ConnIO, ConnCalls)
        BY <1>2, <4>1, AloneMade
      <4>3. Alone(todo', kernel', s, ConnIO, ConnCalls)
        BY <1>1, <2>3, <4>2
      <4> QED BY <1>1, <1>3, <3>1, <4>1, <4>3 DEF ConnAt
    <3>2. CASE s # Obj(t)
      <4>1. ConnAt(todo, kernel, issueRef, mConnected, s)
        BY SessionFacts
      <4>2. ~ Starts(todo'[t], ConnCalls, s) /\ mConnected'[s] = mConnected[s]
        BY <1>3, <2>4, <3>2
      <4>3. ConnAt([todo EXCEPT ![t] = todo'[t]], kernel, issueRef, mConnected', s)
        BY <1>2, <4>1, <4>2, ConnKept
      <4> QED BY <1>1, <2>3, <4>3
    <3> QED BY <3>1, <3>2
  <2>6. ConnInv'
    BY <2>5 DEF ConnInv
  <2>7. \A i \in 1 .. Len(ops) : ops[i].call \notin SendDone \cup LockCalls
    BY <2>0, <2>1
  <2> QED BY <1>1, <1>2, <1>3, <1>4, <2>2, <2>6, <2>7, ConnStep
<1> QED BY <1>5, <1>6 DEF DisconnectRequest

LEMMA AcceptedStep ==
  ASSUME SendInv, NEW t \in Threads, AcceptCompletion(t), UNCHANGED sendVars
  PROVE  SendInv'
<1> DEFINE call == "AcceptCompletion"
           a == <<Op("PreRecv", Obj(t)), Op("SendBaseKey", Obj(t))>>
           b == <<Op("DisconnectRequest", Obj(t))>>
<1>1. /\ Calling(t, call) /\ Obj(t) \in Sessions /\ todo[t] # <<>> /\ todo[t][1].call = call
      /\ todo[t][1].obj = Obj(t) /\ kernel' = kernel /\ issueRef' = issueRef
      /\ CrashAssert(mConnected[Obj(t)] = 0, "AcceptCompletion")
      /\ mConnected' = [mConnected EXCEPT ![Obj(t)] = 1]
      /\ UNCHANGED <<mRefCount, managerVars, contextVars, completionOk, accepting, issueRef>>
  BY CallFacts DEF AcceptCompletion, contextVars, Set
<1>2. /\ mConnected \in [Sessions -> {0, 1}] /\ associated \in [Sessions -> BOOLEAN]
      /\ DOMAIN todo = Threads
  BY DEF SendInv, SendTypes, TypeInv
<1>3. Starts(todo[t], ConnCalls, Obj(t)) /\ call \in RefCalls
  BY <1>1 DEF Starts, ConnCalls, RefCalls
<1>4. ConnAt(todo, kernel, issueRef, mConnected, Obj(t))
  BY <1>1, SessionFacts
<1>5. Token(todo, kernel, Obj(t), ConnIO, ConnCalls)
  BY <1>3 DEF Token
<1>6. mConnected[Obj(t)] = 0 /\ Obj(t) \in issueRef
  BY <1>4, <1>5 DEF ConnAt
<1>7. crashed' = crashed
  BY <1>1, <1>6 DEF CrashAssert
<1>8. /\ mConnected' \in [Sessions -> {0, 1}]
      /\ \A s \in Sessions : mConnected'[s] = IF s = Obj(t) THEN 1 ELSE mConnected[s]
  BY <1>1, <1>2
<1>9. associated' \in [Sessions -> BOOLEAN] /\ (Do(t, a) \/ Do(t, b))
  BY <1>2 DEF AcceptCompletion, Set
<1>10. call \notin Returns \cup {"DeleteIoContext"} \cup LockCalls \cup InsideCalls
  BY DEF Returns, LockCalls, InsideCalls
<1>11. /\ PlainOps(t, call, a)
       /\ \A i \in 1 .. Len(a) : a[i].call \notin SendDone \cup LockCalls \cup ConnCalls
  <2> DEFINE o == Op("PreRecv", Obj(t))
             p == Op("SendBaseKey", Obj(t))
  <2>1. /\ o \in SendOps /\ Typed(o) /\ o.obj = Obj(t) /\ o.call = "PreRecv"
        /\ p \in SendOps /\ Typed(p) /\ p.obj = Obj(t) /\ p.call = "SendBaseKey"
    BY <1>1 DEF Op, SendOps, OpCalls, Typed
  <2> HIDE DEF o, p
  <2>2. /\ <<o, p>> \in Seq(SendOps) /\ <<o, p>>[1] = o
        /\ \A i \in 1 .. Len(<<o, p>>) : <<o, p>>[i] = o \/ <<o, p>>[i] = p
        /\ \A i \in 2 .. Len(<<o, p>>) : <<o, p>>[i] = p
    BY <2>1
  <2> DEFINE w == <<o, p>>
  <2> HIDE DEF w
  <2>3. /\ w \in Seq(SendOps) /\ w[1] = o
        /\ \A i \in 1 .. Len(w) : w[i] = o \/ w[i] = p
        /\ \A i \in 2 .. Len(w) : w[i] = p
    BY <2>2 DEF w
  <2>4. PlainOps(t, call, w)
    BY <1>3, <1>10, <2>1, <2>3 DEF PlainOps, PlainCalls, Returns
  <2>5. \A i \in 1 .. Len(w) : w[i].call \notin SendDone \cup LockCalls \cup ConnCalls
    BY <2>1, <2>3 DEF SendDone, LockCalls, ConnCalls
  <2> QED BY <2>4, <2>5 DEF w, o, p
<1>12. /\ PlainOps(t, call, b)
       /\ \A i \in 1 .. Len(b) : b[i].call \notin SendDone \cup LockCalls \cup ConnCalls
  <2>1. b \in Seq(SendingOps)
    BY <1>1 DEF Op, SendingOps
  <2> HIDE DEF b
  <2> QED BY <1>10, <2>1, SendingCalls
<1> HIDE DEF a, b
<1>13. ASSUME NEW ops, PlainOps(t, call, ops), Do(t, ops),
              \A i \in 1 .. Len(ops) : ops[i].call \notin SendDone \cup LockCalls \cup ConnCalls
       PROVE  SendInv'
  <2>2. PlainCall(t, call, ops)
    BY <1>1, <1>10, <1>13, PlainMade
  <2>3. todo' = [todo EXCEPT ![t] = todo'[t]] /\ Follows(todo'[t], todo[t], ops)
    BY <2>2, DoFacts DEF PlainCall
  <2>4. \A s : ~ Starts(todo'[t], ConnCalls, s)
    <3>1. /\ ops # <<>> => ops[1].call \notin ConnCalls
          /\ ConnCalls \cap BehindCalls = {}
      BY <1>13, <2>3 DEF Follows, ConnCalls, BehindCalls
    <3> QED BY <2>3, <3>1, HeadAfter
  <2>5. ASSUME NEW s \in Sessions PROVE ConnAt(todo', kernel', issueRef', mConnected', s)
    <3>1. CASE s = Obj(t)
      <4>1. Alone(todo, kernel, s, ConnIO, ConnCalls) /\ Starts(todo[t], ConnCalls, s)
        BY <1>3, <1>4, <3>1 DEF ConnAt
      <4>2. ~ Token([todo EXCEPT ![t] = todo'[t]], kernel, s, ConnIO, ConnCalls)
        BY <1>2, <2>4, <4>1, AloneDropped
      <4>3. ~ Token(todo', kernel', s, ConnIO, ConnCalls)
        BY <1>1, <2>3, <4>2
      <4>4. Alone(todo', kernel', s, ConnIO, ConnCalls)
        BY <4>3, TakesNone
      <4> QED BY <1>1, <1>6, <3>1, <4>3, <4>4 DEF ConnAt
    <3>2. CASE s # Obj(t)
      <4>1. ConnAt(todo, kernel, issueRef, mConnected, s)
        BY SessionFacts
      <4>2. ~ Starts(todo'[t], ConnCalls, s) /\ mConnected'[s] = mConnected[s]
        BY <1>8, <2>4, <3>2
      <4>3. ConnAt([todo EXCEPT ![t] = todo'[t]], kernel, issueRef, mConnected', s)
        BY <1>2, <4>1, <4>2, ConnKept
      <4> QED BY <1>1, <2>3, <4>3
    <3> QED BY <3>1, <3>2
  <2>6. ConnInv'
    BY <2>5 DEF ConnInv
  <2>7. /\ \A i \in 1 .. Len(ops) : ops[i].call \notin SendDone \cup LockCalls
        /\ UNCHANGED <<mRefCount, managerVars, contextVars, accepting, issueRef, crashed,
                       completionOk>>
        /\ \A s \in Sessions :
             \/ mConnected'[s] = mConnected[s] \/ mConnected'[s] = 0
             \/ call \in RefCalls /\ s = Obj(t)
    BY <1>1, <1>3, <1>7, <1>8, <1>13
  <2> QED BY <1>8, <1>9, <1>10, <2>2, <2>6, <2>7, ConnStep
<1> QED BY <1>9, <1>11, <1>12, <1>13

\* Nobody inside the send lock is about to count a send: the completion finds it
\* counted.
LEMMA SentStep ==
  ASSUME SendInv, NEW t \in Threads, SendCompletion(t)
  PROVE  SendInv'
<1> DEFINE call == "SendCompletion"
<1>1. /\ Calling(t, call) /\ Obj(t) \in Sessions /\ todo[t] # <<>> /\ todo[t][1].call = call
      /\ todo[t][1].obj = Obj(t) /\ kernel' = kernel /\ issueRef' = issueRef
      /\ mConnected' = mConnected /\ associated' = associated /\ sendLock' = sendLock
      /\ sendList' = sendList /\ sendLock[Obj(t)] = NoThread /\ Do(t, <<>>)
      /\ UNCHANGED <<mRefCount, managerVars, contextVars, accepting, issueRef, crashed>>
  BY CallFacts DEF SendCompletion, contextVars, sessionVars
<1>2. /\ mConnected' \in [Sessions -> {0, 1}] /\ associated' \in [Sessions -> BOOLEAN]
      /\ DOMAIN todo = Threads /\ completionOk \in [Threads -> BOOLEAN]
      /\ stored \in [Sessions -> Nat] /\ inFlight \in [Sessions -> Nat]
      /\ mSendPendingCount \in [Sessions -> Nat]
  BY <1>1 DEF SendInv, SendTypes, TypeInv
<1>3. call \notin Returns \cup {"DeleteIoContext"} \cup LockCalls \cup ConnCalls
  BY DEF Returns, LockCalls, ConnCalls
<1>4. PlainOps(t, call, <<>>) /\ \A i \in 1 .. Len(<<>>) : FALSE
  BY NoOps
<1>5. PlainCall(t, call, <<>>)
  BY <1>1, <1>3, <1>4, PlainMade
<1>6. PICK transferred \in 0 .. inFlight[Obj(t)] :
        /\ Set(stored, Obj(t), stored[Obj(t)] - transferred)
        /\ Set(completionOk, t, transferred = inFlight[Obj(t)])
  BY DEF SendCompletion
<1>7. completionOk' \in [Threads -> BOOLEAN]
  BY <1>2, <1>6 DEF Set
<1>8. TypeInv(SendOps)' /\ SendStructured' /\ CountsInv' /\ PoolAccounting'
  BY <1>1, <1>2, <1>4, <1>5, <1>7, PlainStep
<1>9. todo' = [todo EXCEPT ![t] = todo'[t]] /\ Follows(todo'[t], todo[t], <<>>)
  BY <1>5, DoFacts DEF PlainCall
<1>10. \A s : /\ ~ Starts(todo'[t], SendDone, s) /\ ~ Starts(todo'[t], {"WSASend"}, s)
              /\ ~ Starts(todo'[t], ConnCalls, s)
  <2>1. {"SendCompletion", "WSASend", "AcceptCompletion", "DisconnectEx", "DisconnectCompletion"}
          \cap BehindCalls = {}
    BY DEF BehindCalls
  <2>2. \A s : ~ Starts(todo'[t], {"SendCompletion", "WSASend", "AcceptCompletion",
                                   "DisconnectEx", "DisconnectCompletion"}, s)
    BY <1>9, <2>1, HeadAfter
  <2> QED BY <2>2 DEF Starts, SendDone, ConnCalls
<1>11. ConnInv'
  BY <1>1, <1>9, <1>10, ConnSame
<1>12. /\ Starts(todo[t], SendDone, Obj(t))
       /\ Token(todo, kernel, Obj(t), SendIO, SendDone)
       /\ \A s : ~ Starts(todo[t], {"CountSend"}, s)
  BY <1>1 DEF Starts, SendDone, Token
<1>13. SendAt(todo, kernel, mSendPendingCount, Obj(t)) /\ inFlight[Obj(t)] <= stored[Obj(t)]
  BY <1>1, SessionFacts
<1>14. ASSUME NEW u \in Threads, NEW calls \in SUBSET LockCalls, Starts(todo[u], calls, Obj(t))
       PROVE  FALSE
  BY <1>1, <1>14, InsideFacts
<1>15. mSendPendingCount[Obj(t)] > 0
  <2>1. \A u \in Threads : ~ Starts(todo[u], {"CountSend"}, Obj(t))
    BY <1>14 DEF LockCalls
  <2> QED BY <1>12, <1>13, <2>1 DEF SendAt
<1>16. mSendPendingCount' \in [Sessions -> Nat]
  <2>1. PICK n \in Nat : n = mSendPendingCount[Obj(t)]
    BY <1>1, <1>2
  <2>2. mSendPendingCount' = [mSendPendingCount EXCEPT ![Obj(t)] = n - 1]
    BY <2>1 DEF SendCompletion, Set
  <2>3. n - 1 \in Nat
    BY <1>15, <2>1
  <2> QED BY <1>2, <2>2, <2>3
<1>17. /\ stored' \in [Sessions -> Nat] /\ inFlight' \in [Sessions -> Nat]
       /\ inFlight'[Obj(t)] = 0
       /\ \A s \in Sessions \ {Obj(t)} :
            stored'[s] = stored[s] /\ inFlight'[s] = inFlight[s]
              /\ mSendPendingCount'[s] = mSendPendingCount[s]
  <2>1. PICK n \in Nat, m \in Nat : n = stored[Obj(t)] /\ m = inFlight[Obj(t)]
    BY <1>1, <1>2
  <2>2. n - transferred \in Nat
    BY <1>6, <1>13, <2>1
  <2>3. /\ stored' = [stored EXCEPT ![Obj(t)] = n - transferred]
        /\ inFlight' = [inFlight EXCEPT ![Obj(t)] = 0]
    BY <1>6, <2>1 DEF SendCompletion, Set
  <2>4. stored' \in [Sessions -> Nat] /\ inFlight' \in [Sessions -> Nat]
    BY <1>2, <2>2, <2>3
  <2>5. \A s \in Sessions \ {Obj(t)} : mSendPendingCount'[s] = mSendPendingCount[s]
    BY <1>2 DEF SendCompletion, Set
  <2> QED BY <1>1, <1>2, <2>3, <2>4, <2>5
<1>18. ~ Token(todo', kernel', Obj(t), SendIO, SendDone)
  <2>1. Alone(todo, kernel, Obj(t), SendIO, SendDone)
    BY <1>13 DEF SendAt
  <2>2. ~ Token([todo EXCEPT ![t] = todo'[t]], kernel, Obj(t), SendIO, SendDone)
    BY <1>2, <1>10, <1>12, <2>1, AloneDropped
  <2> QED BY <1>1, <1>9, <2>2
<1>19. ASSUME NEW s \in Sessions PROVE SendAt(todo', kernel', mSendPendingCount', s)
  <2>1. CASE s = Obj(t)
    <3>1. Alone(todo', kernel', s, SendIO, SendDone)
      BY <1>18, <2>1, TakesNone
    <3>2. ASSUME NEW u \in Threads, Starts(todo'[u], {"WSASend"}, s) PROVE FALSE
      <4>1. u # t /\ todo'[u] = todo[u]
        BY <1>2, <1>9, <1>10, <3>2
      <4> QED BY <1>14, <2>1, <3>2, <4>1 DEF LockCalls
    <3> QED BY <1>18, <2>1, <3>1, <3>2 DEF SendAt
  <2>2. CASE s # Obj(t)
    <3>1. SendAt(todo, kernel, mSendPendingCount, s)
      BY SessionFacts
    <3>2. SendAt([todo EXCEPT ![t] = todo'[t]], kernel, mSendPendingCount, s)
      BY <1>2, <1>10, <1>12, <3>1, SendsKept
    <3>3. SendAt(todo', kernel', mSendPendingCount, s)
      BY <1>1, <1>9, <3>2
    <3>4. mSendPendingCount'[s] = mSendPendingCount[s]
      BY <1>17, <2>2
    <3> QED BY <3>3, <3>4 DEF SendAt
  <2> QED BY <2>1, <2>2
<1>20. SendsInv'
  BY <1>19 DEF SendsInv
<1>21. BufferInv'
  <2>1. ASSUME NEW s \in Sessions
        PROVE  /\ 0 <= inFlight'[s] /\ inFlight'[s] <= stored'[s]
               /\ Sending(s)' # {} => inFlight'[s] >= 1
    <3>1. CASE s = Obj(t)
      <4>1. Sending(s)' = {}
        BY <1>18, <3>1 DEF Token, OfIO, Sending, SendIO
      <4>2. stored'[s] \in Nat /\ inFlight'[s] = 0
        BY <1>17, <3>1
      <4> QED BY <4>1, <4>2
    <3>2. CASE s # Obj(t)
      <4>1. stored'[s] = stored[s] /\ inFlight'[s] = inFlight[s] /\ Sending(s)' = Sending(s)
        BY <1>1, <1>17, <3>2 DEF Sending
      <4> QED BY <4>1 DEF SendInv, BufferInv
    <3> QED BY <3>1, <3>2
  <2> QED BY <2>1 DEF BufferInv
<1>22. SendTypes'
  BY <1>1, <1>8, <1>16, <1>17 DEF SendInv, SendTypes
<1> QED BY <1>8, <1>11, <1>20, <1>21, <1>22 DEF SendInv

-----------------------------------------------------------------------------
(***************************************************************************)
(* The return of a session.                                                *)
(***************************************************************************)
\* The send locks, when no thread enters or leaves one.
LEMMA InsideSame ==
  ASSUME NEW T, NEW SL, Inside(T, SL), NEW t \in Threads, NEW U, Moves(T, U, t),
         \A i \in 1 .. Len(U[t]) : U[t][i].call \in LockCalls => SL[U[t][i].obj] = t
  PROVE  Inside(U, SL)
<1>1. ASSUME NEW u \in Threads, NEW i \in 1 .. Len(U[u]), U[u][i].call \in LockCalls
      PROVE  SL[U[u][i].obj] = u
  <2>1. CASE u = t
    BY <1>1, <2>1
  <2>2. CASE u # t
    <3>1. U[u] = T[u]
      BY <2>2 DEF Moves
    <3> QED BY <1>1, <3>1 DEF Inside
  <2> QED BY <2>1, <2>2
<1> QED BY <1>1 DEF Inside

\* A call of a return: what is left to show is which session the thread returns
\* next, and the manager's lock.
LEMMA ReturnFrame ==
  ASSUME SendInv, NEW t \in Threads, NEW call \in Returns, Calling(t, call),
         NEW ops \in Seq(SendOps), Do(t, ops), Allowed(todo[t], ops),
         \A i \in 1 .. Len(ops) : ops[i].call \in Returns,
         \A s \in Sessions :
           /\ Starts(todo'[t], Returns, s) => s = Obj(t)
           /\ Starts(todo'[t], Resets, s) =>
                Bare(todo, live, issueRef, mConnected, sendLock, s)
           /\ Starts(todo'[t], {"ReturnToPool"}, s) => sendLock[s] # t
           /\ Starts(todo'[t], Past, s) => mLock' = t /\ t # Main,
         \/ mLock' = mLock
         \/ mLock = NoThread /\ mLock' = t
         \/ mLock = t /\ t # Main /\ mLock' = NoThread,
         UNCHANGED <<live, kernel, issueRef, accepting, mConnected, sendLock, mSendPendingCount>>
  PROVE  /\ Lists(todo') /\ Owned(todo', live, kernel) /\ Inside(todo', sendLock)
         /\ Pooled(todo', live, issueRef, mConnected, sendLock, Free)
         /\ Managed(todo', mLock', accepting)
         /\ ConnInv' /\ SendsInv'
         /\ Moves(todo, todo', t) /\ todo' \in [Threads -> Seq(SendOps)]
         /\ Follows(todo'[t], todo[t], ops)
<1>1. /\ todo[t] \in Seq(SendOps) /\ todo[t] # <<>> /\ Listed(todo[t])
      /\ todo[t][1].call = call /\ Obj(t) = todo[t][1].obj /\ 1 \in 1 .. Len(todo[t])
      /\ Obj(t) \in Sessions
  BY CallFacts DEF Returns
<1>2. /\ todo' = [todo EXCEPT ![t] = todo'[t]]
      /\ Moves(todo, todo', t) /\ Follows(todo'[t], todo[t], ops)
      /\ Listed(todo'[t]) /\ Backed(todo'[t])
      /\ todo'[t] \in Seq(SendOps) /\ todo' \in [Threads -> Seq(SendOps)]
  BY DoFacts
<1>4. /\ Lists(todo) /\ Owned(todo, live, kernel) /\ Inside(todo, sendLock)
      /\ Pooled(todo, live, issueRef, mConnected, sendLock, Free)
      /\ Managed(todo, mLock, accepting)
  BY DEF SendInv, SendStructured, PoolStructure
<1>5. /\ live \in SUBSET Contexts /\ kernel \in SUBSET live /\ Free \in SUBSET Sessions
  BY FreeSessions DEF SendInv, SendTypes, TypeInv
<1>6. \A i \in 1 .. Len(ops) : ops[i].call \notin LockCalls \cup {"DeleteIoContext"}
  BY DEF Returns, LockCalls
<1>7. todo[t][1].call \notin LockCalls \cup {"DeleteIoContext", "CountSend"}
  BY <1>1 DEF Returns, LockCalls
<1>8. Held(todo'[t]) = (Held(todo[t]) \ {}) \cup {}
  <2>1. /\ todo[t] \in Seq(SendOps) /\ todo[t] # <<>> /\ Listed(todo[t])
        /\ todo'[t] \in Seq(SendOps) /\ Follows(todo'[t], todo[t], ops)
        /\ todo[t][1].call # "DeleteIoContext"
    BY <1>1, <1>2, <1>7
  <2>2. Held(todo'[t]) = Held(todo[t]) \cup Held(ops)
    BY <2>1, HeldAfter
  <2>3. Held(ops) = {}
    BY <1>6 DEF Held, IsOp
  <2> QED BY <2>2, <2>3
<1>9. Owned(todo', live, kernel)
  <2>1. {} \in SUBSET Held(todo[t]) /\ {} \cap {} = {} /\ ({} \cup {}) \cap live = {}
    OBVIOUS
  <2>2. Moves(todo, todo', t) /\ Owned(todo, live, kernel)
    BY <1>2, <1>4
  <2>3. Owned(todo', (live \ {}) \cup {} \cup {}, kernel \cup {})
    BY <1>5, <1>8, <2>1, <2>2, OwnedServed
  <2>4. (live \ {}) \cup {} \cup {} = live /\ kernel \cup {} = kernel
    OBVIOUS
  <2> QED BY <2>3, <2>4
<1>10. Lists(todo')
  BY <1>2, <1>4 DEF Lists, Moves
<1>11. Inside(todo', sendLock)
  <2>1. ASSUME NEW i \in 1 .. Len(todo'[t]), todo'[t][i].call \in LockCalls
        PROVE  sendLock[todo'[t][i].obj] = t
    <3>1. PICK j \in 1 .. Len(todo[t]) : todo'[t][i] = todo[t][j]
      BY <1>1, <1>2, <1>6, <2>1, LocksAfter
    <3> QED BY <1>4, <2>1, <3>1 DEF Inside
  <2>2. Inside(todo, sendLock) /\ Moves(todo, todo', t)
    BY <1>2, <1>4
  <2> QED BY <2>1, <2>2, InsideSame
<1>12. Pooled(todo', live, issueRef, mConnected, sendLock, Free)
  <2>1. ASSUME NEW s \in Sessions, Bare(todo, live, issueRef, mConnected, sendLock, s)
        PROVE  Bare(todo', live, issueRef, mConnected, sendLock, s)
    <3>1. /\ s \notin issueRef /\ mConnected[s] = 0
          /\ sendLock[s] = sendLock[s] \/ sendLock[s] \in {NoThread, t}
      BY <2>1 DEF Bare
    <3>2. \A c \in live : ~ (todo[t] # <<>> /\ IsOp(todo[t][1], "DeleteIoContext", c))
      BY <1>7 DEF IsOp
    <3> QED BY <1>2, <2>1, <3>1, <3>2, BareKept
  <2>2. ASSUME NEW s \in Sessions
        PROVE  /\ Bare(todo, live, issueRef, mConnected, sendLock, s) =>
                    Bare(todo', live, issueRef, mConnected, sendLock, s)
               /\ \A u \in Threads \ {t} : sendLock[s] = u <=> sendLock[s] = u
               /\ Starts(todo'[t], Returns, s) /\ sendLock[s] # t =>
                    \/ Retiring(todo, sendLock, t, s)
                    \/ Bare(todo, live, issueRef, mConnected, sendLock, s) /\ s \notin Free
                         /\ \A u \in Threads \ {t} : ~ Retiring(todo, sendLock, u, s)
               /\ Starts(todo'[t], Resets, s) =>
                    Bare(todo, live, issueRef, mConnected, sendLock, s)
               /\ Starts(todo'[t], {"ReturnToPool"}, s) => sendLock[s] # t
    <3>1. Starts(todo'[t], Returns, s) => Starts(todo[t], Returns, s)
      BY <1>1 DEF Starts
    <3> QED BY <2>1, <3>1 DEF Retiring
  <2>3. /\ Moves(todo, todo', t) /\ Free \in SUBSET Sessions
        /\ Pooled(todo, live, issueRef, mConnected, sendLock, Free)
    BY <1>2, <1>4, <1>5
  <2> QED BY <2>2, <2>3, PooledKept
<1>13. Managed(todo', mLock', accepting)
  <2>1. \A s \in Sessions : Starts(todo'[t], Past, s) => mLock' = t /\ t # Main
    OBVIOUS
  <2>2. t = Main /\ todo'[t] # <<>> => todo[Main] # <<>>
    BY <1>1
  <2>3. Moves(todo, todo', t) /\ Managed(todo, mLock, accepting)
    BY <1>2, <1>4
  <2> QED BY <2>1, <2>2, <2>3, ManagedKept
<1>14. \A s : /\ ~ Starts(todo'[t], SendDone, s) /\ ~ Starts(todo'[t], {"WSASend"}, s)
              /\ ~ Starts(todo'[t], ConnCalls, s)
  <2> DEFINE others == {"SendCompletion", "WSASend", "AcceptCompletion", "DisconnectEx",
                        "DisconnectCompletion"}
  <2>1. others \cap BehindCalls = {} /\ others \cap Returns = {}
    BY DEF BehindCalls, Returns
  <2>2. ops # <<>> => ops[1].call \in Returns
    BY <1>2 DEF Follows
  <2>3. ops # <<>> => ops[1].call \notin others
    BY <2>1, <2>2
  <2> HIDE DEF others
  <2>4. \A s : ~ Starts(todo'[t], others, s)
    BY <1>2, <2>1, <2>3, HeadAfter
  <2> QED BY <2>4 DEF Starts, SendDone, ConnCalls, others
<1>15. ConnInv'
  <2>1. /\ \A d \in kernel' \ kernel : d.io \notin ConnIO
        /\ \A s \in Sessions : mConnected'[s] = mConnected[s] \/ mConnected'[s] = 0
        /\ issueRef' = issueRef
    OBVIOUS
  <2> QED BY <1>2, <1>14, <2>1, ConnSame
<1>16. SendsInv'
  <2>1. /\ \A d \in kernel' \ kernel : d.io \notin SendIO
        /\ mSendPendingCount' = mSendPendingCount
    OBVIOUS
  <2>2. \A s : ~ Starts(todo[t], {"CountSend"}, s)
    BY <1>7 DEF Starts
  <2> QED BY <1>2, <1>14, <2>1, <2>2, SendsSame
<1> QED BY <1>2, <1>9, <1>10, <1>11, <1>12, <1>13, <1>15, <1>16

\* The manager's lock is with the thread whose return is past the first call, and
\* with the main thread when it has a call to make.
LEMMA ManagerFacts ==
  ASSUME SendInv, NEW t \in Threads
  PROVE  /\ t = Main /\ todo[t] # <<>> => mLock = Main
         /\ \A s \in Sessions : Starts(todo[t], Past, s) => mLock = t /\ t # Main
         /\ NoThread \notin Threads
<1>1. Managed(todo, mLock, accepting)
  BY DEF SendInv, SendStructured, PoolStructure
<1>2. NoThread \notin Threads
  BY SessionPoolAssumption DEF Threads
<1> QED BY <1>1, <1>2 DEF Managed

\* The reference count of a session whose reset has not written it is exact.
LEMMA ExactCount ==
  ASSUME SendInv, NEW s \in Sessions, NEW t \in Threads, mLock = t,
         ~ Starts(todo[t], {"ResetSendBuffer"}, s)
  PROVE  mRefCount[s] = Cardinality(LiveOf(live, s)) + (IF s \in issueRef THEN 1 ELSE 0)
<1>1. SUFFICES ASSUME Overwritten(s) PROVE FALSE
  BY DEF SendInv, CountsInv
<1>2. PICK u \in Threads : Starts(todo[u], {"ResetSendBuffer"}, s)
  BY <1>1 DEF Overwritten
<1>3. Starts(todo[u], Past, s)
  BY <1>2 DEF Starts, Past
<1>4. mLock = u
  BY <1>3, ManagerFacts
<1> QED BY <1>2, <1>4

LEMMA LiveCount ==
  ASSUME SendInv, NEW s \in Sessions
  PROVE  /\ Cardinality(LiveOf(live, s)) \in Nat
         /\ Cardinality(LiveOf(live, s)) = 0 <=> \A c \in live : c.session # s
<1>1. IsFiniteSet(live)
  BY DEF SendInv, SendTypes, TypeInv
<1>2. /\ Cardinality(LiveOf(live, s)) \in Nat
      /\ Cardinality(LiveOf(live, s)) = 0 <=> LiveOf(live, s) = {}
  BY <1>1, CountType
<1>3. LiveOf(live, s) = {} <=> \A c \in live : c.session # s
  BY DEF LiveOf
<1> QED BY <1>2, <1>3

\* The list of the one call that a return goes on with.
LEMMA ReturnOps ==
  ASSUME NEW q, q[1].call \in Returns \ {"SessionReset", "ResetSendBuffer"},
         NEW s \in Sessions, NEW next \in {"ReturnLock", "ReturnAssert"}
  PROVE  /\ <<Op(next, s)>> \in Seq(SendOps) /\ Allowed(q, <<Op(next, s)>>)
         /\ \A i \in 1 .. Len(<<Op(next, s)>>) : <<Op(next, s)>>[i].call \in Returns
         /\ <<Op(next, s)>> # <<>> /\ <<Op(next, s)>>[1].call = next /\ <<Op(next, s)>>[1].obj = s
<1> DEFINE o == Op(next, s)
           ops == <<o>>
<1>1. o \in SendOps /\ o.call = next /\ o.obj = s
  BY DEF Op, SendOps, OpCalls
<1> HIDE DEF o
<1>2. /\ ops \in Seq(SendOps) /\ ops[1] = o /\ Len(ops) = 1 /\ ops # <<>>
      /\ \A i \in 1 .. Len(ops) : ops[i] = o
      /\ 2 .. Len(ops) = {}
  BY <1>1
<1> HIDE DEF ops
<1>3. Typed(o)
  BY <1>1 DEF Typed
<1>4. Listed(ops)
  <2>1. /\ \A i \in 1 .. Len(ops) : Typed(ops[i])
        /\ \A i \in 2 .. Len(ops) : ops[i].call \in PlainCalls
        /\ ops # <<>> => ops[1].call \notin {"DeleteIoContext", "SessionReset", "FlushUnlock",
                                             "ResetSendBuffer", "ReturnToPool"}
    BY <1>1, <1>2, <1>3
  <2> QED BY <1>2, <2>1, PlainListed
<1>5. Allowed(q, ops)
  BY <1>1, <1>2, <1>4 DEF Allowed, RefCalls, InsideCalls, Returns
<1> QED BY <1>1, <1>2, <1>5 DEF ops, o, Returns

\* The counts, when none changes and the thread resets no buffer.
LEMMA CountsSame ==
  ASSUME SendInv, NEW t \in Threads, Moves(todo, todo', t),
         \A s : ~ Starts(todo[t], {"ResetSendBuffer"}, s),
         UNCHANGED <<mRefCount, live, issueRef>>
  PROVE  CountsInv'
<1>1. ASSUME NEW s \in Sessions, Overwritten(s) PROVE Overwritten(s)'
  <2>1. PICK u \in Threads : Starts(todo[u], {"ResetSendBuffer"}, s)
    BY <1>1 DEF Overwritten
  <2>2. todo'[u] = todo[u]
    BY <2>1 DEF Moves
  <2> QED BY <1>1, <2>1, <2>2 DEF Overwritten
<1> QED BY <1>1 DEF SendInv, CountsInv

LEMMA ReturnLocked ==
  ASSUME SendInv, NEW t \in Threads, ReturnLock(t), UNCHANGED sendVars
  PROVE  SendInv'
<1> DEFINE ops == <<Op("ReturnAssert", Obj(t))>>
<1>1. /\ Calling(t, "ReturnLock") /\ Obj(t) \in Sessions /\ todo[t] # <<>>
      /\ todo[t][1].call = "ReturnLock" /\ todo[t][1].obj = Obj(t)
      /\ mLock = NoThread /\ mLock' = t /\ Do(t, ops)
      /\ UNCHANGED <<live, kernel, issueRef, accepting, mConnected, mRefCount, associated,
                     mFreeSessionList, mCurrentIssueCount, mCurrentReturnCount, completionOk,
                     crashed>>
      /\ UNCHANGED <<sendLock, mSendPendingCount, stored, inFlight, sendList>>
  BY CallFacts DEF ReturnLock, sessionVars, contextVars, sendVars
<1>2. /\ ops \in Seq(SendOps) /\ Allowed(todo[t], ops)
      /\ \A i \in 1 .. Len(ops) : ops[i].call \in Returns
      /\ ops # <<>> /\ ops[1].call = "ReturnAssert" /\ ops[1].obj = Obj(t)
  BY <1>1, ReturnOps DEF Returns
<1> HIDE DEF ops
<1>3. Follows(todo'[t], todo[t], ops)
  BY <1>1, <1>2, DoFacts
<1>4. todo'[t] # <<>> /\ todo'[t][1].call = "ReturnAssert" /\ todo'[t][1].obj = Obj(t)
  BY <1>2, <1>3 DEF Follows
<1>5. t # Main
  BY <1>1, ManagerFacts, MainThread
<1>6. \A s \in Sessions :
        /\ Starts(todo'[t], Returns, s) => s = Obj(t)
        /\ Starts(todo'[t], Resets, s) => Bare(todo, live, issueRef, mConnected, sendLock, s)
        /\ Starts(todo'[t], {"ReturnToPool"}, s) => sendLock[s] # t
        /\ Starts(todo'[t], Past, s) => mLock' = t /\ t # Main
  BY <1>1, <1>4, <1>5 DEF Starts, Returns, Resets, Past
<1>7. "ReturnLock" \in Returns
  BY DEF Returns
<1>8. /\ Lists(todo') /\ Owned(todo', live, kernel) /\ Inside(todo', sendLock)
      /\ Pooled(todo', live, issueRef, mConnected, sendLock, Free)
      /\ Managed(todo', mLock', accepting) /\ ConnInv' /\ SendsInv'
      /\ Moves(todo, todo', t) /\ todo' \in [Threads -> Seq(SendOps)]
  BY <1>1, <1>2, <1>6, <1>7, ReturnFrame
<1>9. SendStructured'
  BY <1>1, <1>8 DEF SendStructured, PoolStructure, Free
<1>10. SendTypes'
  BY <1>1, <1>8 DEF SendInv, SendTypes, TypeInv
<1>11. CountsInv'
  <2>1. \A s : ~ Starts(todo[t], {"ResetSendBuffer"}, s)
    BY <1>1 DEF Starts
  <2> QED BY <1>1, <1>8, <2>1, CountsSame
<1>12. PoolAccounting' /\ BufferInv'
  BY <1>1 DEF SendInv, PoolAccounting, Issued, BufferInv, Sending
<1> QED BY <1>8, <1>9, <1>10, <1>11, <1>12 DEF SendInv

\* The calls of the reset, in a list.
LEMMA ResetOps ==
  ASSUME NEW q, q[1].call = "ReturnAssert", NEW s \in Sessions, NEW w,
         w = <<Op("SessionReset", s), Op("ResetSendBuffer", s), Op("ReturnToPool", s)>>
  PROVE  /\ w \in Seq(SendOps) /\ Allowed(q, w)
         /\ \A i \in 1 .. Len(w) : w[i].call \in Returns
         /\ w # <<>> /\ w[1].call = "SessionReset" /\ w[1].obj = s
<1> DEFINE a == Op("SessionReset", s)
           b == Op("ResetSendBuffer", s)
           c == Op("ReturnToPool", s)
<1>1. /\ a \in SendOps /\ a.call = "SessionReset" /\ a.obj = s
      /\ b \in SendOps /\ b.call = "ResetSendBuffer" /\ b.obj = s
      /\ c \in SendOps /\ c.call = "ReturnToPool" /\ c.obj = s
  BY DEF Op, SendOps, OpCalls
<1>2. w = <<a, b, c>>
  OBVIOUS
<1> HIDE DEF a, b, c
<1>3. /\ w \in Seq(SendOps) /\ Len(w) = 3 /\ w # <<>>
      /\ w[1] = a /\ w[2] = b /\ w[3] = c
  BY <1>1, <1>2
<1>4. \A i \in 1 .. 3 : i = 1 \/ i = 2 \/ i = 3
  OBVIOUS
<1>5. \A i \in 1 .. Len(w) : w[i] \in {a, b, c}
  BY <1>3, <1>4
<1>6. \A i \in 1 .. Len(w) : Typed(w[i])
  BY <1>1, <1>5 DEF Typed
<1>7. \A i \in 2 .. Len(w) : w[i].call \in BehindCalls
  <2>1. \A i \in 2 .. 3 : i = 2 \/ i = 3
    OBVIOUS
  <2> QED BY <1>1, <1>3, <2>1 DEF BehindCalls
<1>8. \A i, j \in 1 .. Len(w) : i < j => Before(w[i], w[j])
  BY <1>1, <1>5 DEF Before
<1>9. \A i \in 1 .. Len(w) - 1 : Precedes(w[i], w[i + 1])
  <2>1. \A i \in 1 .. 2 : (i = 1 /\ i + 1 = 2) \/ (i = 2 /\ i + 1 = 3)
    OBVIOUS
  <2>2. Precedes(w[1], w[2]) /\ Precedes(w[2], w[3])
    BY <1>1, <1>3 DEF Precedes, IsOp
  <2>3. Len(w) - 1 = 2
    BY <1>3
  <2> QED BY <2>1, <2>2, <2>3
<1>10. w[1].call = "SessionReset" => Len(w) > 1 /\ IsOp(w[2], "ResetSendBuffer", w[1].obj)
  BY <1>1, <1>3 DEF IsOp
<1>11. Listed(w)
  BY <1>6, <1>7, <1>8, <1>9, <1>10 DEF Listed
<1>12. \A i \in 1 .. Len(w) : w[i].call \in {"SessionReset", "ResetSendBuffer", "ReturnToPool"}
  BY <1>1, <1>5
<1>13. Allowed(q, w)
  BY <1>11, <1>12 DEF Allowed, RefCalls, InsideCalls, Returns
<1>14. \A i \in 1 .. Len(w) : w[i].call \in Returns
  BY <1>12 DEF Returns
<1>15. w[1].call = "SessionReset" /\ w[1].obj = s
  BY <1>1, <1>3
<1> QED BY <1>3, <1>13, <1>14, <1>15

\* The assertion holds: nothing but a flush that has no reference yet is left.
LEMMA ReturnAsserted ==
  ASSUME SendInv, NEW t \in Threads, ReturnAssert(t), UNCHANGED sendVars, crashed' = "no"
  PROVE  SendInv'
<1>1. PICK ops : ops = <<Op("SessionReset", Obj(t)), Op("ResetSendBuffer", Obj(t)),
                        Op("ReturnToPool", Obj(t))>>
  OBVIOUS
<1>2. /\ Calling(t, "ReturnAssert") /\ Obj(t) \in Sessions /\ todo[t] # <<>>
      /\ todo[t][1].call = "ReturnAssert" /\ todo[t][1].obj = Obj(t)
      /\ mLock' = mLock /\ Do(t, ops)
      /\ UNCHANGED <<live, kernel, issueRef, accepting, mConnected, mRefCount, associated,
                     mFreeSessionList, mCurrentIssueCount, mCurrentReturnCount, completionOk>>
      /\ UNCHANGED <<sendLock, mSendPendingCount, stored, inFlight, sendList>>
  BY <1>1, CallFacts DEF ReturnAssert, sessionVars, contextVars, managerVars, sendVars
<1>3. mConnected[Obj(t)] = 0 /\ mRefCount[Obj(t)] = 0
  BY DEF ReturnAssert, CrashAssert
<1>4. /\ ops \in Seq(SendOps) /\ Allowed(todo[t], ops)
      /\ \A i \in 1 .. Len(ops) : ops[i].call \in Returns
      /\ ops # <<>> /\ ops[1].call = "SessionReset" /\ ops[1].obj = Obj(t)
  BY <1>1, <1>2, ResetOps
<1>5. Follows(todo'[t], todo[t], ops)
  BY <1>2, <1>4, DoFacts
<1>6. todo'[t] # <<>> /\ todo'[t][1].call = "SessionReset" /\ todo'[t][1].obj = Obj(t)
  BY <1>4, <1>5 DEF Follows
<1>7. mLock = t /\ t # Main
  <2>1. Starts(todo[t], Past, Obj(t))
    BY <1>2 DEF Starts, Past
  <2> QED BY <1>2, <2>1, ManagerFacts
<1>8. \A s : ~ Starts(todo[t], {"ResetSendBuffer"}, s)
  BY <1>2 DEF Starts
<1>9. Bare(todo, live, issueRef, mConnected, sendLock, Obj(t))
  <2>1. mRefCount[Obj(t)] = Cardinality(LiveOf(live, Obj(t)))
                              + (IF Obj(t) \in issueRef THEN 1 ELSE 0)
    BY <1>2, <1>7, <1>8, ExactCount
  <2>2. PICK n \in Nat : n = Cardinality(LiveOf(live, Obj(t)))
    BY <1>2, LiveCount
  <2>3. n = 0 /\ Obj(t) \notin issueRef
    BY <1>3, <2>1, <2>2
  <2>4. \A c \in live : c.session # Obj(t)
    BY <1>2, <2>2, <2>3, LiveCount
  <2> QED BY <1>3, <2>3, <2>4 DEF Bare
<1>10. \A s \in Sessions :
         /\ Starts(todo'[t], Returns, s) => s = Obj(t)
         /\ Starts(todo'[t], Resets, s) => Bare(todo, live, issueRef, mConnected, sendLock, s)
         /\ Starts(todo'[t], {"ReturnToPool"}, s) => sendLock[s] # t
         /\ Starts(todo'[t], Past, s) => mLock' = t /\ t # Main
  BY <1>2, <1>6, <1>7, <1>9 DEF Starts, Returns, Resets, Past
<1>11. /\ Lists(todo') /\ Owned(todo', live, kernel) /\ Inside(todo', sendLock)
       /\ Pooled(todo', live, issueRef, mConnected, sendLock, Free)
       /\ Managed(todo', mLock', accepting) /\ ConnInv' /\ SendsInv'
       /\ Moves(todo, todo', t) /\ todo' \in [Threads -> Seq(SendOps)]
  BY <1>2, <1>4, <1>10, ReturnFrame DEF Returns
<1>12. SendStructured'
  BY <1>2, <1>11 DEF SendStructured, PoolStructure, Free
<1>13. SendTypes'
  BY <1>2, <1>11 DEF SendInv, SendTypes, TypeInv
<1>14. CountsInv'
  BY <1>2, <1>8, <1>11, CountsSame
<1>15. PoolAccounting' /\ BufferInv'
  BY <1>2 DEF SendInv, PoolAccounting, Issued, BufferInv, Sending
<1> QED BY <1>11, <1>12, <1>13, <1>14, <1>15 DEF SendInv

\* The empty list of calls is allowed.
LEMMA NoneAllowed ==
  ASSUME NEW q
  PROVE  /\ <<>> \in Seq(SendOps) /\ Allowed(q, <<>>)
         /\ \A i \in 1 .. Len(<<>>) : <<>>[i].call \in Returns
BY NothingListed DEF Allowed

\* A reset: the next call, if it belongs to a return, is the next of the reset.
LEMMA ResetNext ==
  ASSUME SendInv, NEW t \in Threads, NEW call \in Resets, Calling(t, call), Do(t, <<>>)
  PROVE  /\ Follows(todo'[t], todo[t], <<>>) /\ Moves(todo, todo', t)
         /\ Obj(t) \in Sessions /\ todo[t] # <<>> /\ todo[t][1].call = call
         /\ todo[t][1].obj = Obj(t) /\ mLock = t /\ t # Main
         /\ Bare(todo, live, issueRef, mConnected, sendLock, Obj(t))
         /\ \A s \in Sessions : Starts(todo'[t], Returns, s) =>
              s = Obj(t) /\ Starts(todo'[t], Resets, s) /\ call # "ReturnToPool"
         /\ call = "SessionReset" => Starts(todo'[t], {"ResetSendBuffer"}, Obj(t))
         /\ call = "ResetSendBuffer" =>
              \A s : ~ Starts(todo'[t], {"ResetSendBuffer"}, s)
<1>1. /\ todo[t] \in Seq(SendOps) /\ todo[t] # <<>> /\ Listed(todo[t])
      /\ todo[t][1].call = call /\ Obj(t) = todo[t][1].obj /\ 1 \in 1 .. Len(todo[t])
      /\ Obj(t) \in Sessions
  BY CallFacts DEF Resets
<1>2. Follows(todo'[t], todo[t], <<>>) /\ Moves(todo, todo', t)
  BY NoneAllowed, DoFacts
<1>3. Starts(todo[t], Past, Obj(t)) /\ Starts(todo[t], Resets, Obj(t))
  BY <1>1 DEF Starts, Past, Resets
<1>4. mLock = t /\ t # Main
  BY <1>1, <1>3, ManagerFacts
<1>5. Bare(todo, live, issueRef, mConnected, sendLock, Obj(t))
  BY <1>1, <1>3 DEF SendInv, SendStructured, PoolStructure, Pooled
<1>6. \A s \in Sessions : Starts(todo'[t], Returns, s) =>
        s = Obj(t) /\ Starts(todo'[t], Resets, s) /\ call # "ReturnToPool"
  BY <1>1, <1>2, ResetAfter
<1>7. todo'[t] # <<>> => Precedes(todo[t][1], todo'[t][1])
  BY <1>2 DEF Follows
<1>8. ASSUME call = "SessionReset" PROVE Starts(todo'[t], {"ResetSendBuffer"}, Obj(t))
  <2>1. Len(todo[t]) > 1 /\ IsOp(todo[t][2], "ResetSendBuffer", Obj(t))
    BY <1>1, <1>8 DEF Listed
  <2>2. todo'[t] = Tail(todo[t])
    BY <1>2 DEF Follows
  <2>3. /\ Len(Tail(todo[t])) = Len(todo[t]) - 1 /\ Len(todo[t]) \in Nat
        /\ \A i \in 1 .. Len(todo[t]) - 1 : Tail(todo[t])[i] = todo[t][i + 1]
    BY <1>1, NotEmpty
  <2>4. 1 \in 1 .. Len(todo[t]) - 1 /\ Len(Tail(todo[t])) # 0
    BY <2>1, <2>3
  <2>5. Tail(todo[t])[1] = todo[t][2]
    BY <2>3, <2>4
  <2>6. Tail(todo[t]) # <<>>
    BY <2>4, Empty
  <2> QED BY <2>1, <2>2, <2>5, <2>6 DEF Starts, IsOp
<1>9. ASSUME call = "ResetSendBuffer" PROVE \A s : ~ Starts(todo'[t], {"ResetSendBuffer"}, s)
  BY <1>1, <1>7, <1>9 DEF Precedes, IsOp, Starts
<1> QED BY <1>1, <1>2, <1>4, <1>5, <1>6, <1>8, <1>9

\* The frame of a reset's calls.
LEMMA ResetFrame ==
  ASSUME SendInv, NEW t \in Threads, NEW call \in Resets, Calling(t, call), Do(t, <<>>),
         call = "ResetSendBuffer" => sendLock[Obj(t)] # t,
         mLock' = mLock \/ (call = "ReturnToPool" /\ mLock' = NoThread),
         UNCHANGED <<live, kernel, issueRef, accepting, mConnected, sendLock, mSendPendingCount>>
  PROVE  /\ Lists(todo') /\ Owned(todo', live, kernel) /\ Inside(todo', sendLock)
         /\ Pooled(todo', live, issueRef, mConnected, sendLock, Free)
         /\ Managed(todo', mLock', accepting)
         /\ ConnInv' /\ SendsInv'
         /\ todo' \in [Threads -> Seq(SendOps)]
<1>1. /\ Obj(t) \in Sessions /\ mLock = t /\ t # Main
      /\ Bare(todo, live, issueRef, mConnected, sendLock, Obj(t))
      /\ \A s \in Sessions : Starts(todo'[t], Returns, s) =>
           s = Obj(t) /\ Starts(todo'[t], Resets, s) /\ call # "ReturnToPool"
      /\ call = "SessionReset" => Starts(todo'[t], {"ResetSendBuffer"}, Obj(t))
  BY ResetNext
<1>2. ASSUME NEW s \in Sessions
      PROVE  /\ Starts(todo'[t], Returns, s) => s = Obj(t)
             /\ Starts(todo'[t], Resets, s) =>
                  Bare(todo, live, issueRef, mConnected, sendLock, s)
             /\ Starts(todo'[t], {"ReturnToPool"}, s) => sendLock[s] # t
             /\ Starts(todo'[t], Past, s) => mLock' = t /\ t # Main
  <2>1. Starts(todo'[t], Resets, s) \/ Starts(todo'[t], Past, s)
          \/ Starts(todo'[t], {"ReturnToPool"}, s) => Starts(todo'[t], Returns, s)
    BY DEF Starts, Returns, Resets, Past
  <2>2. CASE ~ Starts(todo'[t], Returns, s)
    BY <2>1, <2>2
  <2>3. CASE Starts(todo'[t], Returns, s)
    <3>1. s = Obj(t) /\ call # "ReturnToPool" /\ mLock' = t
      BY <1>1, <2>3
    <3>2. Starts(todo'[t], {"ReturnToPool"}, s) => call # "SessionReset"
      BY <1>1 DEF Starts
    <3>3. call \in {"SessionReset", "ResetSendBuffer", "ReturnToPool"}
      BY DEF Resets
    <3> QED BY <1>1, <3>1, <3>2, <3>3
  <2> QED BY <2>2, <2>3
<1>3. /\ <<>> \in Seq(SendOps) /\ Allowed(todo[t], <<>>)
      /\ \A i \in 1 .. Len(<<>>) : <<>>[i].call \in Returns
  BY NoneAllowed
<1>4. call \in Returns
  BY DEF Resets, Returns
<1>5. \/ mLock' = mLock
      \/ mLock = NoThread /\ mLock' = t
      \/ mLock = t /\ t # Main /\ mLock' = NoThread
  BY <1>1
<1> QED BY <1>2, <1>3, <1>4, <1>5, ReturnFrame

\* The words of a bare session: mConnected is 0 already.
LEMMA ResetWords ==
  ASSUME SendInv, NEW t \in Threads, SessionReset(t), UNCHANGED sendVars
  PROVE  SendInv'
<1>1. /\ Calling(t, "SessionReset") /\ Do(t, <<>>)
      /\ mConnected' = [mConnected EXCEPT ![Obj(t)] = 0]
      /\ mRefCount' = [mRefCount EXCEPT ![Obj(t)] = 0]
      /\ UNCHANGED <<live, kernel, issueRef, accepting, associated, mFreeSessionList,
                     mCurrentIssueCount, mCurrentReturnCount, mLock, completionOk, crashed>>
      /\ UNCHANGED <<sendLock, mSendPendingCount, stored, inFlight, sendList>>
  BY DEF SessionReset, Set, managerVars, contextVars, sendVars
<1>2. /\ Obj(t) \in Sessions /\ todo[t][1].call = "SessionReset" /\ Moves(todo, todo', t)
      /\ Bare(todo, live, issueRef, mConnected, sendLock, Obj(t))
      /\ Starts(todo'[t], {"ResetSendBuffer"}, Obj(t))
  BY <1>1, ResetNext DEF Resets
<1>3. /\ mConnected \in [Sessions -> {0, 1}] /\ mRefCount \in [Sessions -> Int]
      /\ mConnected[Obj(t)] = 0
  BY <1>2 DEF SendInv, SendTypes, TypeInv, Bare
<1>4. mConnected' = mConnected
  BY <1>1, <1>2, <1>3
<1>5. /\ mRefCount' \in [Sessions -> Int] /\ mRefCount'[Obj(t)] = 0
      /\ \A s \in Sessions \ {Obj(t)} : mRefCount'[s] = mRefCount[s]
  BY <1>1, <1>2, <1>3
<1>6. /\ Lists(todo') /\ Owned(todo', live, kernel) /\ Inside(todo', sendLock)
      /\ Pooled(todo', live, issueRef, mConnected, sendLock, Free)
      /\ Managed(todo', mLock', accepting)
      /\ ConnInv' /\ SendsInv'
      /\ todo' \in [Threads -> Seq(SendOps)]
  <2>1. "SessionReset" \in Resets /\ "SessionReset" # "ResetSendBuffer"
    BY DEF Resets
  <2>2. UNCHANGED <<live, kernel, issueRef, accepting, mConnected, sendLock, mSendPendingCount>>
    BY <1>1, <1>4
  <2> QED BY <1>1, <2>1, <2>2, ResetFrame
<1>7. SendStructured'
  BY <1>1, <1>4, <1>6 DEF SendStructured, PoolStructure, Free
<1>8. SendTypes'
  BY <1>1, <1>4, <1>5, <1>6 DEF SendInv, SendTypes, TypeInv
<1>9. CountsInv'
  <2>1. ASSUME NEW s \in Sessions
        PROVE  \/ mRefCount'[s] = Cardinality(LiveOf(live', s))
                                    + (IF s \in issueRef' THEN 1 ELSE 0)
               \/ Overwritten(s)'
    <3>1. CASE s = Obj(t)
      BY <1>2, <1>5, <3>1 DEF Overwritten
    <3>2. CASE s # Obj(t) /\ Overwritten(s)
      <4>1. PICK u \in Threads : Starts(todo[u], {"ResetSendBuffer"}, s)
        BY <3>2 DEF Overwritten
      <4>2. u # t
        BY <1>2, <4>1 DEF Starts
      <4>3. todo'[u] = todo[u]
        BY <1>2, <4>2 DEF Moves
      <4> QED BY <1>5, <3>2, <4>1, <4>3 DEF Overwritten
    <3>3. CASE s # Obj(t) /\ ~ Overwritten(s)
      BY <1>1, <1>5, <3>3 DEF SendInv, CountsInv
    <3> QED BY <3>1, <3>2, <3>3
  <2> QED BY <2>1 DEF CountsInv
<1>10. PoolAccounting' /\ BufferInv'
  BY <1>1 DEF SendInv, PoolAccounting, Issued, BufferInv, Sending
<1> QED BY <1>6, <1>7, <1>8, <1>9, <1>10 DEF SendInv

\* The send buffer, outside the send lock: nobody is inside, so no context is left.
LEMMA ResetBuffer ==
  ASSUME SendInv, NEW t \in Threads, ResetLockedBuffer(t), crashed' = "no"
  PROVE  SendInv'
<1> DEFINE s == Obj(t)
<1>1. /\ Calling(t, "ResetSendBuffer") /\ Do(t, <<>>)
      /\ sendLock[s] \in {NoThread, t}
      /\ stored' = [stored EXCEPT ![s] = 0]
      /\ inFlight' = [inFlight EXCEPT ![s] = 0]
      /\ UNCHANGED <<live, kernel, issueRef, accepting, associated, mFreeSessionList,
                     mCurrentIssueCount, mCurrentReturnCount, mLock, completionOk, mConnected,
                     mRefCount>>
      /\ UNCHANGED <<sendLock, mSendPendingCount, sendList>>
  BY DEF ResetLockedBuffer, Set, PoolUnchanged, sessionVars, managerVars, contextVars
<1>2. crashed = "no"
  BY DEF SendInv, SendTypes, TypeInv
<1>3. sendLock[s] # t
  BY DEF ResetLockedBuffer, CrashAssert
<1>4. /\ s \in Sessions /\ Moves(todo, todo', t) /\ todo[t][1].obj = s
      /\ Bare(todo, live, issueRef, mConnected, sendLock, s)
      /\ \A u : ~ Starts(todo'[t], {"ResetSendBuffer"}, u)
  BY <1>1, ResetNext DEF Resets
<1>5. sendLock[s] \notin Threads
  BY <1>1, <1>3, SessionPoolAssumption DEF Threads
<1>6. /\ \A c \in live : c.session # s
      /\ \A c \in kernel : c.session # s
  BY <1>4, <1>5, BareFacts
<1>7. stored \in [Sessions -> Nat] /\ inFlight \in [Sessions -> Nat]
  BY DEF SendInv, SendTypes
<1>8. /\ stored' \in [Sessions -> Nat] /\ inFlight' \in [Sessions -> Nat]
      /\ stored'[s] = 0 /\ inFlight'[s] = 0
      /\ \A u \in Sessions \ {s} : stored'[u] = stored[u] /\ inFlight'[u] = inFlight[u]
  BY <1>1, <1>4, <1>7
<1>9. /\ Lists(todo') /\ Owned(todo', live, kernel) /\ Inside(todo', sendLock)
      /\ Pooled(todo', live, issueRef, mConnected, sendLock, Free)
      /\ Managed(todo', mLock', accepting)
      /\ ConnInv' /\ SendsInv'
      /\ todo' \in [Threads -> Seq(SendOps)]
  <2>1. "ResetSendBuffer" \in Resets
    BY DEF Resets
  <2> QED BY <1>1, <1>3, <2>1, ResetFrame
<1> HIDE DEF s
<1>10. SendStructured'
  BY <1>1, <1>9 DEF SendStructured, PoolStructure, Free
<1>11. SendTypes'
  BY <1>1, <1>2, <1>8, <1>9 DEF SendInv, SendTypes, TypeInv
<1>12. ASSUME NEW u \in Sessions
       PROVE  \/ mRefCount'[u] = Cardinality(LiveOf(live', u))
                                   + (IF u \in issueRef' THEN 1 ELSE 0)
              \/ Overwritten(u)'
  <2>1. CASE ~ Overwritten(u)
    BY <1>1, <2>1 DEF SendInv, CountsInv
  <2>2. CASE Overwritten(u) /\ u = s
    <3>1. Cardinality(LiveOf(live, s)) = 0 /\ s \notin issueRef /\ mRefCount[s] = 0
      BY <1>4, <1>6, <2>2, LiveCount DEF Bare, Overwritten
    <3> QED BY <1>1, <2>2, <3>1
  <2>3. CASE Overwritten(u) /\ u # s
    <3>1. PICK v \in Threads : Starts(todo[v], {"ResetSendBuffer"}, u)
      BY <2>3 DEF Overwritten
    <3>2. v # t
      BY <1>4, <2>3, <3>1 DEF Starts
    <3>3. todo'[v] = todo[v]
      BY <1>4, <3>2 DEF Moves
    <3> QED BY <1>1, <2>3, <3>1, <3>3 DEF Overwritten
  <2> QED BY <2>1, <2>2, <2>3
<1>13. CountsInv'
  BY <1>12 DEF CountsInv
<1>14. PoolAccounting'
  BY <1>1 DEF SendInv, PoolAccounting, Issued
<1>15. BufferInv'
  <2>1. ASSUME NEW u \in Sessions
        PROVE  /\ 0 <= inFlight'[u] /\ inFlight'[u] <= stored'[u]
               /\ Sending(u)' # {} => inFlight'[u] >= 1
    <3>1. CASE u = s
      <4>1. Sending(u)' = {}
        BY <1>1, <1>6, <3>1 DEF Sending
      <4> QED BY <1>8, <3>1, <4>1
    <3>2. CASE u # s
      <4>1. stored'[u] = stored[u] /\ inFlight'[u] = inFlight[u] /\ Sending(u)' = Sending(u)
        BY <1>1, <1>8, <3>2 DEF Sending
      <4> QED BY <4>1 DEF SendInv, BufferInv
    <3> QED BY <3>1, <3>2
  <2> QED BY <2>1 DEF BufferInv
<1> QED BY <1>9, <1>10, <1>11, <1>13, <1>14, <1>15 DEF SendInv

\* The free list and its counters.
LEMMA PoolList ==
  ASSUME SendInv
  PROVE  /\ mFreeSessionList \in Seq(Sessions)
         /\ DOMAIN mFreeSessionList = 1 .. Len(mFreeSessionList)
         /\ Len(mFreeSessionList) \in Nat
         /\ mCurrentIssueCount \in 0 .. CounterModulus - 1
         /\ mCurrentReturnCount \in 0 .. CounterModulus - 1
         /\ CounterModulus \in Nat \ {0}
         /\ Cardinality(Sessions) \in Nat /\ Cardinality(Sessions) < CounterModulus
         /\ Issued \in 0 .. CounterModulus - 1
         /\ Len(mFreeSessionList) = Cardinality(Sessions) - Issued
         /\ IsInjective(mFreeSessionList)
<1>1. /\ mFreeSessionList \in Seq(Sessions)
      /\ mCurrentIssueCount \in 0 .. CounterModulus - 1
      /\ mCurrentReturnCount \in 0 .. CounterModulus - 1
  BY DEF SendInv, SendTypes, TypeInv
<1>2. Cardinality(Sessions) \in Nat
  BY SessionPoolAssumption, FS_CardinalityType
<1>3. CounterModulus \in Nat /\ CounterModulus > Cardinality(Sessions)
  BY SessionPoolAssumption
<1>4. CounterModulus \in Nat \ {0} /\ Cardinality(Sessions) < CounterModulus
  BY <1>2, <1>3
<1>5. Issued \in 0 .. CounterModulus - 1
  BY <1>1, <1>4, Modulus DEF Issued
<1>6. PoolAccounting
  BY DEF SendInv
<1> QED BY <1>1, <1>2, <1>4, <1>5, <1>6, LenProperties DEF PoolAccounting

\* A session comes back to the list: the return is counted.
LEMMA ListReturned ==
  ASSUME SendInv, NEW s \in Sessions, s \notin Free,
         mFreeSessionList' = Append(mFreeSessionList, s),
         mCurrentReturnCount' = (mCurrentReturnCount + 1) % CounterModulus,
         mCurrentIssueCount' = mCurrentIssueCount
  PROVE  /\ mFreeSessionList' \in Seq(Sessions) /\ Free' = Free \cup {s}
         /\ mCurrentReturnCount' \in 0 .. CounterModulus - 1
         /\ PoolAccounting'
<1>8. \A i \in 1 .. Len(mFreeSessionList) : mFreeSessionList[i] # s
  BY PoolList DEF Free
<1>9. /\ mFreeSessionList' \in Seq(Sessions) /\ IsInjective(mFreeSessionList')
      /\ Len(mFreeSessionList') = Len(mFreeSessionList) + 1
      /\ Free' = Free \cup {s}
  <2>1. IsInjective(mFreeSessionList) /\ mFreeSessionList \in Seq(Sessions)
    BY PoolList
  <2>2. /\ mFreeSessionList' \in Seq(Sessions) /\ IsInjective(mFreeSessionList')
        /\ Len(mFreeSessionList') = Len(mFreeSessionList) + 1
        /\ \A u : (\E i \in DOMAIN mFreeSessionList' : mFreeSessionList'[i] = u)
                    <=> u = s \/ \E i \in DOMAIN mFreeSessionList : mFreeSessionList[i] = u
    <3>1. /\ Append(mFreeSessionList, s) \in Seq(Sessions)
          /\ IsInjective(Append(mFreeSessionList, s))
          /\ Len(Append(mFreeSessionList, s)) = Len(mFreeSessionList) + 1
          /\ \A u : (\E i \in DOMAIN Append(mFreeSessionList, s) :
                      Append(mFreeSessionList, s)[i] = u)
                      <=> u = s \/ \E i \in DOMAIN mFreeSessionList : mFreeSessionList[i] = u
      BY <1>8, <2>1, ListAppend
    <3> QED BY <3>1
  <2>3. Free' = Free \cup {s}
    BY <2>2 DEF Free
  <2> QED BY <2>2, <2>3
<1>10. Issued > 0
  <2>1. Len(mFreeSessionList) < Cardinality(Sessions)
    BY <1>8, PoolList, ListLength
  <2> QED BY <2>1, PoolList
<1>11. mCurrentReturnCount' \in 0 .. CounterModulus - 1 /\ Issued' = Issued - 1
  <2>1. /\ mCurrentIssueCount \in 0 .. CounterModulus - 1
        /\ mCurrentReturnCount \in 0 .. CounterModulus - 1
        /\ CounterModulus \in Nat \ {0}
    BY PoolList
  <2>2. (mCurrentReturnCount + 1) % CounterModulus \in 0 .. CounterModulus - 1
    BY <2>1, Modulus
  <2>3. (mCurrentIssueCount - mCurrentReturnCount) % CounterModulus > 0
    BY <1>10 DEF Issued
  <2>4. (mCurrentIssueCount - ((mCurrentReturnCount + 1) % CounterModulus)) % CounterModulus
          = ((mCurrentIssueCount - mCurrentReturnCount) % CounterModulus) - 1
    BY <2>1, <2>3, Modulus
  <2>6. Issued' = (mCurrentIssueCount - ((mCurrentReturnCount + 1) % CounterModulus))
                    % CounterModulus
    <3>1. Issued' = (mCurrentIssueCount' - mCurrentReturnCount') % CounterModulus
      BY DEF Issued
    <3>2. /\ mCurrentReturnCount' = (mCurrentReturnCount + 1) % CounterModulus
          /\ mCurrentIssueCount' = mCurrentIssueCount
      OBVIOUS
    <3> QED BY <3>1, <3>2, Zenon
  <2> QED BY <2>2, <2>4, <2>6 DEF Issued
<1>12. PoolAccounting'
  <2>1. PICK n \in Nat, m \in Nat, i \in Nat :
          n = Len(mFreeSessionList) /\ m = Cardinality(Sessions) /\ i = Issued /\ n = m - i
    <3>1. /\ Issued \in 0 .. CounterModulus - 1 /\ CounterModulus \in Nat \ {0}
          /\ Cardinality(Sessions) \in Nat /\ Len(mFreeSessionList) \in Nat
          /\ Len(mFreeSessionList) = Cardinality(Sessions) - Issued
      BY PoolList
    <3>2. Issued \in Nat
      BY <3>1
    <3> QED BY <3>1, <3>2
  <2>2. Len(mFreeSessionList') = n + 1 /\ Issued' = i - 1
    BY <1>9, <1>11, <2>1
  <2>3. Len(mFreeSessionList') = m - Issued'
    BY <2>1, <2>2
  <2> QED BY <1>9, <2>1, <2>3 DEF PoolAccounting
<1> QED BY <1>9, <1>11, <1>12

\* The session is back in the list: it is bare, and nobody returns it.
LEMMA ReturnedToPool ==
  ASSUME SendInv, NEW t \in Threads, ReturnToPool(t), UNCHANGED sendVars
  PROVE  SendInv'
<1> DEFINE s == Obj(t)
<1>1. /\ Calling(t, "ReturnToPool") /\ Do(t, <<>>)
      /\ associated' = [associated EXCEPT ![s] = FALSE]
      /\ mFreeSessionList' = Append(mFreeSessionList, s)
      /\ mCurrentReturnCount' = (mCurrentReturnCount + 1) % CounterModulus
      /\ mLock' = NoThread
      /\ UNCHANGED <<live, kernel, issueRef, accepting, mConnected, mRefCount,
                     mCurrentIssueCount, completionOk, crashed>>
      /\ UNCHANGED <<sendLock, mSendPendingCount, stored, inFlight, sendList>>
  BY DEF ReturnToPool, Set, contextVars, sendVars
<1>2. /\ s \in Sessions /\ todo[t] # <<>> /\ todo[t][1].call = "ReturnToPool"
      /\ todo[t][1].obj = s /\ Moves(todo, todo', t)
      /\ Bare(todo, live, issueRef, mConnected, sendLock, s)
      /\ \A r \in Sessions : ~ Starts(todo'[t], Returns, r)
  BY <1>1, ResetNext DEF Resets
<1>3. /\ Lists(todo') /\ Owned(todo', live, kernel) /\ Inside(todo', sendLock)
      /\ Pooled(todo', live, issueRef, mConnected, sendLock, Free)
      /\ Managed(todo', mLock', accepting)
      /\ ConnInv' /\ SendsInv'
      /\ todo' \in [Threads -> Seq(SendOps)]
  <2>1. /\ "ReturnToPool" \in Resets /\ "ReturnToPool" # "ResetSendBuffer"
        /\ mLock' = mLock \/ ("ReturnToPool" = "ReturnToPool" /\ mLock' = NoThread)
    BY <1>1 DEF Resets
  <2> QED BY <1>1, <2>1, ResetFrame
<1> HIDE DEF s
<1>4. Pooled(todo, live, issueRef, mConnected, sendLock, Free)
  BY DEF SendInv, SendStructured, PoolStructure
<1>5. Retiring(todo, sendLock, t, s)
  <2>1. Starts(todo[t], {"ReturnToPool"}, s) /\ Starts(todo[t], Returns, s)
    BY <1>2 DEF Starts, Returns
  <2>2. sendLock[s] # t
    BY <1>2, <1>4, <2>1 DEF Pooled
  <2> QED BY <2>1, <2>2 DEF Retiring
<1>6. s \notin Free /\ \A u \in Threads : Retiring(todo, sendLock, u, s) => u = t
  BY <1>2, <1>4, <1>5 DEF Pooled
<1>7. \A u \in Threads : ~ Retiring(todo', sendLock, u, s)
  <2>1. ASSUME NEW u \in Threads, Retiring(todo', sendLock, u, s) PROVE FALSE
    <3>1. CASE u = t
      BY <1>2, <2>1, <3>1 DEF Retiring
    <3>2. CASE u # t
      <4>1. todo'[u] = todo[u]
        BY <1>2, <3>2 DEF Moves
      <4> QED BY <1>6, <2>1, <3>2, <4>1 DEF Retiring
    <3> QED BY <3>1, <3>2
  <2> QED BY <2>1
<1>8. Bare(todo', live, issueRef, mConnected, sendLock, s)
  <2>1. /\ s \notin issueRef /\ mConnected[s] = 0
        /\ sendLock[s] = sendLock[s] \/ sendLock[s] \in {NoThread, t}
    BY <1>2 DEF Bare
  <2>2. \A c \in live : c.session = s =>
          \/ c \in live /\ ~ (todo[t] # <<>> /\ IsOp(todo[t][1], "DeleteIoContext", c))
          \/ c.io = "IO_SEND" /\ sendLock[s] = t /\ todo'[t] # <<>>
               /\ IsOp(todo'[t][1], "DeleteIoContext", c)
    BY <1>2 DEF IsOp
  <2> QED BY <1>2, <2>1, <2>2, BareKept
<1>9. Pooled(todo', live, issueRef, mConnected, sendLock, Free \cup {s})
  BY <1>3, <1>7, <1>8 DEF Pooled
<1>10. /\ mFreeSessionList' \in Seq(Sessions) /\ Free' = Free \cup {s}
       /\ mCurrentReturnCount' \in 0 .. CounterModulus - 1
       /\ PoolAccounting'
  BY <1>1, <1>2, <1>6, ListReturned
<1>11. SendStructured'
  BY <1>1, <1>3, <1>9, <1>10 DEF SendStructured, PoolStructure
<1>12. SendTypes'
  <2>1. associated' \in [Sessions -> BOOLEAN]
    BY <1>1 DEF SendInv, SendTypes, TypeInv
  <2> QED BY <1>1, <1>3, <1>10, <2>1 DEF SendInv, SendTypes, TypeInv
<1>13. CountsInv'
  <2>1. \A r : ~ Starts(todo[t], {"ResetSendBuffer"}, r)
    BY <1>2 DEF Starts
  <2> QED BY <1>1, <1>2, <2>1, CountsSame
<1>14. BufferInv'
  BY <1>1 DEF SendInv, BufferInv, Sending
<1> QED BY <1>3, <1>10, <1>11, <1>12, <1>13, <1>14 DEF SendInv

-----------------------------------------------------------------------------
(***************************************************************************)
(* The calls that make a context.                                          *)
(***************************************************************************)
\* No thread is to delete a context that does not exist.
LEMMA FreshNotHeld ==
  ASSUME SendInv, NEW c \in Contexts, c \notin live, NEW t \in Threads
  PROVE  /\ c \notin Held(todo[t])
         /\ \A j \in 1 .. Len(todo[t]) : ~ IsOp(todo[t][j], "DeleteIoContext", c)
<1>1. Owned(todo, live, kernel)
  BY DEF SendInv, SendStructured, PoolStructure
<1>2. c \notin Held(todo[t])
  BY <1>1 DEF Owned
<1> QED BY <1>2 DEF Held

\* The count is exact, unless the session is bare and a context of it is left.
LEMMA CountOrBare ==
  ASSUME SendInv, NEW s \in Sessions,
         \/ ~ Bare(todo, live, issueRef, mConnected, sendLock, s)
         \/ \A c \in live : c.session # s
  PROVE  mRefCount[s] = Cardinality(LiveOf(live, s)) + (IF s \in issueRef THEN 1 ELSE 0)
<1>1. SUFFICES ASSUME Overwritten(s)
               PROVE  mRefCount[s] = Cardinality(LiveOf(live, s))
                                       + (IF s \in issueRef THEN 1 ELSE 0)
  BY DEF SendInv, CountsInv
<1>2. PICK u \in Threads : Starts(todo[u], {"ResetSendBuffer"}, s)
  BY <1>1 DEF Overwritten
<1>3. Starts(todo[u], Resets, s)
  BY <1>2 DEF Starts, Resets
<1>4. Bare(todo, live, issueRef, mConnected, sendLock, s)
  BY <1>3 DEF SendInv, SendStructured, PoolStructure, Pooled
<1>5. s \notin issueRef /\ Cardinality(LiveOf(live, s)) = 0 /\ mRefCount[s] = 0
  BY <1>1, <1>4, LiveCount DEF Bare, Overwritten
<1> QED BY <1>5

\* The counts when a context of session s is made, which keeps no deletion waiting.
LEMMA CountAdded ==
  ASSUME SendInv, NEW t \in Threads, Moves(todo, todo', t),
         \A r : ~ Starts(todo[t], {"ResetSendBuffer"}, r),
         NEW c \in Contexts, c \notin live, NEW s, s = c.session,
         \/ ~ Bare(todo, live, issueRef, mConnected, sendLock, s)
         \/ \A d \in live : d.session # s,
         mRefCount' = [mRefCount EXCEPT ![s] = mRefCount[s] + 1],
         live' = live \cup {c}, issueRef' = issueRef
  PROVE  CountsInv' /\ IsFiniteSet(live') /\ mRefCount' \in [Sessions -> Int]
<1>1. IsFiniteSet(live) /\ mRefCount \in [Sessions -> Int] /\ s \in Sessions
  BY DEF SendInv, SendTypes, TypeInv, Contexts
<1>2. /\ IsFiniteSet(live')
      /\ \A u : Cardinality(LiveOf(live', u))
                  = Cardinality(LiveOf(live, u)) + (IF c.session = u THEN 1 ELSE 0)
  BY <1>1, CountNew
<1>3. \A u : Cardinality(LiveOf(live, u)) \in Nat
  BY <1>1, CountType
<1>4. mRefCount' \in [Sessions -> Int]
  <2>1. mRefCount[s] + 1 \in Int
    BY <1>1
  <2> QED BY <1>1, <2>1
<1>5. ASSUME NEW u \in Sessions
      PROVE  \/ mRefCount'[u] = Cardinality(LiveOf(live', u)) + (IF u \in issueRef' THEN 1 ELSE 0)
             \/ Overwritten(u)'
  <2>1. CASE u = s
    <3>1. mRefCount[u] = Cardinality(LiveOf(live, u)) + (IF u \in issueRef THEN 1 ELSE 0)
      BY <2>1, CountOrBare
    <3>2. mRefCount'[u] = mRefCount[u] + 1 /\ issueRef' = issueRef
      BY <1>1, <2>1
    <3>3. Cardinality(LiveOf(live', u)) = Cardinality(LiveOf(live, u)) + 1
      BY <1>2, <2>1
    <3>4. Cardinality(LiveOf(live, u)) \in Nat
      BY <1>3
    <3> QED BY <3>1, <3>2, <3>3, <3>4
  <2>2. CASE u # s /\ Overwritten(u)
    <3>1. PICK v \in Threads : Starts(todo[v], {"ResetSendBuffer"}, u)
      BY <2>2 DEF Overwritten
    <3>2. todo'[v] = todo[v]
      BY <3>1 DEF Moves
    <3>3. mRefCount'[u] = mRefCount[u]
      BY <1>1, <2>2
    <3> QED BY <2>2, <3>1, <3>2, <3>3 DEF Overwritten
  <2>3. CASE u # s /\ ~ Overwritten(u)
    <3>1. mRefCount[u] = Cardinality(LiveOf(live, u)) + (IF u \in issueRef THEN 1 ELSE 0)
      BY <2>3 DEF SendInv, CountsInv
    <3>2. mRefCount'[u] = mRefCount[u] /\ issueRef' = issueRef
      BY <1>1, <2>3
    <3>3. Cardinality(LiveOf(live', u)) = Cardinality(LiveOf(live, u)) + 0
      BY <1>2, <2>3
    <3>4. Cardinality(LiveOf(live, u)) \in Nat
      BY <1>3
    <3> QED BY <3>1, <3>2, <3>3, <3>4
  <2> QED BY <2>1, <2>2, <2>3
<1> QED BY <1>2, <1>4, <1>5 DEF CountsInv

\* A call that posts context c, or fails to and deletes it: the thread goes on
\* with ops.
MakingCall(t, call, c, ops) ==
  /\ Calling(t, call)
  /\ call \notin Returns \cup {"DeleteIoContext", "CountSend", "FlushUnlock"}
  /\ c \in Contexts /\ c \notin live /\ c.session = Obj(t)
  /\ ops \in Seq(SendOps) /\ Do(t, ops) /\ Allowed(todo[t], ops)
  /\ ops # <<>> => ops[1].call \notin Returns
  /\ \A i \in 1 .. Len(ops) : ops[i].call \in LockCalls =>
       call \in LockCalls /\ ops[i].obj = Obj(t)
  /\ \/ /\ kernel' = kernel \cup {c} /\ Held(ops) = {}
        /\ ~ Bare(todo, live, issueRef, mConnected, sendLock, Obj(t))
     \/ /\ kernel' = kernel /\ Held(ops) = {c}
        /\ \/ ~ Bare(todo, live, issueRef, mConnected, sendLock, Obj(t))
           \/ /\ c.io = "IO_SEND" /\ call \in LockCalls
              /\ ops # <<>> /\ IsOp(ops[1], "DeleteIoContext", c)

LEMMA MakingStep ==
  ASSUME SendInv, NEW t \in Threads, NEW call, NEW c, NEW ops, MakingCall(t, call, c, ops),
         mRefCount' = [mRefCount EXCEPT ![Obj(t)] = mRefCount[Obj(t)] + 1],
         live' = live \cup {c}, completionOk' \in [Threads -> BOOLEAN],
         UNCHANGED <<mConnected, associated, managerVars, accepting, issueRef, crashed,
                     sendLock>>
  PROVE  TypeInv(SendOps)' /\ SendStructured' /\ CountsInv' /\ PoolAccounting'
<1>1. /\ todo[t] \in Seq(SendOps) /\ todo[t] # <<>> /\ Listed(todo[t])
      /\ todo[t][1].call = call /\ Obj(t) = todo[t][1].obj /\ 1 \in 1 .. Len(todo[t])
      /\ Obj(t) \in Sessions /\ call # "DeleteIoContext"
  BY CallFacts DEF MakingCall
<1>2. /\ Moves(todo, todo', t) /\ Follows(todo'[t], todo[t], ops)
      /\ Listed(todo'[t]) /\ Backed(todo'[t])
      /\ todo'[t] \in Seq(SendOps) /\ todo' \in [Threads -> Seq(SendOps)]
  BY DoFacts DEF MakingCall
<1>3. /\ mFreeSessionList' = mFreeSessionList /\ mCurrentIssueCount' = mCurrentIssueCount
      /\ mCurrentReturnCount' = mCurrentReturnCount /\ mLock' = mLock
      /\ accepting' = accepting /\ issueRef' = issueRef /\ mConnected' = mConnected
      /\ associated' = associated /\ crashed' = crashed /\ Free' = Free /\ sendLock' = sendLock
  BY DEF managerVars, Free
<1>4. /\ Lists(todo) /\ Owned(todo, live, kernel) /\ Inside(todo, sendLock)
      /\ Pooled(todo, live, issueRef, mConnected, sendLock, Free)
      /\ Managed(todo, mLock, accepting)
  BY DEF SendInv, SendStructured, PoolStructure
<1>5. /\ live \in SUBSET Contexts /\ kernel \in SUBSET live /\ Free \in SUBSET Sessions
      /\ c \in Contexts /\ c \notin live
  BY FreeSessions DEF SendInv, SendTypes, TypeInv, MakingCall
<1>6. \A s : /\ ~ Starts(todo'[t], Returns, s) /\ ~ Starts(todo'[t], Resets, s)
             /\ ~ Starts(todo'[t], Past, s) /\ ~ Starts(todo'[t], {"ReturnToPool"}, s)
  <2>1. \A s : ~ Starts(todo'[t], Returns, s)
    BY <1>1, <1>2, NoReturnAfter DEF MakingCall, Returns
  <2> QED BY <2>1 DEF Starts, Returns, Resets, Past
<1>7. Lists(todo')
  BY <1>2, <1>4 DEF Lists, Moves
<1>8. Owned(todo', live \cup {c}, kernel')
  <2>1. Held(todo'[t]) = Held(todo[t]) \cup Held(ops)
    BY <1>1, <1>2, HeldAfter
  <2>2. CASE kernel' = kernel \cup {c} /\ Held(ops) = {}
    <3>1. Held(todo'[t]) = (Held(todo[t]) \ {}) \cup {}
      BY <2>1, <2>2
    <3>2. {} \in SUBSET Held(todo[t]) /\ {c} \cap {} = {} /\ ({c} \cup {}) \cap live = {}
      BY <1>5
    <3>3. Moves(todo, todo', t) /\ Owned(todo, live, kernel)
      BY <1>2, <1>4
    <3>4. Owned(todo', (live \ {}) \cup {c} \cup {}, kernel \cup {c})
      BY <1>5, <3>1, <3>2, <3>3, OwnedServed
    <3>5. (live \ {}) \cup {c} \cup {} = live \cup {c}
      OBVIOUS
    <3> QED BY <2>2, <3>4, <3>5
  <2>3. CASE kernel' = kernel /\ Held(ops) = {c}
    <3>1. Held(todo'[t]) = (Held(todo[t]) \ {}) \cup {c}
      BY <2>1, <2>3
    <3>2. {} \in SUBSET Held(todo[t]) /\ {} \cap {c} = {} /\ ({} \cup {c}) \cap live = {}
      BY <1>5
    <3>3. Moves(todo, todo', t) /\ Owned(todo, live, kernel)
      BY <1>2, <1>4
    <3>4. Owned(todo', (live \ {}) \cup {} \cup {c}, kernel \cup {})
      BY <1>5, <3>1, <3>2, <3>3, OwnedServed
    <3>5. (live \ {}) \cup {} \cup {c} = live \cup {c} /\ kernel \cup {} = kernel
      OBVIOUS
    <3> QED BY <2>3, <3>4, <3>5
  <2> QED BY <2>2, <2>3 DEF MakingCall
<1>9. call \in LockCalls => sendLock[Obj(t)] = t
  BY <1>1, <1>4 DEF Inside
<1>10. Inside(todo', sendLock)
  <2>1. ASSUME NEW i \in 1 .. Len(todo'[t]), todo'[t][i].call \in LockCalls
        PROVE  sendLock[todo'[t][i].obj] = t
    <3>1. CASE \E k \in 1 .. Len(ops) : todo'[t][i] = ops[k]
      BY <1>9, <2>1, <3>1 DEF MakingCall
    <3>2. CASE \E j \in 1 .. Len(todo[t]) : todo'[t][i] = todo[t][j]
      BY <1>4, <2>1, <3>2 DEF Inside
    <3>3. /\ todo[t] \in Seq(SendOps) /\ todo[t] # <<>> /\ Listed(todo[t])
          /\ Follows(todo'[t], todo[t], ops)
      BY <1>1, <1>2
    <3> QED BY <2>1, <3>1, <3>2, <3>3, LocksAfter
  <2>2. Inside(todo, sendLock) /\ Moves(todo, todo', t)
    BY <1>2, <1>4
  <2> QED BY <2>1, <2>2, InsideSame
<1>11. ASSUME NEW s \in Sessions, Bare(todo, live, issueRef, mConnected, sendLock, s)
       PROVE  Bare(todo', live \cup {c}, issueRef, mConnected, sendLock, s)
  <2>1. /\ s \notin issueRef /\ mConnected[s] = 0
        /\ sendLock[s] = sendLock[s] \/ sendLock[s] \in {NoThread, t}
    BY <1>11 DEF Bare
  <2>2. ASSUME NEW d \in live \cup {c}, d.session = s
        PROVE  \/ d \in live /\ ~ (todo[t] # <<>> /\ IsOp(todo[t][1], "DeleteIoContext", d))
               \/ d.io = "IO_SEND" /\ sendLock[s] = t /\ todo'[t] # <<>>
                    /\ IsOp(todo'[t][1], "DeleteIoContext", d)
    <3>1. CASE d \in live
      BY <1>1, <3>1 DEF IsOp
    <3>2. CASE d = c
      <4>1. s = Obj(t)
        BY <2>2, <3>2 DEF MakingCall
      <4>2. /\ c.io = "IO_SEND" /\ call \in LockCalls
            /\ ops # <<>> /\ IsOp(ops[1], "DeleteIoContext", c)
        BY <1>11, <4>1 DEF MakingCall
      <4>3. todo'[t] # <<>> /\ todo'[t][1] = ops[1]
        BY <1>2, <4>2 DEF Follows
      <4> QED BY <1>9, <3>2, <4>1, <4>2, <4>3
    <3> QED BY <3>1, <3>2
  <2>3. Moves(todo, todo', t)
    BY <1>2
  <2> DEFINE M == live \cup {c}
  <2>4. \A d \in M : d.session = s =>
          \/ d \in live /\ ~ (todo[t] # <<>> /\ IsOp(todo[t][1], "DeleteIoContext", d))
          \/ d.io = "IO_SEND" /\ sendLock[s] = t /\ todo'[t] # <<>>
               /\ IsOp(todo'[t][1], "DeleteIoContext", d)
    BY <2>2
  <2> HIDE DEF M
  <2>5. Bare(todo', M, issueRef, mConnected, sendLock, s)
    BY <1>11, <2>1, <2>3, <2>4, BareKept
  <2> QED BY <2>5 DEF M
<1>12. Pooled(todo', live \cup {c}, issueRef, mConnected, sendLock, Free)
  <2>1. ASSUME NEW s \in Sessions
        PROVE  /\ Bare(todo, live, issueRef, mConnected, sendLock, s) =>
                    Bare(todo', live \cup {c}, issueRef, mConnected, sendLock, s)
               /\ \A u \in Threads \ {t} : sendLock[s] = u <=> sendLock[s] = u
               /\ Starts(todo'[t], Returns, s) /\ sendLock[s] # t =>
                    \/ Retiring(todo, sendLock, t, s)
                    \/ Bare(todo, live, issueRef, mConnected, sendLock, s) /\ s \notin Free
                         /\ \A u \in Threads \ {t} : ~ Retiring(todo, sendLock, u, s)
               /\ Starts(todo'[t], Resets, s) =>
                    Bare(todo, live, issueRef, mConnected, sendLock, s)
               /\ Starts(todo'[t], {"ReturnToPool"}, s) => sendLock[s] # t
    BY <1>6, <1>11
  <2>2. /\ Moves(todo, todo', t) /\ Free \in SUBSET Sessions
        /\ Pooled(todo, live, issueRef, mConnected, sendLock, Free)
    BY <1>2, <1>4, <1>5
  <2> DEFINE M == live \cup {c}
  <2>3. \A s \in Sessions :
          /\ Bare(todo, live, issueRef, mConnected, sendLock, s) =>
               Bare(todo', M, issueRef, mConnected, sendLock, s)
          /\ \A u \in Threads \ {t} : sendLock[s] = u <=> sendLock[s] = u
          /\ Starts(todo'[t], Returns, s) /\ sendLock[s] # t =>
               \/ Retiring(todo, sendLock, t, s)
               \/ Bare(todo, live, issueRef, mConnected, sendLock, s) /\ s \notin Free
                    /\ \A u \in Threads \ {t} : ~ Retiring(todo, sendLock, u, s)
          /\ Starts(todo'[t], Resets, s) =>
               Bare(todo, live, issueRef, mConnected, sendLock, s)
          /\ Starts(todo'[t], {"ReturnToPool"}, s) => sendLock[s] # t
    BY <2>1
  <2> HIDE DEF M
  <2>4. Pooled(todo', M, issueRef, mConnected, sendLock, Free)
    BY <2>2, <2>3, PooledKept
  <2> QED BY <2>4 DEF M
<1>13. Managed(todo', mLock, accepting)
  <2>1. \A s \in Sessions : Starts(todo'[t], Past, s) => mLock = t /\ t # Main
    BY <1>6
  <2>2. t = Main /\ todo'[t] # <<>> => todo[Main] # <<>>
    BY <1>1
  <2> QED BY <1>2, <1>4, <2>1, <2>2, ManagedKept
<1>14. SendStructured'
  BY <1>3, <1>7, <1>8, <1>10, <1>12, <1>13 DEF SendStructured, PoolStructure
<1>15. CountsInv' /\ IsFiniteSet(live') /\ mRefCount' \in [Sessions -> Int]
  <2>1. \/ ~ Bare(todo, live, issueRef, mConnected, sendLock, Obj(t))
        \/ \A d \in live : d.session # Obj(t)
    <3>1. SUFFICES ASSUME Bare(todo, live, issueRef, mConnected, sendLock, Obj(t)),
                          NEW d \in live, d.session = Obj(t)
                   PROVE  FALSE
      OBVIOUS
    <3>2. call \in LockCalls
      BY <3>1 DEF MakingCall
    <3>3. IsOp(todo[t][1], "DeleteIoContext", d)
      BY <1>9, <3>1, <3>2 DEF Bare
    <3> QED BY <1>1, <3>3 DEF IsOp
  <2>2. \A r : ~ Starts(todo[t], {"ResetSendBuffer"}, r)
    BY <1>1 DEF Starts, MakingCall, Returns
  <2>3. Obj(t) = c.session
    BY DEF MakingCall
  <2> QED BY <1>2, <1>3, <1>5, <2>1, <2>2, <2>3, CountAdded
<1>16. PoolAccounting'
  BY <1>3 DEF SendInv, PoolAccounting, Issued
<1>17. TypeInv(SendOps)'
  <2>1. live' \subseteq Contexts /\ kernel' \subseteq live'
    BY <1>5 DEF MakingCall
  <2> QED BY <1>2, <1>3, <1>15, <2>1 DEF SendInv, SendTypes, TypeInv
<1> QED BY <1>14, <1>15, <1>16, <1>17

\* The deletion of a new context, in front of a list.
LEMMA DeletionOps ==
  ASSUME SendInv, NEW t \in Threads, NEW c \in Contexts, c \notin live,
         todo[t][1].call \notin {"SessionReset", "ResetSendBuffer"},
         todo[t] \in Seq(SendOps)
  PROVE  LET ops == <<Op("DeleteIoContext", c)>>
         IN  /\ ops \in Seq(SendOps) /\ Allowed(todo[t], ops) /\ Held(ops) = {c}
             /\ ops # <<>> /\ IsOp(ops[1], "DeleteIoContext", c)
             /\ \A i \in 1 .. Len(ops) : ops[i].call = "DeleteIoContext"
<1> DEFINE o == Op("DeleteIoContext", c)
           ops == <<o>>
<1>1. o \in SendOps /\ o.call = "DeleteIoContext" /\ o.obj = c
  BY DEF Op, SendOps, OpCalls
<1> HIDE DEF o
<1>2. /\ ops \in Seq(SendOps) /\ ops[1] = o /\ Len(ops) = 1 /\ ops # <<>>
      /\ \A i \in 1 .. Len(ops) : ops[i] = o
      /\ 2 .. Len(ops) = {} /\ 1 .. Len(ops) - 1 = {}
      /\ \A i, j \in 1 .. Len(ops) : ~ (i < j)
  BY <1>1
<1> HIDE DEF ops
<1>3. Typed(o)
  BY <1>1 DEF Typed
<1>4. Listed(ops)
  BY <1>1, <1>2, <1>3 DEF Listed
<1>5. Held(ops) = {c}
  <2>1. 1 \in 1 .. Len(ops)
    BY <1>2
  <2> QED BY <1>1, <1>2, <2>1 DEF Held, IsOp
<1>6. \A j \in 2 .. Len(todo[t]) : ~ IsOp(todo[t][j], "DeleteIoContext", c)
  <2>1. \A j \in 2 .. Len(todo[t]) : j \in 1 .. Len(todo[t])
    BY LenProperties
  <2> QED BY <2>1, FreshNotHeld
<1>7. Allowed(todo[t], ops)
  BY <1>1, <1>2, <1>4, <1>6 DEF Allowed, RefCalls, InsideCalls
<1> QED BY <1>1, <1>2, <1>5, <1>7 DEF ops, o, IsOp

\* The calls that post an operation other than a send.
LEMMA OperationStep ==
  ASSUME SendInv, NEW t \in Threads, NEW call \in {"DisconnectEx", "WSARecvZero", "WSARecv"},
         NEW io \in {"IO_DISCONNECT", "IO_RECV_ZERO", "IO_RECV"},
         io = "IO_DISCONNECT" => call = "DisconnectEx",
         Calling(t, call), Post(t, Obj(t), io, call, <<>>),
         completionOk' \in [Threads -> BOOLEAN],
         UNCHANGED <<mConnected, associated, managerVars, accepting, issueRef, crashed>>,
         UNCHANGED sendVars
  PROVE  SendInv'
<1> DEFINE s == Obj(t)
           c == NewContext(s, io)
           d == <<Op("DeleteIoContext", c)>>
<1>1. /\ s \in Sessions /\ todo[t] \in Seq(SendOps) /\ todo[t] # <<>>
      /\ todo[t][1].call = call /\ todo[t][1].obj = s /\ 1 \in 1 .. Len(todo[t])
  BY CallFacts
<1>2. /\ HasNewContext(s, io) /\ live' = live \cup {c}
      /\ mRefCount' = [mRefCount EXCEPT ![s] = mRefCount[s] + 1]
      /\ \/ kernel' = kernel \cup {c} /\ Do(t, <<>>)
         \/ kernel' = kernel /\ Do(t, d \o <<>>)
  BY DEF Post, AddRef, Set
<1>3. c \in Contexts /\ c \notin live /\ c.session = s /\ c.io = io
  BY <1>1, <1>2, Fresh
<1>u. /\ stored' = stored /\ sendList' = sendList /\ sendLock' = sendLock
      /\ mSendPendingCount' = mSendPendingCount /\ inFlight' = inFlight
      /\ mConnected' = mConnected /\ issueRef' = issueRef
  BY DEF sendVars
<1> HIDE DEF c
<1>4. /\ d \in Seq(SendOps) /\ Allowed(todo[t], d) /\ Held(d) = {c} /\ d # <<>>
      /\ IsOp(d[1], "DeleteIoContext", c)
      /\ \A i \in 1 .. Len(d) : d[i].call = "DeleteIoContext"
  BY <1>1, <1>3, DeletionOps
<1> HIDE DEF d
<1>5. d \o <<>> = d
  BY <1>4, ConcatEmptySeq
<1>6. ~ Bare(todo, live, issueRef, mConnected, sendLock, s)
  <2>1. CASE call \in RefCalls
    BY <1>1, <2>1, ReferredNotBare
  <2>2. CASE call \notin RefCalls
    <3>1. call = "DisconnectEx"
      BY <2>2 DEF RefCalls
    <3>2. Token(todo, kernel, s, ConnIO, ConnCalls)
      BY <1>1, <3>1 DEF Token, Starts, ConnCalls
    <3>3. s \in issueRef
      BY <1>1, <3>2, SessionFacts DEF ConnAt
    <3> QED BY <3>3 DEF Bare
  <2> QED BY <2>1, <2>2
<1>7. call \notin Returns \cup {"DeleteIoContext", "CountSend", "FlushUnlock"} \cup LockCalls
  BY DEF Returns, LockCalls
<1>8. PICK ops : /\ MakingCall(t, call, c, ops)
                 /\ ops # <<>> => ops[1].call = "DeleteIoContext"
                 /\ kernel' = kernel \/ ops = <<>>
  <2>1. CASE kernel' = kernel \cup {c} /\ Do(t, <<>>)
    <3>1. /\ <<>> \in Seq(SendOps) /\ Allowed(todo[t], <<>>) /\ Held(<<>>) = {}
          /\ 1 .. Len(<<>>) = {}
      BY NoneAllowed, NothingListed
    <3> QED BY <1>3, <1>6, <1>7, <2>1, <3>1 DEF MakingCall
  <2>2. CASE kernel' = kernel /\ Do(t, d \o <<>>)
    <3>1. Do(t, d)
      BY <1>5, <2>2
    <3>2. /\ d[1].call \notin Returns /\ d[1].call = "DeleteIoContext"
          /\ \A i \in 1 .. Len(d) : d[i].call \notin LockCalls
      BY <1>4 DEF IsOp, Returns, LockCalls
    <3> QED BY <1>3, <1>4, <1>6, <1>7, <2>2, <3>1, <3>2 DEF MakingCall
  <2> QED BY <1>2, <2>1, <2>2
<1>9. TypeInv(SendOps)' /\ SendStructured' /\ CountsInv' /\ PoolAccounting'
  BY <1>2, <1>8, <1>u, MakingStep
<1>10. todo' = [todo EXCEPT ![t] = todo'[t]] /\ Follows(todo'[t], todo[t], ops)
  BY <1>8, DoFacts DEF MakingCall
<1>11. \A r : /\ ~ Starts(todo'[t], SendDone, r) /\ ~ Starts(todo'[t], {"WSASend"}, r)
              /\ ~ Starts(todo'[t], ConnCalls, r)
  <2> DEFINE others == {"SendCompletion", "WSASend", "AcceptCompletion", "DisconnectEx",
                        "DisconnectCompletion"}
  <2>1. others \cap BehindCalls = {} /\ (ops # <<>> => ops[1].call \notin others)
    BY <1>8 DEF BehindCalls
  <2> HIDE DEF others
  <2>2. \A r : ~ Starts(todo'[t], others, r)
    BY <1>10, <2>1, HeadAfter
  <2> QED BY <2>2 DEF Starts, SendDone, ConnCalls, others
<1>12. DOMAIN todo = Threads
  BY DEF SendInv, SendTypes, TypeInv
<1>k. kernel' = kernel \/ kernel' = kernel \cup {c}
  BY <1>2
<1>13. ConnInv'
  <2>1. ASSUME NEW r \in Sessions PROVE ConnAt(todo', kernel', issueRef', mConnected', r)
    <3>1. ConnAt(todo, kernel, issueRef, mConnected, r)
      BY SessionFacts
    <3>2. ASSUME NEW e \in kernel' \ kernel, OfIO(e, ConnIO, r)
          PROVE  Starts(todo[t], ConnCalls, r)
      <4>1. e = c
        BY <1>k, <3>2
      <4>2. io = "IO_DISCONNECT" /\ r = s
        BY <1>3, <3>2, <4>1 DEF OfIO, ConnIO
      <4> QED BY <1>1, <4>2 DEF Starts, ConnCalls
    <3>3. \A e \in kernel' \ kernel : \A f \in kernel' \ kernel : f = e
      BY <1>k
    <3> DEFINE M == kernel'
    <3>4. \A e \in M \ kernel : OfIO(e, ConnIO, r) =>
            Starts(todo[t], ConnCalls, r) /\ ~ Starts(todo'[t], ConnCalls, r)
              /\ \A f \in M \ kernel : f = e
      BY <1>11, <3>2, <3>3
    <3> HIDE DEF M
    <3>5. ConnAt([todo EXCEPT ![t] = todo'[t]], M, issueRef, mConnected, r)
      BY <1>11, <1>12, <3>1, <3>4, ConnKept
    <3> QED BY <1>10, <1>u, <3>5 DEF M
  <2> QED BY <2>1 DEF ConnInv
<1>14. \A e \in kernel' \ kernel : e.io # "IO_SEND"
  BY <1>3, <1>k
<1>15. SendsInv'
  <2>1. \A r \in Sessions : ~ Starts(todo[t], {"CountSend"}, r)
    BY <1>1 DEF Starts
  <2>2. \A e \in kernel' \ kernel : e.io \notin SendIO
    BY <1>14 DEF SendIO
  <2> QED BY <1>10, <1>11, <1>u, <2>1, <2>2, SendsSame
<1>16. BufferInv'
  <2>1. \A r : Sending(r)' = Sending(r)
    BY <1>k, <1>14 DEF Sending
  <2> QED BY <1>u, <2>1 DEF SendInv, BufferInv
<1>17. SendTypes'
  BY <1>9, <1>u DEF SendInv, SendTypes
<1> QED BY <1>9, <1>13, <1>15, <1>16, <1>17 DEF SendInv

LEMMA PostCallsStep ==
  ASSUME SendInv, NEW t \in Threads, DisconnectEx(t) \/ WSARecvZero(t) \/ WSARecv(t),
         UNCHANGED sendVars
  PROVE  SendInv'
<1>1. completionOk \in [Threads -> BOOLEAN]
  BY FlagType
<1>2. CASE DisconnectEx(t)
  <2>1. /\ Calling(t, "DisconnectEx") /\ Post(t, Obj(t), "IO_DISCONNECT", "DisconnectEx", <<>>)
        /\ UNCHANGED <<mConnected, associated, managerVars, accepting, issueRef, crashed>>
        /\ completionOk' \in [Threads -> BOOLEAN]
    BY <1>1, <1>2 DEF DisconnectEx
  <2> QED BY <2>1, OperationStep
<1>3. CASE WSARecvZero(t)
  <2>1. /\ Calling(t, "WSARecvZero") /\ Post(t, Obj(t), "IO_RECV_ZERO", "WSARecvZero", <<>>)
        /\ UNCHANGED <<mConnected, associated, managerVars, accepting, issueRef, crashed>>
        /\ completionOk' \in [Threads -> BOOLEAN]
    BY <1>1, <1>3 DEF WSARecvZero, Set
  <2> QED BY <2>1, OperationStep
<1>4. CASE WSARecv(t)
  <2>1. /\ Calling(t, "WSARecv") /\ Post(t, Obj(t), "IO_RECV", "WSARecv", <<>>)
        /\ UNCHANGED <<mConnected, associated, managerVars, accepting, issueRef, crashed>>
        /\ completionOk' \in [Threads -> BOOLEAN]
    BY <1>1, <1>4 DEF WSARecv, Set
  <2> QED BY <2>1, OperationStep
<1> QED BY <1>2, <1>3, <1>4

-----------------------------------------------------------------------------
(***************************************************************************)
(* The send.                                                               *)
(***************************************************************************)
\* What a flush has to do after its WSASend has failed.
LEMMA FailedOps ==
  ASSUME SendInv, NEW t \in Threads, NEW c \in Contexts, c \notin live, NEW s \in Sessions,
         todo[t] \in Seq(SendOps), todo[t][1].call = "WSASend", NEW w,
         w = <<Op("DeleteIoContext", c), Op("DisconnectRequest", s), Op("FlushUnlock", s)>>
  PROVE  /\ w \in Seq(SendOps) /\ Allowed(todo[t], w) /\ Held(w) = {c}
         /\ w # <<>> /\ IsOp(w[1], "DeleteIoContext", c)
         /\ \A i \in 1 .. Len(w) : w[i].call \in LockCalls => w[i].obj = s
<1> DEFINE a == Op("DeleteIoContext", c)
           b == Op("DisconnectRequest", s)
           d == Op("FlushUnlock", s)
<1>1. /\ a \in SendOps /\ a.call = "DeleteIoContext" /\ a.obj = c
      /\ b \in SendOps /\ b.call = "DisconnectRequest" /\ b.obj = s
      /\ d \in SendOps /\ d.call = "FlushUnlock" /\ d.obj = s
  BY DEF Op, SendOps, OpCalls, SendCalls
<1>2. w = <<a, b, d>>
  OBVIOUS
<1> HIDE DEF a, b, d
<1>3. /\ w \in Seq(SendOps) /\ Len(w) = 3 /\ w # <<>>
      /\ w[1] = a /\ w[2] = b /\ w[3] = d
  BY <1>1, <1>2
<1>4. \A i \in 1 .. 3 : i = 1 \/ i = 2 \/ i = 3
  OBVIOUS
<1>5. \A i \in 1 .. Len(w) : (i = 1 /\ w[i] = a) \/ (i = 2 /\ w[i] = b) \/ (i = 3 /\ w[i] = d)
  BY <1>3, <1>4
<1>6. \A i \in 1 .. Len(w) : Typed(w[i])
  BY <1>1, <1>5 DEF Typed
<1>7. \A i \in 2 .. Len(w) : w[i].call \in BehindCalls
  <2>1. \A i \in 2 .. 3 : i = 2 \/ i = 3
    OBVIOUS
  <2> QED BY <1>1, <1>3, <2>1 DEF BehindCalls
<1>8. \A i, j \in 1 .. Len(w) : i < j => Before(w[i], w[j])
  <2>1. ASSUME NEW i \in 1 .. Len(w), NEW j \in 1 .. Len(w), i < j
        PROVE  (w[i] = a \/ w[i] = b) /\ (w[j] = b \/ w[j] = d)
    BY <1>5, <2>1
  <2>2. a.call \in InsideCalls /\ b.call \in InsideCalls
    BY <1>1 DEF InsideCalls
  <2> QED BY <1>1, <2>1, <2>2 DEF Before
<1>9. \A i \in 1 .. Len(w) - 1 : Precedes(w[i], w[i + 1])
  <2>1. \A i \in 1 .. 2 : (i = 1 /\ i + 1 = 2) \/ (i = 2 /\ i + 1 = 3)
    OBVIOUS
  <2>2. Precedes(w[1], w[2]) /\ Precedes(w[2], w[3])
    BY <1>1, <1>3 DEF Precedes
  <2>3. Len(w) - 1 = 2
    BY <1>3
  <2> QED BY <2>1, <2>2, <2>3
<1>10. w[1].call # "SessionReset"
  BY <1>1, <1>3
<1>11. Listed(w)
  BY <1>6, <1>7, <1>8, <1>9, <1>10 DEF Listed
<1>12. Held(w) = {c}
  <2>1. 1 \in 1 .. Len(w)
    BY <1>3
  <2>2. \A i \in 1 .. Len(w) : w[i].call = "DeleteIoContext" => w[i] = a
    BY <1>1, <1>5
  <2> QED BY <1>1, <1>3, <2>1, <2>2 DEF Held, IsOp
<1>13. \A j \in 2 .. Len(todo[t]) : ~ IsOp(todo[t][j], "DeleteIoContext", c)
  <2>1. \A j \in 2 .. Len(todo[t]) : j \in 1 .. Len(todo[t])
    BY LenProperties
  <2> QED BY <2>1, FreshNotHeld
<1>14. Allowed(todo[t], w)
  <2>1. \A i \in 1 .. Len(w) : w[i].call \notin RefCalls
    BY <1>1, <1>5 DEF RefCalls
  <2>2. todo[t][1].call \notin InsideCalls \cup {"SessionReset", "ResetSendBuffer"}
    BY DEF InsideCalls, Returns
  <2>3. \A i \in 1 .. Len(w) : w[i].call = "DeleteIoContext" => w[i].obj = c
    BY <1>1, <1>5
  <2> QED BY <1>11, <1>13, <2>1, <2>2, <2>3 DEF Allowed
<1>15. \A i \in 1 .. Len(w) : w[i].call \in LockCalls => w[i].obj = s
  BY <1>1, <1>5 DEF LockCalls
<1> QED BY <1>1, <1>3, <1>12, <1>14, <1>15 DEF IsOp

\* The thread that posts a send is inside the send lock, and finds no other send of
\* the session, neither in the kernel nor completed.
LEMMA SendPosted ==
  ASSUME SendInv, NEW t \in Threads, Calling(t, "WSASend")
  PROVE  /\ Obj(t) \in Sessions /\ todo[t] # <<>> /\ todo[t][1].call = "WSASend"
         /\ todo[t][1].obj = Obj(t) /\ 1 \in 1 .. Len(todo[t]) /\ todo[t] \in Seq(SendOps)
         /\ sendLock[Obj(t)] = t /\ mSendPendingCount[Obj(t)] = 0
         /\ ~ Token(todo, kernel, Obj(t), SendIO, SendDone)
<1>1. /\ Obj(t) \in Sessions /\ todo[t] # <<>> /\ todo[t][1].call = "WSASend"
      /\ todo[t][1].obj = Obj(t) /\ 1 \in 1 .. Len(todo[t]) /\ todo[t] \in Seq(SendOps)
  BY CallFacts
<1>2. Starts(todo[t], {"WSASend"}, Obj(t))
  BY <1>1 DEF Starts
<1>3. sendLock[Obj(t)] = t
  BY <1>1, <1>2, InsideFacts DEF LockCalls
<1>4. SendAt(todo, kernel, mSendPendingCount, Obj(t))
  BY <1>1, SessionFacts
<1>5. mSendPendingCount[Obj(t)] = 0
  BY <1>2, <1>4 DEF SendAt
<1>6. ASSUME NEW u \in Threads, Starts(todo[u], {"CountSend"}, Obj(t)) PROVE FALSE
  <2>1. sendLock[Obj(t)] = u
    BY <1>1, <1>6, InsideFacts DEF LockCalls
  <2> QED BY <1>1, <1>3, <1>6, <2>1 DEF Starts
<1>7. ~ Token(todo, kernel, Obj(t), SendIO, SendDone)
  BY <1>4, <1>5, <1>6 DEF SendAt
<1> QED BY <1>1, <1>3, <1>5, <1>7

LEMMA SendPostedStep ==
  ASSUME SendInv, NEW t \in Threads, WSASend(t)
  PROVE  SendInv'
<1> DEFINE s == Obj(t)
           c == NewContext(s, "IO_SEND")
           d == <<Op("DeleteIoContext", c), Op("DisconnectRequest", s), Op("FlushUnlock", s)>>
<1>1. /\ s \in Sessions /\ todo[t] # <<>> /\ todo[t][1].call = "WSASend"
      /\ todo[t][1].obj = s /\ 1 \in 1 .. Len(todo[t]) /\ todo[t] \in Seq(SendOps)
      /\ sendLock[s] = t /\ mSendPendingCount[s] = 0
      /\ ~ Token(todo, kernel, s, SendIO, SendDone) /\ Calling(t, "WSASend")
  BY SendPosted DEF WSASend
<1>2. /\ HasNewContext(s, "IO_SEND") /\ live' = live \cup {c}
      /\ mRefCount' = [mRefCount EXCEPT ![s] = mRefCount[s] + 1]
      /\ \/ /\ SocketConnected(s) /\ kernel' = kernel \cup {c}
            /\ \E n \in 1 .. stored[s] : inFlight' = [inFlight EXCEPT ![s] = n]
            /\ Do(t, <<Op("CountSend", s)>>)
         \/ kernel' = kernel /\ inFlight' = inFlight /\ Do(t, d)
      /\ UNCHANGED <<mConnected, associated, managerVars, completionOk, accepting,
                     issueRef, crashed, sendLock>>
      /\ mConnected' = mConnected /\ issueRef' = issueRef
      /\ UNCHANGED <<mSendPendingCount, stored, sendList>>
  BY DEF WSASend, AddRef, Set
<1>3. c \in Contexts /\ c \notin live /\ c.session = s /\ c.io = "IO_SEND"
  BY <1>1, <1>2, Fresh
<1> HIDE DEF c
<1>4. /\ d \in Seq(SendOps) /\ Allowed(todo[t], d) /\ Held(d) = {c} /\ d # <<>>
      /\ IsOp(d[1], "DeleteIoContext", c)
      /\ \A i \in 1 .. Len(d) : d[i].call \in LockCalls => d[i].obj = s
  BY <1>1, <1>3, FailedOps
<1> HIDE DEF d
<1>5. "WSASend" \notin Returns \cup {"DeleteIoContext", "CountSend", "FlushUnlock"}
        /\ "WSASend" \in LockCalls
  BY DEF Returns, LockCalls
<1>6. PICK ops : /\ MakingCall(t, "WSASend", c, ops)
                 /\ ops # <<>> /\ ops[1].call \in {"CountSend", "DeleteIoContext"}
                 /\ \/ kernel' = kernel /\ inFlight' = inFlight
                    \/ /\ kernel' = kernel \cup {c} /\ ops[1] = Op("CountSend", s)
                       /\ \E n \in 1 .. stored[s] : inFlight' = [inFlight EXCEPT ![s] = n]
  <2>1. ASSUME SocketConnected(s), kernel' = kernel \cup {c}, Do(t, <<Op("CountSend", s)>>)
        PROVE  /\ MakingCall(t, "WSASend", c, <<Op("CountSend", s)>>)
               /\ <<Op("CountSend", s)>> # <<>> /\ <<Op("CountSend", s)>>[1] = Op("CountSend", s)
               /\ <<Op("CountSend", s)>>[1].call = "CountSend"
    <3> DEFINE o == Op("CountSend", s)
               e == <<o>>
    <3>1. o \in SendOps /\ o.call = "CountSend" /\ o.obj = s
      BY <1>1 DEF Op, SendOps, SendCalls
    <3> HIDE DEF o
    <3>2. /\ e \in Seq(SendOps) /\ Len(e) = 1 /\ e[1] = o /\ e # <<>>
          /\ \A i \in 1 .. Len(e) : e[i] = o
          /\ \A i \in 2 .. Len(e) : FALSE
      BY <3>1
    <3> HIDE DEF e
    <3>3. /\ PlainOps(t, "WSASend", e) /\ Do(t, e)
      <4>1. Typed(o)
        BY <1>1, <3>1 DEF Typed
      <4>2. "WSASend" \notin InsideCalls /\ o.call \notin RefCalls
        BY <3>1 DEF InsideCalls, Returns, RefCalls
      <4>3. o.call \notin {"DeleteIoContext", "FlushUnlock"} \cup Returns
        BY <3>1 DEF Returns
      <4>4. PlainOps(t, "WSASend", e)
        BY <3>2, <4>1, <4>2, <4>3 DEF PlainOps
      <4> QED BY <2>1, <4>4 DEF e, o
    <3>4. PlainCall(t, "WSASend", e)
      BY <1>1, <1>5, <3>3, PlainMade
    <3>5. ~ Bare(todo, live, issueRef, mConnected, sendLock, s)
      BY <2>1 DEF Bare, SocketConnected
    <3>6. \A i \in 1 .. Len(e) : e[i].call \in LockCalls => e[i].obj = s
      BY <3>1, <3>2
    <3>7. MakingCall(t, "WSASend", c, e)
      BY <1>3, <1>5, <2>1, <3>4, <3>5, <3>6 DEF PlainCall, MakingCall
    <3> QED BY <3>1, <3>2, <3>7 DEF e, o
  <2>2. ASSUME kernel' = kernel, Do(t, d)
        PROVE  /\ MakingCall(t, "WSASend", c, d) /\ d # <<>> /\ d[1].call = "DeleteIoContext"
    <3>1. d[1].call = "DeleteIoContext" /\ d[1].call \notin Returns
      BY <1>4 DEF IsOp, Returns
    <3> QED BY <1>1, <1>3, <1>4, <1>5, <2>2, <3>1 DEF MakingCall
  <2> QED BY <1>2, <2>1, <2>2
<1>7. TypeInv(SendOps)' /\ SendStructured' /\ CountsInv' /\ PoolAccounting'
  <2>1. completionOk' \in [Threads -> BOOLEAN]
    BY <1>2 DEF SendInv, SendTypes, TypeInv
  <2> QED BY <1>2, <1>6, <2>1, MakingStep
<1>8. todo' = [todo EXCEPT ![t] = todo'[t]] /\ Follows(todo'[t], todo[t], ops)
  BY <1>6, DoFacts DEF MakingCall
<1>9. /\ \A r : /\ ~ Starts(todo'[t], SendDone, r) /\ ~ Starts(todo'[t], {"WSASend"}, r)
                /\ ~ Starts(todo'[t], ConnCalls, r)
      /\ kernel' # kernel => Starts(todo'[t], {"CountSend"}, s)
  <2>1. todo'[t] # <<>> /\ todo'[t][1] = ops[1]
    BY <1>6, <1>8 DEF Follows
  <2>2. kernel' # kernel => todo'[t][1].call = "CountSend" /\ todo'[t][1].obj = s
    BY <1>6, <2>1 DEF Op
  <2> QED BY <1>6, <2>1, <2>2 DEF Starts, SendDone, ConnCalls
<1>10. DOMAIN todo = Threads
  BY DEF SendInv, SendTypes, TypeInv
<1>11. ConnInv'
  <2>1. \A e \in kernel' \ kernel : e.io \notin ConnIO
    BY <1>3, <1>6 DEF ConnIO
  <2> QED BY <1>2, <1>8, <1>9, <2>1, ConnSame
<1>12. ASSUME NEW r \in Sessions PROVE SendAt(todo', kernel', mSendPendingCount, r)
  <2>1. CASE kernel' # kernel /\ r = s
    <3> DEFINE M == kernel'
    <3>1. (\A e, f \in M \ kernel : e = f) /\ ~ Starts(todo'[t], SendDone, s)
      BY <1>6, <1>9
    <3> HIDE DEF M
    <3>2. Alone([todo EXCEPT ![t] = todo'[t]], M, s, SendIO, SendDone)
      BY <1>1, <1>10, <3>1, AloneMade
    <3>3. Alone(todo', kernel', s, SendIO, SendDone)
      BY <1>8, <3>2 DEF M
    <3> QED BY <1>1, <1>9, <2>1, <3>3 DEF SendAt
  <2>2. CASE kernel' = kernel \/ r # s
    <3>1. SendAt(todo, kernel, mSendPendingCount, r) /\ ~ Starts(todo[t], {"CountSend"}, r)
      BY <1>1, SessionFacts DEF Starts
    <3> DEFINE M == kernel'
    <3>2. \A e \in M \ kernel : ~ OfIO(e, SendIO, r)
      BY <1>3, <1>6, <2>2 DEF OfIO
    <3> HIDE DEF M
    <3>3. ~ Starts(todo'[t], SendDone, r) /\ ~ Starts(todo'[t], {"WSASend"}, r)
      BY <1>9
    <3>4. SendAt([todo EXCEPT ![t] = todo'[t]], M, mSendPendingCount, r)
      BY <1>10, <3>1, <3>2, <3>3, SendsKept
    <3> QED BY <1>8, <3>4 DEF M
  <2> QED BY <2>1, <2>2
<1>13. SendsInv'
  BY <1>2, <1>12 DEF SendsInv
<1>14. BufferInv' /\ inFlight' \in [Sessions -> Nat]
  <2>0. stored \in [Sessions -> Nat] /\ inFlight \in [Sessions -> Nat] /\ stored' = stored
    BY <1>2 DEF SendInv, SendTypes
  <2>1. CASE kernel' = kernel /\ inFlight' = inFlight
    <3>1. \A r : Sending(r)' = Sending(r)
      BY <2>1 DEF Sending
    <3> QED BY <2>0, <2>1, <3>1 DEF SendInv, BufferInv
  <2>2. ASSUME kernel' = kernel \cup {c}, NEW n \in 1 .. stored[s],
               inFlight' = [inFlight EXCEPT ![s] = n]
        PROVE  BufferInv' /\ inFlight' \in [Sessions -> Nat]
    <3>1. stored[s] \in Nat
      BY <1>1, <2>0
    <3>2. n \in Nat /\ 1 <= n /\ n <= stored[s]
      BY <2>2, <3>1
    <3>3. inFlight' \in [Sessions -> Nat] /\ inFlight'[s] = n
      BY <1>1, <2>0, <2>2, <3>2
    <3>4. ASSUME NEW r \in Sessions \ {s}
          PROVE  inFlight'[r] = inFlight[r] /\ Sending(r)' = Sending(r)
      BY <1>3, <2>0, <2>2 DEF Sending
    <3>5. 0 <= inFlight'[s] /\ inFlight'[s] <= stored'[s] /\ inFlight'[s] >= 1
      BY <2>0, <3>2, <3>3
    <3> QED BY <2>0, <3>3, <3>4, <3>5 DEF SendInv, BufferInv
  <2> QED BY <1>6, <2>1, <2>2
<1>15. SendTypes'
  BY <1>2, <1>7, <1>14 DEF SendInv, SendTypes
<1> QED BY <1>7, <1>11, <1>13, <1>14, <1>15 DEF SendInv

-----------------------------------------------------------------------------
(***************************************************************************)
(* The calls that release a reference.                                     *)
(***************************************************************************)
\* The return of a session, that the deletion of a context leads to.
LEMMA ReleaseOps ==
  ASSUME NEW q, q[1].call = "DeleteIoContext", NEW s \in Sessions
  PROVE  LET ops == <<Op("ReturnLock", s)>>
         IN  /\ ops \in Seq(SendOps) /\ Allowed(q, ops) /\ ops # <<>>
             /\ ops[1].call = "ReturnLock" /\ ops[1].obj = s
             /\ \A i \in 1 .. Len(ops) : ops[i].call = "ReturnLock"
<1> DEFINE o == Op("ReturnLock", s)
           ops == <<o>>
<1>1. o \in SendOps /\ o.call = "ReturnLock" /\ o.obj = s
  BY DEF Op, SendOps, OpCalls
<1> HIDE DEF o
<1>2. /\ ops \in Seq(SendOps) /\ ops[1] = o /\ Len(ops) = 1 /\ ops # <<>>
      /\ \A i \in 1 .. Len(ops) : ops[i] = o
      /\ 2 .. Len(ops) = {}
  BY <1>1
<1> HIDE DEF ops
<1>3. Typed(o)
  BY <1>1 DEF Typed
<1>4. Listed(ops)
  <2>1. /\ \A i \in 1 .. Len(ops) : Typed(ops[i])
        /\ \A i \in 2 .. Len(ops) : ops[i].call \in PlainCalls
        /\ ops # <<>> => ops[1].call \notin {"DeleteIoContext", "SessionReset", "FlushUnlock",
                                             "ResetSendBuffer", "ReturnToPool"}
    BY <1>1, <1>2, <1>3
  <2> QED BY <1>2, <2>1, PlainListed
<1>5. Allowed(q, ops)
  BY <1>1, <1>2, <1>4 DEF Allowed, RefCalls, InsideCalls, Returns
<1> QED BY <1>1, <1>2, <1>5 DEF ops, o

\* The bare sessions, when thread t has made one bare that it returns.
LEMMA PooledReleased ==
  ASSUME NEW T, NEW L, NEW I, NEW C, NEW SL, NEW F \in SUBSET Sessions,
         Pooled(T, L, I, C, SL, F), NEW t \in Threads, NEW U, Moves(T, U, t),
         NEW M, NEW J,
         \A s \in Sessions :
           /\ Bare(T, L, I, C, SL, s) => Bare(U, M, J, C, SL, s)
           /\ Starts(U[t], Returns, s) /\ SL[s] # t =>
                Bare(U, M, J, C, SL, s) /\ ~ Bare(T, L, I, C, SL, s)
           /\ ~ Starts(U[t], Resets, s) /\ ~ Starts(U[t], {"ReturnToPool"}, s)
  PROVE  Pooled(U, M, J, C, SL, F)
<1>1. \A u \in Threads \ {t} : U[u] = T[u]
  BY DEF Moves
<1>2. \A s \in Sessions : Bare(T, L, I, C, SL, s) => Bare(U, M, J, C, SL, s)
  OBVIOUS
<1>3. \A s \in F : Bare(U, M, J, C, SL, s)
  BY <1>2 DEF Pooled
<1>4. \A s \in Sessions, u \in Threads :
        u # t => (Retiring(U, SL, u, s) <=> Retiring(T, SL, u, s))
  BY <1>1 DEF Retiring
<1>5. ASSUME NEW s \in Sessions, NEW u \in Threads, Retiring(U, SL, u, s)
      PROVE  /\ Bare(U, M, J, C, SL, s) /\ s \notin F
             /\ \A v \in Threads : Retiring(U, SL, v, s) => v = u
  <2>1. CASE u # t /\ ~ Retiring(U, SL, t, s)
    <3>1. Retiring(T, SL, u, s)
      BY <1>4, <1>5, <2>1
    <3>2. /\ Bare(T, L, I, C, SL, s) /\ s \notin F
          /\ \A v \in Threads : Retiring(T, SL, v, s) => v = u
      BY <3>1 DEF Pooled
    <3> QED BY <1>2, <1>4, <2>1, <3>2
  <2>2. CASE Retiring(U, SL, t, s)
    <3>1. Starts(U[t], Returns, s) /\ SL[s] # t
      BY <1>1, <2>2 DEF Retiring
    <3>2. Bare(U, M, J, C, SL, s) /\ ~ Bare(T, L, I, C, SL, s)
      BY <3>1
    <3>3. s \notin F /\ \A v \in Threads : ~ Retiring(T, SL, v, s)
      BY <3>2 DEF Pooled
    <3>4. \A v \in Threads : Retiring(U, SL, v, s) => v = t
      BY <1>4, <3>3
    <3> QED BY <1>5, <3>2, <3>3, <3>4
  <2>3. CASE u = t
    BY <1>5, <2>2, <2>3
  <2> QED BY <2>1, <2>2, <2>3
<1>6. ASSUME NEW s \in Sessions, NEW u \in Threads, Starts(U[u], Resets, s)
      PROVE  Bare(U, M, J, C, SL, s)
  <2>1. u # t /\ U[u] = T[u]
    BY <1>1, <1>6
  <2>2. Bare(T, L, I, C, SL, s)
    BY <1>6, <2>1 DEF Pooled
  <2> QED BY <1>2, <2>2
<1>7. ASSUME NEW s \in Sessions, NEW u \in Threads, Starts(U[u], {"ReturnToPool"}, s)
      PROVE  SL[s] # u
  <2>1. u # t /\ U[u] = T[u]
    BY <1>1, <1>7
  <2> QED BY <1>7, <2>1 DEF Pooled
<1> QED BY <1>3, <1>5, <1>6, <1>7 DEF Pooled

\* A call that releases a reference of session r, and returns it with the last one.
Releasing(t, call, r, ops) ==
  /\ call \in {"DeleteIoContext", "DisconnectCompletion"} /\ Calling(t, call)
  /\ r \in Sessions
  /\ ops \in Seq(SendOps) /\ Do(t, ops) /\ Allowed(todo[t], ops)
  /\ \A i \in 1 .. Len(ops) : ops[i].call = "ReturnLock"
  /\ ops # <<>> => ops[1].obj = r

\* The contexts D and the references of sessions not in J are gone.
Released(t, call, r, ops, D, J) ==
  /\ Releasing(t, call, r, ops)
  /\ D = (IF call = "DeleteIoContext" THEN {Obj(t)} ELSE {})
  /\ J \subseteq issueRef
  /\ ops # <<>> /\ sendLock[r] # t =>
       /\ r \notin J /\ mConnected[r] = 0 /\ \A c \in live \ D : c.session # r
       /\ ~ Bare(todo, live, issueRef, mConnected, sendLock, r)

LEMMA ReleaseFrame ==
  ASSUME SendInv, NEW t \in Threads, NEW call, NEW r, NEW ops, NEW D, NEW J,
         Released(t, call, r, ops, D, J)
  PROVE  /\ Lists(todo') /\ Owned(todo', live \ D, kernel) /\ Inside(todo', sendLock)
         /\ Pooled(todo', live \ D, J, mConnected, sendLock, Free)
         /\ Managed(todo', mLock, accepting)
         /\ \A s : /\ ~ Starts(todo'[t], SendDone, s) /\ ~ Starts(todo'[t], {"WSASend"}, s)
                   /\ ~ Starts(todo'[t], ConnCalls, s)
<1>0. /\ Releasing(t, call, r, ops) /\ J \subseteq issueRef
      /\ D = (IF call = "DeleteIoContext" THEN {Obj(t)} ELSE {})
      /\ ops # <<>> /\ sendLock[r] # t =>
           /\ r \notin J /\ mConnected[r] = 0 /\ \A c \in live \ D : c.session # r
           /\ ~ Bare(todo, live, issueRef, mConnected, sendLock, r)
  BY DEF Released
<1>1. /\ todo[t] \in Seq(SendOps) /\ todo[t] # <<>> /\ Listed(todo[t])
      /\ todo[t][1].call = call /\ Obj(t) = todo[t][1].obj /\ 1 \in 1 .. Len(todo[t])
  BY <1>0, CallFacts DEF Releasing
<1>2. /\ todo' = [todo EXCEPT ![t] = todo'[t]]
      /\ Moves(todo, todo', t) /\ Follows(todo'[t], todo[t], ops)
      /\ Listed(todo'[t]) /\ Backed(todo'[t])
      /\ todo'[t] \in Seq(SendOps) /\ todo' \in [Threads -> Seq(SendOps)]
  BY <1>0, DoFacts DEF Releasing
<1>4. /\ Lists(todo) /\ Owned(todo, live, kernel) /\ Inside(todo, sendLock)
      /\ Pooled(todo, live, issueRef, mConnected, sendLock, Free)
      /\ Managed(todo, mLock, accepting)
  BY DEF SendInv, SendStructured, PoolStructure
<1>5. /\ live \in SUBSET Contexts /\ kernel \in SUBSET live /\ Free \in SUBSET Sessions
  BY FreeSessions DEF SendInv, SendTypes, TypeInv
<1>6. ops # <<>> => 1 \in 1 .. Len(ops) /\ ops[1].call = "ReturnLock" /\ ops[1].obj = r
  BY <1>0, <1>2 DEF Follows, Releasing
<1>7. Held(ops) = {} /\ \A i \in 1 .. Len(ops) : ops[i].call \notin LockCalls
  BY <1>0 DEF Held, IsOp, LockCalls, Releasing
<1>8. Held(todo'[t]) = (Held(todo[t]) \ D) \cup {} /\ D \in SUBSET Held(todo[t])
  <2>1. /\ todo[t] \in Seq(SendOps) /\ todo[t] # <<>> /\ Listed(todo[t])
        /\ todo'[t] \in Seq(SendOps) /\ Follows(todo'[t], todo[t], ops)
    BY <1>1, <1>2
  <2>2. CASE call = "DeleteIoContext"
    <3>1. todo[t][1].call = "DeleteIoContext"
      BY <1>1, <2>2
    <3>2. todo[t][1].obj \in Held(todo[t])
            /\ Held(todo'[t]) = (Held(todo[t]) \ {todo[t][1].obj}) \cup Held(ops)
      BY <2>1, <3>1, HeldAfter
    <3> QED BY <1>0, <1>1, <1>7, <2>2, <3>2
  <2>3. CASE call # "DeleteIoContext"
    <3>1. todo[t][1].call # "DeleteIoContext"
      BY <1>1, <2>3
    <3>2. Held(todo'[t]) = Held(todo[t]) \cup Held(ops)
      BY <2>1, <3>1, HeldAfter
    <3> QED BY <1>0, <1>7, <2>3, <3>2
  <2> QED BY <2>2, <2>3
<1>9. Owned(todo', live \ D, kernel)
  <2>1. {} \cap {} = {} /\ ({} \cup {}) \cap live = {}
    OBVIOUS
  <2>2. Moves(todo, todo', t) /\ Owned(todo, live, kernel)
    BY <1>2, <1>4
  <2>3. Owned(todo', (live \ D) \cup {} \cup {}, kernel \cup {})
    BY <1>5, <1>8, <2>1, <2>2, OwnedServed
  <2>4. (live \ D) \cup {} \cup {} = live \ D /\ kernel \cup {} = kernel
    OBVIOUS
  <2> QED BY <2>3, <2>4
<1>10. Lists(todo')
  BY <1>2, <1>4 DEF Lists, Moves
<1>11. Inside(todo', sendLock)
  <2>1. ASSUME NEW i \in 1 .. Len(todo'[t]), todo'[t][i].call \in LockCalls
        PROVE  sendLock[todo'[t][i].obj] = t
    <3>1. PICK j \in 1 .. Len(todo[t]) : todo'[t][i] = todo[t][j]
      BY <1>1, <1>2, <1>7, <2>1, LocksAfter
    <3> QED BY <1>4, <2>1, <3>1 DEF Inside
  <2>2. Inside(todo, sendLock) /\ Moves(todo, todo', t)
    BY <1>2, <1>4
  <2> QED BY <2>1, <2>2, InsideSame
<1>12. \A s : /\ Starts(todo'[t], Returns, s) => ops # <<>> /\ s = r
              /\ ~ Starts(todo'[t], Resets, s) /\ ~ Starts(todo'[t], Past, s)
              /\ ~ Starts(todo'[t], {"ReturnToPool"}, s)
  <2>1. CASE ops = <<>>
    <3>1. todo[t][1].call \notin {"SessionReset", "ResetSendBuffer"}
      BY <1>0, <1>1 DEF Releasing
    <3>2. \A s : ~ Starts(todo'[t], Returns, s)
      BY <1>2, <2>1, <3>1, NoReturnAfter
    <3> QED BY <3>2 DEF Starts, Returns, Resets, Past
  <2>2. CASE ops # <<>>
    <3>1. todo'[t][1].call = "ReturnLock" /\ todo'[t][1].obj = r
      BY <1>2, <1>6, <2>2 DEF Follows
    <3> QED BY <2>2, <3>1 DEF Starts, Returns, Resets, Past
  <2> QED BY <2>1, <2>2
<1>13. ASSUME NEW s \in Sessions, Bare(todo, live, issueRef, mConnected, sendLock, s)
       PROVE  Bare(todo', live \ D, J, mConnected, sendLock, s)
  <2>1. /\ s \notin J /\ mConnected[s] = 0
        /\ sendLock[s] = sendLock[s] \/ sendLock[s] \in {NoThread, t}
    BY <1>0, <1>13 DEF Bare
  <2> DEFINE M == live \ D
  <2>2. \A c \in M : c \in live /\ ~ (todo[t] # <<>> /\ IsOp(todo[t][1], "DeleteIoContext", c))
    BY <1>0, <1>1 DEF IsOp
  <2>3. Moves(todo, todo', t)
    BY <1>2
  <2> HIDE DEF M
  <2>4. Bare(todo', M, J, mConnected, sendLock, s)
    BY <1>13, <2>1, <2>2, <2>3, BareKept
  <2> QED BY <2>4 DEF M
<1>14. Pooled(todo', live \ D, J, mConnected, sendLock, Free)
  <2> DEFINE M == live \ D
  <2>1. ASSUME NEW s \in Sessions
        PROVE  /\ Bare(todo, live, issueRef, mConnected, sendLock, s) =>
                    Bare(todo', M, J, mConnected, sendLock, s)
               /\ Starts(todo'[t], Returns, s) /\ sendLock[s] # t =>
                    /\ Bare(todo', M, J, mConnected, sendLock, s)
                    /\ ~ Bare(todo, live, issueRef, mConnected, sendLock, s)
               /\ ~ Starts(todo'[t], Resets, s) /\ ~ Starts(todo'[t], {"ReturnToPool"}, s)
    <3>1. ASSUME Starts(todo'[t], Returns, s), sendLock[s] # t
          PROVE  /\ Bare(todo', M, J, mConnected, sendLock, s)
                 /\ ~ Bare(todo, live, issueRef, mConnected, sendLock, s)
      <4>1. s = r /\ ops # <<>>
        BY <1>12, <3>1
      <4>2. /\ s \notin J /\ mConnected[s] = 0 /\ \A c \in M : c.session # s
            /\ ~ Bare(todo, live, issueRef, mConnected, sendLock, s)
        BY <1>0, <3>1, <4>1
      <4> QED BY <4>2 DEF Bare
    <3> QED BY <1>12, <1>13, <3>1
  <2>2. /\ Moves(todo, todo', t) /\ Free \in SUBSET Sessions
        /\ Pooled(todo, live, issueRef, mConnected, sendLock, Free)
    BY <1>2, <1>4, <1>5
  <2> HIDE DEF M
  <2>3. Pooled(todo', M, J, mConnected, sendLock, Free)
    BY <2>1, <2>2, PooledReleased
  <2> QED BY <2>3 DEF M
<1>15. Managed(todo', mLock, accepting)
  <2>1. \A s \in Sessions : Starts(todo'[t], Past, s) => mLock = t /\ t # Main
    BY <1>12
  <2>2. t = Main /\ todo'[t] # <<>> => todo[Main] # <<>>
    BY <1>1
  <2> QED BY <1>2, <1>4, <2>1, <2>2, ManagedKept
<1>16. \A s : /\ ~ Starts(todo'[t], SendDone, s) /\ ~ Starts(todo'[t], {"WSASend"}, s)
              /\ ~ Starts(todo'[t], ConnCalls, s)
  <2> DEFINE others == {"SendCompletion", "WSASend", "AcceptCompletion", "DisconnectEx",
                        "DisconnectCompletion"}
  <2>1. others \cap BehindCalls = {} /\ (ops # <<>> => ops[1].call \notin others)
    BY <1>6 DEF BehindCalls
  <2> HIDE DEF others
  <2>2. \A s : ~ Starts(todo'[t], others, s)
    BY <1>2, <2>1, HeadAfter
  <2> QED BY <2>2 DEF Starts, SendDone, ConnCalls, others
<1> QED BY <1>9, <1>10, <1>11, <1>14, <1>15, <1>16

\* The context that thread t deletes is not in the kernel; its session is bare only
\* when the thread is inside the send lock.
LEMMA DeletingFacts ==
  ASSUME SendInv, NEW t \in Threads, Calling(t, "DeleteIoContext")
  PROVE  /\ Obj(t) \in live /\ Obj(t) \notin kernel /\ Obj(t) \in Contexts
         /\ Obj(t).session \in Sessions
         /\ todo[t] # <<>> /\ todo[t][1].call = "DeleteIoContext"
         /\ sendLock[Obj(t).session] # t =>
              ~ Bare(todo, live, issueRef, mConnected, sendLock, Obj(t).session)
<1>1. /\ todo[t] # <<>> /\ todo[t][1].call = "DeleteIoContext" /\ todo[t][1].obj = Obj(t)
      /\ 1 \in 1 .. Len(todo[t]) /\ Obj(t) \in Contexts
  BY CallFacts
<1>2. Obj(t) \in Held(todo[t]) /\ Obj(t).session \in Sessions
  BY <1>1 DEF Held, IsOp, Contexts
<1>3. Owned(todo, live, kernel)
  BY DEF SendInv, SendStructured, PoolStructure
<1>4. Obj(t) \in live /\ Obj(t) \notin kernel
  BY <1>2, <1>3 DEF Owned
<1>5. ASSUME Bare(todo, live, issueRef, mConnected, sendLock, Obj(t).session)
      PROVE  sendLock[Obj(t).session] = t
  <2>1. /\ sendLock[Obj(t).session] \in Threads
        /\ Obj(t) \in Held(todo[sendLock[Obj(t).session]])
    BY <1>2, <1>4, <1>5, BareFacts
  <2> QED BY <1>2, <1>3, <2>1 DEF Owned
<1> QED BY <1>1, <1>2, <1>4, <1>5

\* The counts when a context is deleted and its reference released.
LEMMA CountReleased ==
  ASSUME SendInv, NEW t \in Threads, Moves(todo, todo', t),
         \A r : ~ Starts(todo[t], {"ResetSendBuffer"}, r),
         NEW d \in live, d.session \in Sessions, mRefCount[d.session] - 1 >= 0,
         mRefCount' = [mRefCount EXCEPT ![d.session] = mRefCount[d.session] - 1],
         live' = live \ {d}, issueRef' = issueRef
  PROVE  /\ CountsInv' /\ IsFiniteSet(live') /\ mRefCount' \in [Sessions -> Int]
         /\ mRefCount[d.session] - 1 = 0 =>
              /\ d.session \notin issueRef /\ mConnected[d.session] = 0
              /\ \A c \in live \ {d} : c.session # d.session
<1> DEFINE r == d.session
<1>1. IsFiniteSet(live) /\ mRefCount \in [Sessions -> Int] /\ r \in Sessions
  BY DEF SendInv, SendTypes, TypeInv
<1>2. PICK n \in Int : n = mRefCount[r]
  BY <1>1
<1>3. n - 1 >= 0 /\ mRefCount' = [mRefCount EXCEPT ![r] = n - 1]
  BY <1>2
<1>4. mRefCount[r] = Cardinality(LiveOf(live, r)) + (IF r \in issueRef THEN 1 ELSE 0)
  <2>1. ~ Overwritten(r)
    BY <1>2, <1>3 DEF Overwritten
  <2> QED BY <1>1, <2>1 DEF SendInv, CountsInv
<1>5. /\ IsFiniteSet(live')
      /\ \A u : Cardinality(LiveOf(live', u))
                  = Cardinality(LiveOf(live, u)) - (IF r = u THEN 1 ELSE 0)
  BY <1>1, CountDelete
<1>6. \A u : /\ Cardinality(LiveOf(live, u)) \in Nat /\ Cardinality(LiveOf(live', u)) \in Nat
             /\ Cardinality(LiveOf(live', u)) = 0 <=> LiveOf(live', u) = {}
  BY <1>1, <1>5, CountType
<1>7. mRefCount' \in [Sessions -> Int] /\ mRefCount'[r] = n - 1
  BY <1>1, <1>3
<1>8. ASSUME NEW u \in Sessions
      PROVE  \/ mRefCount'[u] = Cardinality(LiveOf(live', u)) + (IF u \in issueRef' THEN 1 ELSE 0)
             \/ Overwritten(u)'
  <2>1. CASE u = r
    <3>1. Cardinality(LiveOf(live', u)) = Cardinality(LiveOf(live, u)) - 1
      BY <1>5, <2>1
    <3>2. n = Cardinality(LiveOf(live, u)) + (IF u \in issueRef THEN 1 ELSE 0)
      BY <1>2, <1>4, <2>1
    <3>3. mRefCount'[u] = n - 1 /\ Cardinality(LiveOf(live, u)) \in Nat /\ issueRef' = issueRef
      BY <1>6, <1>7, <2>1
    <3> QED BY <3>1, <3>2, <3>3
  <2>2. CASE u # r /\ Overwritten(u)
    <3>1. PICK v \in Threads : Starts(todo[v], {"ResetSendBuffer"}, u)
      BY <2>2 DEF Overwritten
    <3>2. todo'[v] = todo[v]
      BY <3>1 DEF Moves
    <3>3. mRefCount'[u] = mRefCount[u]
      BY <1>1, <1>3, <2>2
    <3> QED BY <2>2, <3>1, <3>2, <3>3 DEF Overwritten
  <2>3. CASE u # r /\ ~ Overwritten(u)
    <3>1. mRefCount[u] = Cardinality(LiveOf(live, u)) + (IF u \in issueRef THEN 1 ELSE 0)
      BY <2>3 DEF SendInv, CountsInv
    <3>2. mRefCount'[u] = mRefCount[u] /\ issueRef' = issueRef
      BY <1>1, <1>3, <2>3
    <3>3. Cardinality(LiveOf(live', u)) = Cardinality(LiveOf(live, u)) - 0
      BY <1>5, <2>3
    <3>4. Cardinality(LiveOf(live, u)) \in Nat
      BY <1>6
    <3> QED BY <3>1, <3>2, <3>3, <3>4
  <2> QED BY <2>1, <2>2, <2>3
<1>9. ASSUME n - 1 = 0
      PROVE  /\ r \notin issueRef /\ mConnected[r] = 0
             /\ \A c \in live \ {d} : c.session # r
  <2>1. Cardinality(LiveOf(live', r)) = Cardinality(LiveOf(live, r)) - 1
    BY <1>5
  <2>2. Cardinality(LiveOf(live', r)) = 0 /\ r \notin issueRef
    <3>1. PICK k \in Nat : k = Cardinality(LiveOf(live, r))
      BY <1>6
    <3>2. Cardinality(LiveOf(live', r)) \in Nat /\ Cardinality(LiveOf(live', r)) = k - 1
      BY <1>6, <2>1, <3>1
    <3>3. k >= 1
      BY <3>2
    <3>4. 1 = k + (IF r \in issueRef THEN 1 ELSE 0)
      BY <1>2, <1>4, <1>9, <3>1
    <3> QED BY <3>2, <3>3, <3>4
  <2>3. LiveOf(live', r) = {}
    BY <1>6, <2>2
  <2>4. mConnected[r] = 0
    BY <1>1, <2>2, SessionFacts DEF ConnAt
  <2> QED BY <2>2, <2>3, <2>4 DEF LiveOf
<1>10. CountsInv'
  BY <1>8 DEF CountsInv
<1> QED BY <1>2, <1>5, <1>7, <1>9, <1>10

LEMMA DeletedStep ==
  ASSUME SendInv, NEW t \in Threads, DeleteIoContext(t), UNCHANGED sendVars, crashed' = "no"
  PROVE  SendInv'
<1> DEFINE d == Obj(t)
           r == d.session
           rest == <<Op("ReturnLock", r)>>
<1>1. /\ Calling(t, "DeleteIoContext") /\ crashed = "no" /\ live' = live \ {d}
      /\ mRefCount' = [mRefCount EXCEPT ![r] = mRefCount[r] - 1]
      /\ crashed' = IF mRefCount[r] - 1 >= 0 THEN crashed ELSE "ReleaseRef"
      /\ Do(t, IF mRefCount[r] - 1 = 0 THEN rest ELSE <<>>)
      /\ kernel' = kernel /\ issueRef' = issueRef /\ accepting' = accepting
      /\ mConnected' = mConnected /\ associated' = associated /\ completionOk' = completionOk
      /\ mFreeSessionList' = mFreeSessionList /\ mCurrentIssueCount' = mCurrentIssueCount
      /\ mCurrentReturnCount' = mCurrentReturnCount /\ mLock' = mLock /\ Free' = Free
      /\ UNCHANGED <<sendLock, mSendPendingCount, stored, inFlight, sendList>>
  BY DEF DeleteIoContext, ReleaseRef, Set, CrashAssert, Calling, managerVars, sendVars, Free
<1>2. mRefCount[r] - 1 >= 0
  BY <1>1
<1>3. /\ d \in live /\ d \in Contexts /\ r \in Sessions
      /\ todo[t] # <<>> /\ todo[t][1].call = "DeleteIoContext"
      /\ sendLock[r] # t => ~ Bare(todo, live, issueRef, mConnected, sendLock, r)
  BY <1>1, DeletingFacts
<1>4. PICK ops : Releasing(t, "DeleteIoContext", r, ops) /\ (ops # <<>> => mRefCount[r] - 1 = 0)
  <2>1. CASE mRefCount[r] - 1 = 0
    <3>1. /\ rest \in Seq(SendOps) /\ Allowed(todo[t], rest) /\ rest # <<>>
          /\ rest[1].call = "ReturnLock" /\ rest[1].obj = r
          /\ \A i \in 1 .. Len(rest) : rest[i].call = "ReturnLock"
      BY <1>3, ReleaseOps
    <3>2. Do(t, rest)
      BY <1>1, <2>1
    <3> QED BY <1>1, <1>3, <2>1, <3>1, <3>2 DEF Releasing
  <2>2. CASE mRefCount[r] - 1 # 0
    <3>1. Do(t, <<>>)
      BY <1>1, <2>2
    <3>2. /\ <<>> \in Seq(SendOps) /\ Allowed(todo[t], <<>>)
          /\ \A i \in 1 .. Len(<<>>) : <<>>[i].call = "ReturnLock"
      BY NoneAllowed, NothingListed
    <3> QED BY <1>1, <1>3, <3>1, <3>2 DEF Releasing
  <2> QED BY <2>1, <2>2
<1>5. Moves(todo, todo', t) /\ todo' \in [Threads -> Seq(SendOps)]
        /\ todo' = [todo EXCEPT ![t] = todo'[t]]
  BY <1>4, DoFacts DEF Releasing
<1>6. \A s : ~ Starts(todo[t], {"ResetSendBuffer"}, s) /\ ~ Starts(todo[t], {"CountSend"}, s)
  BY <1>3 DEF Starts
<1>7. /\ CountsInv' /\ IsFiniteSet(live') /\ mRefCount' \in [Sessions -> Int]
      /\ mRefCount[r] - 1 = 0 =>
           r \notin issueRef /\ mConnected[r] = 0 /\ \A c \in live \ {d} : c.session # r
  BY <1>1, <1>2, <1>3, <1>5, <1>6, CountReleased
<1>8. /\ Lists(todo') /\ Owned(todo', live \ {d}, kernel) /\ Inside(todo', sendLock)
      /\ Pooled(todo', live \ {d}, issueRef, mConnected, sendLock, Free)
      /\ Managed(todo', mLock, accepting)
      /\ \A s : /\ ~ Starts(todo'[t], SendDone, s) /\ ~ Starts(todo'[t], {"WSASend"}, s)
                /\ ~ Starts(todo'[t], ConnCalls, s)
  <2> DEFINE D == {d}
             call == "DeleteIoContext"
             J == issueRef
  <2>1. D = (IF call = "DeleteIoContext" THEN {Obj(t)} ELSE {}) /\ Releasing(t, call, r, ops)
    BY <1>4
  <2>2. ops # <<>> /\ sendLock[r] # t =>
          /\ r \notin J /\ mConnected[r] = 0 /\ \A c \in live \ D : c.session # r
          /\ ~ Bare(todo, live, issueRef, mConnected, sendLock, r)
    BY <1>3, <1>4, <1>7
  <2>3. J \in SUBSET issueRef
    OBVIOUS
  <2>5. Released(t, call, r, ops, D, J)
    BY <2>1, <2>2, <2>3 DEF Released
  <2> HIDE DEF D, call, J
  <2>4. /\ Lists(todo') /\ Owned(todo', live \ D, kernel) /\ Inside(todo', sendLock)
        /\ Pooled(todo', live \ D, J, mConnected, sendLock, Free)
        /\ Managed(todo', mLock, accepting)
        /\ \A s : /\ ~ Starts(todo'[t], SendDone, s) /\ ~ Starts(todo'[t], {"WSASend"}, s)
                  /\ ~ Starts(todo'[t], ConnCalls, s)
    BY <2>5, ReleaseFrame
  <2> QED BY <2>4 DEF D, J
<1>9. SendStructured'
  BY <1>1, <1>8 DEF SendStructured, PoolStructure
<1>10. TypeInv(SendOps)'
  <2>1. live' \subseteq Contexts /\ kernel' \subseteq live'
    <3>1. d \notin kernel
      BY <1>1, DeletingFacts
    <3> QED BY <1>1, <3>1 DEF SendInv, SendTypes, TypeInv
  <2> QED BY <1>1, <1>5, <1>7, <2>1 DEF SendInv, SendTypes, TypeInv
<1>11. ConnInv'
  <2>1. /\ \A e \in kernel' \ kernel : e.io \notin ConnIO
        /\ \A s \in Sessions : mConnected'[s] = mConnected[s] \/ mConnected'[s] = 0
        /\ issueRef' = issueRef
    BY <1>1
  <2> QED BY <1>5, <1>8, <2>1, ConnSame
<1>12. SendsInv'
  <2>1. \A e \in kernel' \ kernel : e.io \notin SendIO
    BY <1>1
  <2> QED BY <1>1, <1>5, <1>6, <1>8, <2>1, SendsSame
<1>13. BufferInv'
  BY <1>1 DEF SendInv, BufferInv, Sending
<1>14. SendTypes' /\ PoolAccounting'
  BY <1>1, <1>10 DEF SendInv, SendTypes, PoolAccounting, Issued
<1> QED BY <1>7, <1>9, <1>11, <1>12, <1>13, <1>14 DEF SendInv

\* A thread that makes a call which needs a reference has a context of the session.
LEMMA BackedLive ==
  ASSUME SendInv, NEW t \in Threads, NEW i \in 1 .. Len(todo[t]), todo[t][i].call \in RefCalls
  PROVE  \E c \in live : c.session = todo[t][i].obj
<1> DEFINE q == todo[t]
           n == Len(q)
           c == q[n].obj
<1>1. /\ q \in Seq(SendOps) /\ Listed(q) /\ Backed(q) /\ n \in Nat /\ i \in 1 .. n
  BY LenProperties DEF SendInv, SendStructured, PoolStructure, Lists, SendTypes, TypeInv
<1>2. q[n].call = "DeleteIoContext" /\ c.session = q[i].obj
  BY <1>1 DEF Backed
<1>3. n \in 1 .. n
  BY <1>1
<1>4. c \in Contexts
  BY <1>1, <1>2, <1>3 DEF Listed, Typed
<1>5. c \in Held(q)
  BY <1>2, <1>3, <1>4 DEF Held, IsOp
<1>6. Owned(todo, live, kernel)
  BY DEF SendInv, SendStructured, PoolStructure
<1> QED BY <1>2, <1>5, <1>6 DEF Owned

LEMMA ReleasedStep ==
  ASSUME SendInv, NEW t \in Threads, DisconnectCompletion(t), UNCHANGED sendVars
  PROVE  SendInv'
<1> DEFINE r == Obj(t)
           rest == <<Op("ReturnLock", r)>>
<1>1. /\ Calling(t, "DisconnectCompletion") /\ crashed = "no" /\ live' = live
      /\ mRefCount' = [mRefCount EXCEPT ![r] = mRefCount[r] - 1]
      /\ crashed' = IF mRefCount[r] - 1 >= 0 THEN crashed ELSE "ReleaseRef"
      /\ Do(t, IF mRefCount[r] - 1 = 0 THEN rest ELSE <<>>)
      /\ kernel' = kernel /\ issueRef' = issueRef \ {r} /\ accepting' = accepting
      /\ mConnected' = mConnected /\ associated' = associated /\ completionOk' = completionOk
      /\ mFreeSessionList' = mFreeSessionList /\ mCurrentIssueCount' = mCurrentIssueCount
      /\ mCurrentReturnCount' = mCurrentReturnCount /\ mLock' = mLock /\ Free' = Free
      /\ UNCHANGED <<sendLock, mSendPendingCount, stored, inFlight, sendList>>
  BY DEF DisconnectCompletion, ReleaseRef, Set, CrashAssert, Calling, managerVars,
         contextVars, sendVars, Free
<1>2. /\ r \in Sessions /\ todo[t] # <<>> /\ todo[t][1].call = "DisconnectCompletion"
      /\ todo[t][1].obj = r /\ 1 \in 1 .. Len(todo[t]) /\ todo[t][1].call \in RefCalls
      /\ DOMAIN todo = Threads
  BY <1>1, CallFacts DEF RefCalls
<1>3. Starts(todo[t], ConnCalls, r) /\ Token(todo, kernel, r, ConnIO, ConnCalls)
  BY <1>2 DEF Starts, ConnCalls, Token
<1>4. ConnAt(todo, kernel, issueRef, mConnected, r) /\ r \in issueRef /\ mConnected[r] = 0
  BY <1>2, <1>3, SessionFacts DEF ConnAt
<1>5. /\ Cardinality(LiveOf(live, r)) \in Nat /\ Cardinality(LiveOf(live, r)) # 0
      /\ mRefCount[r] = Cardinality(LiveOf(live, r)) + 1
  <2>1. \E c \in live : c.session = r
    BY <1>2, BackedLive
  <2>2. Cardinality(LiveOf(live, r)) \in Nat /\ Cardinality(LiveOf(live, r)) # 0
    BY <1>2, <2>1, LiveCount
  <2>3. ~ Bare(todo, live, issueRef, mConnected, sendLock, r)
    BY <1>4 DEF Bare
  <2>4. mRefCount[r] = Cardinality(LiveOf(live, r)) + (IF r \in issueRef THEN 1 ELSE 0)
    BY <1>2, <2>3, CountOrBare
  <2> QED BY <1>4, <2>2, <2>4
<1>6. PICK n \in Nat : n = Cardinality(LiveOf(live, r))
  BY <1>5
<1>7. mRefCount[r] = n + 1 /\ n # 0 /\ mRefCount[r] - 1 = n /\ n >= 0
  BY <1>5, <1>6
<1>8. /\ crashed' = "no" /\ Do(t, <<>>) /\ mRefCount' = [mRefCount EXCEPT ![r] = n]
  <2>1. crashed' = "no"
    BY <1>1, <1>7
  <2>2. Do(t, IF n = 0 THEN rest ELSE <<>>) /\ mRefCount' = [mRefCount EXCEPT ![r] = n]
    BY <1>1, <1>7
  <2>3. (IF n = 0 THEN rest ELSE <<>>) = <<>>
    BY <1>7
  <2>4. Do(t, <<>>)
    BY <2>2, <2>3
  <2> QED BY <2>1, <2>2, <2>4
<1>9. Releasing(t, "DisconnectCompletion", r, <<>>)
  <2>1. /\ <<>> \in Seq(SendOps) /\ Allowed(todo[t], <<>>)
        /\ \A i \in 1 .. Len(<<>>) : <<>>[i].call = "ReturnLock"
    BY NoneAllowed, NothingListed
  <2> QED BY <1>1, <1>2, <1>8, <2>1 DEF Releasing
<1>10. Moves(todo, todo', t) /\ todo' \in [Threads -> Seq(SendOps)]
         /\ todo' = [todo EXCEPT ![t] = todo'[t]]
  BY <1>9, DoFacts DEF Releasing
<1>11. \A s : ~ Starts(todo[t], {"ResetSendBuffer"}, s) /\ ~ Starts(todo[t], {"CountSend"}, s)
  BY <1>2 DEF Starts
<1>12. /\ Lists(todo') /\ Owned(todo', live, kernel) /\ Inside(todo', sendLock)
       /\ Pooled(todo', live, issueRef \ {r}, mConnected, sendLock, Free)
       /\ Managed(todo', mLock, accepting)
       /\ \A s : /\ ~ Starts(todo'[t], SendDone, s) /\ ~ Starts(todo'[t], {"WSASend"}, s)
                 /\ ~ Starts(todo'[t], ConnCalls, s)
  <2> DEFINE D == {}
             call == "DisconnectCompletion"
             ops == <<>>
             J == issueRef \ {r}
  <2>1. Released(t, call, r, ops, D, J)
    BY <1>9 DEF Released
  <2> HIDE DEF D, call, ops, J
  <2>2. /\ Lists(todo') /\ Owned(todo', live \ D, kernel) /\ Inside(todo', sendLock)
        /\ Pooled(todo', live \ D, J, mConnected, sendLock, Free)
        /\ Managed(todo', mLock, accepting)
        /\ \A s : /\ ~ Starts(todo'[t], SendDone, s) /\ ~ Starts(todo'[t], {"WSASend"}, s)
                  /\ ~ Starts(todo'[t], ConnCalls, s)
    BY <2>1, ReleaseFrame
  <2>3. live \ D = live
    BY DEF D
  <2> QED BY <2>2, <2>3 DEF J
<1>13. SendStructured'
  BY <1>1, <1>12 DEF SendStructured, PoolStructure
<1>14. mRefCount \in [Sessions -> Int]
  BY DEF SendInv, SendTypes, TypeInv
<1>15. mRefCount' \in [Sessions -> Int] /\ mRefCount'[r] = n
         /\ \A u \in Sessions \ {r} : mRefCount'[u] = mRefCount[u]
  BY <1>2, <1>8, <1>14
<1>16. CountsInv'
  <2>1. ASSUME NEW u \in Sessions
        PROVE  \/ mRefCount'[u]
                    = Cardinality(LiveOf(live', u)) + (IF u \in issueRef' THEN 1 ELSE 0)
               \/ Overwritten(u)'
    <3>1. CASE u = r
      <4>1. u \notin issueRef' /\ LiveOf(live', u) = LiveOf(live, u) /\ n + 0 = n
        BY <1>1, <3>1
      <4> QED BY <1>6, <1>15, <3>1, <4>1
    <3>2. CASE u # r /\ Overwritten(u)
      <4>1. PICK v \in Threads : Starts(todo[v], {"ResetSendBuffer"}, u)
        BY <3>2 DEF Overwritten
      <4>2. todo'[v] = todo[v]
        BY <1>10, <1>11, <4>1 DEF Moves
      <4>3. mRefCount'[u] = mRefCount[u]
        BY <1>15, <3>2
      <4> QED BY <3>2, <4>1, <4>2, <4>3 DEF Overwritten
    <3>3. CASE u # r /\ ~ Overwritten(u)
      <4>1. mRefCount[u] = Cardinality(LiveOf(live, u)) + (IF u \in issueRef THEN 1 ELSE 0)
        BY <3>3 DEF SendInv, CountsInv
      <4>2. mRefCount'[u] = mRefCount[u] /\ (u \in issueRef' <=> u \in issueRef) /\ live' = live
        BY <1>1, <1>15, <3>3
      <4> QED BY <4>1, <4>2
    <3> QED BY <3>1, <3>2, <3>3
  <2> QED BY <2>1 DEF CountsInv
<1>17. TypeInv(SendOps)'
  BY <1>1, <1>8, <1>10, <1>15 DEF SendInv, SendTypes, TypeInv
<1>18. ConnInv'
  <2>1. ASSUME NEW u \in Sessions PROVE ConnAt(todo', kernel', issueRef', mConnected', u)
    <3>1. CASE u = r
      <4>1. Alone(todo, kernel, r, ConnIO, ConnCalls) /\ ~ Starts(todo'[t], ConnCalls, r)
        BY <1>4, <1>12 DEF ConnAt
      <4>2. ~ Token([todo EXCEPT ![t] = todo'[t]], kernel, r, ConnIO, ConnCalls)
        BY <1>2, <1>3, <4>1, AloneDropped
      <4>3. ~ Token(todo', kernel', u, ConnIO, ConnCalls)
        BY <1>1, <1>10, <3>1, <4>2
      <4>4. Alone(todo', kernel', u, ConnIO, ConnCalls)
        BY <4>3, TakesNone
      <4> QED BY <1>1, <1>4, <3>1, <4>3, <4>4 DEF ConnAt
    <3>2. CASE u # r
      <4> DEFINE J == issueRef \ {r}
      <4>1. ConnAt(todo, kernel, issueRef, mConnected, u)
        BY SessionFacts
      <4>2. (u \in issueRef => u \in J) /\ ~ Starts(todo'[t], ConnCalls, u)
              /\ \A e \in kernel \ kernel : FALSE
        BY <1>12, <3>2
      <4> HIDE DEF J
      <4>3. ConnAt([todo EXCEPT ![t] = todo'[t]], kernel, J, mConnected, u)
        BY <1>2, <4>1, <4>2, ConnKept
      <4> QED BY <1>1, <1>10, <4>3 DEF J
    <3> QED BY <3>1, <3>2
  <2> QED BY <2>1 DEF ConnInv
<1>19. SendsInv'
  <2>1. \A e \in kernel' \ kernel : e.io \notin SendIO
    BY <1>1
  <2> QED BY <1>1, <1>10, <1>11, <1>12, <2>1, SendsSame
<1>20. BufferInv'
  BY <1>1 DEF SendInv, BufferInv, Sending
<1>21. SendTypes' /\ PoolAccounting'
  BY <1>1, <1>17 DEF SendInv, SendTypes, PoolAccounting, Issued
<1> QED BY <1>13, <1>16, <1>18, <1>19, <1>20, <1>21 DEF SendInv

-----------------------------------------------------------------------------
(***************************************************************************)
(* A worker takes a completion, or a session to flush.                     *)
(***************************************************************************)
\* What a worker calls for a completion, before the deletion of its context.
ServiceCalls ==
  {"AcceptCompletion", "DisconnectCompletion", "DisconnectRequest", "PostRecv",
   "PacketHandling", "SendCompletion"}
NextCalls == {"PreRecv", "CheckCompletion"}

\* The calls v, on the session of context c.
Attended(v, c) ==
  /\ v \in Seq(SendOps) /\ v # <<>>
  /\ v[1].call \in ServiceCalls
  /\ \A i \in 1 .. Len(v) : v[i].obj = c.session
  /\ \A i \in 2 .. Len(v) : v[i].call \in NextCalls

\* A completion of context c, before a worker.
Completing(w, c) ==
  /\ w \in Seq(SendOps) /\ w # <<>> /\ Listed(w) /\ Backed(w) /\ Held(w) = {c}
  /\ w[1].call \in ServiceCalls /\ w[1].obj = c.session
  /\ w[1].call \in ConnCalls => c.io \in ConnIO
  /\ w[1].call \in SendDone => c.io \in SendIO
  /\ \A i \in 1 .. Len(w) : w[i].call \notin LockCalls

LEMMA CompletionOps ==
  ASSUME NEW c \in Contexts, NEW v, Attended(v, c),
         v[1].call \in ConnCalls => c.io \in ConnIO,
         v[1].call \in SendDone => c.io \in SendIO
  PROVE  Completing(v \o <<Op("DeleteIoContext", c)>>, c)
<1> DEFINE d == Op("DeleteIoContext", c)
           w == v \o <<d>>
           n == Len(v)
           s == c.session
<1>1. /\ v \in Seq(SendOps) /\ v # <<>> /\ v[1].call \in ServiceCalls
      /\ \A i \in 1 .. n : v[i].obj = s
      /\ \A i \in 2 .. n : v[i].call \in NextCalls
  BY DEF Attended
<1>2. /\ d \in SendOps /\ d.call = "DeleteIoContext" /\ d.obj = c /\ s \in Sessions
  BY DEF Op, SendOps, OpCalls, Contexts
<1> HIDE DEF d
<1>3. n \in Nat /\ n >= 1 /\ <<d>> \in Seq(SendOps) /\ Len(<<d>>) = 1 /\ <<d>>[1] = d
  <2>1. n \in Nat /\ 1 \in 1 .. n
    BY <1>1, NotEmpty, LenProperties
  <2> QED BY <1>2, <2>1
<1> HIDE DEF n
<1>4. /\ w \in Seq(SendOps) /\ Len(w) = n + 1
      /\ \A i \in 1 .. n : w[i] = v[i]
      /\ w[n + 1] = d
  <2>1. /\ w \in Seq(SendOps) /\ Len(w) = Len(v) + Len(<<d>>)
        /\ \A i \in 1 .. Len(v) + Len(<<d>>) :
             w[i] = IF i <= Len(v) THEN v[i] ELSE <<d>>[i - Len(v)]
    BY <1>1, <1>3, ConcatProperties
  <2>2. /\ Len(w) = n + 1
        /\ \A i \in 1 .. n + 1 : w[i] = IF i <= n THEN v[i] ELSE <<d>>[i - n]
    BY <1>3, <2>1 DEF n
  <2>3. (n + 1) - n = 1 /\ ~ (n + 1 <= n) /\ n + 1 \in 1 .. n + 1
    BY <1>3
  <2>4. w[n + 1] = d
    BY <1>3, <2>2, <2>3
  <2>5. \A i \in 1 .. n : i \in 1 .. n + 1 /\ i <= n
    BY <1>3
  <2> QED BY <2>1, <2>2, <2>4, <2>5
<1> HIDE DEF w
<1>5. \A i \in 1 .. Len(w) : i \in 1 .. n \/ i = n + 1
  BY <1>3, <1>4
<1>6. \A i \in 1 .. n : v[i].call \in ServiceCalls \cup NextCalls
  <2>1. \A i \in 1 .. n : i = 1 \/ i \in 2 .. n
    BY <1>3
  <2> QED BY <1>1, <2>1
<1>7. \A i \in 1 .. Len(w) :
        \/ w[i] = v[i] /\ v[i].call \in ServiceCalls \cup NextCalls /\ w[i].obj = s
        \/ i = n + 1 /\ w[i] = d
  BY <1>1, <1>4, <1>5, <1>6
<1>8. \A i \in 1 .. Len(w) : Typed(w[i])
  <2>1. ASSUME NEW i \in 1 .. Len(w), w[i].call \in ServiceCalls \cup NextCalls, w[i].obj = s
        PROVE  Typed(w[i])
    BY <1>2, <2>1 DEF Typed, ServiceCalls, NextCalls
  <2>2. Typed(d)
    BY <1>2 DEF Typed
  <2> QED BY <1>7, <2>1, <2>2
<1>9. \A i \in 2 .. Len(w) : w[i].call \in BehindCalls
  <2>1. \A i \in 2 .. Len(w) : i \in 2 .. n \/ i = n + 1
    BY <1>3, <1>4
  <2>2. \A i \in 2 .. n : w[i] = v[i]
    BY <1>3, <1>4
  <2>3. NextCalls \cup {"DeleteIoContext"} \subseteq BehindCalls
    BY DEF NextCalls, BehindCalls
  <2> QED BY <1>1, <1>2, <1>4, <2>1, <2>2, <2>3
<1>10. \A i, j \in 1 .. Len(w) : i < j => Before(w[i], w[j])
  <2>1. ASSUME NEW i \in 1 .. Len(w), NEW j \in 1 .. Len(w), i < j
        PROVE  Before(w[i], w[j])
    <3>1. i # n + 1
      BY <1>3, <1>4, <2>1
    <3>2. w[i].call \in ServiceCalls \cup NextCalls
      BY <1>7, <3>1
    <3>3. w[j].call \in ServiceCalls \cup NextCalls \cup {"DeleteIoContext"}
      BY <1>2, <1>7
    <3> QED BY <3>2, <3>3 DEF Before, IsOp, ServiceCalls, NextCalls
  <2> QED BY <2>1
<1>11. \A i \in 1 .. Len(w) : w[i].call \in ServiceCalls \cup NextCalls \cup {"DeleteIoContext"}
  BY <1>2, <1>7
<1>12. \A i \in 1 .. Len(w) - 1 : Precedes(w[i], w[i + 1])
  <2>1. \A i \in 1 .. Len(w) - 1 : i + 1 \in 1 .. Len(w)
    BY <1>3, <1>4
  <2> QED BY <1>11, <2>1 DEF Precedes, ServiceCalls, NextCalls
<1>13. 1 \in 1 .. n /\ 1 \in 1 .. Len(w) /\ n + 1 \in 1 .. Len(w) /\ w # <<>> /\ w[1] = v[1]
  <2>1. 1 \in 1 .. n /\ 1 \in 1 .. Len(w) /\ n + 1 \in 1 .. Len(w) /\ Len(w) # 0
    BY <1>3, <1>4
  <2> QED BY <1>4, <2>1, EmptyFacts
<1>14. w[1].call # "SessionReset"
  BY <1>1, <1>13 DEF ServiceCalls
<1>15. Listed(w)
  BY <1>8, <1>9, <1>10, <1>12, <1>14 DEF Listed
<1>16. Backed(w)
  <2>1. w[Len(w)] = d
    BY <1>4
  <2>2. \A i \in 1 .. Len(w) : w[i].call \in RefCalls => w[i].obj = s
    BY <1>2, <1>7 DEF RefCalls
  <2> QED BY <1>2, <2>1, <2>2 DEF Backed
<1>17. Held(w) = {c}
  <2>1. \A i \in 1 .. Len(w) : w[i].call = "DeleteIoContext" => w[i] = d
    BY <1>7 DEF ServiceCalls, NextCalls
  <2> QED BY <1>2, <1>4, <1>13, <2>1 DEF Held, IsOp
<1>18. \A i \in 1 .. Len(w) : w[i].call \notin LockCalls
  BY <1>11 DEF ServiceCalls, NextCalls, LockCalls
<1>19. w[1].call \in ServiceCalls /\ w[1].obj = s
  BY <1>1, <1>13
<1> QED BY <1>4, <1>13, <1>15, <1>16, <1>17, <1>18, <1>19 DEF Completing, w, d

\* One call, and one or two more behind it.
LEMMA ServiceOps ==
  ASSUME NEW c \in Contexts, NEW x \in ServiceCalls
  PROVE  LET s == c.session
         IN  /\ Attended(<<Op(x, s)>>, c)
             /\ Attended(<<Op(x, s), Op("CheckCompletion", s)>>, c)
             /\ Attended(<<Op(x, s), Op("PreRecv", s), Op("CheckCompletion", s)>>, c)
             /\ <<Op(x, s)>>[1].call = x
             /\ <<Op(x, s), Op("CheckCompletion", s)>>[1].call = x
             /\ <<Op(x, s), Op("PreRecv", s), Op("CheckCompletion", s)>>[1].call = x
<1> DEFINE s == c.session
           a == Op(x, s)
           b == Op("PreRecv", s)
           e == Op("CheckCompletion", s)
<1>1. /\ a \in SendOps /\ a.call = x /\ a.obj = s
      /\ b \in SendOps /\ b.call = "PreRecv" /\ b.obj = s
      /\ e \in SendOps /\ e.call = "CheckCompletion" /\ e.obj = s
  BY DEF Op, SendOps, OpCalls, ServiceCalls, Contexts
<1> HIDE DEF a, b, e
<1>2. Attended(<<a>>, c) /\ <<a>>[1].call = x
  <2>1. /\ <<a>> \in Seq(SendOps) /\ <<a>> # <<>> /\ <<a>>[1] = a
        /\ \A i \in 1 .. Len(<<a>>) : <<a>>[i] = a
        /\ \A i \in 2 .. Len(<<a>>) : FALSE
    BY <1>1
  <2> QED BY <1>1, <2>1 DEF Attended
<1>3. Attended(<<a, e>>, c) /\ <<a, e>>[1].call = x
  <2>1. /\ <<a, e>> \in Seq(SendOps) /\ <<a, e>> # <<>> /\ <<a, e>>[1] = a
        /\ \A i \in 1 .. Len(<<a, e>>) : <<a, e>>[i] \in {a, e}
        /\ \A i \in 2 .. Len(<<a, e>>) : <<a, e>>[i] = e
    BY <1>1
  <2> QED BY <1>1, <2>1 DEF Attended, NextCalls
<1>4. Attended(<<a, b, e>>, c) /\ <<a, b, e>>[1].call = x
  <2>1. /\ <<a, b, e>> \in Seq(SendOps) /\ <<a, b, e>> # <<>> /\ <<a, b, e>>[1] = a
        /\ <<a, b, e>>[2] = b /\ <<a, b, e>>[3] = e /\ Len(<<a, b, e>>) = 3
    BY <1>1
  <2>2. /\ \A i \in 1 .. 3 : i = 1 \/ i = 2 \/ i = 3
        /\ \A i \in 2 .. 3 : i = 2 \/ i = 3
    OBVIOUS
  <2>3. /\ \A i \in 1 .. Len(<<a, b, e>>) : <<a, b, e>>[i].obj = s
        /\ \A i \in 2 .. Len(<<a, b, e>>) : <<a, b, e>>[i].call \in NextCalls
    BY <1>1, <2>1, <2>2 DEF NextCalls
  <2> QED BY <1>1, <2>1, <2>3 DEF Attended
<1> QED BY <1>2, <1>3, <1>4 DEF a, b, e

LEMMA Triple ==
  ASSUME NEW a, NEW b, NEW c
  PROVE  <<a, b>> \o <<c>> = <<a, b, c>>
<1>1. /\ <<a, b>> \in Seq({a, b, c}) /\ Len(<<a, b>>) = 2
      /\ <<a, b>>[1] = a /\ <<a, b>>[2] = b
      /\ <<c>> \in Seq({a, b, c}) /\ Len(<<c>>) = 1 /\ <<c>>[1] = c
      /\ <<a, b, c>> \in Seq({a, b, c}) /\ Len(<<a, b, c>>) = 3
      /\ <<a, b, c>>[1] = a /\ <<a, b, c>>[2] = b /\ <<a, b, c>>[3] = c
  OBVIOUS
<1> DEFINE p == <<a, b>> \o <<c>>
           w == <<a, b, c>>
<1>2. /\ p \in Seq({a, b, c}) /\ Len(p) = 3
      /\ \A i \in 1 .. 3 : p[i] = IF i <= 2 THEN <<a, b>>[i] ELSE <<c>>[i - 2]
  BY <1>1, ConcatProperties
<1>3. p[1] = a /\ p[2] = b /\ p[3] = c
  BY <1>1, <1>2
<1> HIDE DEF p, w
<1>4. w \in Seq({a, b, c}) /\ Len(w) = 3 /\ w[1] = a /\ w[2] = b /\ w[3] = c
  BY <1>1 DEF w
<1>5. \A i \in 1 .. Len(p) : p[i] = w[i]
  <2>1. \A i \in 1 .. 3 : i = 1 \/ i = 2 \/ i = 3
    OBVIOUS
  <2> QED BY <1>2, <1>3, <1>4, <2>1
<1>6. p = w
  BY <1>2, <1>4, <1>5, SeqEqual
<1> QED BY <1>6 DEF p, w

\* What Handling gives a worker for a completion.
LEMMA HandlingCompletes ==
  ASSUME NEW c \in Contexts, NEW ok \in BOOLEAN
  PROVE  Completing(Handling(c, ok), c)
<1> DEFINE s == c.session
           d == Op("DeleteIoContext", c)
           done == <<d>>
           e == Op("CheckCompletion", s)
           p == Op("PreRecv", s)
           checked == <<e>> \o done
<1>1. s \in Sessions /\ c.io \in IOTypes
  BY DEF Contexts
<1>2. d \in SendOps /\ e \in SendOps /\ p \in SendOps
  BY <1>1 DEF Op, SendOps, OpCalls
<1> HIDE DEF d, e, p
<1>3. ASSUME NEW x \in ServiceCalls, x \in ConnCalls => c.io \in ConnIO,
             x \in SendDone => c.io \in SendIO
      PROVE  /\ Completing(<<Op(x, s)>> \o done, c)
             /\ Completing(<<Op(x, s)>> \o checked, c)
             /\ Completing(<<Op(x, s), p>> \o checked, c)
  <2> DEFINE a == Op(x, s)
  <2>1. /\ Attended(<<a>>, c) /\ Attended(<<a, e>>, c) /\ Attended(<<a, p, e>>, c)
        /\ <<a>>[1].call = x /\ <<a, e>>[1].call = x /\ <<a, p, e>>[1].call = x
    BY ServiceOps DEF e, p
  <2>2. a \in SendOps
    BY <1>1 DEF Op, SendOps, OpCalls, ServiceCalls
  <2> HIDE DEF a
  <2>3. Completing(<<a>> \o <<d>>, c)
    BY <1>3, <2>1, CompletionOps DEF d
  <2>4. Completing(<<a, e>> \o <<d>>, c)
    BY <1>3, <2>1, CompletionOps DEF d
  <2>5. Completing(<<a, p, e>> \o <<d>>, c)
    BY <1>3, <2>1, CompletionOps DEF d
  <2>6. <<a, e>> \o <<d>> = <<a>> \o (<<e>> \o <<d>>)
    <3>1. <<a>> \o <<e>> = <<a, e>>
      BY Pair
    <3>2. <<a>> \in Seq(SendOps) /\ <<e>> \in Seq(SendOps) /\ <<d>> \in Seq(SendOps)
      BY <1>2, <2>2
    <3> QED BY <3>1, <3>2, ConcatAssociative
  <2>7. <<a, p, e>> \o <<d>> = <<a, p>> \o (<<e>> \o <<d>>)
    <3>1. <<a, p>> \o <<e>> = <<a, p, e>>
      BY Triple
    <3>2. <<a, p>> \in Seq(SendOps) /\ <<e>> \in Seq(SendOps) /\ <<d>> \in Seq(SendOps)
      BY <1>2, <2>2
    <3> QED BY <3>1, <3>2, ConcatAssociative
  <2> QED BY <2>3, <2>4, <2>5, <2>6, <2>7 DEF a
<1>4. CASE c.io = "IO_ACCEPT"
  <2>1. Handling(c, ok) = <<Op("AcceptCompletion", s)>> \o done
    BY <1>4, Zenon DEF Handling, d
  <2>2. "AcceptCompletion" \in ServiceCalls \ SendDone /\ c.io \in ConnIO
    BY <1>4 DEF ServiceCalls, SendDone, ConnIO
  <2> HIDE DEF done, checked
  <2> QED BY <1>3, <2>1, <2>2
<1>5. CASE c.io = "IO_DISCONNECT"
  <2>1. Handling(c, ok) = <<Op("DisconnectCompletion", s)>> \o done
    BY <1>5, Zenon DEF Handling, d
  <2>2. "DisconnectCompletion" \in ServiceCalls \ SendDone /\ c.io \in ConnIO
    BY <1>5 DEF ServiceCalls, SendDone, ConnIO
  <2> HIDE DEF done, checked
  <2> QED BY <1>3, <2>1, <2>2
<1>6. CASE c.io = "IO_RECV_ZERO"
  <2>1. Handling(c, ok) = <<Op("PostRecv", s)>> \o checked
    BY <1>6, Zenon DEF Handling, d, e
  <2>2. "PostRecv" \in ServiceCalls \ (SendDone \cup ConnCalls)
    BY DEF ServiceCalls, SendDone, ConnCalls
  <2> HIDE DEF done, checked
  <2> QED BY <1>3, <2>1, <2>2
<1>7. CASE c.io = "IO_RECV" /\ ok
  <2>1. Handling(c, ok) = <<Op("PacketHandling", s), p>> \o checked
    BY <1>7, Zenon DEF Handling, d, e, p
  <2>2. "PacketHandling" \in ServiceCalls \ (SendDone \cup ConnCalls)
    BY DEF ServiceCalls, SendDone, ConnCalls
  <2> HIDE DEF done, checked
  <2> QED BY <1>3, <2>1, <2>2
<1>8. CASE c.io = "IO_SEND" /\ ok
  <2>1. Handling(c, ok) = <<Op("SendCompletion", s)>> \o checked
    BY <1>8, Zenon DEF Handling, d, e
  <2>2. "SendCompletion" \in ServiceCalls \ ConnCalls /\ c.io \in SendIO
    BY <1>8 DEF ServiceCalls, ConnCalls, SendIO
  <2> HIDE DEF done, checked
  <2> QED BY <1>3, <2>1, <2>2
<1>9. CASE c.io \in {"IO_RECV", "IO_SEND"} /\ ~ ok
  <2>1. Handling(c, ok) = <<Op("DisconnectRequest", s)>> \o done
    BY <1>9, Zenon DEF Handling, d
  <2>2. "DisconnectRequest" \in ServiceCalls \ (SendDone \cup ConnCalls)
    BY DEF ServiceCalls, SendDone, ConnCalls
  <2> HIDE DEF done, checked
  <2> QED BY <1>3, <2>1, <2>2
<1> QED BY <1>1, <1>4, <1>5, <1>6, <1>7, <1>8, <1>9 DEF IOTypes

\* An idle worker takes up the calls w.
LEMMA TakeFrame ==
  ASSUME SendInv, NEW t \in Threads, t # Main, todo[t] = <<>>,
         NEW w \in Seq(SendOps), Listed(w), Backed(w), w # <<>>,
         w[1].call \notin Returns, \A i \in 1 .. Len(w) : w[i].call \notin LockCalls,
         Set(todo, t, w), UNCHANGED <<mRefCount, live, issueRef>>
  PROVE  /\ Moves(todo, todo', t) /\ todo'[t] = w /\ todo' \in [Threads -> Seq(SendOps)]
         /\ Lists(todo') /\ Inside(todo', sendLock)
         /\ Pooled(todo', live, issueRef, mConnected, sendLock, Free)
         /\ Managed(todo', mLock, accepting) /\ CountsInv'
<1>2. /\ todo \in [Threads -> Seq(SendOps)] /\ Free \in SUBSET Sessions
  BY FreeSessions DEF SendInv, SendTypes, TypeInv
<1>3. Moves(todo, todo', t) /\ todo'[t] = w /\ todo' \in [Threads -> Seq(SendOps)]
  BY <1>2 DEF Moves, Set
<1>4. /\ Lists(todo) /\ Inside(todo, sendLock)
      /\ Pooled(todo, live, issueRef, mConnected, sendLock, Free)
      /\ Managed(todo, mLock, accepting)
  BY DEF SendInv, SendStructured, PoolStructure
<1>5. Lists(todo')
  BY <1>3, <1>4 DEF Lists, Moves
<1>6. Inside(todo', sendLock)
  <2>1. \A i \in 1 .. Len(todo'[t]) :
          todo'[t][i].call \in LockCalls => sendLock[todo'[t][i].obj] = t
    BY <1>3
  <2> QED BY <1>3, <1>4, <2>1, InsideSame
<1>7. \A s : /\ ~ Starts(todo'[t], Returns, s) /\ ~ Starts(todo'[t], Resets, s)
             /\ ~ Starts(todo'[t], Past, s) /\ ~ Starts(todo'[t], {"ReturnToPool"}, s)
  BY <1>3 DEF Starts, Returns, Resets, Past
<1>8. ASSUME NEW s \in Sessions, Bare(todo, live, issueRef, mConnected, sendLock, s)
      PROVE  Bare(todo', live, issueRef, mConnected, sendLock, s)
  <2>1. /\ s \notin issueRef /\ mConnected[s] = 0
        /\ sendLock[s] = sendLock[s] \/ sendLock[s] \in {NoThread, t}
    BY <1>8 DEF Bare
  <2>2. \A c \in live : c \in live /\ ~ (todo[t] # <<>> /\ IsOp(todo[t][1], "DeleteIoContext", c))
    OBVIOUS
  <2> QED BY <1>3, <1>8, <2>1, <2>2, BareKept
<1>9. Pooled(todo', live, issueRef, mConnected, sendLock, Free)
  <2>1. ASSUME NEW s \in Sessions
        PROVE  /\ Bare(todo, live, issueRef, mConnected, sendLock, s) =>
                    Bare(todo', live, issueRef, mConnected, sendLock, s)
               /\ \A u \in Threads \ {t} : sendLock[s] = u <=> sendLock[s] = u
               /\ Starts(todo'[t], Returns, s) /\ sendLock[s] # t =>
                    \/ Retiring(todo, sendLock, t, s)
                    \/ Bare(todo, live, issueRef, mConnected, sendLock, s) /\ s \notin Free
                         /\ \A u \in Threads \ {t} : ~ Retiring(todo, sendLock, u, s)
               /\ Starts(todo'[t], Resets, s) =>
                    Bare(todo, live, issueRef, mConnected, sendLock, s)
               /\ Starts(todo'[t], {"ReturnToPool"}, s) => sendLock[s] # t
    BY <1>7, <1>8
  <2>2. /\ Moves(todo, todo', t) /\ Free \in SUBSET Sessions
        /\ Pooled(todo, live, issueRef, mConnected, sendLock, Free)
    BY <1>2, <1>3, <1>4
  <2> QED BY <2>1, <2>2, PooledKept
<1>10. Managed(todo', mLock, accepting)
  <2>1. \A s \in Sessions : Starts(todo'[t], Past, s) => mLock = t /\ t # Main
    BY <1>7
  <2>2. t = Main /\ todo'[t] # <<>> => todo[Main] # <<>>
    OBVIOUS
  <2> QED BY <1>3, <1>4, <2>1, <2>2, ManagedKept
<1>11. CountsInv'
  <2>1. \A s : ~ Starts(todo[t], {"ResetSendBuffer"}, s)
    BY DEF Starts
  <2> QED BY <1>3, <2>1, CountsSame
<1> QED BY <1>3, <1>5, <1>6, <1>9, <1>10, <1>11

LEMMA CompletionStep ==
  ASSUME SendInv, NEW t \in Workers, NextCompletion(t)
  PROVE  SendInv'
<1>1. PICK c \in kernel, ok \in BOOLEAN :
        /\ todo[t] = <<>>
        /\ kernel' = kernel \ {c}
        /\ todo' = [todo EXCEPT ![t] = Handling(c, ok)]
        /\ completionOk' = [completionOk EXCEPT ![t] = FALSE]
        /\ UNCHANGED <<sessionVars, managerVars, live, accepting, issueRef, crashed>>
  BY DEF NextCompletion, DoIocpJob, Complete, Set
<1>2. /\ t \in Threads /\ t # Main
  BY SessionPoolAssumption DEF Threads
<1>3. /\ c \in Contexts /\ live \in SUBSET Contexts /\ kernel \in SUBSET live
      /\ completionOk' \in [Threads -> BOOLEAN] /\ DOMAIN todo = Threads
  BY <1>1, <1>2 DEF SendInv, SendTypes, TypeInv
<1>u. /\ stored' = stored /\ sendList' = sendList /\ sendLock' = sendLock
      /\ mSendPendingCount' = mSendPendingCount /\ inFlight' = inFlight
      /\ mConnected' = mConnected /\ issueRef' = issueRef /\ mRefCount' = mRefCount
      /\ mFreeSessionList' = mFreeSessionList /\ mCurrentIssueCount' = mCurrentIssueCount
      /\ mCurrentReturnCount' = mCurrentReturnCount /\ mLock' = mLock /\ Free' = Free
      /\ live' = live /\ accepting' = accepting /\ crashed' = crashed /\ associated' = associated
  BY <1>1 DEF NextCompletion, sendVars, sessionVars, managerVars, Free
<1> DEFINE w == Handling(c, ok)
<1>4. Completing(w, c)
  BY <1>3, HandlingCompletes
<1> HIDE DEF w
<1>5. /\ w \in Seq(SendOps) /\ w # <<>> /\ Listed(w) /\ Backed(w) /\ Held(w) = {c}
      /\ w[1].call \in ServiceCalls /\ w[1].obj = c.session
      /\ w[1].call \in ConnCalls => c.io \in ConnIO
      /\ w[1].call \in SendDone => c.io \in SendIO
      /\ \A i \in 1 .. Len(w) : w[i].call \notin LockCalls
  BY <1>4 DEF Completing
<1>6. todo' = [todo EXCEPT ![t] = w]
  BY <1>1 DEF w
<1>7. /\ Moves(todo, todo', t) /\ todo'[t] = w /\ todo' \in [Threads -> Seq(SendOps)]
      /\ Lists(todo') /\ Inside(todo', sendLock)
      /\ Pooled(todo', live, issueRef, mConnected, sendLock, Free)
      /\ Managed(todo', mLock, accepting) /\ CountsInv'
  <2>1. w[1].call \notin Returns
    BY <1>5 DEF ServiceCalls, Returns
  <2>2. Set(todo, t, w) /\ UNCHANGED <<mRefCount, live, issueRef>> /\ todo[t] = <<>>
    BY <1>1, <1>6, <1>u DEF Set
  <2>3. /\ w \in Seq(SendOps) /\ w # <<>> /\ Listed(w) /\ Backed(w)
        /\ \A i \in 1 .. Len(w) : w[i].call \notin LockCalls
    BY <1>5
  <2> QED BY <1>2, <2>1, <2>2, <2>3, TakeFrame
<1>8. Owned(todo', live, kernel \ {c})
  <2>1. Held(todo[t]) = {} /\ Held(todo'[t]) = {c}
    BY <1>1, <1>5, <1>7, NothingListed
  <2>2. Owned(todo, live, kernel) /\ Moves(todo, todo', t)
    BY <1>7 DEF SendInv, SendStructured, PoolStructure
  <2> QED BY <1>2, <1>3, <2>1, <2>2, OwnedTaken
<1>9. SendStructured'
  BY <1>1, <1>7, <1>8, <1>u DEF SendStructured, PoolStructure
<1>10. ConnInv'
  <2>1. ASSUME NEW s \in Sessions
        PROVE  ConnAt([todo EXCEPT ![t] = w], kernel \ {c}, issueRef, mConnected, s)
    <3>1. ConnAt(todo, kernel, issueRef, mConnected, s)
      BY SessionFacts
    <3>2. Starts(w, ConnCalls, s) => OfIO(c, ConnIO, s)
      BY <1>5 DEF Starts, ConnCalls, OfIO
    <3>3. Alone(todo, kernel, s, ConnIO, ConnCalls)
      BY <3>1 DEF ConnAt
    <3>4. /\ Alone([todo EXCEPT ![t] = w], kernel \ {c}, s, ConnIO, ConnCalls)
          /\ Token([todo EXCEPT ![t] = w], kernel \ {c}, s, ConnIO, ConnCalls) =>
               Token(todo, kernel, s, ConnIO, ConnCalls)
      BY <1>2, <1>3, <3>2, <3>3, AloneTaken
    <3> QED BY <3>1, <3>4 DEF ConnAt
  <2> QED BY <1>1, <1>6, <1>u, <2>1 DEF ConnInv
<1>11. SendsInv'
  <2>1. ASSUME NEW s \in Sessions
        PROVE  SendAt(todo', kernel', mSendPendingCount, s)
    <3>1. SendAt(todo, kernel, mSendPendingCount, s)
      BY SessionFacts
    <3>2. Starts(w, SendDone, s) => OfIO(c, SendIO, s)
      BY <1>5 DEF Starts, SendDone, OfIO
    <3>3. Alone(todo, kernel, s, SendIO, SendDone)
      BY <3>1 DEF SendAt
    <3>4. /\ Alone([todo EXCEPT ![t] = w], kernel \ {c}, s, SendIO, SendDone)
          /\ Token([todo EXCEPT ![t] = w], kernel \ {c}, s, SendIO, SendDone) =>
               Token(todo, kernel, s, SendIO, SendDone)
      BY <1>2, <1>3, <3>2, <3>3, AloneTaken
    <3>5. /\ Alone(todo', kernel', s, SendIO, SendDone)
          /\ Token(todo', kernel', s, SendIO, SendDone) => Token(todo, kernel, s, SendIO, SendDone)
      BY <1>1, <1>6, <3>4
    <3>6. ASSUME NEW u \in Threads, Starts(todo[u], {"CountSend"}, s)
          PROVE  Starts(todo'[u], {"CountSend"}, s)
      BY <1>1, <1>7, <3>6 DEF Starts, Moves
    <3>7. ASSUME NEW u \in Threads, Starts(todo'[u], {"WSASend"}, s)
          PROVE  Starts(todo[u], {"WSASend"}, s)
      <4>1. CASE u = t
        <5>1. w[1].call = "WSASend"
          BY <1>7, <3>7, <4>1 DEF Starts
        <5> QED BY <1>5, <5>1 DEF ServiceCalls
      <4>2. CASE u # t
        BY <1>7, <3>7, <4>2 DEF Moves
      <4> QED BY <4>1, <4>2
    <3> QED BY <3>1, <3>5, <3>6, <3>7 DEF SendAt
  <2> QED BY <1>u, <2>1 DEF SendsInv
<1>12. BufferInv'
  <2>1. \A s \in Sessions : Sending(s)' # {} => Sending(s) # {}
    BY <1>1 DEF Sending
  <2> QED BY <1>u, <2>1 DEF SendInv, BufferInv
<1>13. SendTypes' /\ PoolAccounting'
  BY <1>1, <1>3, <1>7, <1>u DEF SendInv, SendTypes, TypeInv, PoolAccounting, Issued
<1> QED BY <1>7, <1>9, <1>10, <1>11, <1>12, <1>13 DEF SendInv

LEMMA SendJobStep ==
  ASSUME SendInv, NEW t \in Workers, DoSendJob(t)
  PROVE  SendInv'
<1> DEFINE s == Head(sendList[t])
           o == Op("FlushSend", s)
           w == <<o>>
<1>1. /\ todo[t] = <<>> /\ sendList[t] # <<>> /\ todo' = [todo EXCEPT ![t] = w]
      /\ sendList' = [sendList EXCEPT ![t] = Tail(sendList[t])]
      /\ stored' = stored /\ sendLock' = sendLock
      /\ mSendPendingCount' = mSendPendingCount /\ inFlight' = inFlight
      /\ mConnected' = mConnected /\ issueRef' = issueRef /\ mRefCount' = mRefCount
      /\ mFreeSessionList' = mFreeSessionList /\ mCurrentIssueCount' = mCurrentIssueCount
      /\ mCurrentReturnCount' = mCurrentReturnCount /\ mLock' = mLock /\ Free' = Free
      /\ live' = live /\ kernel' = kernel /\ accepting' = accepting /\ crashed' = crashed
      /\ associated' = associated /\ completionOk' = completionOk
  BY DEF DoSendJob, Set, PoolUnchanged, sessionVars, managerVars, contextVars, Free
<1>2. /\ t \in Threads /\ t # Main
  BY SessionPoolAssumption DEF Threads
<1>3. /\ live \in SUBSET Contexts /\ kernel \in SUBSET live
      /\ sendList \in [Threads -> Seq(Sessions)] /\ DOMAIN todo = Threads
  BY DEF SendInv, SendTypes, TypeInv
<1>4. s \in Sessions /\ Tail(sendList[t]) \in Seq(Sessions)
  <2>1. sendList[t] \in Seq(Sessions)
    BY <1>2, <1>3
  <2> QED BY <1>1, <2>1
<1>5. sendList' \in [Threads -> Seq(Sessions)]
  BY <1>1, <1>3, <1>4
<1>6. o \in SendOps /\ o.call = "FlushSend" /\ o.obj = s
  BY <1>4 DEF Op, SendOps, SendCalls
<1> HIDE DEF o
<1>7. /\ w \in Seq(SendOps) /\ w # <<>> /\ w[1] = o /\ Len(w) = 1
      /\ \A i \in 1 .. Len(w) : w[i] = o
      /\ \A i \in 2 .. Len(w) : FALSE
  BY <1>6
<1> HIDE DEF w
<1>8. Listed(w) /\ Held(w) = {}
  <2>1. Typed(o) /\ o.call \notin {"DeleteIoContext", "SessionReset", "FlushUnlock",
                                   "ResetSendBuffer", "ReturnToPool"}
    BY <1>4, <1>6 DEF Typed
  <2>2. /\ \A i \in 1 .. Len(w) : Typed(w[i])
        /\ \A i \in 2 .. Len(w) : w[i].call \in PlainCalls
        /\ w # <<>> => w[1].call \notin {"DeleteIoContext", "SessionReset", "FlushUnlock",
                                         "ResetSendBuffer", "ReturnToPool"}
    BY <1>7, <2>1
  <2> QED BY <1>7, <2>2, PlainListed
<1>9. Backed(w)
  BY <1>6, <1>7 DEF Backed, RefCalls
<1>10. /\ Moves(todo, todo', t) /\ todo'[t] = w /\ todo' \in [Threads -> Seq(SendOps)]
       /\ Lists(todo') /\ Inside(todo', sendLock)
       /\ Pooled(todo', live, issueRef, mConnected, sendLock, Free)
       /\ Managed(todo', mLock, accepting) /\ CountsInv'
  <2>1. w[1].call \notin Returns /\ \A i \in 1 .. Len(w) : w[i].call \notin LockCalls
    BY <1>6, <1>7 DEF LockCalls, Returns
  <2>2. Set(todo, t, w) /\ UNCHANGED <<mRefCount, live, issueRef>> /\ todo[t] = <<>>
    BY <1>1 DEF Set
  <2>3. w \in Seq(SendOps) /\ w # <<>>
    BY <1>7
  <2> QED BY <1>2, <1>8, <1>9, <2>1, <2>2, <2>3, TakeFrame
<1>11. Owned(todo', live, kernel)
  <2>1. Held(todo'[t]) = (Held(todo[t]) \ {}) \cup {} /\ {} \in SUBSET Held(todo[t])
    BY <1>1, <1>8, <1>10, NothingListed
  <2>2. Owned(todo, live, kernel) /\ Moves(todo, todo', t)
    BY <1>10 DEF SendInv, SendStructured, PoolStructure
  <2>3. {} \cap {} = {} /\ ({} \cup {}) \cap live = {}
    OBVIOUS
  <2>4. Owned(todo', (live \ {}) \cup {} \cup {}, kernel \cup {})
    BY <1>2, <1>3, <2>1, <2>2, <2>3, OwnedServed
  <2>5. (live \ {}) \cup {} \cup {} = live /\ kernel \cup {} = kernel
    OBVIOUS
  <2> QED BY <2>4, <2>5
<1>12. SendStructured'
  BY <1>1, <1>10, <1>11 DEF SendStructured, PoolStructure
<1>13. /\ \A r : /\ ~ Starts(w, SendDone, r) /\ ~ Starts(w, {"WSASend"}, r)
                 /\ ~ Starts(w, ConnCalls, r)
       /\ \A r \in Sessions : ~ Starts(todo[t], {"CountSend"}, r)
  BY <1>1, <1>6, <1>7 DEF Starts, SendDone, ConnCalls
<1>14. ConnInv'
  <2>1. /\ \A e \in kernel' \ kernel : e.io \notin ConnIO
        /\ \A r \in Sessions : mConnected'[r] = mConnected[r] \/ mConnected'[r] = 0
    BY <1>1
  <2> QED BY <1>1, <1>2, <1>13, <2>1, ConnSame
<1>15. SendsInv'
  <2>1. \A e \in kernel' \ kernel : e.io \notin SendIO
    BY <1>1
  <2> QED BY <1>1, <1>2, <1>13, <2>1, SendsSame
<1>16. BufferInv'
  BY <1>1 DEF SendInv, BufferInv, Sending
<1>17. SendTypes' /\ PoolAccounting'
  BY <1>1, <1>5, <1>10 DEF SendInv, SendTypes, TypeInv, PoolAccounting, Issued
<1> QED BY <1>10, <1>12, <1>14, <1>15, <1>16, <1>17 DEF SendInv

-----------------------------------------------------------------------------
(***************************************************************************)
(* AcceptClientSessions.                                                   *)
(***************************************************************************)
\* The invariant, when only the manager's lock and the main thread's place move.
LEMMA ManagerMoved ==
  ASSUME SendInv, Managed(todo, mLock', accepting'), mLock' \in Threads \cup {NoThread},
         accepting' \in {"Sleep", "Loop", "Failed", "Stopped"},
         UNCHANGED <<sessionVars, mFreeSessionList, mCurrentIssueCount,
                     mCurrentReturnCount, contextVars, threadVars, issueRef, crashed>>,
         UNCHANGED sendVars
  PROVE  SendInv'
<1>1. /\ todo' = todo /\ live' = live /\ kernel' = kernel /\ issueRef' = issueRef
      /\ mConnected' = mConnected /\ mRefCount' = mRefCount /\ associated' = associated
      /\ mFreeSessionList' = mFreeSessionList /\ Free' = Free
      /\ mCurrentIssueCount' = mCurrentIssueCount
      /\ mCurrentReturnCount' = mCurrentReturnCount
      /\ completionOk' = completionOk /\ crashed' = crashed
  BY DEF threadVars, contextVars, sessionVars, Free
<1>2. /\ sendLock' = sendLock /\ mSendPendingCount' = mSendPendingCount
      /\ stored' = stored /\ inFlight' = inFlight /\ sendList' = sendList
  BY DEF sendVars
<1>3. SendStructured'
  BY <1>1, <1>2 DEF SendInv, SendStructured, PoolStructure
<1>4. SendTypes'
  BY <1>1, <1>2 DEF SendInv, SendTypes, TypeInv
<1>5. ConnInv' /\ SendsInv'
  BY <1>1, <1>2 DEF SendInv, ConnInv, SendsInv
<1>6. CountsInv' /\ PoolAccounting' /\ BufferInv'
  BY <1>1, <1>2 DEF SendInv, CountsInv, Overwritten, PoolAccounting, Issued, BufferInv, Sending
<1> QED BY <1>3, <1>4, <1>5, <1>6 DEF SendInv

\* The main thread enters mLock, and leaves it.
LEMMA LockedAccept ==
  ASSUME SendInv, AcceptLock, UNCHANGED sendVars
  PROVE  SendInv'
<1>1. /\ accepting = "Sleep" /\ mLock = NoThread /\ mLock' = Main /\ accepting' = "Loop"
      /\ UNCHANGED <<sessionVars, mFreeSessionList, mCurrentIssueCount,
                     mCurrentReturnCount, contextVars, threadVars, issueRef, crashed>>
  BY DEF AcceptLock
<1>2. Managed(todo, mLock, accepting) /\ Main \in Threads
  BY MainThread DEF SendInv, SendStructured, PoolStructure
<1>3. \A t \in Threads, s \in Sessions : ~ Starts(todo[t], Past, s)
  BY <1>1, ManagerFacts
<1>4. Managed(todo, mLock', accepting')
  BY <1>1, <1>2, <1>3 DEF Managed
<1> QED BY <1>1, <1>2, <1>4, ManagerMoved

LEMMA UnlockedAccept ==
  ASSUME SendInv, AcceptUnlock, UNCHANGED sendVars
  PROVE  SendInv'
<1>1. /\ \/ accepting = "Loop" /\ accepting' = "Sleep"
         \/ accepting = "Failed" /\ todo[Main] = <<>> /\ accepting' = "Stopped"
      /\ mLock' = NoThread
      /\ UNCHANGED <<sessionVars, mFreeSessionList, mCurrentIssueCount,
                     mCurrentReturnCount, contextVars, threadVars, issueRef, crashed>>
  BY DEF AcceptUnlock
<1>2. Managed(todo, mLock, accepting)
  BY DEF SendInv, SendStructured, PoolStructure
<1>3. mLock = Main /\ todo[Main] = <<>>
  BY <1>1, <1>2 DEF Managed
<1>4. \A t \in Threads, s \in Sessions : ~ Starts(todo[t], Past, s)
  BY <1>3, ManagerFacts
<1>5. Managed(todo, mLock', accepting')
  BY <1>1, <1>3, <1>4 DEF Managed
<1> QED BY <1>1, <1>5, ManagerMoved

\* The session that is issued is the last of the free list, and bare; there is a
\* context for its accept.
LEMMA SessionTaken ==
  ASSUME SendInv, AcceptIssue
  PROVE  LET s == Last(mFreeSessionList)
             c == NewContext(s, "IO_ACCEPT")
         IN  /\ s \in Sessions /\ s \in Free
             /\ Bare(todo, live, issueRef, mConnected, sendLock, s)
             /\ mFreeSessionList' \in Seq(Sessions) /\ IsInjective(mFreeSessionList')
             /\ Len(mFreeSessionList') = Len(mFreeSessionList) - 1
             /\ Free' = Free \ {s}
             /\ c \in Contexts /\ c \notin live /\ c.session = s /\ c.io = "IO_ACCEPT"
<1> DEFINE f == mFreeSessionList
           s == Last(f)
           c == NewContext(s, "IO_ACCEPT")
<1>3. Issued < Cardinality(Sessions) /\ f' = Front(f)
  BY DEF AcceptIssue
<1>4. f # <<>> /\ f \in Seq(Sessions) /\ IsInjective(f)
  <2>1. Len(f) # 0
    <3>1. /\ Issued \in 0 .. CounterModulus - 1 /\ CounterModulus \in Nat \ {0}
          /\ Cardinality(Sessions) \in Nat /\ Len(f) = Cardinality(Sessions) - Issued
      BY PoolList
    <3> QED BY <1>3, <3>1
  <2> QED BY <2>1, PoolList, Empty
<1>5. /\ s \in Sessions /\ s \in Free
      /\ f' \in Seq(Sessions) /\ IsInjective(f') /\ Len(f') = Len(f) - 1
      /\ Free' = Free \ {s}
  <2>2. /\ s \in Sessions /\ \E i \in DOMAIN f : f[i] = s
        /\ Front(f) \in Seq(Sessions) /\ IsInjective(Front(f)) /\ Len(Front(f)) = Len(f) - 1
        /\ \A u : (\E i \in DOMAIN Front(f) : Front(f)[i] = u)
                    <=> u # s /\ \E i \in DOMAIN f : f[i] = u
    BY <1>4, ListFront
  <2> HIDE DEF s
  <2>3. /\ f' \in Seq(Sessions) /\ IsInjective(f') /\ Len(f') = Len(f) - 1
        /\ \A u : (\E i \in DOMAIN f' : f'[i] = u)
                    <=> u # s /\ \E i \in DOMAIN f : f[i] = u
    BY <1>3, <2>2
  <2>4. Free' = Free \ {s}
    BY <2>3 DEF Free
  <2> QED BY <2>2, <2>3, <2>4 DEF Free
<1> HIDE DEF s
<1>6. Bare(todo, live, issueRef, mConnected, sendLock, s)
  BY <1>5 DEF SendInv, SendStructured, PoolStructure, Pooled
<1>7. HasNewContext(s, "IO_ACCEPT")
  <2>1. PICK k \in Slots : TRUE
    BY SessionPoolAssumption
  <2> DEFINE e == [session |-> s, io |-> "IO_ACCEPT", slot |-> k]
  <2>2. e \in Contexts /\ e.session = s /\ e.io = "IO_ACCEPT"
    BY <1>5 DEF Contexts, IOTypes
  <2>3. e \notin live
    BY <1>6, <2>2 DEF Bare
  <2> QED BY <2>2, <2>3 DEF HasNewContext
<1>8. c \in Contexts /\ c \notin live /\ c.session = s /\ c.io = "IO_ACCEPT"
  BY <1>5, <1>7, Fresh
<1> QED BY <1>5, <1>6, <1>8 DEF s

\* The counters when a session is issued.
LEMMA ListTaken ==
  ASSUME SendInv, Issued < Cardinality(Sessions),
         IsInjective(mFreeSessionList'), Len(mFreeSessionList') = Len(mFreeSessionList) - 1,
         mCurrentIssueCount' = (mCurrentIssueCount + 1) % CounterModulus,
         mCurrentReturnCount' = mCurrentReturnCount
  PROVE  mCurrentIssueCount' \in 0 .. CounterModulus - 1 /\ PoolAccounting'
<1>1. /\ mCurrentIssueCount \in 0 .. CounterModulus - 1
      /\ mCurrentReturnCount \in 0 .. CounterModulus - 1
      /\ CounterModulus \in Nat \ {0}
      /\ Cardinality(Sessions) \in Nat /\ Cardinality(Sessions) < CounterModulus
      /\ Issued \in 0 .. CounterModulus - 1
      /\ Len(mFreeSessionList) = Cardinality(Sessions) - Issued
  BY PoolList
<1>2. mCurrentIssueCount' \in 0 .. CounterModulus - 1 /\ Issued' = Issued + 1
  <2>2. (mCurrentIssueCount + 1) % CounterModulus \in 0 .. CounterModulus - 1
    BY <1>1, Modulus
  <2>3. Issued + 1 < CounterModulus
    BY <1>1
  <2>4. ((mCurrentIssueCount - mCurrentReturnCount) % CounterModulus) + 1 < CounterModulus
    BY <2>3 DEF Issued
  <2>5. (((mCurrentIssueCount + 1) % CounterModulus) - mCurrentReturnCount) % CounterModulus
          = ((mCurrentIssueCount - mCurrentReturnCount) % CounterModulus) + 1
    BY <1>1, <2>4, Modulus
  <2>6. Issued' = (((mCurrentIssueCount + 1) % CounterModulus) - mCurrentReturnCount)
                    % CounterModulus
    <3>1. Issued' = (mCurrentIssueCount' - mCurrentReturnCount') % CounterModulus
      BY DEF Issued
    <3>2. /\ mCurrentIssueCount' = (mCurrentIssueCount + 1) % CounterModulus
          /\ mCurrentReturnCount' = mCurrentReturnCount
      OBVIOUS
    <3> QED BY <3>1, <3>2, Zenon
  <2> QED BY <2>2, <2>5, <2>6 DEF Issued
<1>3. PICK m \in Nat, i \in Nat :
        m = Cardinality(Sessions) /\ i = Issued /\ Len(mFreeSessionList) = m - i
  BY <1>1
<1>4. Len(mFreeSessionList') = m - Issued'
  BY <1>2, <1>3
<1> QED BY <1>2, <1>3, <1>4 DEF PoolAccounting

\* Session s leaves the free list; t, which returns nothing, moves.
LEMMA PooledTaken ==
  ASSUME NEW T, NEW L, NEW I, NEW C, NEW SL, NEW F \in SUBSET Sessions,
         Pooled(T, L, I, C, SL, F), NEW s \in F,
         \A u \in Threads : ~ Starts(T[u], Resets, s),
         NEW t \in Threads, NEW U, Moves(T, U, t), \A r : ~ Starts(U[t], Returns, r),
         NEW M, NEW J,
         \A r \in Sessions \ {s} : Bare(T, L, I, C, SL, r) => Bare(U, M, J, C, SL, r)
  PROVE  Pooled(U, M, J, C, SL, F \ {s})
<1>1. \A r : ~ Starts(U[t], Resets, r) /\ ~ Starts(U[t], {"ReturnToPool"}, r)
  BY DEF Starts, Returns, Resets
<1>2. ASSUME NEW r, NEW u \in Threads
      PROVE  /\ Starts(U[u], Returns, r) => u # t /\ U[u] = T[u]
             /\ Starts(U[u], Resets, r) => u # t /\ U[u] = T[u]
             /\ Starts(U[u], {"ReturnToPool"}, r) => u # t /\ U[u] = T[u]
  BY <1>1 DEF Moves
<1>3. \A r \in F \ {s} : Bare(U, M, J, C, SL, r)
  BY DEF Pooled
<1>4. ASSUME NEW r \in Sessions, NEW u \in Threads, Retiring(U, SL, u, r)
      PROVE  /\ Bare(U, M, J, C, SL, r) /\ r \notin F \ {s}
             /\ \A v \in Threads : Retiring(U, SL, v, r) => v = u
  <2>1. Retiring(T, SL, u, r)
    BY <1>2, <1>4 DEF Retiring
  <2>2. /\ Bare(T, L, I, C, SL, r) /\ r \notin F
        /\ \A v \in Threads : Retiring(T, SL, v, r) => v = u
    BY <2>1 DEF Pooled
  <2>3. \A v \in Threads : Retiring(U, SL, v, r) => Retiring(T, SL, v, r)
    BY <1>2 DEF Retiring
  <2> QED BY <2>2, <2>3
<1>5. ASSUME NEW r \in Sessions, NEW u \in Threads, Starts(U[u], Resets, r)
      PROVE  Bare(U, M, J, C, SL, r)
  <2>1. Starts(T[u], Resets, r)
    BY <1>2, <1>5
  <2> QED BY <2>1 DEF Pooled
<1>6. ASSUME NEW r \in Sessions, NEW u \in Threads, Starts(U[u], {"ReturnToPool"}, r)
      PROVE  SL[r] # u
  <2>1. Starts(T[u], {"ReturnToPool"}, r)
    BY <1>2, <1>6
  <2> QED BY <2>1 DEF Pooled
<1> QED BY <1>3, <1>4, <1>5, <1>6 DEF Pooled

\* The list of the main thread: empty, or the deletion of the context.
Giving(w, c, h) ==
  /\ w \in Seq(SendOps) /\ Listed(w) /\ Backed(w) /\ Held(w) = h
  /\ \A i \in 1 .. Len(w) : w[i].call = "DeleteIoContext"
  /\ w # <<>> => w[1].call = "DeleteIoContext"
  /\ h = {} \/ h = {c}

LEMMA GivenOps ==
  ASSUME NEW c \in Contexts
  PROVE  Giving(<<>>, c, {}) /\ Giving(<<Op("DeleteIoContext", c)>>, c, {c})
<1>1. Giving(<<>>, c, {})
  BY NothingListed DEF Giving
<1> DEFINE o == Op("DeleteIoContext", c)
           ops == <<o>>
<1>2. o \in SendOps /\ o.call = "DeleteIoContext" /\ o.obj = c
  BY DEF Op, SendOps, OpCalls
<1> HIDE DEF o
<1>3. /\ ops \in Seq(SendOps) /\ ops[1] = o /\ Len(ops) = 1 /\ ops # <<>>
      /\ \A i \in 1 .. Len(ops) : ops[i] = o
      /\ 2 .. Len(ops) = {} /\ 1 .. Len(ops) - 1 = {} /\ 1 \in 1 .. Len(ops)
      /\ \A i, j \in 1 .. Len(ops) : ~ (i < j)
  BY <1>2
<1> HIDE DEF ops
<1>4. Typed(o)
  BY <1>2 DEF Typed
<1>5. Listed(ops)
  BY <1>2, <1>3, <1>4 DEF Listed
<1>6. Held(ops) = {c}
  BY <1>2, <1>3 DEF Held, IsOp
<1>7. Backed(ops)
  BY <1>2, <1>3 DEF Backed, RefCalls
<1>8. Giving(ops, c, {c})
  BY <1>2, <1>3, <1>5, <1>6, <1>7 DEF Giving
<1> QED BY <1>1, <1>8 DEF ops, o

\* The structure when session s is issued with context c: c is in the kernel, or the
\* main thread deletes it.
LEMMA IssuedStructure ==
  ASSUME SendInv, accepting = "Loop",
         NEW s \in Free, NEW c \in Contexts, c \notin live, c.session = s,
         NEW w, NEW h, Giving(w, c, h), NEW P, P \cup h = {c}, P \cap h = {},
         Set(todo, Main, w), NEW a, a = "Failed" \/ (a = accepting /\ w = <<>>)
  PROVE  /\ todo' \in [Threads -> Seq(SendOps)] /\ Moves(todo, todo', Main)
         /\ todo'[Main] = w
         /\ PoolStructure(todo', live \cup {c}, kernel \cup P, issueRef \cup {s}, mConnected,
                          sendLock, Free \ {s}, mLock, a)
<1>1. /\ Main \in Threads /\ todo \in [Threads -> Seq(SendOps)] /\ Free \in SUBSET Sessions
      /\ live \in SUBSET Contexts /\ kernel \in SUBSET live /\ s \in Sessions
  BY MainThread, FreeSessions DEF SendInv, SendTypes, TypeInv
<1>2. /\ Lists(todo) /\ Inside(todo, sendLock) /\ Owned(todo, live, kernel)
      /\ Pooled(todo, live, issueRef, mConnected, sendLock, Free)
      /\ Managed(todo, mLock, accepting)
  BY DEF SendInv, SendStructured, PoolStructure
<1>3. /\ w \in Seq(SendOps) /\ Listed(w) /\ Backed(w) /\ Held(w) = h
      /\ \A i \in 1 .. Len(w) : w[i].call = "DeleteIoContext"
      /\ w # <<>> => w[1].call = "DeleteIoContext"
      /\ h = {} \/ h = {c}
  BY DEF Giving
<1>4. todo' \in [Threads -> Seq(SendOps)] /\ Moves(todo, todo', Main) /\ todo'[Main] = w
  BY <1>1, <1>3 DEF Moves, Set
<1>5. mLock = Main /\ todo[Main] = <<>>
  BY <1>2 DEF Managed
<1>6. Lists(todo')
  BY <1>2, <1>3, <1>4 DEF Lists, Moves
<1>7. Inside(todo', sendLock)
  <2>1. \A i \in 1 .. Len(todo'[Main]) :
          todo'[Main][i].call \in LockCalls => sendLock[todo'[Main][i].obj] = Main
    BY <1>3, <1>4 DEF LockCalls
  <2> QED BY <1>1, <1>2, <1>4, <2>1, InsideSame
<1>8. Owned(todo', live \cup {c}, kernel \cup P)
  <2>1. /\ P \cap h = {} /\ (P \cup h) \cap live = {} /\ {} \in SUBSET Held(todo[Main])
        /\ Held(todo'[Main]) = (Held(todo[Main]) \ {}) \cup h
    BY <1>3, <1>4, <1>5, NothingListed
  <2>2. Owned(todo', (live \ {}) \cup P \cup h, kernel \cup P)
    BY <1>1, <1>2, <1>4, <2>1, OwnedServed
  <2>3. (live \ {}) \cup P \cup h = live \cup {c}
    OBVIOUS
  <2> QED BY <2>2, <2>3
<1>9. \A r : /\ ~ Starts(w, Returns, r) /\ ~ Starts(w, Past, r)
  BY <1>3 DEF Starts, Returns, Past
<1>10. Pooled(todo', live \cup {c}, issueRef \cup {s}, mConnected, sendLock, Free \ {s})
  <2> DEFINE M == live \cup {c}
             J == issueRef \cup {s}
  <2>1. ASSUME NEW r \in Sessions \ {s}, Bare(todo, live, issueRef, mConnected, sendLock, r)
        PROVE  Bare(todo', M, J, mConnected, sendLock, r)
    <3>1. /\ r \notin J /\ mConnected[r] = 0
          /\ sendLock[r] = sendLock[r] \/ sendLock[r] \in {NoThread, Main}
      BY <2>1 DEF Bare
    <3>2. \A d \in M : d.session = r =>
            \/ d \in live /\ ~ (todo[Main] # <<>> /\ IsOp(todo[Main][1], "DeleteIoContext", d))
            \/ d.io = "IO_SEND" /\ sendLock[r] = Main /\ todo'[Main] # <<>>
                 /\ IsOp(todo'[Main][1], "DeleteIoContext", d)
      BY <1>5
    <3> HIDE DEF M, J
    <3> QED BY <1>1, <1>4, <2>1, <3>1, <3>2, BareKept
  <2>2. \A u \in Threads : ~ Starts(todo[u], Resets, s)
    <3>1. ASSUME NEW u \in Threads, Starts(todo[u], Resets, s) PROVE FALSE
      <4>1. Starts(todo[u], Past, s)
        BY <3>1 DEF Starts, Resets, Past
      <4>2. mLock = u /\ u # Main
        BY <1>1, <4>1, ManagerFacts
      <4> QED BY <1>5, <4>2
    <3> QED BY <3>1
  <2>3. \A r : ~ Starts(todo'[Main], Returns, r)
    BY <1>4, <1>9
  <2> HIDE DEF M, J
  <2>4. Pooled(todo', M, J, mConnected, sendLock, Free \ {s})
    BY <1>1, <1>2, <1>4, <2>1, <2>2, <2>3, PooledTaken
  <2> QED BY <2>4 DEF M, J
<1>11. Managed(todo', mLock, a)
  <2>1. ASSUME NEW u \in Threads, NEW r \in Sessions, Starts(todo'[u], Past, r)
        PROVE  mLock = u /\ u # Main
    <3>1. u # Main
      BY <1>4, <1>9, <2>1
    <3>2. todo'[u] = todo[u]
      BY <1>4, <3>1 DEF Moves
    <3> QED BY <1>2, <2>1, <3>2 DEF Managed
  <2> QED BY <1>4, <1>5, <2>1 DEF Managed
<1> QED BY <1>4, <1>6, <1>7, <1>8, <1>10, <1>11 DEF PoolStructure

\* The tokens of session s, which is bare, when the context of its accept is made.
LEMMA IssuedTokens ==
  ASSUME SendInv, NEW s \in Sessions,
         Bare(todo, live, issueRef, mConnected, sendLock, s),
         NEW c, c.session = s, c.io = "IO_ACCEPT",
         NEW w, w # <<>> => w[1].call = "DeleteIoContext",
         todo[Main] = <<>>, Set(todo, Main, w),
         NEW P, P \subseteq {c}, kernel' = kernel \cup P,
         issueRef' = issueRef \cup {s}, mConnected' = mConnected,
         mSendPendingCount' = mSendPendingCount
  PROVE  ConnInv' /\ SendsInv'
<1>1. DOMAIN todo = Threads /\ Main \in Threads /\ todo' = [todo EXCEPT ![Main] = w]
  BY MainThread DEF SendInv, SendTypes, TypeInv, Set
<1>2. \A r : /\ ~ Starts(w, ConnCalls, r) /\ ~ Starts(w, SendDone, r)
             /\ ~ Starts(w, {"WSASend"}, r) /\ ~ Starts(todo[Main], {"CountSend"}, r)
  BY DEF Starts, ConnCalls, SendDone
<1>3. \A d \in kernel' \ kernel : d = c
  OBVIOUS
<1>4. mConnected[s] = 0 /\ s \notin issueRef
  BY DEF Bare
<1>5. ~ Token(todo, kernel, s, ConnIO, ConnCalls)
  BY <1>4, SessionFacts DEF ConnAt
<1>6. ASSUME NEW u \in Sessions
      PROVE  ConnAt(todo', kernel', issueRef', mConnected', u)
  <2>1. CASE u = s
    <3>1. Alone(todo', kernel', s, ConnIO, ConnCalls)
      BY <1>1, <1>2, <1>3, <1>5, AloneMade
    <3> QED BY <1>4, <2>1, <3>1 DEF ConnAt
  <2>2. CASE u # s
    <3> DEFINE K == kernel'
               J == issueRef'
    <3>1. ConnAt(todo, kernel, issueRef, mConnected, u)
      BY SessionFacts
    <3>2. \A d \in K \ kernel : OfIO(d, ConnIO, u) => FALSE
      BY <1>3, <2>2 DEF OfIO
    <3>3. u \in issueRef => u \in J
      OBVIOUS
    <3> HIDE DEF K, J
    <3>4. ConnAt([todo EXCEPT ![Main] = w], K, J, mConnected, u)
      BY <1>1, <1>2, <3>1, <3>2, <3>3, ConnKept
    <3> QED BY <1>1, <3>4 DEF K, J
  <2> QED BY <2>1, <2>2
<1>7. SendsInv'
  <2>1. \A d \in kernel' \ kernel : d.io \notin SendIO
    BY <1>3 DEF SendIO
  <2> QED BY <1>1, <1>2, <2>1, SendsSame
<1> QED BY <1>6, <1>7 DEF ConnInv

\* The counts when session s is issued: its accept context and the reference of the
\* issue.
LEMMA IssuedCounts ==
  ASSUME SendInv, mLock = Main, NEW s \in Sessions, s \notin issueRef,
         NEW c \in Contexts, c \notin live, c.session = s,
         mRefCount' = [mRefCount EXCEPT ![s] = mRefCount[s] + 2],
         live' = live \cup {c}, issueRef' = issueRef \cup {s}
  PROVE  CountsInv' /\ IsFiniteSet(live') /\ mRefCount' \in [Sessions -> Int]
<1>1. IsFiniteSet(live) /\ mRefCount \in [Sessions -> Int]
  BY DEF SendInv, SendTypes, TypeInv
<1>2. /\ IsFiniteSet(live')
      /\ \A u : Cardinality(LiveOf(live', u))
                  = Cardinality(LiveOf(live, u)) + (IF c.session = u THEN 1 ELSE 0)
  BY <1>1, CountNew
<1>3. ASSUME NEW u \in Sessions
      PROVE  mRefCount'[u] = Cardinality(LiveOf(live', u)) + (IF u \in issueRef' THEN 1 ELSE 0)
  <2>1. mRefCount[u] = Cardinality(LiveOf(live, u)) + (IF u \in issueRef THEN 1 ELSE 0)
    <3>1. ASSUME Starts(todo[Main], {"ResetSendBuffer"}, u) PROVE FALSE
      <4>1. Starts(todo[Main], Past, u)
        BY <3>1 DEF Starts, Past
      <4> QED BY <4>1, ManagerFacts, MainThread
    <3> QED BY <3>1, ExactCount, MainThread
  <2>2. PICK n \in Nat : n = Cardinality(LiveOf(live, u))
    BY LiveCount
  <2>3. CASE u = s
    <3>1. mRefCount'[u] = mRefCount[u] + 2 /\ u \in issueRef' /\ u \notin issueRef
      BY <1>1, <2>3
    <3>2. Cardinality(LiveOf(live', u)) = n + 1
      BY <1>2, <2>2, <2>3
    <3> QED BY <2>1, <2>2, <3>1, <3>2
  <2>4. CASE u # s
    <3>1. mRefCount'[u] = mRefCount[u] /\ (u \in issueRef' <=> u \in issueRef)
      BY <1>1, <2>4
    <3>2. Cardinality(LiveOf(live', u)) = Cardinality(LiveOf(live, u)) + 0
      BY <1>2, <2>4
    <3>3. n + 0 = n
      OBVIOUS
    <3> QED BY <2>1, <2>2, <3>1, <3>2, <3>3
  <2> QED BY <2>3, <2>4
<1>4. mRefCount' \in [Sessions -> Int]
  <2>1. mRefCount[s] + 2 \in Int
    BY <1>1
  <2> QED BY <1>1, <2>1
<1> QED BY <1>2, <1>3, <1>4 DEF CountsInv

\* AcceptClientSessions issues the last session of the free list, which is bare.
LEMMA IssuedAccept ==
  ASSUME SendInv, AcceptIssue, UNCHANGED sendVars
  PROVE  SendInv'
<1> DEFINE s == Last(mFreeSessionList)
           c == NewContext(s, "IO_ACCEPT")
           d == <<Op("DeleteIoContext", c)>>
<1>1. /\ accepting = "Loop" /\ Issued < Cardinality(Sessions)
      /\ mRefCount' = [mRefCount EXCEPT ![s] = mRefCount[s] + 2]
      /\ live' = live \cup {c}
      /\ issueRef' = issueRef \cup {s}
      /\ mCurrentIssueCount' = (mCurrentIssueCount + 1) % CounterModulus
      /\ UNCHANGED <<mConnected, associated, mCurrentReturnCount, mLock, completionOk, crashed>>
      /\ \/ kernel' = kernel \cup {c} /\ todo' = todo /\ accepting' = accepting
         \/ /\ todo' = [todo EXCEPT ![Main] = d]
            /\ accepting' = "Failed" /\ kernel' = kernel
  BY DEF AcceptIssue, Set
<1>2. /\ s \in Sessions /\ s \in Free
      /\ Bare(todo, live, issueRef, mConnected, sendLock, s)
      /\ mFreeSessionList' \in Seq(Sessions) /\ IsInjective(mFreeSessionList')
      /\ Len(mFreeSessionList') = Len(mFreeSessionList) - 1
      /\ Free' = Free \ {s}
      /\ c \in Contexts /\ c \notin live /\ c.session = s /\ c.io = "IO_ACCEPT"
  BY SessionTaken
<1> HIDE DEF s, c
<1>3. mLock = Main /\ todo[Main] = <<>> /\ Main \in Threads
  BY <1>1, MainThread DEF SendInv, SendStructured, PoolStructure, Managed
<1>4. Giving(<<>>, c, {}) /\ Giving(d, c, {c})
  BY <1>2, GivenOps
<1> HIDE DEF d
<1>5. PICK w, h, P :
        /\ Giving(w, c, h) /\ P \cup h = {c} /\ P \cap h = {}
        /\ todo' = [todo EXCEPT ![Main] = w] /\ kernel' = kernel \cup P
        /\ accepting' = "Failed" \/ (accepting' = accepting /\ w = <<>>)
  <2>1. CASE kernel' = kernel \cup {c} /\ todo' = todo /\ accepting' = accepting
    <3>1. todo' = [todo EXCEPT ![Main] = <<>>]
      <4>1. todo \in [Threads -> Seq(SendOps)]
        BY DEF SendInv, SendTypes, TypeInv
      <4> QED BY <1>3, <2>1, <4>1
    <3>2. {c} \cup {} = {c} /\ {c} \cap {} = {}
      OBVIOUS
    <3> QED BY <1>4, <2>1, <3>1, <3>2
  <2>2. CASE todo' = [todo EXCEPT ![Main] = d] /\ accepting' = "Failed" /\ kernel' = kernel
    <3>1. {} \cup {c} = {c} /\ {} \cap {c} = {} /\ kernel' = kernel \cup {}
      BY <2>2
    <3> QED BY <1>4, <2>2, <3>1
  <2> QED BY <1>1, <2>1, <2>2
<1>6. Set(todo, Main, w) /\ P \subseteq {c}
  BY <1>5 DEF Set
<1>7. /\ todo' \in [Threads -> Seq(SendOps)]
      /\ PoolStructure(todo', live \cup {c}, kernel \cup P, issueRef \cup {s}, mConnected,
                       sendLock, Free \ {s}, mLock, accepting')
  <2> DEFINE a == accepting'
  <2>1. /\ Set(todo, Main, w) /\ Giving(w, c, h) /\ P \cup h = {c} /\ P \cap h = {}
        /\ a = "Failed" \/ (a = accepting /\ w = <<>>)
    BY <1>5, <1>6
  <2>2. /\ accepting = "Loop" /\ s \in Free /\ c \in Contexts /\ c \notin live
        /\ c.session = s
    BY <1>1, <1>2
  <2> HIDE DEF a
  <2>3. /\ todo' \in [Threads -> Seq(SendOps)]
        /\ PoolStructure(todo', live \cup {c}, kernel \cup P, issueRef \cup {s}, mConnected,
                         sendLock, Free \ {s}, mLock, a)
    BY <2>1, <2>2, IssuedStructure
  <2> QED BY <2>3 DEF a
<1>u. /\ stored' = stored /\ sendList' = sendList /\ sendLock' = sendLock
      /\ mSendPendingCount' = mSendPendingCount /\ inFlight' = inFlight
  BY DEF sendVars
<1>8. SendStructured'
  BY <1>1, <1>2, <1>5, <1>7, <1>u DEF SendStructured
<1>9. ConnInv' /\ SendsInv'
  <2>1. w # <<>> => w[1].call = "DeleteIoContext"
    BY <1>5 DEF Giving
  <2>2. kernel' = kernel \cup P /\ issueRef' = issueRef \cup {s} /\ mConnected' = mConnected
    BY <1>1, <1>5
  <2> QED BY <1>2, <1>3, <1>6, <1>u, <2>1, <2>2, IssuedTokens
<1>10. CountsInv' /\ IsFiniteSet(live') /\ mRefCount' \in [Sessions -> Int]
  <2>1. s \notin issueRef
    BY <1>2 DEF Bare
  <2> QED BY <1>1, <1>2, <1>3, <2>1, IssuedCounts
<1>11. mCurrentIssueCount' \in 0 .. CounterModulus - 1 /\ PoolAccounting'
  BY <1>1, <1>2, ListTaken
<1>12. SendTypes'
  <2>1. accepting' \in {"Sleep", "Loop", "Failed", "Stopped"}
    BY <1>1, <1>5
  <2>2. /\ TypeInv(SendOps) /\ sendLock \in [Sessions -> Threads \cup {NoThread}]
        /\ mSendPendingCount \in [Sessions -> Nat]
        /\ stored \in [Sessions -> Nat] /\ inFlight \in [Sessions -> Nat]
        /\ sendList \in [Threads -> Seq(Sessions)]
    BY DEF SendInv, SendTypes
  <2>3. kernel' \subseteq live' /\ live' \subseteq Contexts /\ issueRef' \subseteq Sessions
    BY <1>1, <1>2, <1>5, <1>6, <2>2 DEF TypeInv
  <2>4. TypeInv(SendOps)'
    BY <1>1, <1>2, <1>7, <1>10, <1>11, <2>1, <2>2, <2>3 DEF TypeInv
  <2> QED BY <1>u, <2>2, <2>4 DEF SendTypes
<1>13. BufferInv'
  <2>1. \A u \in Sessions : Sending(u)' = Sending(u)
    BY <1>2, <1>5, <1>6 DEF Sending
  <2> QED BY <1>u, <2>1 DEF SendInv, BufferInv
<1> QED BY <1>8, <1>9, <1>10, <1>11, <1>12, <1>13 DEF SendInv

-----------------------------------------------------------------------------
(***************************************************************************)
(* What the invariant says of the sends.                                   *)
(***************************************************************************)
\* One send of a session is in the kernel, and the buffer holds what it reads.
LEMMA SendsStored ==
  ASSUME SendInv
  PROVE  OneSendInFlight /\ InFlightIsStored
<1>1. ASSUME NEW s \in Sessions
      PROVE  Cardinality(Sending(s)) <= 1
  <2>1. Alone(todo, kernel, s, SendIO, SendDone)
    BY SessionFacts DEF SendAt
  <2>2. \A c, d \in Sending(s) : c = d
    BY <2>1 DEF Alone, Sending, OfIO, SendIO
  <2>3. CASE Sending(s) = {}
    <3>1. Cardinality({}) = 0
      BY FS_EmptySet
    <3> QED BY <2>3, <3>1
  <2>4. CASE Sending(s) # {}
    <3>1. PICK c \in Sending(s) : TRUE
      BY <2>4
    <3>2. Sending(s) = {c}
      BY <2>2, <3>1
    <3>3. Cardinality({c}) = 1
      BY FS_Singleton
    <3> QED BY <3>2, <3>3
  <2> QED BY <2>3, <2>4
<1>2. ASSUME NEW s \in Sessions, Sending(s) # {}
      PROVE  1 <= inFlight[s] /\ inFlight[s] <= stored[s]
  <2>1. inFlight[s] >= 1 /\ inFlight[s] \in Nat /\ inFlight[s] <= stored[s]
    BY <1>2, SessionFacts DEF SendInv, BufferInv
  <2> QED BY <2>1
<1> QED BY <1>1, <1>2 DEF OneSendInFlight, InFlightIsStored

\* A pending call of a reset is of the return that the thread makes now.
LEMMA ResetPending ==
  ASSUME SendInv, NEW t \in Threads, NEW i \in 1 .. Len(todo[t]),
         todo[t][i].call \in Past, NEW s, s = todo[t][i].obj
  PROVE  /\ Starts(todo[t], Past, s)
         /\ todo[t][i].call \in Resets => Starts(todo[t], Resets, s)
<1> DEFINE q == todo[t]
<1>1. q \in Seq(SendOps)
  BY DEF SendInv, SendTypes, TypeInv
<1>2. Listed(q)
  BY DEF SendInv, SendStructured, PoolStructure, Lists
<1> HIDE DEF q
<1>3. Len(q) \in Nat /\ i \in 1 .. Len(q) /\ q # <<>>
  BY <1>1, Empty DEF q
<1>4. ASSUME NEW j \in 1 .. Len(q), q[j].call \in {"ReturnAssert", "SessionReset"}
      PROVE  j = 1
  <2>1. ASSUME j # 1 PROVE FALSE
    <3>1. j \in 2 .. Len(q)
      BY <1>3, <2>1
    <3> QED BY <1>2, <1>4, <3>1 DEF Listed, BehindCalls
  <2> QED BY <2>1
<1>5. ASSUME NEW j \in 1 .. Len(q), j # 1
      PROVE  /\ j - 1 \in 1 .. Len(q) - 1 /\ j - 1 \in 1 .. Len(q)
             /\ Precedes(q[j - 1], q[j])
  <2>1. /\ j - 1 \in 1 .. Len(q) - 1 /\ j - 1 \in 1 .. Len(q) /\ (j - 1) + 1 = j
    BY <1>3, <1>5
  <2> QED BY <1>2, <2>1 DEF Listed
<1>6. ASSUME NEW j \in 1 .. Len(q), q[j].call = "ResetSendBuffer"
      PROVE  Starts(q, Resets, q[j].obj)
  <2>1. CASE j = 1
    BY <1>3, <1>6, <2>1 DEF Starts, Resets
  <2>2. CASE j # 1
    <3>1. q[j - 1].call = "SessionReset" /\ q[j - 1].obj = q[j].obj
      BY <1>5, <1>6, <2>2 DEF Precedes, IsOp
    <3>2. j - 1 = 1
      BY <1>4, <1>5, <2>2, <3>1
    <3> QED BY <1>3, <3>1, <3>2 DEF Starts, Resets
  <2> QED BY <2>1, <2>2
<1>7. ASSUME NEW j \in 1 .. Len(q), q[j].call = "ReturnToPool"
      PROVE  Starts(q, Resets, q[j].obj)
  <2>1. CASE j = 1
    BY <1>3, <1>7, <2>1 DEF Starts, Resets
  <2>2. CASE j # 1
    <3>1. q[j - 1].call = "ResetSendBuffer" /\ q[j - 1].obj = q[j].obj
      BY <1>5, <1>7, <2>2 DEF Precedes, IsOp
    <3>2. Starts(q, Resets, q[j - 1].obj)
      BY <1>5, <1>6, <2>2, <3>1
    <3> QED BY <3>1, <3>2
  <2> QED BY <2>1, <2>2
<1>8. q[i].call \in {"ReturnAssert", "SessionReset"} => i = 1
  BY <1>3, <1>4
<1>9. q[i].call \in {"ResetSendBuffer", "ReturnToPool"} => Starts(q, Resets, s)
  BY <1>3, <1>6, <1>7 DEF q
<1>10. q[i].call \in Past /\ s = q[i].obj
  BY DEF q
<1>11. Starts(q, Past, s) /\ (q[i].call \in Resets => Starts(q, Resets, s))
  BY <1>3, <1>8, <1>9, <1>10 DEF Starts, Past, Resets
<1> QED BY <1>11 DEF q

\* Nothing overlaps with a reset but calls that need no reference, and what a flush
\* that has failed goes on to.
LEMMA SendsOverlap ==
  ASSUME SendInv
  PROVE  OnlySendsOverlap
<1> SUFFICES ASSUME NEW s \in Sessions, NEW t \in Threads, Resetting(t, s)
             PROVE  /\ \A c \in kernel : c.session # s
                    /\ \A u \in Threads \ {t} : \A op \in Pending(u) : SessionOf(op) = s =>
                         \/ op.call \in SendCalls \cup {"DisconnectRequest", "ReturnLock"}
                         \/ op.call = "DeleteIoContext" /\ sendLock[s] = u
  BY DEF OnlySendsOverlap
<1>1. \A u \in Threads : todo[u] \in Seq(SendOps) /\ DOMAIN todo[u] = 1 .. Len(todo[u])
  <2>1. \A u \in Threads : todo[u] \in Seq(SendOps)
    BY DEF SendInv, SendTypes, TypeInv
  <2> QED BY <2>1, LenProperties
<1>2. Starts(todo[t], Past, s) /\ Starts(todo[t], Resets, s)
  <2>1. PICK i \in 1 .. Len(todo[t]) : todo[t][i].call \in Resets /\ todo[t][i].obj = s
    BY <1>1 DEF Resetting, Pending, Resets
  <2>2. todo[t][i].call \in Past
    BY <2>1 DEF Past, Resets
  <2> QED BY <2>1, <2>2, ResetPending
<1>3. Bare(todo, live, issueRef, mConnected, sendLock, s) /\ mLock = t
  <2>1. Pooled(todo, live, issueRef, mConnected, sendLock, Free)
    BY DEF SendInv, SendStructured, PoolStructure
  <2> QED BY <1>2, <2>1, ManagerFacts DEF Pooled
<1>4. \A c \in kernel : c.session # s
  BY <1>3, BareFacts
<1>5. ASSUME NEW u \in Threads, u # t, NEW i \in 1 .. Len(todo[u]), SessionOf(todo[u][i]) = s
      PROVE  \/ todo[u][i].call \in SendCalls \cup {"DisconnectRequest", "ReturnLock"}
             \/ todo[u][i].call = "DeleteIoContext" /\ sendLock[s] = u
  <2> DEFINE q == todo[u]
             o == todo[u][i]
  <2>1. o \in SendOps /\ o.call \in OpCalls \cup SendCalls
    <3>1. o \in SendOps
      BY <1>1
    <3> QED BY <3>1 DEF SendOps
  <2>2. Listed(q)
    BY DEF SendInv, SendStructured, PoolStructure, Lists
  <2>3. o.call # "DeleteIoContext" => o.obj = s
    BY <1>5 DEF SessionOf
  <2>4. o.call \notin RefCalls
    <3>1. ASSUME o.call \in RefCalls PROVE FALSE
      <4>1. o.obj = s
        BY <2>3, <3>1 DEF RefCalls
      <4> QED BY <1>3, <3>1, <4>1, ReferredNotBare
    <3> QED BY <3>1
  <2>5. o.call \notin Past
    <3>1. ASSUME o.call \in Past PROVE FALSE
      <4>1. o.obj = s
        BY <2>3, <3>1 DEF Past
      <4>2. Starts(todo[u], Past, s)
        BY <3>1, <4>1, ResetPending
      <4>3. mLock = u
        BY <4>2, ManagerFacts
      <4> QED BY <1>3, <1>5, <4>3
    <3> QED BY <3>1
  <2>6. o.call # "DisconnectEx"
    <3>1. ASSUME o.call = "DisconnectEx" PROVE FALSE
      <4>1. i = 1
        <5>1. ASSUME i # 1 PROVE FALSE
          <6>1. i \in 2 .. Len(q)
            BY <1>1, <5>1
          <6> QED BY <2>2, <3>1, <6>1 DEF Listed, BehindCalls
        <5> QED BY <5>1
      <4>2. q # <<>>
        BY Empty
      <4>3. Starts(q, ConnCalls, s)
        BY <2>3, <3>1, <4>1, <4>2 DEF Starts, ConnCalls
      <4>4. Token(todo, kernel, s, ConnIO, ConnCalls)
        BY <4>3 DEF Token
      <4> QED BY <1>3, <4>4, SessionFacts DEF ConnAt, Bare
    <3> QED BY <3>1
  <2>7. ASSUME o.call = "DeleteIoContext" PROVE sendLock[s] = u
    <3>1. Typed(o)
      BY <2>2 DEF Listed
    <3>2. o.obj \in Contexts /\ o.obj.session = s
      BY <1>5, <2>7, <3>1 DEF Typed, SessionOf
    <3>3. o.obj \in Held(todo[u])
      BY <2>7, <3>2 DEF Held, IsOp
    <3>4. Owned(todo, live, kernel)
      BY DEF SendInv, SendStructured, PoolStructure
    <3>5. o.obj \in live
      BY <3>3, <3>4 DEF Owned
    <3>6. sendLock[s] \in Threads /\ o.obj \in Held(todo[sendLock[s]])
      BY <1>3, <3>2, <3>5, BareFacts
    <3> QED BY <3>3, <3>4, <3>6 DEF Owned
  <2> HIDE DEF o
  <2>8. \/ o.call \in SendCalls \cup {"DisconnectRequest", "ReturnLock"}
        \/ o.call = "DeleteIoContext"
    BY <2>1, <2>4, <2>5, <2>6 DEF OpCalls, RefCalls, Past, SendCalls
  <2> QED BY <2>7, <2>8 DEF o
<1> QED BY <1>1, <1>4, <1>5 DEF Pending

-----------------------------------------------------------------------------
(***************************************************************************)
(* The specification.                                                      *)
(***************************************************************************)
\* The invariant at the start.
LEMMA InitialSends ==
  ASSUME SendInit
  PROVE  SendInv
<1>1. /\ mFreeSessionList = SetToSeq(Sessions)
      /\ mCurrentIssueCount = 0 /\ mCurrentReturnCount = 0
      /\ mLock = NoThread
      /\ mConnected = [s \in Sessions |-> 0]
      /\ mRefCount = [s \in Sessions |-> 0]
      /\ associated = [s \in Sessions |-> FALSE]
      /\ live = {} /\ kernel = {}
      /\ todo = [t \in Threads |-> <<>>]
      /\ completionOk = [t \in Threads |-> FALSE]
      /\ accepting = "Sleep"
      /\ issueRef = {}
      /\ crashed = "no"
  BY DEF SendInit, Init
<1>2. /\ sendLock = [s \in Sessions |-> NoThread]
      /\ mSendPendingCount = [s \in Sessions |-> 0]
      /\ stored = [s \in Sessions |-> 0]
      /\ inFlight = [s \in Sessions |-> 0]
      /\ sendList = [t \in Threads |-> <<>>]
  BY DEF SendInit
<1>3. CounterModulus \in Nat \ {0} /\ Cardinality(Sessions) \in Nat
  <2>1. Cardinality(Sessions) \in Nat
    BY SessionPoolAssumption, FS_CardinalityType
  <2> QED BY <2>1, SessionPoolAssumption
<1>4. SendTypes
  <2>1. 0 \in 0 .. CounterModulus - 1
    BY <1>3
  <2>2. IsFiniteSet({})
    BY FS_EmptySet
  <2>3. <<>> \in Seq(SendOps) /\ <<>> \in Seq(Sessions)
    OBVIOUS
  <2>4. TypeInv(SendOps)
    BY <1>1, <2>1, <2>2, <2>3, InitialList DEF TypeInv
  <2> QED BY <1>2, <2>3, <2>4 DEF SendTypes
<1>5. Free \in SUBSET Sessions
  BY <1>4, FreeSessions DEF SendTypes, TypeInv
<1>6. \A t \in Threads : /\ todo[t] = <<>> /\ Listed(todo[t]) /\ Backed(todo[t])
                         /\ Held(todo[t]) = {} /\ 1 .. Len(todo[t]) = {}
                         /\ \A s, calls : ~ Starts(todo[t], calls, s)
  <2>1. 1 .. 0 = {}
    OBVIOUS
  <2> QED BY <1>1, <2>1, NothingListed DEF Starts
<1>7. SendStructured
  <2>1. Lists(todo) /\ Owned(todo, live, kernel) /\ Inside(todo, sendLock)
    BY <1>1, <1>6 DEF Lists, Owned, Inside
  <2>2. Pooled(todo, live, issueRef, mConnected, sendLock, Free)
    BY <1>1, <1>5, <1>6 DEF Pooled, Bare, Retiring
  <2>3. Managed(todo, mLock, accepting)
    BY <1>1, <1>6, MainThread DEF Managed
  <2> QED BY <2>1, <2>2, <2>3 DEF SendStructured, PoolStructure
<1>8. ConnInv
  BY <1>1, <1>6 DEF ConnInv, ConnAt, Alone, Token
<1>9. SendsInv
  BY <1>1, <1>6 DEF SendsInv, SendAt, Alone, Token
<1>10. CountsInv
  <2>1. \A s : LiveOf(live, s) = {}
    BY <1>1 DEF LiveOf
  <2>2. \A s : Cardinality(LiveOf(live, s)) = 0
    BY <2>1, FS_EmptySet
  <2> QED BY <1>1, <2>2 DEF CountsInv
<1>11. BufferInv
  <2>1. \A s \in Sessions : Sending(s) = {}
    BY <1>1 DEF Sending
  <2> QED BY <1>2, <2>1 DEF BufferInv
<1>12. PoolAccounting
  <2>1. Issued = 0
    <3>1. 0 - 0 = 0 /\ 0 % CounterModulus = 0
      BY <1>3
    <3> QED BY <1>1, <3>1 DEF Issued
  <2>2. Len(mFreeSessionList) = Cardinality(Sessions) - Issued
    BY <1>1, <1>3, <2>1, InitialList
  <2> QED BY <1>1, <2>2, InitialList DEF PoolAccounting
<1> QED BY <1>4, <1>7, <1>8, <1>9, <1>10, <1>11, <1>12 DEF SendInv

\* The invariant is about the variables only.
LEMMA SendStutter ==
  ASSUME SendInv, UNCHANGED allVars
  PROVE  SendInv'
<1>1. /\ mConnected' = mConnected /\ mRefCount' = mRefCount /\ associated' = associated
      /\ mFreeSessionList' = mFreeSessionList /\ mCurrentIssueCount' = mCurrentIssueCount
      /\ mCurrentReturnCount' = mCurrentReturnCount /\ mLock' = mLock
      /\ live' = live /\ kernel' = kernel /\ todo' = todo /\ completionOk' = completionOk
      /\ accepting' = accepting /\ issueRef' = issueRef /\ crashed' = crashed
  BY DEF allVars, vars, sessionVars, managerVars, contextVars, threadVars
<1>2. UNCHANGED sendVars
  BY DEF allVars
<1>3. Managed(todo, mLock', accepting') /\ mLock' \in Threads \cup {NoThread}
        /\ accepting' \in {"Sleep", "Loop", "Failed", "Stopped"}
  BY <1>1 DEF SendInv, SendStructured, PoolStructure, SendTypes, TypeInv
<1>4. UNCHANGED <<sessionVars, mFreeSessionList, mCurrentIssueCount,
                  mCurrentReturnCount, contextVars, threadVars, issueRef, crashed>>
  BY <1>1 DEF sessionVars, contextVars, threadVars
<1> QED BY <1>2, <1>3, <1>4, ManagerMoved

\* A step takes the invariant to the invariant, or stops the program at an assertion,
\* and then changes nothing that the sends are about, but for a buffer that is
\* emptied.
SendsKeptSafe == OneSendInFlight' /\ InFlightIsStored'

\* The steps of an assertion that does not hold.
LEMMA CrashedStep ==
  ASSUME SendInv, NEW t \in Threads,
         \/ (DeleteIoContext(t) \/ ReturnAssert(t)) /\ UNCHANGED sendVars
         \/ ResetLockedBuffer(t)
  PROVE  SendsKeptSafe
<1>1. OneSendInFlight /\ InFlightIsStored
  BY SendsStored
<1>2. CASE kernel' = kernel /\ inFlight' = inFlight /\ stored' = stored
  BY <1>1, <1>2 DEF SendsKeptSafe, OneSendInFlight, InFlightIsStored, Sending
<1>3. CASE (DeleteIoContext(t) \/ ReturnAssert(t)) /\ UNCHANGED sendVars
  BY <1>2, <1>3 DEF DeleteIoContext, ReturnAssert, contextVars, sendVars
<1>4. CASE ResetLockedBuffer(t)
  <2>1. PICK s : /\ s = Obj(t) /\ Calling(t, "ResetSendBuffer") /\ kernel' = kernel
                 /\ stored' = [stored EXCEPT ![s] = 0]
                 /\ inFlight' = [inFlight EXCEPT ![s] = 0]
    BY <1>4 DEF ResetLockedBuffer, PoolUnchanged, contextVars, Set
  <2>2. /\ s \in Sessions /\ todo[t] # <<>> /\ todo[t][1].call = "ResetSendBuffer"
        /\ todo[t][1].obj = s
    BY <2>1, CallFacts
  <2>3. Starts(todo[t], Resets, s)
    BY <2>2 DEF Starts, Resets
  <2>4. Bare(todo, live, issueRef, mConnected, sendLock, s)
    BY <2>2, <2>3 DEF SendInv, SendStructured, PoolStructure, Pooled
  <2>5. Sending(s)' = {} /\ \A r \in Sessions : Sending(r)' = Sending(r)
    <3>1. \A c \in kernel : c.session # s
      BY <2>2, <2>4, BareFacts
    <3> QED BY <2>1, <3>1 DEF Sending
  <2>6. \A r \in Sessions \ {s} : inFlight'[r] = inFlight[r] /\ stored'[r] = stored[r]
    BY <2>1 DEF SendInv, SendTypes
  <2>7. OneSendInFlight'
    BY <1>1, <2>5 DEF OneSendInFlight
  <2>8. InFlightIsStored'
    <3>1. ASSUME NEW r \in Sessions, Sending(r)' # {}
          PROVE  1 <= inFlight'[r] /\ inFlight'[r] <= stored'[r]
      <4>1. r # s /\ Sending(r) # {}
        BY <2>5, <3>1
      <4> QED BY <1>1, <2>6, <4>1 DEF InFlightIsStored
    <3> QED BY <3>1 DEF InFlightIsStored
  <2> QED BY <2>7, <2>8 DEF SendsKeptSafe
<1> QED BY <1>3, <1>4

\* Every step.
LEMMA SendStep ==
  ASSUME SendInv, SendNext
  PROVE  SendInv' \/ (crashed' # "no" /\ SendsKeptSafe)
<1>1. CASE AcceptClientSessions /\ UNCHANGED sendVars
  BY <1>1, LockedAccept, UnlockedAccept, IssuedAccept DEF AcceptClientSessions
<1>2. ASSUME NEW t \in Threads, PoolCall(t)
      PROVE  SendInv' \/ (crashed' # "no" /\ SendsKeptSafe)
  <2>0. UNCHANGED sendVars
    BY <1>2 DEF PoolCall
  <2>1. CASE DeleteIoContext(t)
    BY <2>0, <2>1, DeletedStep, CrashedStep
  <2>2. CASE DisconnectRequest(t)
    BY <2>0, <2>2, DisconnectedStep
  <2>3. CASE DisconnectEx(t) \/ WSARecvZero(t) \/ WSARecv(t)
    BY <2>0, <2>3, PostCallsStep
  <2>4. CASE PreRecv(t) \/ PostRecv(t)
    BY <2>0, <2>4, ReceiveStep
  <2>5. CASE AcceptCompletion(t)
    BY <2>0, <2>5, AcceptedStep
  <2>6. CASE DisconnectCompletion(t)
    BY <2>0, <2>6, ReleasedStep
  <2>7. CASE ReturnLock(t)
    BY <2>0, <2>7, ReturnLocked
  <2>8. CASE ReturnAssert(t)
    BY <2>0, <2>8, ReturnAsserted, CrashedStep
  <2>9. CASE SessionReset(t)
    BY <2>0, <2>9, ResetWords
  <2>10. CASE ReturnToPool(t)
    BY <2>0, <2>10, ReturnedToPool
  <2>11. CASE CheckCompletion(t)
    BY <2>0, <2>11, CheckStep
  <2> QED BY <1>2, <2>1, <2>2, <2>3, <2>4, <2>5, <2>6, <2>7, <2>8, <2>9, <2>10, <2>11
          DEF PoolCall
<1>3. ASSUME NEW t \in Threads, SendCall(t)
      PROVE  SendInv' \/ (crashed' # "no" /\ SendsKeptSafe)
  <2>1. CASE PostSend(t) \/ PostCommit(t)
    BY <2>1, PostSendStep, PostCommitStep
  <2>2. CASE FlushSend(t) \/ FlushLock(t) \/ FlushUnlock(t)
    BY <2>2, FlushSendStep, FlushLockStep, FlushUnlockStep
  <2>3. CASE WSASend(t)
    BY <2>3, SendPostedStep
  <2>4. CASE CountSend(t)
    BY <2>4, CountSendStep
  <2>5. CASE PostBaseKey(t) \/ HandlePackets(t)
    BY <2>5, PostBaseKeyStep, HandlePacketsStep
  <2>6. CASE ResetLockedBuffer(t)
    BY <2>6, ResetBuffer, CrashedStep
  <2>7. CASE SendCompletion(t)
    BY <2>7, SentStep
  <2> QED BY <1>3, <2>1, <2>2, <2>3, <2>4, <2>5, <2>6, <2>7 DEF SendCall
<1>4. ASSUME NEW t \in Workers, NextCompletion(t) \/ DoSendJob(t)
      PROVE  SendInv'
  BY <1>4, CompletionStep, SendJobStep
<1> QED BY <1>1, <1>2, <1>3, <1>4 DEF SendNext

\* An assertion stops the program.
LEMMA CrashStops ==
  ASSUME SendNext
  PROVE  crashed = "no"
<1>1. CASE AcceptClientSessions
  BY <1>1 DEF AcceptClientSessions, AcceptLock, AcceptIssue, AcceptUnlock
<1>2. ASSUME NEW t \in Threads, PoolCall(t)
      PROVE  crashed = "no"
  BY <1>2 DEF PoolCall, DeleteIoContext, DisconnectRequest, DisconnectEx, PreRecv, PostRecv,
              CheckConnected, WSARecvZero, WSARecv, AcceptCompletion, DisconnectCompletion,
              ReturnLock, ReturnAssert, SessionReset, ReturnToPool, CheckCompletion, Calling
<1>3. ASSUME NEW t \in Threads, SendCall(t)
      PROVE  crashed = "no"
  BY <1>3 DEF SendCall, PostSend, PostCommit, FlushSend, FlushLock, WSASend, CountSend,
              FlushUnlock, PostBaseKey, HandlePackets, ResetLockedBuffer, SendCompletion,
              Calling
<1>4. ASSUME NEW t \in Workers, NextCompletion(t) \/ DoSendJob(t)
      PROVE  crashed = "no"
  BY <1>4 DEF NextCompletion, DoIocpJob, Complete, DoSendJob
<1> QED BY <1>1, <1>2, <1>3, <1>4 DEF SendNext

\* Until the program stops the invariant holds, and the sends are safe after that.
SendSafe == OneSendInFlight /\ InFlightIsStored /\ (crashed = "no" => SendInv)

\* The invariant holds of every behaviour of the session pool with its send path,
\* for any sessions, workers, buffer capacity and set of failing system calls
\* (Session.cpp:104-224, ClientSession.cpp:24-58).
THEOREM SendInvariant == SendSpec => []SendSafe
<1>1. SendInit => SendSafe
  BY InitialSends, SendsStored DEF SendSafe
<1>2. SendSafe /\ [SendNext]_allVars => SendSafe'
  <2> SUFFICES ASSUME SendSafe, [SendNext]_allVars
               PROVE  SendSafe'
    OBVIOUS
  <2>1. CASE SendNext
    <3>1. SendInv
      BY <2>1, CrashStops DEF SendSafe
    <3>2. CASE SendInv'
      <4>1. SendInv' => (OneSendInFlight /\ InFlightIsStored)'
        BY SendsStored, PTL
      <4> QED BY <3>2, <4>1 DEF SendSafe
    <3>3. CASE crashed' # "no" /\ SendsKeptSafe
      BY <3>3 DEF SendSafe, SendsKeptSafe
    <3> QED BY <2>1, <3>1, <3>2, <3>3, SendStep
  <2>2. CASE UNCHANGED allVars
    <3>1. /\ kernel' = kernel /\ inFlight' = inFlight /\ stored' = stored
          /\ crashed' = crashed
      BY <2>2 DEF allVars, vars, contextVars, sendVars
    <3>2. OneSendInFlight' /\ InFlightIsStored'
      BY <3>1 DEF SendSafe, OneSendInFlight, InFlightIsStored, Sending
    <3>3. crashed' = "no" => SendInv'
      BY <2>2, <3>1, SendStutter DEF SendSafe
    <3> QED BY <3>2, <3>3 DEF SendSafe
  <2> QED BY <2>1, <2>2
<1> QED BY <1>1, <1>2, PTL DEF SendSpec

\* One send of a session at most is in the kernel: the order of its bytes is the one
\* of its posts, whatever the order of completions (Session.cpp:140-195).
THEOREM SpecOneSendInFlight == SendSpec => []OneSendInFlight
<1>1. SendSafe => OneSendInFlight
  BY DEF SendSafe
<1> QED BY <1>1, SendInvariant, PTL

\* The region that WSASend reads is still in the buffer while the send is pending:
\* nobody resets the buffer under it (Session.cpp:165-224, ClientSession.cpp:24-41).
THEOREM SpecInFlightIsStored == SendSpec => []InFlightIsStored
<1>1. SendSafe => InFlightIsStored
  BY DEF SendSafe
<1> QED BY <1>1, SendInvariant, PTL

\* What runs on a session while it is reset is a send through a plain pointer, or
\* what a failed flush leads to (ClientSession.cpp:24-58, Session.cpp:104-195,
\* ClientSessionManager.cpp:36-53).
THEOREM SpecOnlySendsOverlap == SendSpec => []OnlySendsOverlap
<1>1. SendSafe => OnlySendsOverlap
  <2>1. CASE crashed = "no"
    BY <2>1, SendsOverlap DEF SendSafe
  <2>2. CASE crashed # "no"
    BY <2>2 DEF OnlySendsOverlap, Resetting
  <2> QED BY <2>1, <2>2
<1> QED BY <1>1, SendInvariant, PTL
=============================================================================
