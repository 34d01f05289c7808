--------------------------- MODULE PlayersProofs ---------------------------
(***************************************************************************)
(* Theorems about Players, for any workers, sessions and positions:        *)
(*   - the workers use the locks in the order of their classes, and no     *)
(*     workers wait for each other in a circle, also where the order says  *)
(*     nothing;                                                            *)
(*   - the answer to a packet reaches the client that sent it, or nobody;  *)
(*   - the registry holds exactly the players that have an id, where they  *)
(*     are, and no null pointer is used.                                   *)
(*                                                                         *)
(* The locks.  Where a worker is in the code says which locks it has       *)
(* requested, which of them it may still wait for, and what its stack in   *)
(* the LockOrderChecker is.                                                *)
(***************************************************************************)
EXTENDS Players, SequenceTheorems, TLAPS

Places ==
  {"idle", "PostSend", "Commit", "SendBaseKey", "KeyShared", "RegisterPlayer", "LoggedIn",
   "UpdatePosition", "ChangePlayerZone", "LeavePlayer", "GetClosePlayers", "Broadcast",
   "SessionReset", "BufferReset", "DoSync", "LockPlayer", "PlayerReset",
   "UnregisterPlayer", "ClearPlayer", "LeaveSync", "ReturnToPool"}

\* The places of the code that the handler of a packet goes through.
Fits(packet, place) ==
  \/ packet = "base" /\ place \in {"SendBaseKey", "PostSend", "Commit"}
  \/ packet = "export" /\ place \in {"PostSend", "Commit", "KeyShared"}
  \/ packet = "login" /\ place \in {"RegisterPlayer", "PostSend", "Commit", "LoggedIn"}
  \/ packet = "logout" /\ place \in {"PostSend", "Commit"}
  \/ packet = "move" /\ place \in {"UpdatePosition", "ChangePlayerZone", "PostSend",
                                   "Commit", "LeavePlayer"}
  \/ packet = "chat" /\ place \in {"GetClosePlayers", "Broadcast", "PostSend", "Commit"}
  \/ packet = "return" /\ place \in {"SessionReset", "BufferReset", "DoSync", "LockPlayer",
                                     "PlayerReset", "UnregisterPlayer", "ClearPlayer",
                                     "LeaveSync", "ReturnToPool"}

JobType ==
  [on : Sessions \cup {NoSession}, packet : Packets \cup {"none"},
   serves : 0 .. MaxConnections, dest : Sessions \cup {nullptr},
   from : Zones \cup {NoZone}, targets : SUBSET (Sessions \cup {nullptr})]

\* A worker is idle and has no job, or handles a packet of a session.
AtWork(place, j) ==
  /\ j \in JobType
  /\ \/ place = "idle" /\ j = NoJob
     \/ /\ j.on \in Sessions
        /\ Fits(j.packet, place)
        /\ place \in {"PostSend", "Commit"} => j.dest \in Sessions
        /\ j.packet # "chat" => j.dest = j.on

WorkInv ==
  /\ at \in [Workers -> Places]
  /\ job \in [Workers -> JobType]
  /\ \A w \in Workers : AtWork(at[w], job[w])

\* TypeOK, but for the entries of the zones.
DataInv ==
  /\ phase \in [Sessions -> {"free", "open", "closed"}]
  /\ connection \in [Sessions -> 0 .. accepted]
  /\ accepted \in 0 .. MaxConnections
  /\ mState \in [Sessions -> ClientStates]
  /\ mPlayerId \in [Sessions -> Ids \cup {NoId}]
  /\ mPos \in [Sessions -> Positions]
  /\ mZoneIdx \in [Sessions -> Zones \cup {NoZone}]
  /\ mPlayerMap \in [Ids -> Sessions \cup {nullptr}]
  /\ mPlayerZone \subseteq [zone : Zones \cup {NoZone}, id : Ids \cup {NoId},
                            player : Sessions \cup {nullptr}]
  /\ mTempId \in 0 .. MaxLogins


LEMMA LockOrders ==
  ASSUME NEW s \in Sessions
  PROVE  /\ managerLock \in Locks /\ mLockOrder[managerLock] = 0
         /\ playersLock \in Locks /\ mLockOrder[playersLock] = 3
         /\ Lock("player", s) \in Locks /\ mLockOrder[Lock("player", s)] = 0
         /\ Lock("sync", s) \in Locks /\ mLockOrder[Lock("sync", s)] = 2
         /\ Lock("send", s) \in Locks /\ mLockOrder[Lock("send", s)] = 4
<1>1. /\ managerLock \in Locks /\ playersLock \in Locks
  BY DEF Locks
<1>2. /\ Lock("player", s) \in Locks /\ Lock("sync", s) \in Locks /\ Lock("send", s) \in Locks
  BY DEF Locks
<1>3. /\ managerLock.kind = "manager" /\ playersLock.kind = "players"
      /\ Lock("player", s).kind = "player" /\ Lock("sync", s).kind = "sync"
      /\ Lock("send", s).kind = "send"
  BY DEF managerLock, playersLock, Lock
<1>4. /\ LockClass["manager"] = 0 /\ LockClass["player"] = 0 /\ LockClass["sync"] = 2
      /\ LockClass["players"] = 3 /\ LockClass["send"] = 4
  BY DEF LockClass
<1> QED
  BY <1>1, <1>2, <1>3, <1>4 DEF mLockOrder

LEMMA LocksDiffer ==
  ASSUME NEW s \in Sessions, NEW t \in Sessions
  PROVE  /\ managerLock # playersLock
         /\ \A kind \in {"player", "sync", "send"} : Lock(kind, s) \notin {managerLock, playersLock}
         /\ Lock("player", s) # Lock("sync", t)
         /\ Lock("player", s) # Lock("send", t)
         /\ Lock("sync", s) # Lock("send", t)
BY DEF managerLock, playersLock, Lock

LEMMA AfterIs ==
  /\ After["base"] = "idle" /\ After["export"] = "KeyShared" /\ After["login"] = "LoggedIn"
  /\ After["logout"] = "idle" /\ After["move"] = "LeavePlayer" /\ After["chat"] = "Broadcast"
BY DEF After

\* Every position is in one of the hundred zones (Player.cpp:302-324).
LEMMA ZoneInRange ==
  ASSUME PlayersAssumption, NEW pos \in Int \X Int
  PROVE  UpdateZoneIdx(pos) \in Zones
<1>1. ASSUME NEW v \in Int PROVE AxisIdx(v) \in 0 .. 9
  <2>1. (IF v < 0 THEN 0 - v ELSE v) \div ZONE_RANGE \in Nat
    BY DEF PlayersAssumption
  <2> QED
    BY <2>1 DEF AxisIdx, Least
<1> QED
  BY <1>1 DEF UpdateZoneIdx, ZONE_NUMBER_EACH_AXIS, Zones, ZONE_NUMBER

\* GetClosePlayers looks into the zone it starts from (PlayerManager.cpp:71-84).
LEMMA OwnZoneIsClose ==
  ASSUME NEW zone \in Zones
  PROVE  zone \in CloseZones(zone)
<1> DEFINE x == zone % 10
           y == zone \div 10
<1>1. x \in 0 .. 9 /\ y \in 0 .. 9 /\ zone = y * 10 + x
  BY DEF Zones, ZONE_NUMBER
<1> HIDE DEF x, y
<1>2. /\ x \in Greatest(0, x - 1) .. Least(9, x + 1)
      /\ y \in Greatest(0, y - 1) .. Least(9, y + 1)
  BY <1>1 DEF Greatest, Least
<1> QED
  BY <1>1, <1>2 DEF x, y, CloseZones, ZONE_NUMBER_EACH_AXIS

-----------------------------------------------------------------------------
\* The locks that a worker has requested and not left.
Requested(place, j, l) ==
  \/ j.packet = "return" /\ l = managerLock
  \/ place \in {"LockPlayer", "PlayerReset", "UnregisterPlayer", "ClearPlayer", "LeaveSync"}
     /\ l = Lock("sync", j.on)
  \/ (j.packet = "move" \/ place \in {"PlayerReset", "UnregisterPlayer", "ClearPlayer"})
     /\ l = Lock("player", j.on)
  \/ place \in {"RegisterPlayer", "ChangePlayerZone", "GetClosePlayers", "UnregisterPlayer"}
     /\ l = playersLock
  \/ place = "Commit" /\ l = Lock("send", j.dest)
  \/ place = "BufferReset" /\ l = Lock("send", j.on)

\* The one that it may still wait for.
WantedAt(place, j) ==
  IF place = "SessionReset" THEN managerLock
  ELSE IF place = "LockPlayer" THEN Lock("sync", j.on)
  ELSE IF place \in {"UpdatePosition", "PlayerReset"} THEN Lock("player", j.on)
  ELSE IF place \in {"RegisterPlayer", "ChangePlayerZone", "GetClosePlayers",
                     "UnregisterPlayer"} THEN playersLock
  ELSE IF place = "Commit" THEN Lock("send", j.dest)
  ELSE IF place = "BufferReset" THEN Lock("send", j.on)
  ELSE NoLock

\* The ones that the LockOrderChecker watches.
StackAt(place, j) ==
  IF place \in {"RegisterPlayer", "ChangePlayerZone", "GetClosePlayers"} THEN <<playersLock>>
  ELSE IF place = "Commit" THEN <<Lock("send", j.dest)>>
  ELSE IF place = "BufferReset" THEN <<Lock("send", j.on)>>
  ELSE IF place \in {"LockPlayer", "PlayerReset", "ClearPlayer", "LeaveSync"}
    THEN <<Lock("sync", j.on)>>
  ELSE IF place = "UnregisterPlayer" THEN <<Lock("sync", j.on), playersLock>>
  ELSE <<>>

LockInv ==
  /\ L!LockTypeOK
  /\ \A w \in Workers :
       /\ wants[w] \in {NoLock, WantedAt(at[w], job[w])}
       /\ mLockStack[w] = StackAt(at[w], job[w])
       /\ \A l \in Locks : L!Inside(w, l) => Requested(at[w], job[w], l) /\ l # wants[w]

IInv == WorkInv /\ DataInv /\ LockInv

\* The worker goes on at place with job j.
Moves(w, place, j) ==
  /\ at' = [at EXCEPT ![w] = place]
  /\ \/ job' = [job EXCEPT ![w] = j]
     \/ job' = job /\ j = job[w]

\* What a worker at place may do with the lock l when it goes on at next.
CanGo(place, j, next, k) ==
  /\ \A m \in Locks : Requested(place, j, m) => Requested(next, k, m)
  /\ StackAt(next, k) = StackAt(place, j)

CanRequest(place, j, l, next, k) ==
  /\ l \in Locks /\ WantedAt(next, k) = l
  /\ \A m \in Locks : Requested(place, j, m) => Requested(next, k, m) /\ m # l
  /\ \/ mLockOrder[l] = 0 /\ StackAt(next, k) = StackAt(place, j)
     \/ mLockOrder[l] > 0 /\ StackAt(place, j) = <<>> /\ StackAt(next, k) = <<l>>
     \/ \E m \in Locks : /\ mLockOrder[m] < mLockOrder[l] /\ mLockOrder[l] > 0
                         /\ StackAt(place, j) = <<m>> /\ StackAt(next, k) = <<m, l>>

CanLeave(place, j, l, next, k) ==
  /\ l \in Locks
  /\ \A m \in Locks : Requested(place, j, m) /\ m # l => Requested(next, k, m)
  /\ \/ mLockOrder[l] = 0 /\ StackAt(next, k) = StackAt(place, j)
     \/ mLockOrder[l] > 0 /\ StackAt(place, j) = <<l>> /\ StackAt(next, k) = <<>>
     \/ \E m \in Locks : /\ mLockOrder[l] > 0
                         /\ StackAt(place, j) = <<m, l>> /\ StackAt(next, k) = <<m>>

\* The instance's view of the classes.
LEMMA WatchedMeans ==
  ASSUME NEW l \in Locks
  PROVE  /\ mLockOrder[l] \in 0 .. 4
         /\ L!Watched(l) <=> mLockOrder[l] > 0
         /\ l # NoLock
<1>1. mLockOrder[l] \in 0 .. 4
  <2>1. CASE l \in {managerLock, playersLock}
    <3>1. CASE l = managerLock
      BY <3>1 DEF mLockOrder, managerLock, Lock, LockClass
    <3>2. CASE l = playersLock
      BY <3>2 DEF mLockOrder, playersLock, Lock, LockClass
    <3> QED
      BY <2>1, <3>1, <3>2
  <2>2. CASE l \in {Lock(kind, s) : kind \in {"player", "sync", "send"}, s \in Sessions}
    <3>1. PICK s \in Sessions : l \in {Lock("player", s), Lock("sync", s), Lock("send", s)}
      BY <2>2
    <3> QED
      BY <3>1, LockOrders
  <2> QED
    BY <2>1, <2>2 DEF Locks
<1> QED
  BY <1>1, LockAssumption DEF L!Watched, L!LO_DONT_CARE

LEMMA OneAndTwo ==
  ASSUME NEW l \in Locks, NEW m \in Locks, NEW s \in Seq(Locks)
  PROVE  /\ Len(s) = 1 /\ s[1] = m => s = <<m>>
         /\ Len(s) = 2 /\ s[1] = m /\ s[2] = l => s = <<m, l>>
<1>1. ASSUME Len(s) = 1, s[1] = m PROVE s = <<m>>
  <2>1. <<m>> \in Seq(Locks) /\ Len(<<m>>) = 1 /\ <<m>>[1] = m
    OBVIOUS
  <2>2. \A i \in 1 .. Len(s) : s[i] = <<m>>[i]
    BY <1>1, <2>1
  <2> QED
    BY <1>1, <2>1, <2>2, SeqEqual
<1>2. ASSUME Len(s) = 2, s[1] = m, s[2] = l PROVE s = <<m, l>>
  <2>1. /\ <<m, l>> \in Seq(Locks) /\ Len(<<m, l>>) = 2
        /\ <<m, l>>[1] = m /\ <<m, l>>[2] = l
    OBVIOUS
  <2>2. \A i \in 1 .. Len(s) : s[i] = <<m, l>>[i]
    BY <1>2, <2>1
  <2> QED
    BY <1>2, <2>1, <2>2, SeqEqual
<1> QED
  BY <1>1, <1>2

LEMMA ShortSequences ==
  ASSUME NEW l \in Locks, NEW m \in Locks
  PROVE  /\ <<>> \in Seq(Locks) /\ <<l>> \in Seq(Locks) /\ <<m, l>> \in Seq(Locks)
         /\ Append(<<>>, l) = <<l>> /\ Append(<<m>>, l) = <<m, l>>
         /\ Len(<<l>>) = 1 /\ Len(<<m, l>>) = 2 /\ Len(<<>>) = 0
         /\ <<l>> # <<>> /\ <<m, l>> # <<>> /\ <<l>>[1] = l /\ <<m, l>>[2] = l
         /\ SubSeq(<<l>>, 1, 0) = <<>> /\ SubSeq(<<m, l>>, 1, 1) = <<m>>
<1>1. /\ <<>> \in Seq(Locks) /\ <<l>> \in Seq(Locks) /\ <<m>> \in Seq(Locks)
      /\ <<m, l>> \in Seq(Locks)
      /\ Len(<<l>>) = 1 /\ Len(<<m>>) = 1 /\ Len(<<m, l>>) = 2 /\ Len(<<>>) = 0
      /\ <<l>>[1] = l /\ <<m>>[1] = m /\ <<m, l>>[1] = m /\ <<m, l>>[2] = l
  OBVIOUS
<1>2. Append(<<>>, l) = <<l>>
  <2>1. Append(<<>>, l) \in Seq(Locks) /\ Len(Append(<<>>, l)) = 1 /\ Append(<<>>, l)[1] = l
    BY <1>1, AppendProperties
  <2> QED
    BY <2>1, OneAndTwo
<1>3. Append(<<m>>, l) = <<m, l>>
  <2>1. /\ Append(<<m>>, l) \in Seq(Locks) /\ Len(Append(<<m>>, l)) = 2
        /\ Append(<<m>>, l)[1] = m /\ Append(<<m>>, l)[2] = l
    BY <1>1, AppendProperties
  <2> QED
    BY <2>1, OneAndTwo
<1>4. SubSeq(<<l>>, 1, 0) = <<>>
  BY SubSeqEmpty
<1>5. SubSeq(<<m, l>>, 1, 1) = <<m>>
  <2>1. \A i \in 1 .. 1 : <<m, l>>[i] \in Locks
    BY <1>1
  <2>2. /\ SubSeq(<<m, l>>, 1, 1) \in Seq(Locks) /\ Len(SubSeq(<<m, l>>, 1, 1)) = 1
        /\ SubSeq(<<m, l>>, 1, 1)[1] = <<m, l>>[1]
    BY <2>1, SubSeqProperties
  <2> QED
    BY <1>1, <2>2, OneAndTwo
<1> QED
  BY <1>1, <1>2, <1>3, <1>4, <1>5

\* A lock that a worker waits for is one of those it has requested, and all the
\* others were requested in this order before it.
Rank(l) ==
  IF l.kind = "manager" THEN 1
  ELSE IF l.kind = "sync" THEN 2
  ELSE IF l.kind = "player" THEN 3
  ELSE IF l.kind = "players" THEN 4
  ELSE 5

LEMMA WantedIsRequested ==
  ASSUME NEW place, NEW j, AtWork(place, j), WantedAt(place, j) # NoLock
  PROVE  /\ WantedAt(place, j) \in Locks
         /\ Requested(place, j, WantedAt(place, j))
BY LockOrders DEF AtWork, Fits, WantedAt, Requested

LEMMA RankGoesUp ==
  ASSUME NEW place, NEW j, AtWork(place, j),
         NEW l, Requested(place, j, l), WantedAt(place, j) # NoLock, l # WantedAt(place, j)
  PROVE  /\ Rank(l) \in 1 .. 5 /\ Rank(WantedAt(place, j)) \in 1 .. 5
         /\ Rank(l) < Rank(WantedAt(place, j))
BY DEF AtWork, Fits, WantedAt, Requested, Rank, managerLock, playersLock, Lock

-----------------------------------------------------------------------------
(***************************************************************************)
(* The lock operations, whatever the handler does besides.                 *)
(***************************************************************************)
LEMMA MovesTo ==
  ASSUME WorkInv, NEW w \in Workers, NEW place, NEW j, Moves(w, place, j)
  PROVE  /\ at'[w] = place /\ job'[w] = j
         /\ \A v \in Workers \ {w} : at'[v] = at[v] /\ job'[v] = job[v]
BY DEF WorkInv, Moves

LEMMA MovesKeepsWork ==
  ASSUME WorkInv, NEW w \in Workers, NEW place, NEW j, AtWork(place, j),
         Moves(w, place, j)
  PROVE  WorkInv'
<1>1. at' \in [Workers -> Places] /\ job' \in [Workers -> JobType]
  <2>1. place \in Places /\ j \in JobType
    BY DEF AtWork, Fits, Places
  <2> QED
    BY <2>1 DEF WorkInv, Moves
<1>2. \A v \in Workers : AtWork(at'[v], job'[v])
  BY MovesTo DEF WorkInv
<1> QED
  BY <1>1, <1>2 DEF WorkInv, AtWork, JobType

LEMMA GotoKeepsLocks ==
  ASSUME WorkInv, LockInv, NEW w \in Workers, NEW place, NEW j, Moves(w, place, j),
         wants[w] = NoLock, UNCHANGED lockVars, CanGo(at[w], job[w], place, j)
  PROVE  LockInv' /\ [L!LockNext]_lockVars
<1>1. LockInv'
  <2>1. L!LockTypeOK'
    BY DEF LockInv, L!LockTypeOK, lockVars
  <2>2. \A v \in Workers, l \in Locks : L!Inside(v, l)' => L!Inside(v, l)
    BY DEF L!Inside, lockVars
  <2>3. ASSUME NEW v \in Workers
        PROVE  /\ wants'[v] \in {NoLock, WantedAt(at'[v], job'[v])}
               /\ mLockStack'[v] = StackAt(at'[v], job'[v])
               /\ \A l \in Locks : L!Inside(v, l)'
                                     => Requested(at'[v], job'[v], l) /\ l # wants'[v]
    <3>1. CASE v = w
      BY <3>1, <2>2, MovesTo DEF LockInv, lockVars, CanGo
    <3>2. CASE v # w
      BY <3>2, <2>2, MovesTo DEF LockInv, lockVars
    <3> QED
      BY <3>1, <3>2
  <2> QED
    BY <2>1, <2>3 DEF LockInv, WantedAt, StackAt, Requested
<1> QED
  BY <1>1

LEMMA RequestKeepsLocks ==
  ASSUME WorkInv, LockInv, NEW w \in Workers, NEW place, NEW j, Moves(w, place, j),
         NEW l, L!Request(w, l), CanRequest(at[w], job[w], l, place, j)
  PROVE  LockInv' /\ [L!LockNext]_lockVars
<1> DEFINE s == StackAt(at[w], job[w])
           t == StackAt(place, j)
<1>1. l \in Locks /\ l # NoLock /\ mLockOrder[l] \in 0 .. 4
      /\ (L!Watched(l) <=> mLockOrder[l] > 0)
  BY WatchedMeans DEF CanRequest
<1>2. mLockStack[w] = s
  BY DEF LockInv
<1>3. /\ L!Watched(l) => t = Append(s, l)
      /\ ~ L!Watched(l) => t = s
      /\ L!PushAssert(w, l)
  <2> HIDE DEF s, t
  <2>1. CASE mLockOrder[l] = 0 /\ t = s
    BY <2>1, <1>1 DEF L!PushAssert
  <2>2. CASE mLockOrder[l] > 0 /\ s = <<>> /\ t = <<l>>
    BY <2>2, <1>1, <1>2, ShortSequences DEF L!PushAssert, L!MAX_LOCK_DEPTH
  <2>3. ASSUME NEW m \in Locks, mLockOrder[m] < mLockOrder[l], mLockOrder[l] > 0,
               s = <<m>>, t = <<m, l>>
        PROVE  t = Append(s, l) /\ L!PushAssert(w, l)
    <3>1. t = Append(s, l) /\ Len(s) = 1 /\ s[1] = m
      BY <2>3, <1>1, ShortSequences
    <3> QED
      BY <2>3, <3>1, <1>2 DEF L!PushAssert, L!MAX_LOCK_DEPTH
  <2> QED
    BY <1>1, <2>1, <2>2, <2>3 DEF CanRequest, s, t
<1>4. mLockStack' = [mLockStack EXCEPT ![w] = t]
  <2> HIDE DEF s, t
  <2>1. mLockStack \in [Workers -> Seq(Locks)]
    BY DEF LockInv, L!LockTypeOK
  <2> QED
    BY <1>2, <1>3, <2>1 DEF L!Request
<1>5. t \in Seq(Locks)
  <2> HIDE DEF s, t
  <2>1. s \in Seq(Locks)
    BY <1>2 DEF LockInv, L!LockTypeOK
  <2> QED
    BY <1>1, <1>3, <2>1, AppendProperties
<1>6. L!LockTypeOK'
  <2> HIDE DEF t
  <2> QED
    BY <1>1, <1>4, <1>5 DEF LockInv, L!LockTypeOK, L!Request
<1>7. ASSUME NEW v \in Workers
      PROVE  /\ wants'[v] \in {NoLock, WantedAt(at'[v], job'[v])}
             /\ mLockStack'[v] = StackAt(at'[v], job'[v])
             /\ \A m \in Locks : L!Inside(v, m)'
                                   => Requested(at'[v], job'[v], m) /\ m # wants'[v]
  <2>1. \A m \in Locks : L!Inside(v, m)' => L!Inside(v, m)
    BY DEF L!Inside, L!Request
  <2>2. mLockStack \in [Workers -> Seq(Locks)] /\ wants \in [Workers -> Locks \cup {NoLock}]
    BY DEF LockInv, L!LockTypeOK
  <2>3. CASE v = w
    <3>1. at'[w] = place /\ job'[w] = j /\ wants'[w] = l /\ mLockStack'[w] = t
      BY <1>4, <2>2, MovesTo DEF L!Request
    <3> QED
      BY <3>1, <2>1, <2>3 DEF LockInv, CanRequest
  <2>4. CASE v # w
    <3>1. at'[v] = at[v] /\ job'[v] = job[v] /\ wants'[v] = wants[v]
          /\ mLockStack'[v] = mLockStack[v]
      BY <1>4, <2>2, <2>4, MovesTo DEF L!Request
    <3> QED
      BY <3>1, <2>1 DEF LockInv
  <2> QED
    BY <2>3, <2>4
<1>8. LockInv'
  BY <1>6, <1>7 DEF LockInv, WantedAt, StackAt, Requested
<1> QED
  BY <1>1, <1>3, <1>8 DEF L!LockNext

LEMMA LeaveKeepsLocks ==
  ASSUME WorkInv, LockInv, NEW w \in Workers, NEW place, NEW j, Moves(w, place, j),
         NEW l, L!Leave(w, l), CanLeave(at[w], job[w], l, place, j)
  PROVE  LockInv' /\ [L!LockNext]_lockVars
<1> DEFINE s == StackAt(at[w], job[w])
           t == StackAt(place, j)
<1>1. l \in Locks /\ (L!Watched(l) <=> mLockOrder[l] > 0) /\ mLockOrder[l] \in 0 .. 4
  BY WatchedMeans DEF CanLeave
<1>2. mLockStack[w] = s
  BY DEF LockInv
<1>3. /\ L!Watched(l) => t = SubSeq(s, 1, Len(s) - 1)
      /\ ~ L!Watched(l) => t = s
      /\ L!PopAssert(w, l)
      /\ t = s \/ t \in Seq(Locks)
  <2> HIDE DEF s, t
  <2>1. CASE mLockOrder[l] = 0 /\ t = s
    BY <2>1, <1>1 DEF L!PopAssert
  <2>2. CASE mLockOrder[l] > 0 /\ s = <<l>> /\ t = <<>>
    BY <2>2, <1>1, <1>2, ShortSequences DEF L!PopAssert
  <2>3. ASSUME NEW m \in Locks, mLockOrder[l] > 0, s = <<m, l>>, t = <<m>>
        PROVE  t = SubSeq(s, 1, Len(s) - 1) /\ L!PopAssert(w, l) /\ t \in Seq(Locks)
    <3>1. Len(s) = 2 /\ s[2] = l /\ s # <<>> /\ SubSeq(s, 1, 1) = t /\ t \in Seq(Locks)
      BY <2>3, <1>1, ShortSequences
    <3> QED
      BY <2>3, <3>1, <1>2 DEF L!PopAssert
  <2> QED
    BY <1>1, <2>1, <2>2, <2>3 DEF CanLeave, s, t
<1>4. mLockStack' = [mLockStack EXCEPT ![w] = t]
  <2> HIDE DEF s, t
  <2>1. mLockStack \in [Workers -> Seq(Locks)]
    BY DEF LockInv, L!LockTypeOK
  <2> QED
    BY <1>2, <1>3, <2>1 DEF L!Leave
<1>5. t \in Seq(Locks)
  <2> HIDE DEF s, t
  <2>1. s \in Seq(Locks)
    BY <1>2 DEF LockInv, L!LockTypeOK
  <2> QED
    BY <1>3, <2>1
<1>6. L!LockTypeOK'
  <2> HIDE DEF t
  <2> QED
    BY <1>1, <1>4, <1>5 DEF LockInv, L!LockTypeOK, L!Leave
<1>7. \A v \in Workers, m \in Locks :
        L!Inside(v, m)' => L!Inside(v, m) /\ (v # w \/ m # l)
  BY <1>1, PlayersAssumption DEF L!Inside, L!Leave, LockInv, L!LockTypeOK, PlayersAssumption
<1>8. ASSUME NEW v \in Workers
      PROVE  /\ wants'[v] \in {NoLock, WantedAt(at'[v], job'[v])}
             /\ mLockStack'[v] = StackAt(at'[v], job'[v])
             /\ \A m \in Locks : L!Inside(v, m)'
                                   => Requested(at'[v], job'[v], m) /\ m # wants'[v]
  <2>1. mLockStack \in [Workers -> Seq(Locks)] /\ wants' = wants /\ wants[w] = NoLock
    BY DEF LockInv, L!LockTypeOK, L!Leave
  <2>2. CASE v = w
    <3>1. at'[w] = place /\ job'[w] = j /\ mLockStack'[w] = t
      BY <1>4, <2>1, MovesTo
    <3> QED
      BY <3>1, <1>7, <2>1, <2>2 DEF LockInv, CanLeave
  <2>3. CASE v # w
    <3>1. at'[v] = at[v] /\ job'[v] = job[v] /\ mLockStack'[v] = mLockStack[v]
      BY <1>4, <2>1, <2>3, MovesTo
    <3> QED
      BY <3>1, <1>7, <2>1 DEF LockInv
  <2> QED
    BY <2>2, <2>3
<1>9. LockInv'
  BY <1>6, <1>8 DEF LockInv, WantedAt, StackAt, Requested
<1> QED
  BY <1>1, <1>3, <1>9 DEF L!LockNext

LEMMA EnterKeepsLocks ==
  ASSUME WorkInv, LockInv, NEW w \in Workers, L!AcquireWrite(w) \/ L!AcquireRead(w),
         UNCHANGED <<at, job>>
  PROVE  LockInv' /\ [L!LockNext]_lockVars
<1> DEFINE l == wants[w]
<1>1. l \in Locks /\ l # NoLock /\ Requested(at[w], job[w], l)
  BY WantedIsRequested DEF LockInv, WorkInv, L!AcquireWrite, L!AcquireRead
<1>2. /\ wants' = [wants EXCEPT ![w] = NoLock] /\ mLockStack' = mLockStack
      /\ wants \in [Workers -> Locks \cup {NoLock}]
  BY DEF LockInv, L!LockTypeOK, L!AcquireWrite, L!AcquireRead
<1>3. L!LockTypeOK'
  <2>1. CASE L!AcquireWrite(w)
    BY <2>1, <1>1 DEF LockInv, L!LockTypeOK, L!AcquireWrite
  <2>2. CASE L!AcquireRead(w)
    <3>1. readers[l] \cup {w} \in SUBSET Workers
      BY <1>1 DEF LockInv, L!LockTypeOK
    <3> QED
      BY <2>2, <3>1, <1>1 DEF LockInv, L!LockTypeOK, L!AcquireRead
  <2> QED
    BY <2>1, <2>2
<1>4. \A v \in Workers, m \in Locks :
        L!Inside(v, m)' => L!Inside(v, m) \/ (v = w /\ m = l)
  BY <1>1 DEF LockInv, L!LockTypeOK, L!Inside, L!AcquireWrite, L!AcquireRead
<1>5. ASSUME NEW v \in Workers
      PROVE  /\ wants'[v] \in {NoLock, WantedAt(at[v], job[v])}
             /\ mLockStack'[v] = StackAt(at[v], job[v])
             /\ \A m \in Locks : L!Inside(v, m)'
                                   => Requested(at[v], job[v], m) /\ m # wants'[v]
  <2>1. CASE v = w
    <3>1. wants'[w] = NoLock
      BY <1>2
    <3> QED
      BY <3>1, <2>1, <1>1, <1>2, <1>4, WatchedMeans DEF LockInv
  <2>2. CASE v # w
    <3>1. wants'[v] = wants[v]
      BY <1>2, <2>2
    <3> QED
      BY <3>1, <2>2, <1>2, <1>4 DEF LockInv
  <2> QED
    BY <2>1, <2>2
<1>6. LockInv'
  BY <1>3, <1>5 DEF LockInv, WantedAt, StackAt, Requested
<1> QED
  BY <1>6 DEF L!LockNext

-----------------------------------------------------------------------------
(***************************************************************************)
(* The steps of the handlers.                                              *)
(***************************************************************************)
Keeps == WorkInv' /\ LockInv' /\ [L!LockNext]_lockVars

LEMMA GotoStep ==
  ASSUME WorkInv, LockInv, NEW w \in Workers, NEW place, NEW j,
         Moves(w, place, j), wants[w] = NoLock, UNCHANGED lockVars,
         AtWork(place, j), CanGo(at[w], job[w], place, j)
  PROVE  Keeps
BY MovesKeepsWork, GotoKeepsLocks DEF Keeps

LEMMA RequestStep ==
  ASSUME WorkInv, LockInv, NEW w \in Workers, NEW place, NEW j,
         Moves(w, place, j), NEW l, L!Request(w, l),
         AtWork(place, j), CanRequest(at[w], job[w], l, place, j)
  PROVE  Keeps
BY MovesKeepsWork, RequestKeepsLocks DEF Keeps

LEMMA LeaveStep ==
  ASSUME WorkInv, LockInv, NEW w \in Workers, NEW place, NEW j,
         Moves(w, place, j), NEW l, L!Leave(w, l),
         AtWork(place, j), CanLeave(at[w], job[w], l, place, j)
  PROVE  Keeps
BY MovesKeepsWork, LeaveKeepsLocks DEF Keeps

\* What a worker starts with, and ends with.
LEMMA JobsAreJobs ==
  /\ \A s \in Sessions, packet \in Packets, serves \in 0 .. MaxConnections :
       Job(s, packet, serves) \in JobType
  /\ AtWork("idle", NoJob)
BY PlayersAssumption DEF AtWork, JobType, Job, NoJob, nullptr, NoZone, PlayersAssumption

\* What it changes of its job meanwhile.
LEMMA JobChanges ==
  ASSUME NEW j \in JobType, NEW from \in Zones \cup {NoZone},
         NEW targets \in SUBSET (Sessions \cup {nullptr}), NEW dest \in Sessions \cup {nullptr}
  PROVE  /\ LET k == [j EXCEPT !.from = from]
            IN  k \in JobType /\ k.on = j.on /\ k.packet = j.packet /\ k.serves = j.serves
                /\ k.dest = j.dest /\ k.targets = j.targets /\ k.from = from
         /\ LET k == [j EXCEPT !.targets = targets]
            IN  k \in JobType /\ k.on = j.on /\ k.packet = j.packet /\ k.serves = j.serves
                /\ k.dest = j.dest /\ k.targets = targets /\ k.from = j.from
         /\ LET k == [j EXCEPT !.targets = targets, !.dest = dest]
            IN  k \in JobType /\ k.on = j.on /\ k.packet = j.packet /\ k.serves = j.serves
                /\ k.dest = dest /\ k.targets = targets /\ k.from = j.from
BY DEF JobType


\* Where a worker is, when it takes a step of its own.
LEMMA AtMeans ==
  ASSUME WorkInv, NEW w \in Workers, NEW place, At(w, place)
  PROVE  /\ at[w] = place /\ wants[w] = NoLock /\ AtWork(place, job[w])
         /\ place = "idle" => job[w] = NoJob
         /\ place # "idle" => job[w].on \in Sessions
BY DEF WorkInv, At, AtWork, Fits

-----------------------------------------------------------------------------
\* The connection, and the exchange of keys.
LEMMA AcceptCompletionKeeps ==
  ASSUME WorkInv, DataInv, LockInv, NEW w \in Workers, NEW s \in Sessions, AcceptCompletion(w, s)
  PROVE  Keeps
<1> DEFINE j == Job(s, "base", accepted + 1)
<1>1. at[w] = "idle" /\ wants[w] = NoLock /\ job[w] = NoJob
  BY AtMeans DEF AcceptCompletion
<1>2. Moves(w, "SendBaseKey", j) /\ UNCHANGED lockVars
  BY DEF AcceptCompletion, Goto, Set, Moves
<1>3. AtWork("SendBaseKey", j) /\ j.on = s /\ j.dest = s /\ j.packet = "base"
  <2>1. accepted + 1 \in 0 .. MaxConnections
    BY PlayersAssumption DEF AcceptCompletion, DataInv, PlayersAssumption
  <2>2. "base" \in Packets
    BY DEF Packets
  <2> QED
    BY <2>1, <2>2, JobsAreJobs DEF AtWork, Fits, Job
<1>4. CanGo("idle", NoJob, "SendBaseKey", j)
  <2> HIDE DEF j
  <2> QED
    BY <1>3, LockOrders, LocksDiffer
       DEF CanGo, Requested, StackAt, WantedAt, NoJob
<1> QED
  BY <1>1, <1>2, <1>3, <1>4, GotoStep

LEMMA SendBaseKeyKeeps ==
  ASSUME WorkInv, LockInv, NEW w \in Workers, SendBaseKey(w)
  PROVE  Keeps
<1>1. /\ at[w] = "SendBaseKey" /\ wants[w] = NoLock
      /\ AtWork("SendBaseKey", job[w]) /\ job[w].on \in Sessions
  BY AtMeans DEF SendBaseKey
<1>2. Moves(w, "PostSend", job[w]) /\ UNCHANGED lockVars
  BY DEF SendBaseKey, Goto, Set, Moves
<1>3. AtWork("PostSend", job[w])
  BY <1>1 DEF AtWork, Fits
<1>4. CanGo("SendBaseKey", job[w], "PostSend", job[w])
  BY <1>1, <1>3, LockOrders, LocksDiffer
     DEF CanGo, Requested, StackAt, WantedAt, AtWork, Fits
<1> QED
  BY <1>1, <1>2, <1>3, <1>4, GotoStep

LEMMA ResponseExportedKeyKeeps ==
  ASSUME WorkInv, DataInv, LockInv, NEW w \in Workers, NEW s \in Sessions, ResponseExportedKey(w, s)
  PROVE  Keeps
<1> DEFINE j == Job(s, "export", connection[s])
<1>1. at[w] = "idle" /\ wants[w] = NoLock /\ job[w] = NoJob
  BY AtMeans DEF ResponseExportedKey, Receive
<1>2. Moves(w, "PostSend", j) /\ UNCHANGED lockVars
  BY DEF ResponseExportedKey, Receive, Goto, Set, Moves
<1>3. AtWork("PostSend", j) /\ j.on = s /\ j.dest = s /\ j.packet = "export"
  <2>1. connection[s] \in 0 .. MaxConnections
    BY PlayersAssumption DEF ResponseExportedKey, DataInv, PlayersAssumption
  <2>2. "export" \in Packets
    BY DEF Packets
  <2> QED
    BY <2>1, <2>2, JobsAreJobs DEF AtWork, Fits, Job
<1>4. CanGo("idle", NoJob, "PostSend", j)
  <2> HIDE DEF j
  <2> QED
    BY <1>3, LockOrders, LocksDiffer
       DEF CanGo, Requested, StackAt, WantedAt, NoJob
<1> QED
  BY <1>1, <1>2, <1>3, <1>4, GotoStep

LEMMA KeySharedKeeps ==
  ASSUME WorkInv, LockInv, NEW w \in Workers, KeyShared(w)
  PROVE  Keeps
<1>1. /\ at[w] = "KeyShared" /\ wants[w] = NoLock
      /\ AtWork("KeyShared", job[w]) /\ job[w].on \in Sessions
  BY AtMeans DEF KeyShared
<1>2. Moves(w, "idle", NoJob) /\ UNCHANGED lockVars
  BY DEF KeyShared, Goto, Set, Moves
<1>3. AtWork("idle", NoJob)
  BY JobsAreJobs
<1>4. CanGo("KeyShared", job[w], "idle", NoJob)
  BY <1>1, <1>3, LockOrders, LocksDiffer
     DEF CanGo, Requested, StackAt, WantedAt, AtWork, Fits, NoJob
<1> QED
  BY <1>1, <1>2, <1>3, <1>4, GotoStep

-----------------------------------------------------------------------------
\* Login and logout.
LEMMA ResponseLoginKeeps ==
  ASSUME WorkInv, DataInv, LockInv, NEW w \in Workers, NEW s \in Sessions, ResponseLogin(w, s)
  PROVE  Keeps
<1> DEFINE j == Job(s, "login", connection[s])
<1>1. at[w] = "idle" /\ wants[w] = NoLock /\ job[w] = NoJob
  BY AtMeans DEF ResponseLogin, Receive
<1>2. Moves(w, "RegisterPlayer", j) /\ L!Request(w, playersLock)
  BY DEF ResponseLogin, Receive, Request, Set, Moves
<1>3. AtWork("RegisterPlayer", j) /\ j.on = s /\ j.dest = s /\ j.packet = "login"
  <2>1. connection[s] \in 0 .. MaxConnections
    BY PlayersAssumption DEF ResponseLogin, DataInv, PlayersAssumption
  <2>2. "login" \in Packets
    BY DEF Packets
  <2> QED
    BY <2>1, <2>2, JobsAreJobs DEF AtWork, Fits, Job
<1>4. CanRequest("idle", NoJob, playersLock, "RegisterPlayer", j)
  <2> HIDE DEF j
  <2> QED
    BY <1>3, LockOrders, LocksDiffer
       DEF CanRequest, Requested, StackAt, WantedAt, NoJob
<1> QED
  BY <1>1, <1>2, <1>3, <1>4, RequestStep

LEMMA RegisterPlayerKeeps ==
  ASSUME WorkInv, LockInv, NEW w \in Workers, RegisterPlayer(w)
  PROVE  Keeps
<1>1. /\ at[w] = "RegisterPlayer" /\ wants[w] = NoLock
      /\ AtWork("RegisterPlayer", job[w]) /\ job[w].on \in Sessions
  BY AtMeans DEF RegisterPlayer
<1>2. Moves(w, "PostSend", job[w]) /\ L!Leave(w, playersLock)
  BY DEF RegisterPlayer, Leave, Set, Moves
<1>3. AtWork("PostSend", job[w])
  BY <1>1 DEF AtWork, Fits
<1>4. CanLeave("RegisterPlayer", job[w], playersLock, "PostSend", job[w])
  BY <1>1, <1>3, LockOrders, LocksDiffer
     DEF CanLeave, Requested, StackAt, WantedAt, AtWork, Fits
<1> QED
  BY <1>1, <1>2, <1>3, <1>4, LeaveStep

LEMMA LoggedInKeeps ==
  ASSUME WorkInv, LockInv, NEW w \in Workers, LoggedIn(w)
  PROVE  Keeps
<1>1. /\ at[w] = "LoggedIn" /\ wants[w] = NoLock
      /\ AtWork("LoggedIn", job[w]) /\ job[w].on \in Sessions
  BY AtMeans DEF LoggedIn
<1>2. Moves(w, "idle", NoJob) /\ UNCHANGED lockVars
  BY DEF LoggedIn, Goto, Set, Moves
<1>3. AtWork("idle", NoJob)
  BY JobsAreJobs
<1>4. CanGo("LoggedIn", job[w], "idle", NoJob)
  BY <1>1, <1>3, LockOrders, LocksDiffer
     DEF CanGo, Requested, StackAt, WantedAt, AtWork, Fits, NoJob
<1> QED
  BY <1>1, <1>2, <1>3, <1>4, GotoStep

LEMMA ResponseLogoutKeeps ==
  ASSUME WorkInv, DataInv, LockInv, NEW w \in Workers, NEW s \in Sessions, ResponseLogout(w, s)
  PROVE  Keeps
<1> DEFINE j == Job(s, "logout", connection[s])
<1>1. at[w] = "idle" /\ wants[w] = NoLock /\ job[w] = NoJob
  BY AtMeans DEF ResponseLogout, Receive
<1>2. Moves(w, "PostSend", j) /\ UNCHANGED lockVars
  BY DEF ResponseLogout, Receive, Goto, Set, Moves
<1>3. AtWork("PostSend", j) /\ j.on = s /\ j.dest = s /\ j.packet = "logout"
  <2>1. connection[s] \in 0 .. MaxConnections
    BY PlayersAssumption DEF ResponseLogout, DataInv, PlayersAssumption
  <2>2. "logout" \in Packets
    BY DEF Packets
  <2> QED
    BY <2>1, <2>2, JobsAreJobs DEF AtWork, Fits, Job
<1>4. CanGo("idle", NoJob, "PostSend", j)
  <2> HIDE DEF j
  <2> QED
    BY <1>3, LockOrders, LocksDiffer
       DEF CanGo, Requested, StackAt, WantedAt, NoJob
<1> QED
  BY <1>1, <1>2, <1>3, <1>4, GotoStep

-----------------------------------------------------------------------------
\* Moving.
LEMMA ResponseMoveKeeps ==
  ASSUME WorkInv, DataInv, LockInv, NEW w \in Workers, NEW s \in Sessions, ResponseMove(w, s)
  PROVE  Keeps
<1> DEFINE j == Job(s, "move", connection[s])
<1>1. at[w] = "idle" /\ wants[w] = NoLock /\ job[w] = NoJob
  BY AtMeans DEF ResponseMove, Receive
<1>2. Moves(w, "UpdatePosition", j) /\ L!Request(w, Lock("player", s))
  BY DEF ResponseMove, Receive, Request, Set, Moves
<1>3. AtWork("UpdatePosition", j) /\ j.on = s /\ j.dest = s /\ j.packet = "move"
  <2>1. connection[s] \in 0 .. MaxConnections
    BY PlayersAssumption DEF ResponseMove, DataInv, PlayersAssumption
  <2>2. "move" \in Packets
    BY DEF Packets
  <2> QED
    BY <2>1, <2>2, JobsAreJobs DEF AtWork, Fits, Job
<1>4. CanRequest("idle", NoJob, Lock("player", s), "UpdatePosition", j)
  <2> HIDE DEF j
  <2> QED
    BY <1>3, LockOrders, LocksDiffer
       DEF CanRequest, Requested, StackAt, WantedAt, NoJob
<1> QED
  BY <1>1, <1>2, <1>3, <1>4, RequestStep

LEMMA UpdatePositionKeeps ==
  ASSUME WorkInv, DataInv, LockInv, NEW w \in Workers, UpdatePosition(w)
  PROVE  Keeps
<1> DEFINE j == [job[w] EXCEPT !.from = mZoneIdx[job[w].on]]
<1>1. /\ at[w] = "UpdatePosition" /\ wants[w] = NoLock
      /\ AtWork("UpdatePosition", job[w]) /\ job[w].on \in Sessions
  BY AtMeans DEF UpdatePosition
<1>2. \/ Moves(w, "ChangePlayerZone", j) /\ L!Request(w, playersLock)
      \/ Moves(w, "PostSend", job[w]) /\ UNCHANGED lockVars
  BY DEF UpdatePosition, Goto, Request, Set, Moves
<1>3. CASE Moves(w, "PostSend", job[w]) /\ UNCHANGED lockVars
  <2>1. AtWork("PostSend", job[w])
    BY <1>1 DEF AtWork, Fits
  <2>2. CanGo("UpdatePosition", job[w], "PostSend", job[w])
    BY <1>1 DEF CanGo, Requested, StackAt, AtWork, Fits
  <2> QED
    BY <1>1, <1>3, <2>1, <2>2, GotoStep
<1>4. CASE Moves(w, "ChangePlayerZone", j) /\ L!Request(w, playersLock)
  <2>1. j \in JobType /\ j.on = job[w].on /\ j.packet = job[w].packet
        /\ j.dest = job[w].dest
    BY <1>1, JobChanges DEF AtWork, DataInv, JobType
  <2> HIDE DEF j
  <2>2. AtWork("ChangePlayerZone", j)
    BY <1>1, <2>1 DEF AtWork, Fits
  <2>3. CanRequest("UpdatePosition", job[w], playersLock, "ChangePlayerZone", j)
    BY <1>1, <2>1, LockOrders, LocksDiffer
       DEF CanRequest, Requested, StackAt, WantedAt, AtWork, Fits
  <2> QED
    BY <1>1, <1>4, <2>2, <2>3, RequestStep
<1> QED
  BY <1>2, <1>3, <1>4

LEMMA ChangePlayerZoneKeeps ==
  ASSUME WorkInv, LockInv, NEW w \in Workers, ChangePlayerZone(w)
  PROVE  Keeps
<1>1. /\ at[w] = "ChangePlayerZone" /\ wants[w] = NoLock
      /\ AtWork("ChangePlayerZone", job[w]) /\ job[w].on \in Sessions
  BY AtMeans DEF ChangePlayerZone
<1>2. Moves(w, "PostSend", job[w]) /\ L!Leave(w, playersLock)
  BY DEF ChangePlayerZone, Leave, Set, Moves
<1>3. AtWork("PostSend", job[w])
  BY <1>1 DEF AtWork, Fits
<1>4. CanLeave("ChangePlayerZone", job[w], playersLock, "PostSend", job[w])
  BY <1>1, <1>3, LockOrders, LocksDiffer
     DEF CanLeave, Requested, StackAt, WantedAt, AtWork, Fits
<1> QED
  BY <1>1, <1>2, <1>3, <1>4, LeaveStep

LEMMA LeavePlayerKeeps ==
  ASSUME WorkInv, LockInv, NEW w \in Workers, LeavePlayer(w)
  PROVE  Keeps
<1>1. /\ at[w] = "LeavePlayer" /\ wants[w] = NoLock
      /\ AtWork("LeavePlayer", job[w]) /\ job[w].on \in Sessions
  BY AtMeans DEF LeavePlayer
<1>2. Moves(w, "idle", NoJob) /\ L!Leave(w, Lock("player", job[w].on))
  BY DEF LeavePlayer, Leave, Set, Moves
<1>3. AtWork("idle", NoJob)
  BY JobsAreJobs
<1>4. CanLeave("LeavePlayer", job[w], Lock("player", job[w].on), "idle", NoJob)
  BY <1>1, <1>3, LockOrders, LocksDiffer
     DEF CanLeave, Requested, StackAt, WantedAt, AtWork, Fits, NoJob
<1> QED
  BY <1>1, <1>2, <1>3, <1>4, LeaveStep

-----------------------------------------------------------------------------
\* Chat.
LEMMA ResponseChatKeeps ==
  ASSUME WorkInv, DataInv, LockInv, NEW w \in Workers, NEW s \in Sessions, ResponseChat(w, s)
  PROVE  Keeps
<1> DEFINE j == Job(s, "chat", connection[s])
<1>1. at[w] = "idle" /\ wants[w] = NoLock /\ job[w] = NoJob
  BY AtMeans DEF ResponseChat, Receive
<1>2. Moves(w, "GetClosePlayers", j) /\ L!Request(w, playersLock)
  BY DEF ResponseChat, Receive, Request, Set, Moves
<1>3. AtWork("GetClosePlayers", j) /\ j.on = s /\ j.dest = s /\ j.packet = "chat"
  <2>1. connection[s] \in 0 .. MaxConnections
    BY PlayersAssumption DEF ResponseChat, DataInv, PlayersAssumption
  <2>2. "chat" \in Packets
    BY DEF Packets
  <2> QED
    BY <2>1, <2>2, JobsAreJobs DEF AtWork, Fits, Job
<1>4. CanRequest("idle", NoJob, playersLock, "GetClosePlayers", j)
  <2> HIDE DEF j
  <2> QED
    BY <1>3, LockOrders, LocksDiffer
       DEF CanRequest, Requested, StackAt, WantedAt, NoJob
<1> QED
  BY <1>1, <1>2, <1>3, <1>4, RequestStep

LEMMA GetClosePlayersKeeps ==
  ASSUME WorkInv, DataInv, LockInv, NEW w \in Workers, GetClosePlayers(w)
  PROVE  Keeps
<1> DEFINE close == {e.player : e \in {e \in mPlayerZone :
                                         e.zone \in CloseZones(mZoneIdx[job[w].on])}}
           j == [job[w] EXCEPT !.targets = close]
<1>1. /\ at[w] = "GetClosePlayers" /\ wants[w] = NoLock
      /\ AtWork("GetClosePlayers", job[w]) /\ job[w].on \in Sessions
  BY AtMeans DEF GetClosePlayers
<1>2. Moves(w, "Broadcast", j) /\ L!Leave(w, playersLock)
  BY DEF GetClosePlayers, Leave, Set, Moves
<1>3. j \in JobType /\ j.on = job[w].on /\ j.packet = job[w].packet
  <2>1. close \in SUBSET (Sessions \cup {nullptr})
    BY DEF DataInv
  <2> HIDE DEF close
  <2> QED
    BY <1>1, <2>1, JobChanges DEF AtWork, JobType
<1> HIDE DEF j, close
<1>4. AtWork("Broadcast", j)
  BY <1>1, <1>3 DEF AtWork, Fits
<1>5. CanLeave("GetClosePlayers", job[w], playersLock, "Broadcast", j)
  BY <1>1, <1>3, LockOrders, LocksDiffer
     DEF CanLeave, Requested, StackAt, AtWork, Fits
<1> QED
  BY <1>1, <1>2, <1>4, <1>5, LeaveStep

LEMMA BroadcastToKeeps ==
  ASSUME WorkInv, LockInv, NEW w \in Workers, NEW p \in job[w].targets, BroadcastTo(w, p)
  PROVE  Keeps
<1> DEFINE j == [job[w] EXCEPT !.targets = @ \ {p}, !.dest = p]
           place == IF p # nullptr /\ mState[p] = "LOGGED_IN" THEN "PostSend" ELSE "Broadcast"
<1>1. /\ at[w] = "Broadcast" /\ wants[w] = NoLock
      /\ AtWork("Broadcast", job[w]) /\ job[w].on \in Sessions
  BY AtMeans DEF BroadcastTo
<1>2. Moves(w, place, j) /\ UNCHANGED lockVars
  BY Zenon DEF BroadcastTo, Goto, Set, Moves
<1>3. p \in Sessions \cup {nullptr}
  BY <1>1 DEF AtWork, JobType
<1>4. j \in JobType /\ j.on = job[w].on /\ j.packet = job[w].packet /\ j.dest = p
  <2>1. job[w].targets \ {p} \in SUBSET (Sessions \cup {nullptr})
    BY <1>1 DEF AtWork, JobType
  <2> QED
    BY <1>1, <1>3, <2>1, JobChanges DEF AtWork, JobType
<1> HIDE DEF j
<1>5. AtWork(place, j)
  BY <1>1, <1>3, <1>4 DEF AtWork, Fits
<1>6. CanGo("Broadcast", job[w], place, j)
  BY <1>1, <1>4 DEF CanGo, Requested, StackAt, AtWork, Fits
<1> QED
  BY <1>1, <1>2, <1>5, <1>6, GotoStep

LEMMA BroadcastEndKeeps ==
  ASSUME WorkInv, LockInv, NEW w \in Workers, BroadcastEnd(w)
  PROVE  Keeps
<1>1. /\ at[w] = "Broadcast" /\ wants[w] = NoLock
      /\ AtWork("Broadcast", job[w]) /\ job[w].on \in Sessions
  BY AtMeans DEF BroadcastEnd
<1>2. Moves(w, "idle", NoJob) /\ UNCHANGED lockVars
  BY DEF BroadcastEnd, Goto, Set, Moves
<1>3. AtWork("idle", NoJob)
  BY JobsAreJobs
<1>4. CanGo("Broadcast", job[w], "idle", NoJob)
  BY <1>1, <1>3, LockOrders, LocksDiffer
     DEF CanGo, Requested, StackAt, WantedAt, AtWork, Fits, NoJob
<1> QED
  BY <1>1, <1>2, <1>3, <1>4, GotoStep

-----------------------------------------------------------------------------
\* The return of a session.
LEMMA ReturnClientSessionKeeps ==
  ASSUME WorkInv, DataInv, LockInv, NEW w \in Workers, NEW s \in Sessions, ReturnClientSession(w, s)
  PROVE  Keeps
<1> DEFINE j == Job(s, "return", connection[s])
<1>1. at[w] = "idle" /\ wants[w] = NoLock /\ job[w] = NoJob
  BY AtMeans DEF ReturnClientSession
<1>2. Moves(w, "SessionReset", j) /\ L!Request(w, managerLock)
  BY DEF ReturnClientSession, Request, Set, Moves
<1>3. AtWork("SessionReset", j) /\ j.on = s /\ j.dest = s /\ j.packet = "return"
  <2>1. connection[s] \in 0 .. MaxConnections
    BY PlayersAssumption DEF ReturnClientSession, DataInv, PlayersAssumption
  <2>2. "return" \in Packets
    BY DEF Packets
  <2> QED
    BY <2>1, <2>2, JobsAreJobs DEF AtWork, Fits, Job
<1>4. CanRequest("idle", NoJob, managerLock, "SessionReset", j)
  <2> HIDE DEF j
  <2> QED
    BY <1>3, LockOrders, LocksDiffer
       DEF CanRequest, Requested, StackAt, WantedAt, NoJob
<1> QED
  BY <1>1, <1>2, <1>3, <1>4, RequestStep

LEMMA SessionResetKeeps ==
  ASSUME WorkInv, LockInv, NEW w \in Workers, SessionReset(w)
  PROVE  Keeps
<1>1. /\ at[w] = "SessionReset" /\ wants[w] = NoLock
      /\ AtWork("SessionReset", job[w]) /\ job[w].on \in Sessions
  BY AtMeans DEF SessionReset
<1>2. Moves(w, "BufferReset", job[w]) /\ L!Request(w, Lock("send", job[w].on))
  BY DEF SessionReset, Request, Set, Moves
<1>3. AtWork("BufferReset", job[w])
  BY <1>1 DEF AtWork, Fits
<1>4. CanRequest("SessionReset", job[w], Lock("send", job[w].on), "BufferReset", job[w])
  BY <1>1, <1>3, LockOrders, LocksDiffer
     DEF CanRequest, Requested, StackAt, WantedAt, AtWork, Fits
<1> QED
  BY <1>1, <1>2, <1>3, <1>4, RequestStep

LEMMA BufferResetKeeps ==
  ASSUME WorkInv, LockInv, NEW w \in Workers, BufferReset(w)
  PROVE  Keeps
<1>1. /\ at[w] = "BufferReset" /\ wants[w] = NoLock
      /\ AtWork("BufferReset", job[w]) /\ job[w].on \in Sessions
  BY AtMeans DEF BufferReset
<1>2. Moves(w, "DoSync", job[w]) /\ L!Leave(w, Lock("send", job[w].on))
  BY DEF BufferReset, Leave, Set, Moves
<1>3. AtWork("DoSync", job[w])
  BY <1>1 DEF AtWork, Fits
<1>4. CanLeave("BufferReset", job[w], Lock("send", job[w].on), "DoSync", job[w])
  BY <1>1, <1>3, LockOrders, LocksDiffer
     DEF CanLeave, Requested, StackAt, WantedAt, AtWork, Fits
<1> QED
  BY <1>1, <1>2, <1>3, <1>4, LeaveStep

LEMMA DoSyncKeeps ==
  ASSUME WorkInv, LockInv, NEW w \in Workers, DoSync(w)
  PROVE  Keeps
<1>1. /\ at[w] = "DoSync" /\ wants[w] = NoLock
      /\ AtWork("DoSync", job[w]) /\ job[w].on \in Sessions
  BY AtMeans DEF DoSync
<1>2. Moves(w, "LockPlayer", job[w]) /\ L!Request(w, Lock("sync", job[w].on))
  BY DEF DoSync, Request, Set, Moves
<1>3. AtWork("LockPlayer", job[w])
  BY <1>1 DEF AtWork, Fits
<1>4. CanRequest("DoSync", job[w], Lock("sync", job[w].on), "LockPlayer", job[w])
  BY <1>1, <1>3, LockOrders, LocksDiffer
     DEF CanRequest, Requested, StackAt, WantedAt, AtWork, Fits
<1> QED
  BY <1>1, <1>2, <1>3, <1>4, RequestStep

LEMMA LockPlayerKeeps ==
  ASSUME WorkInv, LockInv, NEW w \in Workers, LockPlayer(w)
  PROVE  Keeps
<1>1. /\ at[w] = "LockPlayer" /\ wants[w] = NoLock
      /\ AtWork("LockPlayer", job[w]) /\ job[w].on \in Sessions
  BY AtMeans DEF LockPlayer
<1>2. Moves(w, "PlayerReset", job[w]) /\ L!Request(w, Lock("player", job[w].on))
  BY DEF LockPlayer, Request, Set, Moves
<1>3. AtWork("PlayerReset", job[w])
  BY <1>1 DEF AtWork, Fits
<1>4. CanRequest("LockPlayer", job[w], Lock("player", job[w].on), "PlayerReset", job[w])
  BY <1>1, <1>3, LockOrders, LocksDiffer
     DEF CanRequest, Requested, StackAt, WantedAt, AtWork, Fits
<1> QED
  BY <1>1, <1>2, <1>3, <1>4, RequestStep

LEMMA PlayerResetKeeps ==
  ASSUME WorkInv, LockInv, NEW w \in Workers, PlayerReset(w)
  PROVE  Keeps
<1>1. /\ at[w] = "PlayerReset" /\ wants[w] = NoLock
      /\ AtWork("PlayerReset", job[w]) /\ job[w].on \in Sessions
  BY AtMeans DEF PlayerReset
<1>2. AtWork("UnregisterPlayer", job[w]) /\ AtWork("ClearPlayer", job[w])
  BY <1>1 DEF AtWork, Fits
<1>3. CanRequest("PlayerReset", job[w], playersLock, "UnregisterPlayer", job[w])
  BY <1>1, LockOrders, LocksDiffer
     DEF CanRequest, Requested, StackAt, WantedAt, AtWork, Fits
<1>4. CanGo("PlayerReset", job[w], "ClearPlayer", job[w])
  BY <1>1 DEF CanGo, Requested, StackAt, AtWork, Fits
<1>5. \/ Moves(w, "UnregisterPlayer", job[w]) /\ L!Request(w, playersLock)
      \/ Moves(w, "ClearPlayer", job[w]) /\ UNCHANGED lockVars
  BY DEF PlayerReset, Goto, Request, Set, Moves
<1> QED
  BY <1>1, <1>2, <1>3, <1>4, <1>5, RequestStep, GotoStep

LEMMA UnregisterPlayerKeeps ==
  ASSUME WorkInv, LockInv, NEW w \in Workers, UnregisterPlayer(w)
  PROVE  Keeps
<1>1. /\ at[w] = "UnregisterPlayer" /\ wants[w] = NoLock
      /\ AtWork("UnregisterPlayer", job[w]) /\ job[w].on \in Sessions
  BY AtMeans DEF UnregisterPlayer
<1>2. Moves(w, "ClearPlayer", job[w]) /\ L!Leave(w, playersLock)
  BY DEF UnregisterPlayer, Leave, Set, Moves
<1>3. AtWork("ClearPlayer", job[w])
  BY <1>1 DEF AtWork, Fits
<1>4. CanLeave("UnregisterPlayer", job[w], playersLock, "ClearPlayer", job[w])
  BY <1>1, <1>3, LockOrders, LocksDiffer
     DEF CanLeave, Requested, StackAt, WantedAt, AtWork, Fits
<1> QED
  BY <1>1, <1>2, <1>3, <1>4, LeaveStep

LEMMA ClearPlayerKeeps ==
  ASSUME WorkInv, LockInv, NEW w \in Workers, ClearPlayer(w)
  PROVE  Keeps
<1>1. /\ at[w] = "ClearPlayer" /\ wants[w] = NoLock
      /\ AtWork("ClearPlayer", job[w]) /\ job[w].on \in Sessions
  BY AtMeans DEF ClearPlayer
<1>2. Moves(w, "LeaveSync", job[w]) /\ L!Leave(w, Lock("player", job[w].on))
  BY DEF ClearPlayer, Leave, Set, Moves
<1>3. AtWork("LeaveSync", job[w])
  BY <1>1 DEF AtWork, Fits
<1>4. CanLeave("ClearPlayer", job[w], Lock("player", job[w].on), "LeaveSync", job[w])
  BY <1>1, <1>3, LockOrders, LocksDiffer
     DEF CanLeave, Requested, StackAt, WantedAt, AtWork, Fits
<1> QED
  BY <1>1, <1>2, <1>3, <1>4, LeaveStep

LEMMA LeaveSyncKeeps ==
  ASSUME WorkInv, LockInv, NEW w \in Workers, LeaveSync(w)
  PROVE  Keeps
<1>1. /\ at[w] = "LeaveSync" /\ wants[w] = NoLock
      /\ AtWork("LeaveSync", job[w]) /\ job[w].on \in Sessions
  BY AtMeans DEF LeaveSync
<1>2. Moves(w, "ReturnToPool", job[w]) /\ L!Leave(w, Lock("sync", job[w].on))
  BY DEF LeaveSync, Leave, Set, Moves
<1>3. AtWork("ReturnToPool", job[w])
  BY <1>1 DEF AtWork, Fits
<1>4. CanLeave("LeaveSync", job[w], Lock("sync", job[w].on), "ReturnToPool", job[w])
  BY <1>1, <1>3, LockOrders, LocksDiffer
     DEF CanLeave, Requested, StackAt, WantedAt, AtWork, Fits
<1> QED
  BY <1>1, <1>2, <1>3, <1>4, LeaveStep

LEMMA ReturnToPoolKeeps ==
  ASSUME WorkInv, LockInv, NEW w \in Workers, ReturnToPool(w)
  PROVE  Keeps
<1>1. /\ at[w] = "ReturnToPool" /\ wants[w] = NoLock
      /\ AtWork("ReturnToPool", job[w]) /\ job[w].on \in Sessions
  BY AtMeans DEF ReturnToPool
<1>2. Moves(w, "idle", NoJob) /\ L!Leave(w, managerLock)
  BY DEF ReturnToPool, Leave, Set, Moves
<1>3. AtWork("idle", NoJob)
  BY JobsAreJobs
<1>4. CanLeave("ReturnToPool", job[w], managerLock, "idle", NoJob)
  BY <1>1, <1>3, LockOrders, LocksDiffer
     DEF CanLeave, Requested, StackAt, WantedAt, AtWork, Fits, NoJob
<1> QED
  BY <1>1, <1>2, <1>3, <1>4, LeaveStep

-----------------------------------------------------------------------------
\* The sending, and where its callers go on.
LEMMA AfterKeeps ==
  ASSUME NEW j, AtWork("PostSend", j) \/ AtWork("Commit", j), j.on \in Sessions,
         NEW k, k = IF After[j.packet] = "idle" THEN NoJob ELSE j
  PROVE  AtWork(After[j.packet], k)
<1>1. j.packet \in {"base", "export", "login", "logout", "move", "chat"}
  BY DEF AtWork, Fits
<1>2. CASE j.packet \in {"base", "logout"}
  BY <1>2, AfterIs, JobsAreJobs
<1>3. CASE j.packet \in {"export", "login", "move", "chat"}
  BY <1>3, AfterIs DEF AtWork, Fits
<1> QED
  BY <1>1, <1>2, <1>3

LEMMA PostSendKeeps ==
  ASSUME WorkInv, LockInv, NEW w \in Workers, PostSend(w)
  PROVE  Keeps
<1> DEFINE place == After[job[w].packet]
           k == IF place = "idle" THEN NoJob ELSE job[w]
           l == Lock("send", job[w].dest)
<1>1. /\ at[w] = "PostSend" /\ wants[w] = NoLock
      /\ AtWork("PostSend", job[w]) /\ job[w].on \in Sessions
  BY AtMeans DEF PostSend
<1>2. \/ Moves(w, "Commit", job[w]) /\ L!Request(w, l)
      \/ Moves(w, place, k) /\ UNCHANGED lockVars
  BY DEF PostSend, Goto, Request, JobAfter, Set, Moves
<1>3. CASE Moves(w, "Commit", job[w]) /\ L!Request(w, l)
  <2>1. AtWork("Commit", job[w]) /\ job[w].dest \in Sessions
    BY <1>1 DEF AtWork, Fits
  <2>2. CanRequest("PostSend", job[w], l, "Commit", job[w])
    BY <1>1, <2>1, LockOrders, LocksDiffer
       DEF CanRequest, Requested, StackAt, WantedAt, AtWork, Fits
  <2> QED
    BY <1>1, <1>3, <2>1, <2>2, RequestStep
<1>4. CASE Moves(w, place, k) /\ UNCHANGED lockVars
  <2>1. AtWork(place, k)
    BY <1>1, AfterKeeps
  <2>2. CanGo("PostSend", job[w], place, k)
    BY <1>1, AfterIs DEF CanGo, Requested, StackAt, AtWork, Fits, NoJob
  <2> QED
    BY <1>1, <1>4, <2>1, <2>2, GotoStep
<1> QED
  BY <1>2, <1>3, <1>4

LEMMA CommitKeeps ==
  ASSUME WorkInv, LockInv, NEW w \in Workers, Commit(w)
  PROVE  Keeps
<1> DEFINE place == After[job[w].packet]
           k == IF place = "idle" THEN NoJob ELSE job[w]
           l == Lock("send", job[w].dest)
<1>1. /\ at[w] = "Commit" /\ wants[w] = NoLock
      /\ AtWork("Commit", job[w]) /\ job[w].on \in Sessions /\ job[w].dest \in Sessions
  BY AtMeans DEF Commit, AtWork, Fits
<1>2. Moves(w, place, k) /\ L!Leave(w, l)
  BY DEF Commit, Leave, JobAfter, Set, Moves
<1>3. AtWork(place, k)
  BY <1>1, AfterKeeps
<1>4. CanLeave("Commit", job[w], l, place, k)
  BY SMTT(30), <1>1, AfterIs, LockOrders, LocksDiffer
     DEF CanLeave, Requested, StackAt, AtWork, Fits, NoJob
<1> QED
  BY <1>1, <1>2, <1>3, <1>4, LeaveStep

-----------------------------------------------------------------------------
(***************************************************************************)
(* The types of the data.                                                  *)
(***************************************************************************)
dataVars == <<sessionVars, playerVars, registryVars, mTempId>>

\* Most steps leave them alone.
LEMMA DataLeftAlone ==
  ASSUME NEW w \in Workers,
         \/ EnterLock(w) \/ PostSend(w) \/ Commit(w) \/ LeavePlayer(w) \/ GetClosePlayers(w)
         \/ \E p \in job[w].targets : BroadcastTo(w, p)
         \/ BroadcastEnd(w) \/ SessionReset(w) \/ BufferReset(w) \/ DoSync(w)
         \/ LockPlayer(w) \/ PlayerReset(w) \/ LeaveSync(w)
         \/ \E s \in Sessions : \/ ResponseExportedKey(w, s) \/ ResponseMove(w, s)
                                \/ ResponseChat(w, s) \/ ReturnClientSession(w, s)
  PROVE  UNCHANGED dataVars
BY DEF dataVars, EnterLock, PostSend, Commit, LeavePlayer, GetClosePlayers, BroadcastTo,
       BroadcastEnd, SessionReset, BufferReset, DoSync, LockPlayer, PlayerReset, LeaveSync,
       ResponseExportedKey, ResponseMove, ResponseChat, ReturnClientSession

LEMMA DataKept ==
  ASSUME PlayersAssumption, WorkInv, DataInv, [Next]_vars
  PROVE  DataInv'
<1>1. CASE UNCHANGED dataVars
  BY <1>1 DEF DataInv, dataVars, sessionVars, playerVars, registryVars
<1>2. ASSUME NEW s \in Sessions, Disconnect(s)
      PROVE  DataInv'
  BY <1>2 DEF DataInv, Disconnect, Set, playerVars, registryVars
<1>3. ASSUME NEW w \in Workers, NEW s \in Sessions, AcceptCompletion(w, s)
      PROVE  DataInv'
  <2>1. /\ accepted' = accepted + 1 /\ accepted' \in 0 .. MaxConnections
        /\ connection' = [connection EXCEPT ![s] = accepted + 1]
        /\ phase' = [phase EXCEPT ![s] = "open"]
        /\ UNCHANGED <<mState, playerVars, registryVars, mTempId>>
    BY <1>3 DEF DataInv, AcceptCompletion, Set, PlayersAssumption
  <2>2. connection' \in [Sessions -> 0 .. accepted']
    BY <2>1 DEF DataInv, PlayersAssumption
  <2> QED
    BY <2>1, <2>2 DEF DataInv, playerVars, registryVars
<1>4. ASSUME NEW w \in Workers, SendBaseKey(w) \/ KeyShared(w) \/ LoggedIn(w)
      PROVE  DataInv'
  BY <1>4 DEF DataInv, SendBaseKey, KeyShared, LoggedIn, Set, ClientStates,
              playerVars, registryVars
<1>5. ASSUME NEW w \in Workers, NEW s \in Sessions, ResponseLogout(w, s)
      PROVE  DataInv'
  BY <1>5 DEF DataInv, ResponseLogout, Set, ClientStates, playerVars, registryVars
<1>6. ASSUME NEW w \in Workers, NEW s \in Sessions, ResponseLogin(w, s)
      PROVE  DataInv'
  <2>1. UpdateZoneIdx(mPos[s]) \in Zones
    BY ZoneInRange DEF DataInv, PlayersAssumption
  <2>2. mTempId + 1 \in 1 .. MaxLogins
    BY <1>6 DEF DataInv, ResponseLogin, PlayersAssumption
  <2>3. /\ mTempId' = mTempId + 1
        /\ mPlayerId' = [mPlayerId EXCEPT ![s] = mTempId + 1]
        /\ mZoneIdx' = [mZoneIdx EXCEPT ![s] = UpdateZoneIdx(mPos[s])]
        /\ UNCHANGED <<sessionVars, mPos, registryVars>>
    BY <1>6 DEF ResponseLogin, Set
  <2> QED
    BY <2>1, <2>2, <2>3 DEF DataInv, sessionVars, registryVars, Ids
<1>7. ASSUME NEW w \in Workers, RegisterPlayer(w)
      PROVE  DataInv'
  <2>1. job[w].on \in Sessions
    BY <1>7, AtMeans DEF RegisterPlayer
  <2>2. Entry(mZoneIdx[job[w].on], mPlayerId[job[w].on], job[w].on)
          \in [zone : Zones \cup {NoZone}, id : Ids \cup {NoId},
               player : Sessions \cup {nullptr}]
    BY <2>1 DEF DataInv, Entry
  <2> QED
    BY <1>7, <2>1, <2>2 DEF DataInv, RegisterPlayer, Set, Erase, sessionVars, playerVars
<1>8. ASSUME NEW w \in Workers, UpdatePosition(w)
      PROVE  DataInv'
  <2>1. job[w].on \in Sessions
    BY <1>8, AtMeans DEF UpdatePosition
  <2>2. PICK pos \in Positions :
          /\ mPos' = [mPos EXCEPT ![job[w].on] = pos]
          /\ mZoneIdx' = [mZoneIdx EXCEPT ![job[w].on] = UpdateZoneIdx(pos)]
          /\ UNCHANGED <<sessionVars, mPlayerId, registryVars, mTempId>>
    BY <1>8 DEF UpdatePosition, Set
  <2>3. UpdateZoneIdx(pos) \in Zones
    BY ZoneInRange DEF PlayersAssumption
  <2> QED
    BY <2>1, <2>2, <2>3 DEF DataInv, sessionVars, registryVars
<1>9. ASSUME NEW w \in Workers, ChangePlayerZone(w)
      PROVE  DataInv'
  <2> DEFINE t == job[w].on
             there == {e \in mPlayerZone : e.zone = job[w].from /\ e.id = mPlayerId[t]}
             player == IF there = {} THEN nullptr ELSE (CHOOSE e \in there : TRUE).player
  <2>1. t \in Sessions
    BY <1>9, AtMeans DEF ChangePlayerZone
  <2>2. player \in Sessions \cup {nullptr}
    <3>1. CASE there # {}
      <4>1. (CHOOSE e \in there : TRUE) \in mPlayerZone
        BY <3>1
      <4> QED
        BY <3>1, <4>1 DEF DataInv
    <3> QED
      BY <3>1
  <2>3. /\ mPlayerZone' = (Erase(mZoneIdx[t], mPlayerId[t]) \ there)
                            \cup {Entry(mZoneIdx[t], mPlayerId[t], player)}
        /\ UNCHANGED <<sessionVars, playerVars, mPlayerMap, mTempId>>
    BY <1>9 DEF ChangePlayerZone
  <2> HIDE DEF player, there
  <2>4. Entry(mZoneIdx[t], mPlayerId[t], player)
          \in [zone : Zones \cup {NoZone}, id : Ids \cup {NoId},
               player : Sessions \cup {nullptr}]
    BY <2>1, <2>2 DEF DataInv, Entry
  <2> QED
    BY <2>3, <2>4 DEF DataInv, Erase, sessionVars, playerVars
<1>10. ASSUME NEW w \in Workers, UnregisterPlayer(w)
       PROVE  DataInv'
  BY <1>10 DEF DataInv, UnregisterPlayer, Set, Erase, sessionVars, playerVars
<1>11. ASSUME NEW w \in Workers, ClearPlayer(w)
       PROVE  DataInv'
  BY <1>11 DEF DataInv, ClearPlayer, Set, sessionVars, registryVars, PlayersAssumption
<1>12. ASSUME NEW w \in Workers, ReturnToPool(w)
       PROVE  DataInv'
  BY <1>12 DEF DataInv, ReturnToPool, Set, ClientStates, playerVars, registryVars
<1>13. CASE UNCHANGED vars
  BY <1>1, <1>13 DEF vars, dataVars
<1> QED
  BY <1>1, <1>2, <1>3, <1>4, <1>5, <1>6, <1>7, <1>8, <1>9, <1>10, <1>11, <1>12, <1>13,
     DataLeftAlone
  DEF Next, Start, Continue

-----------------------------------------------------------------------------
LEMMA InitHolds ==
  ASSUME PlayersAssumption, Init
  PROVE  IInv
<1>1. WorkInv
  <2>1. NoJob \in JobType
    BY JobsAreJobs DEF AtWork
  <2> QED
    BY <2>1, JobsAreJobs DEF Init, WorkInv, Places
<1>2. DataInv
  BY DEF Init, DataInv, ClientStates, PlayersAssumption
<1>3. LockInv
  <2>1. L!LockTypeOK
    BY DEF Init, L!LockInit, L!LockTypeOK
  <2>2. ASSUME NEW w \in Workers, NEW l \in Locks PROVE ~ L!Inside(w, l)
    BY PlayersAssumption DEF Init, L!LockInit, L!Inside
  <2> QED
    BY <2>1, <2>2 DEF Init, L!LockInit, LockInv, StackAt
<1> QED
  BY <1>1, <1>2, <1>3 DEF IInv

LEMMA NextKeeps ==
  ASSUME PlayersAssumption, IInv, [Next]_vars
  PROVE  IInv' /\ [L!LockNext]_lockVars
<1> USE DEF IInv
<1>1. DataInv'
  BY DataKept
<1>2. CASE UNCHANGED vars
  BY <1>1, <1>2 DEF vars, lockVars, WorkInv, LockInv, AtWork, JobType, L!LockTypeOK,
                    L!Inside, StackAt, WantedAt, Requested
<1>3. ASSUME NEW s \in Sessions, Disconnect(s)
      PROVE  Keeps
  BY <1>3 DEF Keeps, Disconnect, lockVars, WorkInv, LockInv, AtWork, JobType, L!LockTypeOK,
              L!Inside, StackAt, WantedAt, Requested
<1>4. ASSUME NEW w \in Workers, EnterLock(w)
      PROVE  Keeps
  <2>1. (L!AcquireWrite(w) \/ L!AcquireRead(w)) /\ UNCHANGED <<at, job>>
    BY <1>4 DEF EnterLock
  <2>2. WorkInv'
    BY <2>1 DEF WorkInv, AtWork, JobType
  <2> QED
    BY <2>1, <2>2, EnterKeepsLocks DEF Keeps
<1>5. ASSUME NEW w \in Workers, Start(w)
      PROVE  Keeps
  BY <1>5, AcceptCompletionKeeps, ResponseExportedKeyKeeps, ResponseLoginKeeps,
     ResponseLogoutKeeps, ResponseMoveKeeps, ResponseChatKeeps, ReturnClientSessionKeeps
  DEF Start
<1>6. ASSUME NEW w \in Workers, Continue(w)
      PROVE  Keeps
  BY <1>6, PostSendKeeps, CommitKeeps, SendBaseKeyKeeps, KeySharedKeeps, RegisterPlayerKeeps,
     LoggedInKeeps, UpdatePositionKeeps, ChangePlayerZoneKeeps, LeavePlayerKeeps,
     GetClosePlayersKeeps, BroadcastToKeeps, BroadcastEndKeeps, SessionResetKeeps,
     BufferResetKeeps, DoSyncKeeps, LockPlayerKeeps, PlayerResetKeeps, UnregisterPlayerKeeps,
     ClearPlayerKeeps, LeaveSyncKeeps, ReturnToPoolKeeps
  DEF Continue
<1> QED
  BY <1>1, <1>2, <1>3, <1>4, <1>5, <1>6 DEF Next, Keeps

\* The inductive invariant: where each worker is, the types, and the locks.
THEOREM IInvHolds == PlayersAssumption => (Spec => []IInv)
<1> SUFFICES ASSUME PlayersAssumption
             PROVE  Spec => []IInv
  OBVIOUS
<1>1. Init => IInv
  BY InitHolds
<1>2. IInv /\ [Next]_vars => IInv'
  BY NextKeeps
<1> QED
  BY <1>1, <1>2, PTL DEF Spec

\* All that the workers do with the locks is what the LockOrderChecker lets
\* them do: its assertions (LockOrderChecker.cpp:12-22, 27-34) hold at every
\* watched lock that a handler enters or leaves.
THEOREM LockOrderFollowed == PlayersAssumption => (Spec => FollowsLockOrder)
<1> SUFFICES ASSUME PlayersAssumption
             PROVE  Spec => FollowsLockOrder
  OBVIOUS
<1>1. Init => IInv /\ L!LockInit
  BY InitHolds DEF Init
<1>2. IInv /\ [Next]_vars => IInv' /\ [L!LockNext]_L!lockVars
  BY NextKeeps DEF L!lockVars, lockVars
<1> QED
  BY <1>1, <1>2, PTL DEF Spec, FollowsLockOrder, L!Spec

\* Of two workers of which one waits for the other and this one for a lock as
\* well, the second waits for a lock of a higher rank.
LEMMA WaitingGoesUp ==
  ASSUME IInv, NEW v \in Workers, NEW w \in Workers, WaitsFor(w, v), wants[v] # NoLock
  PROVE  /\ Rank(wants[w]) \in 1 .. 5 /\ Rank(wants[v]) \in 1 .. 5
         /\ Rank(wants[w]) < Rank(wants[v])
<1>1. wants[w] = WantedAt(at[w], job[w]) /\ wants[v] = WantedAt(at[v], job[v])
  BY DEF IInv, LockInv, WaitsFor
<1>2. AtWork(at[w], job[w]) /\ AtWork(at[v], job[v])
  BY DEF IInv, WorkInv
<1>3. wants[w] \in Locks
  BY <1>1, <1>2, WantedIsRequested DEF WaitsFor
<1>4. Requested(at[v], job[v], wants[w]) /\ wants[w] # wants[v]
  BY <1>3 DEF WaitsFor, IInv, LockInv
<1> QED
  BY <1>1, <1>2, <1>4, RankGoesUp

\* No workers wait for each other in a circle, for the watched locks and for
\* mPlayerLock and the manager's lock alike (ClientSession.cpp:34, 52,
\* Player.cpp:45-54, 152-164): every lock is requested after those of a lower
\* rank, and there are five ranks.
THEOREM NoCircleOfWorkers == PlayersAssumption => (Spec => []NoCircle)
<1> SUFFICES ASSUME PlayersAssumption
             PROVE  Spec => []NoCircle
  OBVIOUS
<1>1. IInv => NoCircle
  <2> SUFFICES ASSUME IInv, NEW S \in (SUBSET Workers) \ {{}},
                      \A w \in S : \E v \in S : WaitsFor(w, v)
               PROVE  FALSE
    BY DEF NoCircle
  <2>1. ASSUME NEW w \in S
        PROVE  /\ Rank(wants[w]) \in 1 .. 5
               /\ \E v \in S : Rank(wants[v]) > Rank(wants[w])
    <3>1. PICK v \in S : WaitsFor(w, v)
      OBVIOUS
    <3>2. wants[v] # NoLock
      BY DEF WaitsFor
    <3> QED
      BY <3>1, <3>2, WaitingGoesUp
  <2> DEFINE Above(n) == \E w \in S : Rank(wants[w]) >= n
  <2>2. Above(1)
    <3>1. PICK w \in S : TRUE
      OBVIOUS
    <3> QED
      BY <3>1, <2>1
  <2>3. ASSUME NEW n \in 1 .. 5, Above(n) PROVE Above(n + 1)
    <3>1. PICK w \in S : Rank(wants[w]) >= n
      BY <2>3
    <3>2. PICK v \in S : Rank(wants[v]) > Rank(wants[w])
      BY <2>1
    <3>3. Rank(wants[w]) \in 1 .. 5 /\ Rank(wants[v]) \in 1 .. 5
      BY <2>1
    <3> QED
      BY <3>1, <3>2, <3>3
  <2>4. Above(6)
    <3> HIDE DEF Above
    <3> QED
      BY <2>2, <2>3
  <2> QED
    BY <2>1, <2>4
<1> QED
  BY <1>1, IInvHolds, PTL

----------------------------------------------------------------------------
(***************************************************************************)
(* The answers: what is posted in answer to a packet is never sent to      *)
(* another client than the one that sent the packet, though the session    *)
(* may lose its connection while the packet is handled and serve somebody  *)
(* else afterwards.                                                        *)
(*                                                                         *)
(* The handler of a packet keeps its session from being returned; who      *)
(* returns it is alone with it and has emptied its send buffer before the  *)
(* session can be given to the next connection.                            *)
(***************************************************************************)

\* The places behind the reset of the send buffer.
Cleared ==
  {"DoSync", "LockPlayer", "PlayerReset", "UnregisterPlayer", "ClearPlayer", "LeaveSync",
   "ReturnToPool"}

\* The session of a job serves the connection that the job is for, and who
\* returns a session is alone with it.
ServesInv ==
  \A w \in Workers :
    job[w].on # NoSession =>
      /\ phase[job[w].on] # "free"
      /\ job[w].serves = connection[job[w].on]
      /\ job[w].packet = "return" =>
           \A v \in Workers : job[v].on = job[w].on => v = w

BufferInv ==
  /\ mSendBuffer \in [Sessions -> SUBSET Nat]
  /\ \A s \in Sessions : phase[s] = "free" => mSendBuffer[s] = {}
  /\ \A w \in Workers : at[w] \in Cleared => mSendBuffer[job[w].on] = {}
  /\ RepliesReachTheirClient

ReplyInv == ServesInv /\ BufferInv

-----------------------------------------------------------------------------
\* A step of a handler that goes on with its job or ends it.
Same(j, k) ==
  k = NoJob \/ (k.on = j.on /\ k.packet = j.packet /\ k.serves = j.serves)

LEMMA NoJobIsNowhere ==
  NoJob.on = NoSession /\ NoJob.packet = "none" /\ NoJob.dest = NoSession
BY DEF NoJob

\* Nobody but a handler of the session is behind the reset.
LEMMA ClearedMeansReturn ==
  ASSUME NEW place \in Cleared, NEW j, AtWork(place, j)
  PROVE  j.packet = "return" /\ j.on \in Sessions
BY DEF Cleared, AtWork, Fits

LEMMA GoesOn ==
  ASSUME PlayersAssumption, WorkInv, ReplyInv, NEW w \in Workers, NEW place, NEW j,
         Moves(w, place, j), Same(job[w], j),
         WorkInv', place \in Cleared => at[w] \in Cleared,
         UNCHANGED <<phase, connection, mSendBuffer>>
  PROVE  ReplyInv'
<1>1. /\ at'[w] = place /\ job'[w] = j
      /\ \A v \in Workers \ {w} : at'[v] = at[v] /\ job'[v] = job[v]
  BY MovesTo
<1>2. ServesInv'
  <2> SUFFICES ASSUME NEW u \in Workers, job'[u].on # NoSession
               PROVE  /\ phase[job'[u].on] # "free"
                      /\ job'[u].serves = connection[job'[u].on]
                      /\ job'[u].packet = "return" =>
                           \A v \in Workers : job'[v].on = job'[u].on => v = u
    BY DEF ServesInv
  <2>1. \A v \in Workers : job'[v].on # NoSession =>
          job'[v].on = job[v].on /\ job'[v].packet = job[v].packet
            /\ job'[v].serves = job[v].serves
    BY <1>1, NoJobIsNowhere DEF Same
  <2> QED
    BY <2>1 DEF ReplyInv, ServesInv
<1>3. BufferInv'
  <2>1. ASSUME NEW v \in Workers, at'[v] \in Cleared
        PROVE  mSendBuffer[job'[v].on] = {}
    <3>1. CASE v = w /\ j = NoJob
      <4>1. AtWork(at'[v], NoJob)
        BY <1>1, <3>1 DEF WorkInv
      <4> QED
        BY <2>1, <4>1, ClearedMeansReturn, NoJobIsNowhere
    <3>2. CASE v = w /\ j # NoJob
      BY <1>1, <2>1, <3>2 DEF Same, ReplyInv, BufferInv
    <3>3. CASE v # w
      BY <1>1, <2>1, <3>3 DEF ReplyInv, BufferInv
    <3> QED
      BY <3>1, <3>2, <3>3
  <2> QED
    BY <2>1 DEF ReplyInv, BufferInv, RepliesReachTheirClient
<1> QED
  BY <1>2, <1>3 DEF ReplyInv

-----------------------------------------------------------------------------
(***************************************************************************)
(* The steps.                                                              *)
(***************************************************************************)
\* Who returns a session is alone with it.
MayStart(s, packet) ==
  \A v \in Workers : job[v].on = s => job[v].packet # "return" /\ packet # "return"

LEMMA Starts ==
  ASSUME PlayersAssumption, WorkInv, ReplyInv, NEW w \in Workers, NEW s \in Sessions,
         NEW place, place \notin Cleared, NEW packet,
         Moves(w, place, Job(s, packet, connection[s])),
         job[w] = NoJob, phase[s] # "free",
         MayStart(s, packet),
         UNCHANGED <<phase, connection, mSendBuffer>>
  PROVE  ReplyInv'
<1> DEFINE j == Job(s, packet, connection[s])
<1>1. j.on = s /\ j.packet = packet /\ j.serves = connection[s]
  BY DEF Job
<1> HIDE DEF j
<1>2. /\ at'[w] = place /\ job'[w] = j
      /\ \A v \in Workers \ {w} : at'[v] = at[v] /\ job'[v] = job[v]
  BY MovesTo DEF j
<1>3. ServesInv'
  BY <1>1, <1>2, NoJobIsNowhere, PlayersAssumption
  DEF ReplyInv, ServesInv, PlayersAssumption, MayStart
<1>4. BufferInv'
  BY <1>2 DEF ReplyInv, BufferInv, RepliesReachTheirClient
<1> QED
  BY <1>3, <1>4 DEF ReplyInv

LEMMA StartKeepsReplies ==
  ASSUME PlayersAssumption, IInv, ReplyInv, NEW w \in Workers, NEW s \in Sessions
  PROVE  /\ ResponseExportedKey(w, s) => ReplyInv'
         /\ ResponseLogin(w, s) => ReplyInv'
         /\ ResponseLogout(w, s) => ReplyInv'
         /\ ResponseMove(w, s) => ReplyInv'
         /\ ResponseChat(w, s) => ReplyInv'
         /\ ReturnClientSession(w, s) => ReplyInv'
<1>1. ASSUME NEW state, NEW packet \in Packets \ {"return"}, Receive(w, s, state, packet)
      PROVE  /\ job[w] = NoJob /\ phase[s] # "free"
             /\ MayStart(s, packet)
             /\ job' = [job EXCEPT ![w] = Job(s, packet, connection[s])]
  BY <1>1, AtMeans DEF Receive, IInv, Handlers, Set, MayStart
<1>2. ASSUME ResponseExportedKey(w, s) PROVE ReplyInv'
  <2>1. Receive(w, s, "SHARING_KEY", "export")
    BY <1>2 DEF ResponseExportedKey
  <2>2. at' = [at EXCEPT ![w] = "PostSend"] /\ UNCHANGED <<phase, connection, mSendBuffer>>
    BY <1>2 DEF ResponseExportedKey, Goto, Set, sessionVars
  <2>3. "export" \in Packets \ {"return"} /\ "PostSend" \notin Cleared
    BY DEF Packets, Cleared
  <2>4. /\ job[w] = NoJob /\ phase[s] # "free"
        /\ MayStart(s, "export")
        /\ job' = [job EXCEPT ![w] = Job(s, "export", connection[s])]
    BY <1>1, <2>1, <2>3
  <2>5. Moves(w, "PostSend", Job(s, "export", connection[s]))
    BY <2>2, <2>4 DEF Moves
  <2> QED
    BY <2>2, <2>3, <2>4, <2>5, Starts DEF IInv
<1>3. ASSUME ResponseLogin(w, s) PROVE ReplyInv'
  <2>1. Receive(w, s, "WAIT_FOR_LOGIN", "login")
    BY <1>3 DEF ResponseLogin
  <2>2. at' = [at EXCEPT ![w] = "RegisterPlayer"] /\ UNCHANGED <<phase, connection, mSendBuffer>>
    BY <1>3 DEF ResponseLogin, Request, Set, sessionVars
  <2>3. "login" \in Packets \ {"return"} /\ "RegisterPlayer" \notin Cleared
    BY DEF Packets, Cleared
  <2>4. /\ job[w] = NoJob /\ phase[s] # "free"
        /\ MayStart(s, "login")
        /\ job' = [job EXCEPT ![w] = Job(s, "login", connection[s])]
    BY <1>1, <2>1, <2>3
  <2>5. Moves(w, "RegisterPlayer", Job(s, "login", connection[s]))
    BY <2>2, <2>4 DEF Moves
  <2> QED
    BY <2>2, <2>3, <2>4, <2>5, Starts DEF IInv
<1>4. ASSUME ResponseLogout(w, s) PROVE ReplyInv'
  <2>1. Receive(w, s, "LOGGED_IN", "logout")
    BY <1>4 DEF ResponseLogout
  <2>2. at' = [at EXCEPT ![w] = "PostSend"] /\ UNCHANGED <<phase, connection, mSendBuffer>>
    BY <1>4 DEF ResponseLogout, Goto, Set, sessionVars
  <2>3. "logout" \in Packets \ {"return"} /\ "PostSend" \notin Cleared
    BY DEF Packets, Cleared
  <2>4. /\ job[w] = NoJob /\ phase[s] # "free"
        /\ MayStart(s, "logout")
        /\ job' = [job EXCEPT ![w] = Job(s, "logout", connection[s])]
    BY <1>1, <2>1, <2>3
  <2>5. Moves(w, "PostSend", Job(s, "logout", connection[s]))
    BY <2>2, <2>4 DEF Moves
  <2> QED
    BY <2>2, <2>3, <2>4, <2>5, Starts DEF IInv
<1>5. ASSUME ResponseMove(w, s) PROVE ReplyInv'
  <2>1. Receive(w, s, "LOGGED_IN", "move")
    BY <1>5 DEF ResponseMove
  <2>2. at' = [at EXCEPT ![w] = "UpdatePosition"] /\ UNCHANGED <<phase, connection, mSendBuffer>>
    BY <1>5 DEF ResponseMove, Request, Set, sessionVars
  <2>3. "move" \in Packets \ {"return"} /\ "UpdatePosition" \notin Cleared
    BY DEF Packets, Cleared
  <2>4. /\ job[w] = NoJob /\ phase[s] # "free"
        /\ MayStart(s, "move")
        /\ job' = [job EXCEPT ![w] = Job(s, "move", connection[s])]
    BY <1>1, <2>1, <2>3
  <2>5. Moves(w, "UpdatePosition", Job(s, "move", connection[s]))
    BY <2>2, <2>4 DEF Moves
  <2> QED
    BY <2>2, <2>3, <2>4, <2>5, Starts DEF IInv
<1>6. ASSUME ResponseChat(w, s) PROVE ReplyInv'
  <2>1. Receive(w, s, "LOGGED_IN", "chat")
    BY <1>6 DEF ResponseChat
  <2>2. at' = [at EXCEPT ![w] = "GetClosePlayers"] /\ UNCHANGED <<phase, connection, mSendBuffer>>
    BY <1>6 DEF ResponseChat, Request, Set, sessionVars
  <2>3. "chat" \in Packets \ {"return"} /\ "GetClosePlayers" \notin Cleared
    BY DEF Packets, Cleared
  <2>4. /\ job[w] = NoJob /\ phase[s] # "free"
        /\ MayStart(s, "chat")
        /\ job' = [job EXCEPT ![w] = Job(s, "chat", connection[s])]
    BY <1>1, <2>1, <2>3
  <2>5. Moves(w, "GetClosePlayers", Job(s, "chat", connection[s]))
    BY <2>2, <2>4 DEF Moves
  <2> QED
    BY <2>2, <2>3, <2>4, <2>5, Starts DEF IInv
<1>7. ASSUME ReturnClientSession(w, s) PROVE ReplyInv'
  <2>1. /\ job[w] = NoJob /\ phase[s] # "free"
        /\ MayStart(s, "return")
        /\ job' = [job EXCEPT ![w] = Job(s, "return", connection[s])]
        /\ at' = [at EXCEPT ![w] = "SessionReset"]
        /\ UNCHANGED <<phase, connection, mSendBuffer>>
    BY <1>7, AtMeans
    DEF ReturnClientSession, IInv, Handlers, Request, Set, sessionVars, MayStart
  <2>2. "SessionReset" \notin Cleared
    BY DEF Cleared
  <2> QED
    BY <2>1, <2>2, Starts DEF IInv, Moves
<1> QED
  BY <1>2, <1>3, <1>4, <1>5, <1>6, <1>7

LEMMA ContinueKeepsReplies ==
  ASSUME PlayersAssumption, IInv, WorkInv', ReplyInv, NEW w \in Workers
  PROVE  /\ PostSend(w) => ReplyInv'
         /\ UpdatePosition(w) => ReplyInv'
         /\ GetClosePlayers(w) => ReplyInv'
         /\ \A p \in job[w].targets : BroadcastTo(w, p) => ReplyInv'
         /\ PlayerReset(w) => ReplyInv'
         /\ SendBaseKey(w) => ReplyInv'
         /\ KeyShared(w) => ReplyInv'
         /\ RegisterPlayer(w) => ReplyInv'
         /\ LoggedIn(w) => ReplyInv'
         /\ ChangePlayerZone(w) => ReplyInv'
         /\ LeavePlayer(w) => ReplyInv'
         /\ BroadcastEnd(w) => ReplyInv'
         /\ SessionReset(w) => ReplyInv'
         /\ DoSync(w) => ReplyInv'
         /\ LockPlayer(w) => ReplyInv'
         /\ UnregisterPlayer(w) => ReplyInv'
         /\ ClearPlayer(w) => ReplyInv'
         /\ LeaveSync(w) => ReplyInv'
<1>1. Same(job[w], job[w]) /\ Same(job[w], NoJob)
  BY DEF Same
<1>2. job[w] \in JobType
  BY DEF IInv, WorkInv
<1>3. ASSUME SendBaseKey(w) PROVE ReplyInv'
  <2>1. Moves(w, "PostSend", job[w]) /\ UNCHANGED <<phase, connection, mSendBuffer>>
    BY <1>3 DEF SendBaseKey, Goto, Set, Moves, sessionVars
  <2>2. "PostSend" \in Cleared => at[w] \in Cleared
    BY <1>3 DEF SendBaseKey, At, Cleared
  <2> QED
    BY <1>1, <2>1, <2>2, GoesOn DEF IInv
<1>4. ASSUME KeyShared(w) PROVE ReplyInv'
  <2>1. Moves(w, "idle", NoJob) /\ UNCHANGED <<phase, connection, mSendBuffer>>
    BY <1>4 DEF KeyShared, Goto, Set, Moves, sessionVars
  <2>2. "idle" \in Cleared => at[w] \in Cleared
    BY <1>4 DEF KeyShared, At, Cleared
  <2> QED
    BY <1>1, <2>1, <2>2, GoesOn DEF IInv
<1>5. ASSUME RegisterPlayer(w) PROVE ReplyInv'
  <2>1. Moves(w, "PostSend", job[w]) /\ UNCHANGED <<phase, connection, mSendBuffer>>
    BY <1>5 DEF RegisterPlayer, Leave, Set, Moves, sessionVars
  <2>2. "PostSend" \in Cleared => at[w] \in Cleared
    BY <1>5 DEF RegisterPlayer, At, Cleared
  <2> QED
    BY <1>1, <2>1, <2>2, GoesOn DEF IInv
<1>6. ASSUME LoggedIn(w) PROVE ReplyInv'
  <2>1. Moves(w, "idle", NoJob) /\ UNCHANGED <<phase, connection, mSendBuffer>>
    BY <1>6 DEF LoggedIn, Goto, Set, Moves, sessionVars
  <2>2. "idle" \in Cleared => at[w] \in Cleared
    BY <1>6 DEF LoggedIn, At, Cleared
  <2> QED
    BY <1>1, <2>1, <2>2, GoesOn DEF IInv
<1>7. ASSUME ChangePlayerZone(w) PROVE ReplyInv'
  <2>1. Moves(w, "PostSend", job[w]) /\ UNCHANGED <<phase, connection, mSendBuffer>>
    BY <1>7 DEF ChangePlayerZone, Leave, Set, Moves, sessionVars
  <2>2. "PostSend" \in Cleared => at[w] \in Cleared
    BY <1>7 DEF ChangePlayerZone, At, Cleared
  <2> QED
    BY <1>1, <2>1, <2>2, GoesOn DEF IInv
<1>8. ASSUME LeavePlayer(w) PROVE ReplyInv'
  <2>1. Moves(w, "idle", NoJob) /\ UNCHANGED <<phase, connection, mSendBuffer>>
    BY <1>8 DEF LeavePlayer, Leave, Set, Moves, sessionVars
  <2>2. "idle" \in Cleared => at[w] \in Cleared
    BY <1>8 DEF LeavePlayer, At, Cleared
  <2> QED
    BY <1>1, <2>1, <2>2, GoesOn DEF IInv
<1>9. ASSUME BroadcastEnd(w) PROVE ReplyInv'
  <2>1. Moves(w, "idle", NoJob) /\ UNCHANGED <<phase, connection, mSendBuffer>>
    BY <1>9 DEF BroadcastEnd, Goto, Set, Moves, sessionVars
  <2>2. "idle" \in Cleared => at[w] \in Cleared
    BY <1>9 DEF BroadcastEnd, At, Cleared
  <2> QED
    BY <1>1, <2>1, <2>2, GoesOn DEF IInv
<1>10. ASSUME SessionReset(w) PROVE ReplyInv'
  <2>1. Moves(w, "BufferReset", job[w]) /\ UNCHANGED <<phase, connection, mSendBuffer>>
    BY <1>10 DEF SessionReset, Request, Set, Moves, sessionVars
  <2>2. "BufferReset" \in Cleared => at[w] \in Cleared
    BY <1>10 DEF SessionReset, At, Cleared
  <2> QED
    BY <1>1, <2>1, <2>2, GoesOn DEF IInv
<1>11. ASSUME DoSync(w) PROVE ReplyInv'
  <2>1. Moves(w, "LockPlayer", job[w]) /\ UNCHANGED <<phase, connection, mSendBuffer>>
    BY <1>11 DEF DoSync, Request, Set, Moves, sessionVars
  <2>2. "LockPlayer" \in Cleared => at[w] \in Cleared
    BY <1>11 DEF DoSync, At, Cleared
  <2> QED
    BY <1>1, <2>1, <2>2, GoesOn DEF IInv
<1>12. ASSUME LockPlayer(w) PROVE ReplyInv'
  <2>1. Moves(w, "PlayerReset", job[w]) /\ UNCHANGED <<phase, connection, mSendBuffer>>
    BY <1>12 DEF LockPlayer, Request, Set, Moves, sessionVars
  <2>2. "PlayerReset" \in Cleared => at[w] \in Cleared
    BY <1>12 DEF LockPlayer, At, Cleared
  <2> QED
    BY <1>1, <2>1, <2>2, GoesOn DEF IInv
<1>13. ASSUME UnregisterPlayer(w) PROVE ReplyInv'
  <2>1. Moves(w, "ClearPlayer", job[w]) /\ UNCHANGED <<phase, connection, mSendBuffer>>
    BY <1>13 DEF UnregisterPlayer, Leave, Set, Moves, sessionVars
  <2>2. "ClearPlayer" \in Cleared => at[w] \in Cleared
    BY <1>13 DEF UnregisterPlayer, At, Cleared
  <2> QED
    BY <1>1, <2>1, <2>2, GoesOn DEF IInv
<1>14. ASSUME ClearPlayer(w) PROVE ReplyInv'
  <2>1. Moves(w, "LeaveSync", job[w]) /\ UNCHANGED <<phase, connection, mSendBuffer>>
    BY <1>14 DEF ClearPlayer, Leave, Set, Moves, sessionVars
  <2>2. "LeaveSync" \in Cleared => at[w] \in Cleared
    BY <1>14 DEF ClearPlayer, At, Cleared
  <2> QED
    BY <1>1, <2>1, <2>2, GoesOn DEF IInv
<1>15. ASSUME LeaveSync(w) PROVE ReplyInv'
  <2>1. Moves(w, "ReturnToPool", job[w]) /\ UNCHANGED <<phase, connection, mSendBuffer>>
    BY <1>15 DEF LeaveSync, Leave, Set, Moves, sessionVars
  <2>2. "ReturnToPool" \in Cleared => at[w] \in Cleared
    BY <1>15 DEF LeaveSync, At, Cleared
  <2> QED
    BY <1>1, <2>1, <2>2, GoesOn DEF IInv
<1>16. ASSUME PostSend(w) PROVE ReplyInv'
  <2>1. PICK place \in {"Commit", After[job[w].packet]}, j \in {job[w], NoJob} :
          Moves(w, place, j) /\ UNCHANGED <<phase, connection, mSendBuffer>>
    BY <1>16 DEF PostSend, Goto, Request, JobAfter, Set, Moves, sessionVars
  <2>2. place \notin Cleared
    <3>1. job[w].packet \in {"base", "export", "login", "logout", "move", "chat"}
      BY <1>16, AtMeans DEF PostSend, IInv, AtWork, Fits
    <3> QED
      BY <3>1, AfterIs DEF Cleared
  <2> QED
    BY <1>1, <2>1, <2>2, GoesOn DEF IInv
<1>17. ASSUME UpdatePosition(w) PROVE ReplyInv'
  <2> DEFINE k == [job[w] EXCEPT !.from = mZoneIdx[job[w].on]]
  <2>1. PICK place \in {"ChangePlayerZone", "PostSend"}, j \in {job[w], k} :
          Moves(w, place, j) /\ UNCHANGED <<phase, connection, mSendBuffer>>
    BY <1>17 DEF UpdatePosition, Goto, Request, Set, Moves, sessionVars
  <2>2. mZoneIdx[job[w].on] \in Zones \cup {NoZone}
    BY <1>17, AtMeans DEF UpdatePosition, IInv, DataInv
  <2>3. Same(job[w], k)
    BY <1>2, <2>2, JobChanges DEF Same, JobType
  <2>4. place \notin Cleared
    BY DEF Cleared
  <2> HIDE DEF k
  <2> QED
    BY <1>1, <2>1, <2>3, <2>4, GoesOn DEF IInv
<1>18. ASSUME GetClosePlayers(w) PROVE ReplyInv'
  <2> DEFINE close == {e.player : e \in {e \in mPlayerZone :
                                           e.zone \in CloseZones(mZoneIdx[job[w].on])}}
             j == [job[w] EXCEPT !.targets = close]
  <2>1. Moves(w, "Broadcast", j) /\ UNCHANGED <<phase, connection, mSendBuffer>>
    BY <1>18 DEF GetClosePlayers, Leave, Set, Moves, sessionVars
  <2>2. close \in SUBSET (Sessions \cup {nullptr})
    BY DEF IInv, DataInv
  <2> HIDE DEF close
  <2>3. Same(job[w], j)
    BY <1>2, <2>2, JobChanges DEF Same, JobType
  <2>4. "Broadcast" \notin Cleared
    BY DEF Cleared
  <2> HIDE DEF j
  <2> QED
    BY <2>1, <2>3, <2>4, GoesOn DEF IInv
<1>19. ASSUME NEW p \in job[w].targets, BroadcastTo(w, p) PROVE ReplyInv'
  <2> DEFINE j == [job[w] EXCEPT !.targets = @ \ {p}, !.dest = p]
  <2>1. PICK place \in {"PostSend", "Broadcast"} :
          Moves(w, place, j) /\ UNCHANGED <<phase, connection, mSendBuffer>>
    BY <1>19, Zenon DEF BroadcastTo, Goto, Set, Moves, sessionVars
  <2>2. /\ p \in Sessions \cup {nullptr}
        /\ job[w].targets \ {p} \in SUBSET (Sessions \cup {nullptr})
    BY <1>2 DEF JobType
  <2>3. Same(job[w], j)
    BY <1>2, <2>2, JobChanges DEF Same, JobType
  <2>4. place \notin Cleared
    BY DEF Cleared
  <2> HIDE DEF j
  <2> QED
    BY <2>1, <2>3, <2>4, GoesOn DEF IInv
<1>20. ASSUME PlayerReset(w) PROVE ReplyInv'
  <2>1. PICK place \in {"UnregisterPlayer", "ClearPlayer"} :
          Moves(w, place, job[w]) /\ UNCHANGED <<phase, connection, mSendBuffer>>
    BY <1>20 DEF PlayerReset, Goto, Request, Set, Moves, sessionVars
  <2>2. at[w] \in Cleared
    BY <1>20 DEF PlayerReset, At, Cleared
  <2> QED
    BY <1>1, <2>1, <2>2, GoesOn DEF IInv
<1> QED
  BY <1>3, <1>4, <1>5, <1>6, <1>7, <1>8, <1>9,
     <1>10, <1>11, <1>12, <1>13, <1>14, <1>15, <1>16, <1>17, <1>18, <1>19, <1>20

\* The steps that change the connection or the buffer of a session.
LEMMA CommitKeepsReplies ==
  ASSUME PlayersAssumption, IInv, WorkInv', ReplyInv, NEW w \in Workers, Commit(w)
  PROVE  ReplyInv'
<1> DEFINE j == job[w]
           d == job[w].dest
           message == IF job[w].packet = "chat" THEN {} ELSE {job[w].serves}
<1>1. /\ at[w] = "Commit" /\ AtWork("Commit", job[w])
      /\ job[w].on \in Sessions /\ d \in Sessions
  BY AtMeans DEF Commit, IInv, AtWork, Fits
<1>2. PICK k \in {job[w], NoJob} :
        Moves(w, After[job[w].packet], k) /\ UNCHANGED <<phase, connection>>
  BY DEF Commit, Leave, JobAfter, Set, Moves, sessionVars
<1>3. mSendBuffer' \in {mSendBuffer, [mSendBuffer EXCEPT ![d] = mSendBuffer[d] \cup message]}
  BY DEF Commit, Set
<1>4. /\ message \subseteq {connection[d]} /\ message \in SUBSET Nat
      /\ message # {} => d = job[w].on /\ phase[d] # "free" /\ job[w].packet # "return"
  <2>1. CASE job[w].packet = "chat"
    BY <2>1
  <2>2. CASE job[w].packet # "chat"
    <3>1. d = job[w].on /\ job[w].packet # "return" /\ job[w].serves \in Nat
      BY <1>1, <2>2 DEF AtWork, Fits, JobType, PlayersAssumption
    <3>2. phase[d] # "free" /\ job[w].serves = connection[d]
      BY <1>1, <3>1, PlayersAssumption DEF ReplyInv, ServesInv, PlayersAssumption
    <3> QED
      BY <2>2, <3>1, <3>2
  <2> QED
    BY <2>1, <2>2
<1> HIDE DEF message
<1>5. After[job[w].packet] \notin Cleared
  <2>1. job[w].packet \in {"base", "export", "login", "logout", "move", "chat"}
    BY <1>1 DEF AtWork, Fits
  <2> QED
    BY <2>1, AfterIs DEF Cleared
<1>6. /\ at'[w] \notin Cleared /\ job'[w] \in {job[w], NoJob}
      /\ \A v \in Workers \ {w} : at'[v] = at[v] /\ job'[v] = job[v]
  BY <1>2, <1>5, MovesTo DEF IInv
<1>7. ServesInv'
  BY <1>2, <1>6, NoJobIsNowhere DEF ReplyInv, ServesInv
<1>8. mSendBuffer' \in [Sessions -> SUBSET Nat] /\ RepliesReachTheirClient'
  <2>1. /\ mSendBuffer \in [Sessions -> SUBSET Nat]
        /\ \A s \in Sessions : mSendBuffer[s] \subseteq {connection[s]}
    BY DEF ReplyInv, BufferInv, RepliesReachTheirClient
  <2>2. mSendBuffer[d] \cup message \in SUBSET Nat
    BY <1>1, <1>4, <2>1
  <2>3. mSendBuffer' \in [Sessions -> SUBSET Nat]
    BY <1>3, <2>1, <2>2
  <2>4. \A s \in Sessions : mSendBuffer'[s] \subseteq {connection[s]}
    <3>1. CASE mSendBuffer' = mSendBuffer
      BY <3>1, <2>1
    <3>2. CASE mSendBuffer' = [mSendBuffer EXCEPT ![d] = mSendBuffer[d] \cup message]
      <4>1. /\ mSendBuffer'[d] = mSendBuffer[d] \cup message
            /\ \A s \in Sessions \ {d} : mSendBuffer'[s] = mSendBuffer[s]
        BY <1>1, <3>2, <2>1
      <4>2. mSendBuffer'[d] \subseteq {connection[d]}
        BY <1>1, <1>4, <2>1, <4>1
      <4> QED
        BY <2>1, <4>1, <4>2
    <3> QED
      BY <1>3, <3>1, <3>2
  <2> QED
    BY <1>2, <2>3, <2>4 DEF RepliesReachTheirClient
<1>9. \A s \in Sessions : phase'[s] = "free" => mSendBuffer'[s] = {}
  BY <1>1, <1>2, <1>3, <1>4 DEF ReplyInv, BufferInv
<1>10. ASSUME NEW v \in Workers, at'[v] \in Cleared
       PROVE  mSendBuffer'[job'[v].on] = {}
  <2>1. v # w /\ at[v] \in Cleared /\ job'[v] = job[v]
    BY <1>6, <1>10
  <2>2. job[v].packet = "return" /\ job[v].on \in Sessions /\ mSendBuffer[job[v].on] = {}
    BY <2>1, ClearedMeansReturn DEF IInv, WorkInv, ReplyInv, BufferInv
  <2>3. job[w].on # job[v].on
    BY <2>1, <2>2, PlayersAssumption DEF ReplyInv, ServesInv, PlayersAssumption
  <2>4. message = {} \/ d # job[v].on
    BY <1>4, <2>3
  <2> QED
    BY <1>1, <1>3, <2>1, <2>2, <2>4 DEF ReplyInv, BufferInv
<1> QED
  BY <1>7, <1>8, <1>9, <1>10 DEF ReplyInv, BufferInv

LEMMA BufferResetKeepsReplies ==
  ASSUME PlayersAssumption, IInv, WorkInv', ReplyInv, NEW w \in Workers, BufferReset(w)
  PROVE  ReplyInv'
<1> DEFINE s == job[w].on
<1>1. s \in Sessions
  BY AtMeans DEF BufferReset, IInv
<1>2. /\ Moves(w, "DoSync", job[w]) /\ job' = job /\ UNCHANGED <<phase, connection>>
      /\ mSendBuffer' = [mSendBuffer EXCEPT ![s] = {}]
  BY DEF BufferReset, Leave, Set, Moves, sessionVars
<1>3. \A v \in Workers \ {w} : at'[v] = at[v]
  BY <1>2, MovesTo DEF IInv
<1>4. ServesInv'
  BY <1>2 DEF ReplyInv, ServesInv
<1>5. \A v \in Workers : at'[v] \in Cleared => mSendBuffer'[job'[v].on] = {}
  <2>1. \A v \in Workers : at'[v] \in Cleared => job'[v].on \in Sessions
    BY ClearedMeansReturn DEF WorkInv
  <2> QED
    BY <1>1, <1>2, <1>3, <2>1 DEF ReplyInv, BufferInv
<1> QED
  BY <1>1, <1>2, <1>4, <1>5 DEF ReplyInv, BufferInv, RepliesReachTheirClient

LEMMA ReturnToPoolKeepsReplies ==
  ASSUME PlayersAssumption, IInv, WorkInv', ReplyInv, NEW w \in Workers, ReturnToPool(w)
  PROVE  ReplyInv'
<1> DEFINE s == job[w].on
<1>1. /\ s \in Sessions /\ at[w] \in Cleared /\ job[w].packet = "return"
  BY AtMeans, ClearedMeansReturn DEF ReturnToPool, IInv, Cleared
<1>2. /\ Moves(w, "idle", NoJob) /\ UNCHANGED <<connection, mSendBuffer>>
      /\ phase' = [phase EXCEPT ![s] = "free"]
  BY DEF ReturnToPool, Leave, Set, Moves
<1>3. /\ at'[w] = "idle" /\ job'[w] = NoJob
      /\ \A v \in Workers \ {w} : at'[v] = at[v] /\ job'[v] = job[v]
  BY <1>2, MovesTo DEF IInv
<1>4. ServesInv'
  <2>1. \A v \in Workers \ {w} : job[v].on # s
    BY <1>1, PlayersAssumption DEF ReplyInv, ServesInv, PlayersAssumption
  <2>2. phase \in [Sessions -> {"free", "open", "closed"}]
    BY DEF IInv, DataInv
  <2> QED
    BY <1>2, <1>3, <2>1, <2>2, NoJobIsNowhere DEF ReplyInv, ServesInv
<1>5. BufferInv'
  <2>1. mSendBuffer[s] = {} /\ phase \in [Sessions -> {"free", "open", "closed"}]
    BY <1>1 DEF ReplyInv, BufferInv, IInv, DataInv
  <2>2. "idle" \notin Cleared
    BY DEF Cleared
  <2> QED
    BY <1>2, <1>3, <2>1, <2>2 DEF ReplyInv, BufferInv, RepliesReachTheirClient
<1> QED
  BY <1>4, <1>5 DEF ReplyInv

LEMMA AcceptCompletionKeepsReplies ==
  ASSUME PlayersAssumption, IInv, WorkInv', ReplyInv, NEW w \in Workers, NEW s \in Sessions,
         AcceptCompletion(w, s)
  PROVE  ReplyInv'
<1> DEFINE j == Job(s, "base", accepted + 1)
<1>1. /\ Moves(w, "SendBaseKey", j) /\ phase[s] = "free" /\ job[w] = NoJob
      /\ connection' = [connection EXCEPT ![s] = accepted + 1]
      /\ phase' = [phase EXCEPT ![s] = "open"] /\ mSendBuffer' = mSendBuffer
  BY AtMeans DEF AcceptCompletion, Goto, Set, Moves, IInv
<1>2. j.on = s /\ j.packet = "base" /\ j.serves = accepted + 1
  BY DEF Job
<1> HIDE DEF j
<1>3. /\ at'[w] = "SendBaseKey" /\ job'[w] = j
      /\ \A v \in Workers \ {w} : at'[v] = at[v] /\ job'[v] = job[v]
  BY <1>1, MovesTo DEF IInv
<1>4. /\ \A v \in Workers : job[v].on # s
      /\ phase \in [Sessions -> {"free", "open", "closed"}]
      /\ connection \in [Sessions -> 0 .. accepted]
      /\ \A v \in Workers : job[v].on \in Sessions \cup {NoSession}
  BY <1>1, PlayersAssumption
  DEF ReplyInv, ServesInv, IInv, DataInv, WorkInv, JobType, PlayersAssumption
<1>5. ServesInv'
  BY <1>1, <1>2, <1>3, <1>4, PlayersAssumption DEF ReplyInv, ServesInv, PlayersAssumption
<1>6. BufferInv'
  <2>1. mSendBuffer[s] = {} /\ "SendBaseKey" \notin Cleared
    BY <1>1 DEF ReplyInv, BufferInv, Cleared
  <2> QED
    BY <1>1, <1>3, <1>4, <2>1 DEF ReplyInv, BufferInv, RepliesReachTheirClient
<1> QED
  BY <1>5, <1>6 DEF ReplyInv

LEMMA NextKeepsReplies ==
  ASSUME PlayersAssumption, IInv, WorkInv', ReplyInv, [Next]_vars
  PROVE  ReplyInv'
<1>1. CASE UNCHANGED <<phase, connection, mSendBuffer, at, job>>
  BY <1>1 DEF ReplyInv, ServesInv, BufferInv, RepliesReachTheirClient
<1>2. ASSUME NEW s \in Sessions, Disconnect(s) PROVE ReplyInv'
  <2>1. phase \in [Sessions -> {"free", "open", "closed"}]
    BY DEF IInv, DataInv
  <2> QED
    BY <1>2, <2>1
    DEF Disconnect, Set, ReplyInv, ServesInv, BufferInv, RepliesReachTheirClient
<1>3. ASSUME NEW w \in Workers, EnterLock(w) PROVE ReplyInv'
  BY <1>1, <1>3 DEF EnterLock, sessionVars
<1>4. ASSUME NEW w \in Workers, Start(w) PROVE ReplyInv'
  BY <1>4, StartKeepsReplies, AcceptCompletionKeepsReplies DEF Start
<1>5. ASSUME NEW w \in Workers, Continue(w) PROVE ReplyInv'
  BY <1>5, ContinueKeepsReplies, CommitKeepsReplies, BufferResetKeepsReplies,
     ReturnToPoolKeepsReplies
  DEF Continue
<1>6. CASE UNCHANGED vars
  BY <1>1, <1>6 DEF vars, sessionVars
<1> QED
  BY <1>2, <1>3, <1>4, <1>5, <1>6 DEF Next

LEMMA InitReplies ==
  ASSUME Init
  PROVE  ReplyInv
<1>1. "idle" \notin Cleared
  BY DEF Cleared
<1> QED
  BY <1>1, NoJobIsNowhere
  DEF Init, ReplyInv, ServesInv, BufferInv, RepliesReachTheirClient

\* Whatever a worker posts for a packet reaches the client that sent it or
\* nobody, though PostSend reads the state of the connection before it takes
\* the send lock (Session.cpp:108-123, ClientSession.cpp:32-36).
THEOREM RepliesReach == PlayersAssumption => (Spec => []RepliesReachTheirClient)
<1> SUFFICES ASSUME PlayersAssumption
             PROVE  Spec => []RepliesReachTheirClient
  OBVIOUS
<1>1. Init => ReplyInv
  BY InitReplies
<1>2. IInv /\ IInv' /\ ReplyInv /\ [Next]_vars => ReplyInv'
  BY NextKeepsReplies DEF IInv
<1>3. ReplyInv => RepliesReachTheirClient
  BY DEF ReplyInv, BufferInv
<1> QED
  BY <1>1, <1>2, <1>3, IInvHolds, PTL DEF Spec

----------------------------------------------------------------------------
(***************************************************************************)
(* The registry: it holds exactly the players that have an id, where they  *)
(* are; the assertion of NearbyBroadcast holds and no null pointer is      *)
(* used; and all variables keep their types.                               *)
(***************************************************************************)

HasId(s) == mPlayerId[s] # NoId

ChangingPlaces == {"RegisterPlayer", "ChangePlayerZone", "ClearPlayer"}

\* One worker at a time handles the packets of a session, and one its accept.
SoleInv ==
  \A v, w \in Workers :
    /\ job[v].on = job[w].on /\ job[w].on # NoSession
    /\ job[v].packet = "base" <=> job[w].packet = "base"
    => v = w

\* The state of the session and the id of its player while a worker handles a
\* packet: nobody else changes them meanwhile.
HandlerOK(place, j, state, id) ==
  /\ place = "SendBaseKey" => state = "NOTHING"
  /\ j.packet = "export" => state = "SHARING_KEY"
  /\ j.packet = "login" => state = "WAIT_FOR_LOGIN" /\ id # NoId
  /\ j.packet = "logout" => state = "WAIT_FOR_LOGOUT"
  /\ j.packet \in {"move", "chat"} => state = "LOGGED_IN" /\ id # NoId
  /\ place \in {"LeaveSync", "ReturnToPool"} => id = NoId
  /\ place = "UnregisterPlayer" => id # NoId
  /\ nullptr \notin j.targets

HandlerInv ==
  \A w \in Workers :
    job[w].on # NoSession =>
      HandlerOK(at[w], job[w], mState[job[w].on], mPlayerId[job[w].on])

\* A player has an id while its session is logged in, and from the login until
\* then and from then until the return only while a worker is at it.
SessionInv ==
  \A s \in Sessions :
    /\ phase[s] = "free" => mState[s] = "NOTHING"
    /\ HasId(s) => mState[s] \notin {"NOTHING", "SHARING_KEY"}
    /\ HasId(s) /\ mState[s] = "WAIT_FOR_LOGIN" =>
         \E w \in Workers : job[w].on = s /\ job[w].packet = "login"
    /\ mState[s] = "LOGGED_IN" /\ ~ HasId(s) =>
         \E w \in Workers : job[w].on = s /\ at[w] \in {"LeaveSync", "ReturnToPool"}
    /\ HasId(s) => mPlayerId[s] <= mTempId /\ mZoneIdx[s] \in Zones

IdsDiffer ==
  \A s, t \in Sessions : HasId(s) /\ mPlayerId[t] = mPlayerId[s] => t = s

\* The registry holds the player s in this zone.
Registered(s, zone) ==
  mPlayerMap[mPlayerId[s]] = s /\ Entry(zone, mPlayerId[s], s) \in mPlayerZone

\* What the registry holds of the player s.
RegisteredRight(s) ==
  /\ HasId(s) /\ ~ Changing(s) => Registered(s, mZoneIdx[s])
  /\ \A w \in Workers :
       job[w].on = s /\ at[w] = "ChangePlayerZone" => Registered(s, job[w].from)
  /\ \A e \in mPlayerZone : e.player = s =>
       /\ mPlayerId[s] = e.id /\ mPlayerMap[e.id] = s
       /\ ~ Changing(s) => mZoneIdx[s] = e.zone
       /\ \A w \in Workers : job[w].on = s =>
            /\ at[w] \notin {"RegisterPlayer", "ClearPlayer"}
            /\ at[w] = "ChangePlayerZone" => job[w].from = e.zone

RegistryInv ==
  /\ mPlayerZone \subseteq [zone : Zones, id : Ids, player : Sessions]
  /\ \A s \in Sessions : RegisteredRight(s)

RegInv ==
  NoCrash /\ SoleInv /\ HandlerInv /\ SessionInv /\ IdsDiffer /\ RegistryInv

\* All that is known of a state.
AllInv == IInv /\ ReplyInv /\ RegInv

regVars == <<phase, mState, mPlayerId, mZoneIdx, mPlayerMap, mPlayerZone, mTempId, crashed>>

-----------------------------------------------------------------------------
LEMMA IdsAreIds ==
  PlayersAssumption => NoId \notin Ids /\ NoSession \notin Sessions
BY DEF PlayersAssumption, NoId, Ids

\* Who handles a packet of a session meets there at most the worker that
\* accepted it, and who returns it meets nobody.
LEMMA HandlerAlone ==
  ASSUME PlayersAssumption, AllInv, NEW w \in Workers, job[w].on \in Sessions,
         job[w].packet # "base", NEW v \in Workers, v # w, job[v].on = job[w].on
  PROVE  /\ job[v].packet = "base" /\ at[v] \in {"SendBaseKey", "PostSend", "Commit"}
         /\ job[w].packet # "return"
<1>1. job[v].packet = "base"
  BY PlayersAssumption DEF AllInv, RegInv, SoleInv, PlayersAssumption
<1>2. AtWork(at[v], job[v]) /\ job[v] # NoJob
  BY NoJobIsNowhere, <1>1 DEF AllInv, IInv, WorkInv
<1>3. at[v] \in {"SendBaseKey", "PostSend", "Commit"}
  BY <1>1, <1>2 DEF AtWork, Fits
<1>4. job[w].packet # "return"
  BY PlayersAssumption DEF AllInv, ReplyInv, ServesInv, PlayersAssumption
<1> QED
  BY <1>1, <1>3, <1>4

\* A worker in one of these places has a job.
LEMMA PlacesOfPackets ==
  ASSUME NEW place, NEW j, AtWork(place, j)
  PROVE  /\ place \in {"RegisterPlayer", "LoggedIn"} => j.packet = "login" /\ j.on \in Sessions
         /\ place \in {"UpdatePosition", "ChangePlayerZone", "LeavePlayer"} =>
              j.packet = "move" /\ j.on \in Sessions
         /\ place \in {"SessionReset", "BufferReset", "DoSync", "LockPlayer", "PlayerReset",
                       "UnregisterPlayer", "ClearPlayer", "LeaveSync", "ReturnToPool"} =>
              j.packet = "return" /\ j.on \in Sessions
         /\ place = "SendBaseKey" => j.packet = "base" /\ j.on \in Sessions
         /\ place = "KeyShared" => j.packet = "export" /\ j.on \in Sessions
         /\ place \in {"GetClosePlayers", "Broadcast"} => j.packet = "chat" /\ j.on \in Sessions
BY DEF AtWork, Fits

\* Nobody is at a player that has an entry, or the handler that moves it.
LEMMA EntriesHaveIds ==
  ASSUME PlayersAssumption, AllInv, NEW e \in mPlayerZone
  PROVE  /\ e.player \in Sessions /\ HasId(e.player) /\ e.id = mPlayerId[e.player]
         /\ e = Entry(e.zone, e.id, e.player)
BY IdsAreIds DEF AllInv, RegInv, RegistryInv, RegisteredRight, HasId, Entry

-----------------------------------------------------------------------------
(***************************************************************************)
(* The steps that leave the state and the registry alone.                  *)
(***************************************************************************)
\* What it holds of a player stays right when the step does not concern it.
LEMMA PlayerLeftAlone ==
  ASSUME PlayersAssumption, AllInv, NEW s \in Sessions,
         \A v \in Workers :
           \/ job'[v] = job[v] /\ at'[v] = at[v]
           \/ /\ job[v].on = s => at[v] \notin ChangingPlaces
              /\ job'[v].on = s => at'[v] \notin ChangingPlaces,
         mPlayerId'[s] = mPlayerId[s], mZoneIdx'[s] = mZoneIdx[s],
         HasId(s) => mPlayerMap'[mPlayerId[s]] = mPlayerMap[mPlayerId[s]],
         \A e : e \in mPlayerZone' /\ e.player = s <=> e \in mPlayerZone /\ e.player = s
  PROVE  RegisteredRight(s)'
<1>1. RegisteredRight(s)
  BY DEF AllInv, RegInv, RegistryInv
<1>2. Changing(s)' <=> Changing(s)
  BY DEF Changing, ChangingPlaces
<1>3. HasId(s)' <=> HasId(s)
  BY DEF HasId
<1>4. ASSUME NEW zone, HasId(s), Registered(s, zone)
      PROVE  Registered(s, zone)'
  <2>1. Entry(zone, mPlayerId[s], s).player = s
    BY DEF Entry
  <2> QED
    BY <1>4, <2>1 DEF Registered
<1>5. (HasId(s) /\ ~ Changing(s) => Registered(s, mZoneIdx[s]))'
  <2> SUFFICES ASSUME HasId(s)', ~ Changing(s)' PROVE Registered(s, mZoneIdx[s])'
    OBVIOUS
  <2>1. Registered(s, mZoneIdx[s]) /\ HasId(s)
    BY <1>1, <1>2, <1>3 DEF RegisteredRight
  <2> QED
    BY <1>4, <2>1 DEF Registered
<1>6. ASSUME NEW v \in Workers, job'[v].on = s, at'[v] = "ChangePlayerZone"
      PROVE  Registered(s, job[v].from)' /\ job'[v] = job[v]
  <2>1. job'[v] = job[v] /\ at[v] = "ChangePlayerZone"
    BY <1>6 DEF ChangingPlaces
  <2>2. job[v].packet = "move"
    BY <2>1, PlacesOfPackets DEF AllInv, IInv, WorkInv
  <2>3. HasId(s)
    BY <1>6, <2>1, <2>2, PlayersAssumption DEF AllInv, RegInv, HandlerInv, HandlerOK, HasId,
                                               PlayersAssumption
  <2>4. Registered(s, job[v].from)
    BY <1>1, <1>6, <2>1 DEF RegisteredRight
  <2>5. Registered(s, job[v].from)'
    <3>1. Entry(job[v].from, mPlayerId[s], s).player = s
      BY DEF Entry
    <3> QED
      BY <2>1, <2>3, <2>4, <3>1 DEF Registered
  <2> QED
    BY <2>1, <2>5
<1>7. ASSUME NEW e \in mPlayerZone', e.player = s
      PROVE  /\ mPlayerId'[s] = e.id /\ mPlayerMap'[e.id] = s
             /\ ~ Changing(s)' => mZoneIdx'[s] = e.zone
             /\ \A v \in Workers : job'[v].on = s =>
                  /\ at'[v] \notin {"RegisterPlayer", "ClearPlayer"}
                  /\ at'[v] = "ChangePlayerZone" => job'[v].from = e.zone
  <2>1. e \in mPlayerZone
    BY <1>7
  <2>2. mPlayerId[s] = e.id /\ mPlayerMap[e.id] = s /\ (~ Changing(s) => mZoneIdx[s] = e.zone)
    BY <1>1, <1>7, <2>1 DEF RegisteredRight
  <2>3. HasId(s)
    BY <2>1, <2>2, IdsAreIds DEF HasId, AllInv, RegInv, RegistryInv
  <2>4. ASSUME NEW v \in Workers, job'[v].on = s
        PROVE  /\ at'[v] \notin {"RegisterPlayer", "ClearPlayer"}
               /\ at'[v] = "ChangePlayerZone" => job'[v].from = e.zone
    BY <1>1, <1>7, <2>1, <2>4 DEF RegisteredRight, ChangingPlaces
  <2> QED
    BY <1>2, <2>2, <2>3, <2>4
<1> QED
  BY <1>5, <1>6, <1>7 DEF RegisteredRight, Registered

LEMMA RegistryLeftAlone ==
  ASSUME PlayersAssumption, AllInv, NEW w \in Workers, NEW place, NEW j, Moves(w, place, j),
         at[w] \notin ChangingPlaces, place \notin ChangingPlaces,
         UNCHANGED <<mPlayerId, mZoneIdx, mPlayerMap, mPlayerZone>>
  PROVE  RegistryInv'
<1>1. /\ at'[w] = place /\ job'[w] = j
      /\ \A v \in Workers \ {w} : at'[v] = at[v] /\ job'[v] = job[v]
  BY MovesTo DEF AllInv, IInv
<1>2. ASSUME NEW s \in Sessions
      PROVE  RegisteredRight(s)'
  BY <1>1, PlayerLeftAlone
<1> QED
  BY <1>2 DEF AllInv, RegInv, RegistryInv

LEMMA GoesOnElsewhere ==
  ASSUME PlayersAssumption, AllInv, NEW w \in Workers, NEW place, NEW j,
         Moves(w, place, j), Same(job[w], j), UNCHANGED regVars, job[w].on \in Sessions,
         at[w] \notin ChangingPlaces, place \notin ChangingPlaces,
         j = NoJob => job[w].packet \notin {"login", "return"},
         at[w] \in {"LeaveSync", "ReturnToPool"} => place \in {"LeaveSync", "ReturnToPool"},
         j # NoJob => HandlerOK(place, j, mState[j.on], mPlayerId[j.on])
  PROVE  RegInv'
<1>1. /\ at'[w] = place /\ job'[w] = j
      /\ \A v \in Workers \ {w} : at'[v] = at[v] /\ job'[v] = job[v]
  BY MovesTo DEF AllInv, IInv
<1>2. \A v \in Workers : job'[v].on # NoSession =>
        job'[v].on = job[v].on /\ job'[v].packet = job[v].packet
  BY <1>1, NoJobIsNowhere DEF Same
<1>3. NoCrash' /\ IdsDiffer'
  BY DEF AllInv, RegInv, NoCrash, IdsDiffer, HasId, regVars
<1>4. SoleInv'
  BY <1>2 DEF AllInv, RegInv, SoleInv
<1>5. HandlerInv'
  <2>1. \A v \in Workers \ {w} : job'[v].on # NoSession =>
          HandlerOK(at'[v], job'[v], mState[job'[v].on], mPlayerId[job'[v].on])
    BY <1>1 DEF AllInv, RegInv, HandlerInv
  <2>2. job'[w].on # NoSession =>
          HandlerOK(at'[w], job'[w], mState[job'[w].on], mPlayerId[job'[w].on])
    BY <1>1, NoJobIsNowhere
  <2>3. mState' = mState /\ mPlayerId' = mPlayerId
    BY DEF regVars
  <2> QED
    BY <2>1, <2>2, <2>3 DEF HandlerInv
<1>6. SessionInv'
  <2> SUFFICES ASSUME NEW s \in Sessions
               PROVE  /\ phase[s] = "free" => mState[s] = "NOTHING"
                      /\ HasId(s) => mState[s] \notin {"NOTHING", "SHARING_KEY"}
                      /\ HasId(s) /\ mState[s] = "WAIT_FOR_LOGIN" =>
                           \E v \in Workers : job'[v].on = s /\ job'[v].packet = "login"
                      /\ mState[s] = "LOGGED_IN" /\ ~ HasId(s) =>
                           \E v \in Workers : job'[v].on = s
                                                /\ at'[v] \in {"LeaveSync", "ReturnToPool"}
                      /\ HasId(s) => mPlayerId[s] <= mTempId /\ mZoneIdx[s] \in Zones
    BY DEF SessionInv, HasId, regVars
  <2>1. ASSUME NEW v \in Workers, job[v].on = s, job[v].packet = "login"
        PROVE  job'[v].on = s /\ job'[v].packet = "login"
    BY <1>1, <2>1 DEF Same
  <2>2. ASSUME NEW v \in Workers, job[v].on = s, at[v] \in {"LeaveSync", "ReturnToPool"}
        PROVE  job'[v].on = s /\ at'[v] \in {"LeaveSync", "ReturnToPool"}
    <3>1. job[v].packet = "return"
      BY <2>2, PlacesOfPackets DEF AllInv, IInv, WorkInv
    <3> QED
      BY <1>1, <2>2, <3>1 DEF Same
  <2> QED
    BY <2>1, <2>2 DEF AllInv, RegInv, SessionInv
<1>7. RegistryInv'
  BY RegistryLeftAlone DEF regVars
<1> QED
  BY <1>3, <1>4, <1>5, <1>6, <1>7 DEF RegInv

LEMMA StartsElsewhere ==
  ASSUME PlayersAssumption, AllInv, NEW w \in Workers, NEW s \in Sessions, NEW place,
         NEW packet, packet # "base", Moves(w, place, Job(s, packet, connection[s])),
         at[w] = "idle", job[w] = NoJob,
         \A v \in Workers : job[v].on = s => job[v].packet = "base",
         UNCHANGED regVars, place \notin ChangingPlaces,
         HandlerOK(place, Job(s, packet, connection[s]), mState[s], mPlayerId[s])
  PROVE  RegInv'
<1> DEFINE j == Job(s, packet, connection[s])
<1>1. j.on = s /\ j.packet = packet
  BY DEF Job
<1> HIDE DEF j
<1>2. /\ at'[w] = place /\ job'[w] = j
      /\ \A v \in Workers \ {w} : at'[v] = at[v] /\ job'[v] = job[v]
  BY MovesTo DEF AllInv, IInv, j
<1>3. NoCrash' /\ IdsDiffer'
  BY DEF AllInv, RegInv, NoCrash, IdsDiffer, HasId, regVars
<1>4. SoleInv'
  BY <1>1, <1>2 DEF AllInv, RegInv, SoleInv
<1>5. HandlerInv'
  <2>1. \A v \in Workers \ {w} : job'[v].on # NoSession =>
          HandlerOK(at'[v], job'[v], mState[job'[v].on], mPlayerId[job'[v].on])
    BY <1>2 DEF AllInv, RegInv, HandlerInv
  <2>2. HandlerOK(at'[w], job'[w], mState[job'[w].on], mPlayerId[job'[w].on])
    BY <1>1, <1>2 DEF j
  <2>3. mState' = mState /\ mPlayerId' = mPlayerId
    BY DEF regVars
  <2> QED
    BY <2>1, <2>2, <2>3 DEF HandlerInv
<1>6. \A v \in Workers : job[v].packet # "none" => job'[v] = job[v] /\ at'[v] = at[v]
  BY <1>2, NoJobIsNowhere
<1>7. SessionInv'
  <2> SUFFICES ASSUME NEW t \in Sessions
               PROVE  /\ phase[t] = "free" => mState[t] = "NOTHING"
                      /\ HasId(t) => mState[t] \notin {"NOTHING", "SHARING_KEY"}
                      /\ HasId(t) /\ mState[t] = "WAIT_FOR_LOGIN" =>
                           \E v \in Workers : job'[v].on = t /\ job'[v].packet = "login"
                      /\ mState[t] = "LOGGED_IN" /\ ~ HasId(t) =>
                           \E v \in Workers : job'[v].on = t
                                                /\ at'[v] \in {"LeaveSync", "ReturnToPool"}
                      /\ HasId(t) => mPlayerId[t] <= mTempId /\ mZoneIdx[t] \in Zones
    BY DEF SessionInv, HasId, regVars
  <2>1. ASSUME NEW v \in Workers, job[v].on = t, at[v] \in {"LeaveSync", "ReturnToPool"}
        PROVE  job'[v].on = t /\ at'[v] \in {"LeaveSync", "ReturnToPool"}
    <3>1. job[v].packet = "return"
      BY <2>1, PlacesOfPackets DEF AllInv, IInv, WorkInv
    <3> QED
      BY <1>6, <2>1, <3>1
  <2> QED
    BY <1>6, <2>1 DEF AllInv, RegInv, SessionInv
<1>8. RegistryInv'
  <2>1. at[w] \notin ChangingPlaces
    BY DEF ChangingPlaces
  <2> QED
    BY <2>1, RegistryLeftAlone DEF regVars, j
<1> QED
  BY <1>3, <1>4, <1>5, <1>7, <1>8 DEF RegInv

LEMMA JobFields ==
  ASSUME NEW s, NEW packet, NEW serves
  PROVE  /\ Job(s, packet, serves).on = s /\ Job(s, packet, serves).packet = packet
         /\ Job(s, packet, serves).targets = {}
BY DEF Job

\* A packet is handled in the state that its handler expects.
LEMMA ReceiveMeans ==
  ASSUME AllInv, NEW w \in Workers, NEW s \in Sessions, NEW state, NEW packet,
         Receive(w, s, state, packet)
  PROVE  /\ at[w] = "idle" /\ job[w] = NoJob /\ mState[s] = state
         /\ \A v \in Workers : job[v].on = s => job[v].packet = "base"
         /\ job' = [job EXCEPT ![w] = Job(s, packet, connection[s])]
BY AtMeans DEF Receive, AllInv, IInv, Handlers, Set

\* Who is logged in has an id, and keeps it until the return has got that far.
LEMMA LoggedInHasId ==
  ASSUME AllInv, NEW s \in Sessions, mState[s] = "LOGGED_IN",
         \A v \in Workers : job[v].on = s => job[v].packet = "base"
  PROVE  HasId(s)
<1> SUFFICES ASSUME ~ HasId(s) PROVE FALSE
  OBVIOUS
<1>1. PICK v \in Workers : job[v].on = s /\ at[v] \in {"LeaveSync", "ReturnToPool"}
  BY DEF AllInv, RegInv, SessionInv
<1>2. job[v].packet = "return"
  BY <1>1, PlacesOfPackets DEF AllInv, IInv, WorkInv
<1> QED
  BY <1>1, <1>2

LEMMA StartKeepsRegistry ==
  ASSUME PlayersAssumption, AllInv, NEW w \in Workers, NEW s \in Sessions
  PROVE  /\ ResponseExportedKey(w, s) => RegInv'
         /\ ResponseMove(w, s) => RegInv'
         /\ ResponseChat(w, s) => RegInv'
         /\ ReturnClientSession(w, s) => RegInv'
<1>1. ASSUME ResponseExportedKey(w, s) PROVE RegInv'
  <2> DEFINE j == Job(s, "export", connection[s])
  <2>1. /\ Receive(w, s, "SHARING_KEY", "export")
        /\ at' = [at EXCEPT ![w] = "PostSend"] /\ UNCHANGED regVars
    BY <1>1 DEF ResponseExportedKey, Goto, Set, sessionVars, playerVars, registryVars, regVars
  <2>2. /\ at[w] = "idle" /\ job[w] = NoJob /\ mState[s] = "SHARING_KEY"
        /\ \A v \in Workers : job[v].on = s => job[v].packet = "base"
        /\ Moves(w, "PostSend", j)
    BY <2>1, ReceiveMeans DEF Moves
  <2>3. HandlerOK("PostSend", j, mState[s], mPlayerId[s])
    BY <2>2, JobFields DEF HandlerOK
  <2>4. "PostSend" \notin ChangingPlaces
    BY DEF ChangingPlaces
  <2> QED
    BY <2>1, <2>2, <2>3, <2>4, StartsElsewhere
<1>2. ASSUME ResponseMove(w, s) PROVE RegInv'
  <2> DEFINE j == Job(s, "move", connection[s])
  <2>1. /\ Receive(w, s, "LOGGED_IN", "move")
        /\ at' = [at EXCEPT ![w] = "UpdatePosition"] /\ UNCHANGED regVars
    BY <1>2 DEF ResponseMove, Request, Set, sessionVars, playerVars, registryVars, regVars
  <2>2. /\ at[w] = "idle" /\ job[w] = NoJob /\ mState[s] = "LOGGED_IN"
        /\ \A v \in Workers : job[v].on = s => job[v].packet = "base"
        /\ Moves(w, "UpdatePosition", j)
    BY <2>1, ReceiveMeans DEF Moves
  <2>3. HandlerOK("UpdatePosition", j, mState[s], mPlayerId[s])
    BY <2>2, JobFields, LoggedInHasId DEF HandlerOK, HasId
  <2>4. "UpdatePosition" \notin ChangingPlaces
    BY DEF ChangingPlaces
  <2> QED
    BY <2>1, <2>2, <2>3, <2>4, StartsElsewhere
<1>3. ASSUME ResponseChat(w, s) PROVE RegInv'
  <2> DEFINE j == Job(s, "chat", connection[s])
  <2>1. /\ Receive(w, s, "LOGGED_IN", "chat")
        /\ at' = [at EXCEPT ![w] = "GetClosePlayers"] /\ UNCHANGED regVars
    BY <1>3 DEF ResponseChat, Request, Set, sessionVars, playerVars, registryVars, regVars
  <2>2. /\ at[w] = "idle" /\ job[w] = NoJob /\ mState[s] = "LOGGED_IN"
        /\ \A v \in Workers : job[v].on = s => job[v].packet = "base"
        /\ Moves(w, "GetClosePlayers", j)
    BY <2>1, ReceiveMeans DEF Moves
  <2>3. HandlerOK("GetClosePlayers", j, mState[s], mPlayerId[s])
    BY <2>2, JobFields, LoggedInHasId DEF HandlerOK, HasId
  <2>4. "GetClosePlayers" \notin ChangingPlaces
    BY DEF ChangingPlaces
  <2> QED
    BY <2>1, <2>2, <2>3, <2>4, StartsElsewhere
<1>4. ASSUME ReturnClientSession(w, s) PROVE RegInv'
  <2> DEFINE j == Job(s, "return", connection[s])
  <2>1. /\ at[w] = "idle" /\ job[w] = NoJob /\ UNCHANGED regVars
        /\ \A v \in Workers : job[v].on = s => job[v].packet = "base"
        /\ Moves(w, "SessionReset", j)
    BY <1>4, AtMeans
    DEF ReturnClientSession, Handlers, Request, Set, Moves, AllInv, IInv,
        sessionVars, playerVars, registryVars, regVars
  <2>2. HandlerOK("SessionReset", j, mState[s], mPlayerId[s])
    BY JobFields DEF HandlerOK
  <2>3. "SessionReset" \notin ChangingPlaces
    BY DEF ChangingPlaces
  <2> QED
    BY <2>1, <2>2, <2>3, StartsElsewhere
<1> QED
  BY <1>1, <1>2, <1>3, <1>4

LEMMA HandlerMeans ==
  ASSUME PlayersAssumption, AllInv, NEW w \in Workers, NEW place, At(w, place),
         place # "idle"
  PROVE  /\ at[w] = place /\ AtWork(place, job[w]) /\ job[w].on \in Sessions
         /\ HandlerOK(place, job[w], mState[job[w].on], mPlayerId[job[w].on])
<1>1. at[w] = place /\ AtWork(place, job[w]) /\ job[w].on \in Sessions
  BY AtMeans DEF AllInv, IInv
<1> QED
  BY <1>1, PlayersAssumption DEF AllInv, RegInv, HandlerInv, PlayersAssumption

LEMMA ContinueElsewhere ==
  ASSUME PlayersAssumption, AllInv, NEW w \in Workers
  PROVE  /\ PostSend(w) => RegInv'
         /\ Commit(w) => RegInv'
         /\ LeavePlayer(w) => RegInv'
         /\ BroadcastEnd(w) => RegInv'
         /\ SessionReset(w) => RegInv'
         /\ BufferReset(w) => RegInv'
         /\ DoSync(w) => RegInv'
         /\ LockPlayer(w) => RegInv'
         /\ LeaveSync(w) => RegInv'
<1>1. Same(job[w], job[w]) /\ Same(job[w], NoJob)
  BY DEF Same
<1>2. ASSUME LeavePlayer(w) PROVE RegInv'
  <2>1. Moves(w, "idle", NoJob) /\ UNCHANGED regVars
    BY <1>2 DEF LeavePlayer, Leave, Set, Moves, sessionVars, playerVars, registryVars, regVars
  <2>2. /\ at[w] = "LeavePlayer" /\ AtWork("LeavePlayer", job[w]) /\ job[w].on \in Sessions
        /\ HandlerOK("LeavePlayer", job[w], mState[job[w].on], mPlayerId[job[w].on])
    BY <1>2, HandlerMeans DEF LeavePlayer
  <2>3. job[w].packet \notin {"login", "return"}
    BY <2>2, PlacesOfPackets
  <2>4. "LeavePlayer" \notin ChangingPlaces /\ "idle" \notin ChangingPlaces
    BY DEF ChangingPlaces
  <2> QED
    BY <1>1, <2>1, <2>2, <2>3, <2>4, GoesOnElsewhere
<1>3. ASSUME BroadcastEnd(w) PROVE RegInv'
  <2>1. Moves(w, "idle", NoJob) /\ UNCHANGED regVars
    BY <1>3 DEF BroadcastEnd, Goto, Set, Moves, sessionVars, playerVars, registryVars, regVars
  <2>2. /\ at[w] = "Broadcast" /\ AtWork("Broadcast", job[w]) /\ job[w].on \in Sessions
        /\ HandlerOK("Broadcast", job[w], mState[job[w].on], mPlayerId[job[w].on])
    BY <1>3, HandlerMeans DEF BroadcastEnd
  <2>3. job[w].packet \notin {"login", "return"}
    BY <2>2, PlacesOfPackets
  <2>4. "Broadcast" \notin ChangingPlaces /\ "idle" \notin ChangingPlaces
    BY DEF ChangingPlaces
  <2> QED
    BY <1>1, <2>1, <2>2, <2>3, <2>4, GoesOnElsewhere
<1>4. ASSUME SessionReset(w) PROVE RegInv'
  <2>1. Moves(w, "BufferReset", job[w]) /\ UNCHANGED regVars
    BY <1>4 DEF SessionReset, Request, Set, Moves, sessionVars, playerVars, registryVars, regVars
  <2>2. /\ at[w] = "SessionReset" /\ AtWork("SessionReset", job[w]) /\ job[w].on \in Sessions
        /\ HandlerOK("SessionReset", job[w], mState[job[w].on], mPlayerId[job[w].on])
    BY <1>4, HandlerMeans DEF SessionReset
  <2>3. /\ HandlerOK("BufferReset", job[w], mState[job[w].on], mPlayerId[job[w].on])
        /\ job[w] # NoJob
    BY <2>2, NoJobIsNowhere, PlayersAssumption DEF HandlerOK, PlayersAssumption
  <2>4. "SessionReset" \notin ChangingPlaces /\ "BufferReset" \notin ChangingPlaces
    BY DEF ChangingPlaces
  <2> QED
    BY <1>1, <2>1, <2>2, <2>3, <2>4, GoesOnElsewhere
<1>5. ASSUME BufferReset(w) PROVE RegInv'
  <2>1. Moves(w, "DoSync", job[w]) /\ UNCHANGED regVars
    BY <1>5 DEF BufferReset, Leave, Set, Moves, sessionVars, playerVars, registryVars, regVars
  <2>2. /\ at[w] = "BufferReset" /\ AtWork("BufferReset", job[w]) /\ job[w].on \in Sessions
        /\ HandlerOK("BufferReset", job[w], mState[job[w].on], mPlayerId[job[w].on])
    BY <1>5, HandlerMeans DEF BufferReset
  <2>3. /\ HandlerOK("DoSync", job[w], mState[job[w].on], mPlayerId[job[w].on])
        /\ job[w] # NoJob
    BY <2>2, NoJobIsNowhere, PlayersAssumption DEF HandlerOK, PlayersAssumption
  <2>4. "BufferReset" \notin ChangingPlaces /\ "DoSync" \notin ChangingPlaces
    BY DEF ChangingPlaces
  <2> QED
    BY <1>1, <2>1, <2>2, <2>3, <2>4, GoesOnElsewhere
<1>6. ASSUME DoSync(w) PROVE RegInv'
  <2>1. Moves(w, "LockPlayer", job[w]) /\ UNCHANGED regVars
    BY <1>6 DEF DoSync, Request, Set, Moves, sessionVars, playerVars, registryVars, regVars
  <2>2. /\ at[w] = "DoSync" /\ AtWork("DoSync", job[w]) /\ job[w].on \in Sessions
        /\ HandlerOK("DoSync", job[w], mState[job[w].on], mPlayerId[job[w].on])
    BY <1>6, HandlerMeans DEF DoSync
  <2>3. /\ HandlerOK("LockPlayer", job[w], mState[job[w].on], mPlayerId[job[w].on])
        /\ job[w] # NoJob
    BY <2>2, NoJobIsNowhere, PlayersAssumption DEF HandlerOK, PlayersAssumption
  <2>4. "DoSync" \notin ChangingPlaces /\ "LockPlayer" \notin ChangingPlaces
    BY DEF ChangingPlaces
  <2> QED
    BY <1>1, <2>1, <2>2, <2>3, <2>4, GoesOnElsewhere
<1>7. ASSUME LockPlayer(w) PROVE RegInv'
  <2>1. Moves(w, "PlayerReset", job[w]) /\ UNCHANGED regVars
    BY <1>7 DEF LockPlayer, Request, Set, Moves, sessionVars, playerVars, registryVars, regVars
  <2>2. /\ at[w] = "LockPlayer" /\ AtWork("LockPlayer", job[w]) /\ job[w].on \in Sessions
        /\ HandlerOK("LockPlayer", job[w], mState[job[w].on], mPlayerId[job[w].on])
    BY <1>7, HandlerMeans DEF LockPlayer
  <2>3. /\ HandlerOK("PlayerReset", job[w], mState[job[w].on], mPlayerId[job[w].on])
        /\ job[w] # NoJob
    BY <2>2, NoJobIsNowhere, PlayersAssumption DEF HandlerOK, PlayersAssumption
  <2>4. "LockPlayer" \notin ChangingPlaces /\ "PlayerReset" \notin ChangingPlaces
    BY DEF ChangingPlaces
  <2> QED
    BY <1>1, <2>1, <2>2, <2>3, <2>4, GoesOnElsewhere
<1>8. ASSUME LeaveSync(w) PROVE RegInv'
  <2>1. Moves(w, "ReturnToPool", job[w]) /\ UNCHANGED regVars
    BY <1>8 DEF LeaveSync, Leave, Set, Moves, sessionVars, playerVars, registryVars, regVars
  <2>2. /\ at[w] = "LeaveSync" /\ AtWork("LeaveSync", job[w]) /\ job[w].on \in Sessions
        /\ HandlerOK("LeaveSync", job[w], mState[job[w].on], mPlayerId[job[w].on])
    BY <1>8, HandlerMeans DEF LeaveSync
  <2>3. /\ HandlerOK("ReturnToPool", job[w], mState[job[w].on], mPlayerId[job[w].on])
        /\ job[w] # NoJob
    BY <2>2, NoJobIsNowhere, PlayersAssumption DEF HandlerOK, PlayersAssumption
  <2>4. "LeaveSync" \notin ChangingPlaces /\ "ReturnToPool" \notin ChangingPlaces
    BY DEF ChangingPlaces
  <2> QED
    BY <1>1, <2>1, <2>2, <2>3, <2>4, GoesOnElsewhere
<1>9. ASSUME PostSend(w) PROVE RegInv'
  <2> DEFINE p == job[w].packet
  <2>1. UNCHANGED regVars
    BY <1>9 DEF PostSend, sessionVars, playerVars, registryVars, regVars
  <2>2. /\ at[w] = "PostSend" /\ AtWork("PostSend", job[w]) /\ job[w].on \in Sessions
        /\ HandlerOK("PostSend", job[w], mState[job[w].on], mPlayerId[job[w].on])
    BY <1>9, HandlerMeans DEF PostSend
  <2>3. PICK place \in {"Commit", After[p]}, j \in {job[w], NoJob} :
          /\ Moves(w, place, j)
          /\ j = NoJob => After[p] = "idle"
    <3> DEFINE k == IF After[p] = "idle" THEN NoJob ELSE job[w]
    <3>1. \/ Moves(w, "Commit", job[w])
          \/ Moves(w, After[p], k)
      BY <1>9 DEF PostSend, Goto, Request, JobAfter, Set, Moves
    <3>2. job[w] # NoJob
      BY <2>2, NoJobIsNowhere, PlayersAssumption DEF PlayersAssumption
    <3>3. k \in {job[w], NoJob} /\ (k = NoJob => After[p] = "idle")
      BY <3>2
    <3> HIDE DEF k
    <3> QED
      BY <3>1, <3>2, <3>3
  <2>4. p \in {"base", "export", "login", "logout", "move", "chat"}
    BY <2>2 DEF AtWork, Fits
  <2>5. /\ place \in {"Commit", "idle", "KeyShared", "LoggedIn", "LeavePlayer", "Broadcast"}
        /\ j = NoJob => p \in {"base", "logout"}
    BY <2>3, <2>4, AfterIs
  <2>6. j # NoJob => HandlerOK(place, j, mState[j.on], mPlayerId[j.on])
    BY <2>2, <2>5 DEF HandlerOK
  <2>7. place \notin ChangingPlaces /\ "PostSend" \notin ChangingPlaces
    BY <2>5 DEF ChangingPlaces
  <2> QED
    BY <1>1, <2>1, <2>2, <2>3, <2>5, <2>6, <2>7, GoesOnElsewhere
<1>10. ASSUME Commit(w) PROVE RegInv'
  <2> DEFINE p == job[w].packet
  <2>1. UNCHANGED regVars
    BY <1>10 DEF Commit, sessionVars, playerVars, registryVars, regVars
  <2>2. /\ at[w] = "Commit" /\ AtWork("Commit", job[w]) /\ job[w].on \in Sessions
        /\ HandlerOK("Commit", job[w], mState[job[w].on], mPlayerId[job[w].on])
    BY <1>10, HandlerMeans DEF Commit
  <2>3. PICK place \in {"Commit", After[p]}, j \in {job[w], NoJob} :
          /\ Moves(w, place, j)
          /\ j = NoJob => After[p] = "idle"
    <3> DEFINE k == IF After[p] = "idle" THEN NoJob ELSE job[w]
    <3>1. \/ Moves(w, "Commit", job[w])
          \/ Moves(w, After[p], k)
      BY <1>10 DEF Commit, Leave, JobAfter, Set, Moves
    <3>2. job[w] # NoJob
      BY <2>2, NoJobIsNowhere, PlayersAssumption DEF PlayersAssumption
    <3>3. k \in {job[w], NoJob} /\ (k = NoJob => After[p] = "idle")
      BY <3>2
    <3> HIDE DEF k
    <3> QED
      BY <3>1, <3>2, <3>3
  <2>4. p \in {"base", "export", "login", "logout", "move", "chat"}
    BY <2>2 DEF AtWork, Fits
  <2>5. /\ place \in {"Commit", "idle", "KeyShared", "LoggedIn", "LeavePlayer", "Broadcast"}
        /\ j = NoJob => p \in {"base", "logout"}
    BY <2>3, <2>4, AfterIs
  <2>6. j # NoJob => HandlerOK(place, j, mState[j.on], mPlayerId[j.on])
    BY <2>2, <2>5 DEF HandlerOK
  <2>7. place \notin ChangingPlaces /\ "Commit" \notin ChangingPlaces
    BY <2>5 DEF ChangingPlaces
  <2> QED
    BY <1>1, <2>1, <2>2, <2>3, <2>5, <2>6, <2>7, GoesOnElsewhere
<1> QED
  BY <1>2, <1>3, <1>4, <1>5, <1>6, <1>7, <1>8, <1>9, <1>10

\* Somebody is near who chats: at least the player itself.
LEMMA GetClosePlayersKeepsRegistry ==
  ASSUME PlayersAssumption, AllInv, NEW w \in Workers, GetClosePlayers(w)
  PROVE  RegInv'
<1> DEFINE s == job[w].on
           near == {e \in mPlayerZone : e.zone \in CloseZones(mZoneIdx[s])}
           close == {e.player : e \in near}
           j == [job[w] EXCEPT !.targets = close]
<1>1. /\ at[w] = "GetClosePlayers" /\ AtWork("GetClosePlayers", job[w]) /\ s \in Sessions
      /\ HandlerOK("GetClosePlayers", job[w], mState[s], mPlayerId[s])
  BY HandlerMeans DEF GetClosePlayers
<1>2. job[w].packet = "chat" /\ job[w] \in JobType
  BY <1>1, PlacesOfPackets DEF AtWork
<1>3. close # {} /\ close \in SUBSET (Sessions \cup {nullptr}) /\ nullptr \notin close
  <2>1. HasId(s) /\ ~ Changing(s)
    <3>1. HasId(s)
      BY <1>1, <1>2 DEF HandlerOK, HasId
    <3>2. ASSUME NEW v \in Workers, job[v].on = s
          PROVE  at[v] \notin {"RegisterPlayer", "ChangePlayerZone", "ClearPlayer"}
      BY <1>1, <1>2, <3>2, HandlerAlone
    <3> QED
      BY <3>1, <3>2 DEF Changing
  <2>2. Entry(mZoneIdx[s], mPlayerId[s], s) \in mPlayerZone
    BY <1>1, <2>1 DEF AllInv, RegInv, RegistryInv, RegisteredRight, Registered
  <2>3. mZoneIdx[s] \in Zones
    BY <1>1, <2>1 DEF AllInv, RegInv, SessionInv
  <2>4. Entry(mZoneIdx[s], mPlayerId[s], s) \in near
    BY <2>2, <2>3, OwnZoneIsClose DEF Entry
  <2>5. \A e \in near : e.player \in Sessions
    BY EntriesHaveIds
  <2> QED
    BY <2>4, <2>5, PlayersAssumption DEF PlayersAssumption, nullptr
<1>4. Moves(w, "Broadcast", j) /\ UNCHANGED regVars
  BY <1>3 DEF GetClosePlayers, Leave, Set, Moves, CrashAssert,
              sessionVars, playerVars, registryVars, regVars
<1> HIDE DEF close
<1>5. j.on = s /\ j.packet = "chat" /\ j.targets = close /\ j.serves = job[w].serves
  BY <1>2, <1>3, JobChanges DEF JobType
<1> HIDE DEF j
<1>6. Same(job[w], j) /\ j # NoJob /\ HandlerOK("Broadcast", j, mState[s], mPlayerId[s])
  BY <1>1, <1>2, <1>3, <1>5, NoJobIsNowhere DEF Same, HandlerOK
<1>7. "GetClosePlayers" \notin ChangingPlaces /\ "Broadcast" \notin ChangingPlaces
  BY DEF ChangingPlaces
<1> QED
  BY <1>1, <1>4, <1>5, <1>6, <1>7, GoesOnElsewhere

LEMMA BroadcastToKeepsRegistry ==
  ASSUME PlayersAssumption, AllInv, NEW w \in Workers, NEW p \in job[w].targets,
         BroadcastTo(w, p)
  PROVE  RegInv'
<1> DEFINE s == job[w].on
           j == [job[w] EXCEPT !.targets = @ \ {p}, !.dest = p]
<1>1. /\ at[w] = "Broadcast" /\ AtWork("Broadcast", job[w]) /\ s \in Sessions
      /\ HandlerOK("Broadcast", job[w], mState[s], mPlayerId[s])
  BY HandlerMeans DEF BroadcastTo
<1>2. job[w].packet = "chat" /\ job[w] \in JobType
  BY <1>1, PlacesOfPackets DEF AtWork
<1>3. /\ p # nullptr /\ p \in Sessions \cup {nullptr}
      /\ job[w].targets \ {p} \in SUBSET (Sessions \cup {nullptr})
      /\ nullptr \notin job[w].targets
  BY <1>1, <1>2 DEF HandlerOK, JobType
<1>4. PICK place \in {"PostSend", "Broadcast"} : Moves(w, place, j)
  BY Zenon DEF BroadcastTo, Goto, Set, Moves
<1>5. UNCHANGED regVars
  BY <1>3 DEF BroadcastTo, CrashAssert, sessionVars, playerVars, registryVars, regVars
<1>6. /\ j.on = s /\ j.packet = "chat" /\ j.targets = job[w].targets \ {p}
      /\ j.serves = job[w].serves
  BY <1>2, <1>3, JobChanges DEF JobType
<1> HIDE DEF j
<1>7. Same(job[w], j) /\ j # NoJob /\ HandlerOK(place, j, mState[s], mPlayerId[s])
  BY <1>1, <1>2, <1>3, <1>6, NoJobIsNowhere DEF Same, HandlerOK
<1>8. "Broadcast" \notin ChangingPlaces /\ place \notin ChangingPlaces
  BY DEF ChangingPlaces
<1> QED
  BY <1>1, <1>4, <1>5, <1>6, <1>7, <1>8, GoesOnElsewhere

-----------------------------------------------------------------------------
(***************************************************************************)
(* The steps that change the state of a session.                           *)
(***************************************************************************)
LEMMA DisconnectKeepsRegistry ==
  ASSUME PlayersAssumption, AllInv, NEW s \in Sessions, Disconnect(s)
  PROVE  RegInv'
<1>1. /\ phase' = [phase EXCEPT ![s] = "closed"]
      /\ UNCHANGED <<mState, playerVars, registryVars, mTempId, at, job, crashed>>
  BY DEF Disconnect, Set
<1>2. NoCrash' /\ SoleInv' /\ HandlerInv' /\ IdsDiffer'
  BY <1>1 DEF AllInv, RegInv, NoCrash, SoleInv, HandlerInv, IdsDiffer, HasId, playerVars
<1>3. SessionInv'
  BY <1>1 DEF AllInv, RegInv, SessionInv, HasId, playerVars, IInv, DataInv
<1>4. RegistryInv'
  BY <1>1 DEF AllInv, RegInv, RegistryInv, RegisteredRight, Registered, Changing, HasId,
              playerVars, registryVars
<1> QED
  BY <1>2, <1>3, <1>4 DEF RegInv

LEMMA AcceptCompletionKeepsRegistry ==
  ASSUME PlayersAssumption, AllInv, NEW w \in Workers, NEW s \in Sessions,
         AcceptCompletion(w, s)
  PROVE  RegInv'
<1> DEFINE j == Job(s, "base", accepted + 1)
<1>1. /\ at[w] = "idle" /\ job[w] = NoJob /\ phase[s] = "free"
      /\ phase' = [phase EXCEPT ![s] = "open"]
      /\ Moves(w, "SendBaseKey", j)
      /\ UNCHANGED <<mState, mPlayerId, mZoneIdx, mPlayerMap, mPlayerZone, mTempId, crashed>>
  BY AtMeans DEF AcceptCompletion, Goto, Set, Moves, AllInv, IInv, playerVars, registryVars
<1>2. j.on = s /\ j.packet = "base" /\ j.targets = {}
  BY JobFields
<1> HIDE DEF j
<1>3. /\ at'[w] = "SendBaseKey" /\ job'[w] = j
      /\ \A v \in Workers \ {w} : at'[v] = at[v] /\ job'[v] = job[v]
  BY <1>1, MovesTo DEF AllInv, IInv
<1>4. \A v \in Workers : job[v].on # s
  BY <1>1, PlayersAssumption DEF AllInv, ReplyInv, ServesInv, PlayersAssumption
<1>5. NoCrash' /\ IdsDiffer'
  BY <1>1 DEF AllInv, RegInv, NoCrash, IdsDiffer, HasId
<1>6. SoleInv'
  BY <1>2, <1>3, <1>4 DEF AllInv, RegInv, SoleInv
<1>7. HandlerInv'
  <2>1. mState[s] = "NOTHING"
    BY <1>1 DEF AllInv, RegInv, SessionInv
  <2>2. HandlerOK("SendBaseKey", j, mState[s], mPlayerId[s])
    BY <1>2, <2>1 DEF HandlerOK
  <2>3. \A v \in Workers \ {w} : job'[v].on # NoSession =>
          HandlerOK(at'[v], job'[v], mState[job'[v].on], mPlayerId[job'[v].on])
    BY <1>3 DEF AllInv, RegInv, HandlerInv
  <2> QED
    BY <1>1, <1>2, <1>3, <2>2, <2>3 DEF HandlerInv
<1>8. SessionInv'
  <2>1. \A v \in Workers : at[v] # "idle" => job'[v] = job[v] /\ at'[v] = at[v]
    BY <1>1, <1>3
  <2>2. \A v \in Workers : job[v].packet = "login" => job'[v] = job[v] /\ at'[v] = at[v]
    BY <1>1, <1>3, NoJobIsNowhere
  <2>3. phase \in [Sessions -> {"free", "open", "closed"}]
    BY DEF AllInv, IInv, DataInv
  <2> QED
    BY <1>1, <2>1, <2>2, <2>3 DEF AllInv, RegInv, SessionInv, HasId
<1>9. RegistryInv'
  <2>1. at[w] \notin ChangingPlaces /\ "SendBaseKey" \notin ChangingPlaces
    BY <1>1 DEF ChangingPlaces
  <2> QED
    BY <1>1, <2>1, RegistryLeftAlone
<1> QED
  BY <1>5, <1>6, <1>7, <1>8, <1>9 DEF RegInv

\* The state of a session changes, by its handler.
StateMoves(s, state) ==
  /\ mState' = [mState EXCEPT ![s] = state]
  /\ phase' = phase \/ (phase' = [phase EXCEPT ![s] = "free"] /\ state = "NOTHING")
  /\ UNCHANGED <<mPlayerId, mZoneIdx, mPlayerMap, mPlayerZone, mTempId, crashed>>

\* Nobody else minds: only the worker that accepted the connection may be there.
NobodyMinds(w, s, j) ==
  \A v \in Workers \ {w} : job[v].on = s =>
    /\ job[v].packet = "base" /\ at[v] # "SendBaseKey"
    /\ j # NoJob => j.packet # "base"

ItsHandler(w, s, j) ==
  /\ job[w].on = s \/ job[w] = NoJob
  /\ j = NoJob \/ (j.on = s /\ (job[w] = NoJob \/ j.packet = job[w].packet))

StateFits(s, state) ==
  /\ phase[s] = "free" => state = "NOTHING"
  /\ HasId(s) => state \in {"LOGGED_IN", "WAIT_FOR_LOGOUT"}
  /\ ~ HasId(s) => state # "LOGGED_IN"

LEMMA StateChanges ==
  ASSUME PlayersAssumption, AllInv, NEW w \in Workers, NEW place, NEW j,
         Moves(w, place, j), NEW s \in Sessions, NEW state \in ClientStates,
         StateMoves(s, state), ItsHandler(w, s, j), NobodyMinds(w, s, j),
         StateFits(s, state), at[w] \notin ChangingPlaces, place \notin ChangingPlaces,
         j # NoJob => HandlerOK(place, j, state, mPlayerId[s])
  PROVE  RegInv'
<1>1. /\ at'[w] = place /\ job'[w] = j
      /\ \A v \in Workers \ {w} : at'[v] = at[v] /\ job'[v] = job[v]
  BY MovesTo DEF AllInv, IInv
<1>2. /\ mState'[s] = state /\ \A t \in Sessions \ {s} : mState'[t] = mState[t]
      /\ mPlayerId' = mPlayerId
      /\ phase \in [Sessions -> {"free", "open", "closed"}]
      /\ mState' = [mState EXCEPT ![s] = state]
      /\ UNCHANGED <<mPlayerId, mZoneIdx, mPlayerMap, mPlayerZone, mTempId, crashed>>
      /\ phase' = phase \/ (phase' = [phase EXCEPT ![s] = "free"] /\ state = "NOTHING")
  BY DEF AllInv, IInv, DataInv, StateMoves
<1>3. NoCrash' /\ IdsDiffer'
  BY <1>2 DEF AllInv, RegInv, NoCrash, IdsDiffer, HasId
<1>4. SoleInv'
  BY <1>1, NoJobIsNowhere DEF AllInv, RegInv, SoleInv, ItsHandler, NobodyMinds
<1>5. HandlerInv'
  <2> SUFFICES ASSUME NEW v \in Workers, job'[v].on # NoSession
               PROVE  HandlerOK(at'[v], job'[v], mState'[job'[v].on], mPlayerId[job'[v].on])
    BY <1>2 DEF HandlerInv
  <2>1. CASE v = w
    BY <1>1, <1>2, <2>1, NoJobIsNowhere DEF ItsHandler
  <2>2. CASE v # w /\ job[v].on # s
    <3>1. job[v].on \in Sessions
      BY <1>1, <2>2 DEF AllInv, IInv, WorkInv, JobType
    <3> QED
      BY <1>1, <1>2, <2>2, <3>1 DEF AllInv, RegInv, HandlerInv
  <2>3. CASE v # w /\ job[v].on = s
    <3>1. HandlerOK(at[v], job[v], mState[s], mPlayerId[s])
      BY <1>1, <2>3 DEF AllInv, RegInv, HandlerInv
    <3>2. job[v].packet = "base" /\ at[v] # "SendBaseKey"
      BY <2>3 DEF NobodyMinds
    <3> QED
      BY <1>1, <1>2, <2>3, <3>1, <3>2 DEF HandlerOK
  <2> QED
    BY <2>1, <2>2, <2>3
<1>6. SessionInv'
  <2> SUFFICES ASSUME NEW t \in Sessions
               PROVE  /\ phase'[t] = "free" => mState'[t] = "NOTHING"
                      /\ HasId(t) => mState'[t] \notin {"NOTHING", "SHARING_KEY"}
                      /\ HasId(t) /\ mState'[t] = "WAIT_FOR_LOGIN" =>
                           \E v \in Workers : job'[v].on = t /\ job'[v].packet = "login"
                      /\ mState'[t] = "LOGGED_IN" /\ ~ HasId(t) =>
                           \E v \in Workers : job'[v].on = t
                                                /\ at'[v] \in {"LeaveSync", "ReturnToPool"}
                      /\ HasId(t) => mPlayerId[t] <= mTempId /\ mZoneIdx[t] \in Zones
    BY <1>2 DEF SessionInv, HasId
  <2>1. CASE t = s
    BY <1>2, <2>1 DEF AllInv, RegInv, SessionInv, StateFits
  <2>2. CASE t # s
    <3>1. \A v \in Workers : job[v].on = t => job'[v] = job[v] /\ at'[v] = at[v]
      BY <1>1, <2>2, NoJobIsNowhere, PlayersAssumption DEF PlayersAssumption, ItsHandler
    <3>2. mState'[t] = mState[t] /\ phase'[t] = phase[t]
      BY <1>2, <2>2
    <3> QED
      BY <3>1, <3>2 DEF AllInv, RegInv, SessionInv
  <2> QED
    BY <2>1, <2>2
<1>7. RegistryInv'
  BY <1>2, RegistryLeftAlone
<1> QED
  BY <1>3, <1>4, <1>5, <1>6, <1>7 DEF RegInv

LEMMA StatesAreStates ==
  /\ "NOTHING" \in ClientStates /\ "SHARING_KEY" \in ClientStates
  /\ "WAIT_FOR_LOGIN" \in ClientStates /\ "LOGGED_IN" \in ClientStates
  /\ "WAIT_FOR_LOGOUT" \in ClientStates
BY DEF ClientStates

LEMMA SendBaseKeyKeepsRegistry ==
  ASSUME PlayersAssumption, AllInv, NEW w \in Workers, SendBaseKey(w)
  PROVE  RegInv'
<1> DEFINE s == job[w].on
<1>1. /\ at[w] = "SendBaseKey" /\ AtWork("SendBaseKey", job[w]) /\ s \in Sessions
      /\ HandlerOK("SendBaseKey", job[w], mState[s], mPlayerId[s])
      /\ mState[s] = "NOTHING"
  BY HandlerMeans DEF SendBaseKey, HandlerOK
<1>2. /\ mState' = [mState EXCEPT ![s] = "SHARING_KEY"] /\ phase' = phase
      /\ UNCHANGED <<mPlayerId, mZoneIdx, mPlayerMap, mPlayerZone, mTempId, crashed>>
      /\ Moves(w, "PostSend", job[w])
  BY DEF SendBaseKey, Goto, Set, Moves, playerVars, registryVars
<1>3. job[w].packet = "base" /\ job[w] # NoJob
  BY <1>1, PlacesOfPackets, NoJobIsNowhere
<1>4. \A v \in Workers \ {w} : job[v].on # s
  <2> SUFFICES ASSUME NEW v \in Workers, v # w, job[v].on = s PROVE FALSE
    OBVIOUS
  <2>1. job[v].packet # "base"
    BY <1>1, <1>3, PlayersAssumption DEF AllInv, RegInv, SoleInv, PlayersAssumption
  <2>2. HandlerOK(at[v], job[v], mState[s], mPlayerId[s])
    BY <1>1, PlayersAssumption DEF AllInv, RegInv, HandlerInv, PlayersAssumption
  <2>3. job[v].packet \in {"export", "login", "logout", "move", "chat", "return"}
    <3>1. AtWork(at[v], job[v])
      BY DEF AllInv, IInv, WorkInv
    <3> QED
      BY <1>1, <2>1, <3>1, NoJobIsNowhere, PlayersAssumption DEF AtWork, Fits, PlayersAssumption
  <2>4. job[v].packet = "return"
    BY <1>1, <2>2, <2>3 DEF HandlerOK
  <2> QED
    BY <1>1, <2>4, PlayersAssumption DEF AllInv, ReplyInv, ServesInv, PlayersAssumption
<1>5. ~ HasId(s) /\ phase[s] # "free"
  BY <1>1, PlayersAssumption
  DEF AllInv, RegInv, SessionInv, ReplyInv, ServesInv, PlayersAssumption
<1>6. HandlerOK("PostSend", job[w], "SHARING_KEY", mPlayerId[s])
  BY <1>1, <1>3 DEF HandlerOK
<1>7. at[w] \notin ChangingPlaces /\ "PostSend" \notin ChangingPlaces
  BY <1>1 DEF ChangingPlaces
<1>8. StateMoves(s, "SHARING_KEY")
  BY <1>2 DEF StateMoves
<1>9. ItsHandler(w, s, job[w]) /\ NobodyMinds(w, s, job[w]) /\ StateFits(s, "SHARING_KEY")
  BY <1>4, <1>5 DEF ItsHandler, NobodyMinds, StateFits
<1> HIDE DEF s
<1> QED
  BY <1>1, <1>2, <1>6, <1>7, <1>8, <1>9, StatesAreStates, StateChanges

LEMMA KeySharedKeepsRegistry ==
  ASSUME PlayersAssumption, AllInv, NEW w \in Workers, KeyShared(w) \/ LoggedIn(w)
  PROVE  RegInv'
<1> DEFINE s == job[w].on
           state == IF KeyShared(w) THEN "WAIT_FOR_LOGIN" ELSE "LOGGED_IN"
<1>1. /\ at[w] \in {"KeyShared", "LoggedIn"} /\ AtWork(at[w], job[w]) /\ s \in Sessions
      /\ HandlerOK(at[w], job[w], mState[s], mPlayerId[s])
      /\ KeyShared(w) => at[w] = "KeyShared"
      /\ ~ KeyShared(w) => at[w] = "LoggedIn"
  BY HandlerMeans DEF KeyShared, LoggedIn
<1>2. /\ mState' = [mState EXCEPT ![s] = state] /\ phase' = phase
      /\ UNCHANGED <<mPlayerId, mZoneIdx, mPlayerMap, mPlayerZone, mTempId, crashed>>
      /\ Moves(w, "idle", NoJob)
  BY DEF KeyShared, LoggedIn, Goto, Set, Moves, playerVars, registryVars
<1>3. /\ job[w].packet \in {"export", "login"}
      /\ KeyShared(w) => mState[s] = "SHARING_KEY"
      /\ ~ KeyShared(w) => mState[s] = "WAIT_FOR_LOGIN" /\ HasId(s)
  BY <1>1, PlacesOfPackets DEF HandlerOK, HasId
<1>4. ASSUME NEW v \in Workers, v # w, job[v].on = s
      PROVE  job[v].packet = "base" /\ at[v] # "SendBaseKey"
  <2>1. HandlerOK(at[v], job[v], mState[s], mPlayerId[s])
    BY <1>1, <1>4, PlayersAssumption DEF AllInv, RegInv, HandlerInv, PlayersAssumption
  <2> QED
    BY <1>1, <1>3, <1>4, <2>1, HandlerAlone DEF HandlerOK
<1>5. /\ phase[s] # "free" /\ (KeyShared(w) => ~ HasId(s))
  BY <1>1, <1>3, PlayersAssumption
  DEF AllInv, RegInv, SessionInv, ReplyInv, ServesInv, PlayersAssumption
<1>6. at[w] \notin ChangingPlaces /\ "idle" \notin ChangingPlaces
  BY <1>1 DEF ChangingPlaces
<1>7. /\ state \in ClientStates
      /\ HasId(s) => state \in {"LOGGED_IN", "WAIT_FOR_LOGOUT"}
      /\ ~ HasId(s) => state # "LOGGED_IN"
  BY <1>3, <1>5, StatesAreStates
<1>8. StateMoves(s, state)
  BY <1>2 DEF StateMoves
<1>9. ItsHandler(w, s, NoJob) /\ NobodyMinds(w, s, NoJob) /\ StateFits(s, state)
  BY <1>4, <1>5, <1>7 DEF ItsHandler, NobodyMinds, StateFits
<1> HIDE DEF s, state
<1> QED
  BY <1>1, <1>2, <1>6, <1>7, <1>8, <1>9, StateChanges

LEMMA ResponseLogoutKeepsRegistry ==
  ASSUME PlayersAssumption, AllInv, NEW w \in Workers, NEW s \in Sessions,
         ResponseLogout(w, s)
  PROVE  RegInv'
<1> DEFINE j == Job(s, "logout", connection[s])
<1>1. /\ at[w] = "idle" /\ job[w] = NoJob /\ mState[s] = "LOGGED_IN"
      /\ \A v \in Workers : job[v].on = s => job[v].packet = "base"
      /\ job' = [job EXCEPT ![w] = j]
  BY ReceiveMeans DEF ResponseLogout
<1>2. /\ mState' = [mState EXCEPT ![s] = "WAIT_FOR_LOGOUT"] /\ phase' = phase
      /\ UNCHANGED <<mPlayerId, mZoneIdx, mPlayerMap, mPlayerZone, mTempId, crashed>>
      /\ Moves(w, "PostSend", j)
  BY <1>1 DEF ResponseLogout, Goto, Set, Moves, playerVars, registryVars
<1>3. j.on = s /\ j.packet = "logout" /\ j.targets = {}
  BY JobFields
<1> HIDE DEF j
<1>4. ASSUME NEW v \in Workers, job[v].on = s
      PROVE  at[v] # "SendBaseKey"
  BY <1>1, <1>4, PlayersAssumption DEF AllInv, RegInv, HandlerInv, HandlerOK, PlayersAssumption
<1>5. phase[s] # "free"
  BY <1>1 DEF AllInv, RegInv, SessionInv
<1>6. HandlerOK("PostSend", j, "WAIT_FOR_LOGOUT", mPlayerId[s])
  BY <1>3 DEF HandlerOK
<1>7. at[w] \notin ChangingPlaces /\ "PostSend" \notin ChangingPlaces
  BY <1>1 DEF ChangingPlaces
<1>8. StateMoves(s, "WAIT_FOR_LOGOUT")
  BY <1>2 DEF StateMoves
<1>9. ItsHandler(w, s, j) /\ NobodyMinds(w, s, j) /\ StateFits(s, "WAIT_FOR_LOGOUT")
  BY <1>1, <1>3, <1>4, <1>5 DEF ItsHandler, NobodyMinds, StateFits
<1> QED
  BY <1>1, <1>2, <1>6, <1>7, <1>8, <1>9, StatesAreStates, StateChanges

LEMMA ReturnToPoolKeepsRegistry ==
  ASSUME PlayersAssumption, AllInv, NEW w \in Workers, ReturnToPool(w)
  PROVE  RegInv'
<1> DEFINE s == job[w].on
<1>1. /\ at[w] = "ReturnToPool" /\ AtWork("ReturnToPool", job[w]) /\ s \in Sessions
      /\ HandlerOK("ReturnToPool", job[w], mState[s], mPlayerId[s])
  BY HandlerMeans DEF ReturnToPool
<1>2. /\ mState' = [mState EXCEPT ![s] = "NOTHING"]
      /\ phase' = [phase EXCEPT ![s] = "free"]
      /\ UNCHANGED <<mPlayerId, mZoneIdx, mPlayerMap, mPlayerZone, mTempId, crashed>>
      /\ Moves(w, "idle", NoJob)
  BY DEF ReturnToPool, Leave, Set, Moves, playerVars, registryVars
<1>3. job[w].packet = "return" /\ ~ HasId(s)
  BY <1>1, PlacesOfPackets DEF HandlerOK, HasId
<1>4. \A v \in Workers \ {w} : job[v].on # s
  BY <1>1, <1>3, HandlerAlone
<1>5. at[w] \notin ChangingPlaces /\ "idle" \notin ChangingPlaces
  BY <1>1 DEF ChangingPlaces
<1>8. StateMoves(s, "NOTHING")
  BY <1>2 DEF StateMoves
<1>9. ItsHandler(w, s, NoJob) /\ NobodyMinds(w, s, NoJob) /\ StateFits(s, "NOTHING")
  BY <1>3, <1>4 DEF ItsHandler, NobodyMinds, StateFits
<1> HIDE DEF s
<1> QED
  BY <1>1, <1>2, <1>5, <1>8, <1>9, StatesAreStates, StateChanges

-----------------------------------------------------------------------------
(***************************************************************************)
(* The steps that change a player or the registry.                         *)
(***************************************************************************)
OnlyPlayer(s) ==
  \A t \in Sessions \ {s} :
    /\ mPlayerId'[t] = mPlayerId[t] /\ mZoneIdx'[t] = mZoneIdx[t]
    /\ HasId(t) => mPlayerMap'[mPlayerId[t]] = mPlayerMap[mPlayerId[t]]
    /\ \A e : e \in mPlayerZone' /\ e.player = t <=> e \in mPlayerZone /\ e.player = t

LEMMA OthersLeftAlone ==
  ASSUME PlayersAssumption, AllInv, NEW w \in Workers, NEW place, NEW j, Moves(w, place, j),
         NEW s \in Sessions, ItsHandler(w, s, j), OnlyPlayer(s), NEW t \in Sessions \ {s}
  PROVE  RegisteredRight(t)'
<1>1. \A v \in Workers \ {w} : at'[v] = at[v] /\ job'[v] = job[v]
  BY MovesTo DEF AllInv, IInv
<1>2. job'[w] = j /\ job[w].on # t /\ j.on # t
  BY MovesTo, NoJobIsNowhere, PlayersAssumption DEF AllInv, IInv, ItsHandler, PlayersAssumption
<1> QED
  BY <1>1, <1>2, PlayerLeftAlone DEF OnlyPlayer

\* A step of the handler that changes at most the id and the zone of its player.
LEMMA HandlerKeepsSessions ==
  ASSUME PlayersAssumption, AllInv, NEW w \in Workers, NEW place, NEW j, Moves(w, place, j),
         NEW s \in Sessions, job[w].on = s, j.on = s, j.packet = job[w].packet,
         j.packet # "base", at[w] \notin {"LeaveSync", "ReturnToPool"},
         UNCHANGED <<mState, phase, mTempId>>,
         OnlyPlayer(s), mPlayerId' \in [Sessions -> Ids \cup {NoId}],
         \/ mPlayerId'[s] = mPlayerId[s]
         \/ mPlayerId'[s] = NoId /\ place = "LeaveSync",
         HasId(s)' => mZoneIdx'[s] \in Zones,
         HandlerOK(place, j, mState[s], mPlayerId'[s])
  PROVE  SoleInv' /\ HandlerInv' /\ SessionInv' /\ IdsDiffer'
<1>1. /\ at'[w] = place /\ job'[w] = j
      /\ \A v \in Workers \ {w} : at'[v] = at[v] /\ job'[v] = job[v]
  BY MovesTo DEF AllInv, IInv
<1>2. \A t \in Sessions \ {s} : mPlayerId'[t] = mPlayerId[t] /\ mZoneIdx'[t] = mZoneIdx[t]
  BY DEF OnlyPlayer
<1>3. SoleInv'
  BY <1>1 DEF AllInv, RegInv, SoleInv
<1>4. HandlerInv'
  <2> SUFFICES ASSUME NEW v \in Workers, job'[v].on # NoSession
               PROVE  HandlerOK(at'[v], job'[v], mState[job'[v].on], mPlayerId'[job'[v].on])
    BY DEF HandlerInv
  <2>1. CASE v = w
    BY <1>1, <2>1
  <2>2. CASE v # w /\ job[v].on # s
    <3>1. job[v].on \in Sessions
      BY <1>1, <2>2 DEF AllInv, IInv, WorkInv, JobType
    <3> QED
      BY <1>1, <1>2, <2>2, <3>1 DEF AllInv, RegInv, HandlerInv
  <2>3. CASE v # w /\ job[v].on = s
    <3>1. HandlerOK(at[v], job[v], mState[s], mPlayerId[s])
      BY <1>1, <2>3 DEF AllInv, RegInv, HandlerInv
    <3>2. job[v].packet = "base" /\ at[v] \in {"SendBaseKey", "PostSend", "Commit"}
      BY <2>3, HandlerAlone
    <3> QED
      BY <1>1, <2>3, <3>1, <3>2 DEF HandlerOK
  <2> QED
    BY <2>1, <2>2, <2>3
<1>5. SessionInv'
  <2> SUFFICES ASSUME NEW t \in Sessions
               PROVE  /\ phase[t] = "free" => mState[t] = "NOTHING"
                      /\ HasId(t)' => mState[t] \notin {"NOTHING", "SHARING_KEY"}
                      /\ HasId(t)' /\ mState[t] = "WAIT_FOR_LOGIN" =>
                           \E v \in Workers : job'[v].on = t /\ job'[v].packet = "login"
                      /\ mState[t] = "LOGGED_IN" /\ ~ HasId(t)' =>
                           \E v \in Workers : job'[v].on = t
                                                /\ at'[v] \in {"LeaveSync", "ReturnToPool"}
                      /\ HasId(t)' => mPlayerId'[t] <= mTempId /\ mZoneIdx'[t] \in Zones
    BY DEF SessionInv, HasId
  <2>1. \A v \in Workers : job'[v].on = job[v].on /\ job'[v].packet = job[v].packet
    BY <1>1
  <2>2. \A v \in Workers : at[v] \in {"LeaveSync", "ReturnToPool"} =>
                             at'[v] \in {"LeaveSync", "ReturnToPool"}
    BY <1>1
  <2>3. HasId(t)' => HasId(t) /\ mPlayerId'[t] = mPlayerId[t] /\ mZoneIdx'[t] \in Zones
    BY <1>2 DEF HasId, AllInv, RegInv, SessionInv
  <2>4. ~ HasId(t)' /\ HasId(t) => t = s /\ at'[w] = "LeaveSync" /\ job'[w].on = s
    BY <1>1, <1>2 DEF HasId
  <2> QED
    BY <2>1, <2>2, <2>3, <2>4 DEF AllInv, RegInv, SessionInv
<1>6. IdsDiffer'
  <2>1. \A t \in Sessions : HasId(t)' => HasId(t) /\ mPlayerId'[t] = mPlayerId[t]
    BY <1>2 DEF HasId
  <2> QED
    BY <2>1 DEF AllInv, RegInv, IdsDiffer, HasId
<1> QED
  BY <1>3, <1>4, <1>5, <1>6

\* Nobody else is changing the player of a handler.
LEMMA OnlyHandlerChanges ==
  ASSUME PlayersAssumption, AllInv, NEW w \in Workers, job[w].on \in Sessions,
         job[w].packet # "base", NEW place, NEW j, Moves(w, place, j), j.on = job[w].on
  PROVE  /\ Changing(j.on)' <=> place \in ChangingPlaces
         /\ \A v \in Workers : job'[v].on = j.on /\ at'[v] \in ChangingPlaces =>
              v = w /\ at'[v] = place /\ job'[v] = j
<1>1. /\ at'[w] = place /\ job'[w] = j
      /\ \A v \in Workers \ {w} : at'[v] = at[v] /\ job'[v] = job[v]
  BY MovesTo DEF AllInv, IInv
<1>2. \A v \in Workers \ {w} : job[v].on = job[w].on => at[v] \notin ChangingPlaces
  BY HandlerAlone DEF ChangingPlaces
<1> QED
  BY <1>1, <1>2 DEF Changing, ChangingPlaces

LEMMA ResponseLoginKeepsRegistry ==
  ASSUME PlayersAssumption, AllInv, NEW w \in Workers, NEW s \in Sessions,
         ResponseLogin(w, s)
  PROVE  RegInv'
<1> DEFINE j == Job(s, "login", connection[s])
<1>1. /\ at[w] = "idle" /\ job[w] = NoJob /\ mState[s] = "WAIT_FOR_LOGIN"
      /\ \A v \in Workers : job[v].on = s => job[v].packet = "base"
      /\ job' = [job EXCEPT ![w] = j]
  BY ReceiveMeans DEF ResponseLogin
<1>2. /\ mTempId' = mTempId + 1
      /\ mPlayerId' = [mPlayerId EXCEPT ![s] = mTempId + 1]
      /\ mZoneIdx' = [mZoneIdx EXCEPT ![s] = UpdateZoneIdx(mPos[s])]
      /\ UNCHANGED <<mState, phase, mPlayerMap, mPlayerZone, crashed>>
      /\ Moves(w, "RegisterPlayer", j)
  BY <1>1 DEF ResponseLogin, Request, Set, Moves, sessionVars, registryVars
<1>3. j.on = s /\ j.packet = "login" /\ j.targets = {}
  BY JobFields
<1> HIDE DEF j
<1>4. /\ at'[w] = "RegisterPlayer" /\ job'[w] = j
      /\ \A v \in Workers \ {w} : at'[v] = at[v] /\ job'[v] = job[v]
  BY <1>2, MovesTo DEF AllInv, IInv
<1>5. ~ HasId(s)
  BY <1>1 DEF AllInv, RegInv, SessionInv
<1>6. /\ UpdateZoneIdx(mPos[s]) \in Zones /\ mTempId + 1 \in Ids
      /\ mPlayerId \in [Sessions -> Ids \cup {NoId}] /\ mTempId \in Nat
      /\ mTempId + 1 # NoId
      /\ mZoneIdx \in [Sessions -> Zones \cup {NoZone}]
  <2>1. mPos[s] \in Int \X Int
    BY DEF AllInv, IInv, DataInv, PlayersAssumption
  <2>2. UpdateZoneIdx(mPos[s]) \in Zones
    BY <2>1, ZoneInRange
  <2>3. mTempId \in 0 .. MaxLogins /\ mTempId < MaxLogins
    BY DEF AllInv, IInv, DataInv, ResponseLogin
  <2> QED
    BY <2>2, <2>3, PlayersAssumption DEF AllInv, IInv, DataInv, Ids, NoId, PlayersAssumption
<1>7. /\ mPlayerId'[s] = mTempId + 1 /\ mZoneIdx'[s] \in Zones
      /\ \A t \in Sessions \ {s} : mPlayerId'[t] = mPlayerId[t] /\ mZoneIdx'[t] = mZoneIdx[t]
  BY <1>2, <1>6
<1>8. NoCrash' /\ SoleInv'
  BY <1>1, <1>2, <1>3, <1>4, NoJobIsNowhere DEF AllInv, RegInv, NoCrash, SoleInv
<1>9. HandlerInv'
  <2> SUFFICES ASSUME NEW v \in Workers, job'[v].on # NoSession
               PROVE  HandlerOK(at'[v], job'[v], mState[job'[v].on], mPlayerId'[job'[v].on])
    BY <1>2 DEF HandlerInv
  <2>1. CASE v = w
    BY <1>1, <1>3, <1>4, <1>6, <1>7, <2>1 DEF HandlerOK
  <2>2. CASE v # w /\ job[v].on # s
    <3>1. job[v].on \in Sessions
      BY <1>4, <2>2 DEF AllInv, IInv, WorkInv, JobType
    <3> QED
      BY <1>4, <1>7, <2>2, <3>1 DEF AllInv, RegInv, HandlerInv
  <2>3. CASE v # w /\ job[v].on = s
    <3>1. HandlerOK(at[v], job[v], mState[s], mPlayerId[s])
      BY <1>4, <2>3 DEF AllInv, RegInv, HandlerInv
    <3>2. job[v].packet = "base"
      BY <1>1, <2>3
    <3>3. at[v] \in {"SendBaseKey", "PostSend", "Commit"}
      <4>1. AtWork(at[v], job[v])
        BY DEF AllInv, IInv, WorkInv
      <4> QED
        BY <3>2, <4>1, NoJobIsNowhere DEF AtWork, Fits
    <3> QED
      BY <1>4, <2>3, <3>1, <3>2, <3>3 DEF HandlerOK
  <2> QED
    BY <2>1, <2>2, <2>3
<1>10. SessionInv'
  <2> SUFFICES ASSUME NEW t \in Sessions
               PROVE  /\ phase[t] = "free" => mState[t] = "NOTHING"
                      /\ HasId(t)' => mState[t] \notin {"NOTHING", "SHARING_KEY"}
                      /\ HasId(t)' /\ mState[t] = "WAIT_FOR_LOGIN" =>
                           \E v \in Workers : job'[v].on = t /\ job'[v].packet = "login"
                      /\ mState[t] = "LOGGED_IN" /\ ~ HasId(t)' =>
                           \E v \in Workers : job'[v].on = t
                                                /\ at'[v] \in {"LeaveSync", "ReturnToPool"}
                      /\ HasId(t)' => mPlayerId'[t] <= mTempId' /\ mZoneIdx'[t] \in Zones
    BY <1>2 DEF SessionInv, HasId
  <2>1. CASE t = s
    BY <1>1, <1>2, <1>3, <1>4, <1>6, <1>7, <2>1 DEF HasId, AllInv, RegInv, SessionInv
  <2>2. CASE t # s
    <3>1. \A v \in Workers : job[v].on = t => job'[v] = job[v] /\ at'[v] = at[v]
      BY <1>1, <1>4, NoJobIsNowhere, PlayersAssumption DEF PlayersAssumption
    <3>2. HasId(t)' = HasId(t) /\ mPlayerId'[t] = mPlayerId[t] /\ mZoneIdx'[t] = mZoneIdx[t]
      BY <1>7, <2>2 DEF HasId
    <3>3. HasId(t) => mPlayerId[t] <= mTempId + 1
      BY <1>6, PlayersAssumption DEF AllInv, RegInv, SessionInv, HasId, Ids, PlayersAssumption
    <3> QED
      BY <1>2, <3>1, <3>2, <3>3 DEF AllInv, RegInv, SessionInv
  <2> QED
    BY <2>1, <2>2
<1>11. IdsDiffer'
  <2>1. \A t \in Sessions \ {s} : mPlayerId[t] # mTempId + 1
    <3> SUFFICES ASSUME NEW t \in Sessions \ {s}, mPlayerId[t] = mTempId + 1 PROVE FALSE
      OBVIOUS
    <3>1. HasId(t) /\ mPlayerId[t] <= mTempId
      BY <1>6 DEF HasId, AllInv, RegInv, SessionInv
    <3> QED
      BY <1>6, <3>1
  <2> QED
    BY <1>7, <2>1 DEF AllInv, RegInv, IdsDiffer, HasId
<1>12. RegistryInv'
  <2>1. ItsHandler(w, s, j)
    BY <1>1, <1>3 DEF ItsHandler
  <2>2. OnlyPlayer(s)
    BY <1>2, <1>7 DEF OnlyPlayer
  <2>3. RegisteredRight(s)'
    <3>1. Changing(s)'
      BY <1>3, <1>4 DEF Changing
    <3>2. \A e \in mPlayerZone : e.player # s
      BY <1>5, EntriesHaveIds
    <3>3. ASSUME NEW v \in Workers, job'[v].on = s, at'[v] = "ChangePlayerZone"
          PROVE  FALSE
      <4>1. job[v].packet = "base" /\ at[v] = "ChangePlayerZone"
        BY <1>1, <1>4, <3>3
      <4> QED
        BY <4>1, PlacesOfPackets DEF AllInv, IInv, WorkInv
    <3> QED
      BY <1>2, <3>1, <3>2, <3>3 DEF RegisteredRight
  <2> QED
    BY <1>2, <2>1, <2>2, <2>3, OthersLeftAlone DEF RegistryInv, AllInv, RegInv
<1> QED
  BY <1>8, <1>9, <1>10, <1>11, <1>12 DEF RegInv

LEMMA RegisterPlayerKeepsRegistry ==
  ASSUME PlayersAssumption, AllInv, NEW w \in Workers, RegisterPlayer(w),
         NEW s \in Sessions, job[w].on = s
  PROVE  RegInv'
<1> DEFINE id == mPlayerId[s]
<1>1. /\ at[w] = "RegisterPlayer" /\ AtWork("RegisterPlayer", job[w])
      /\ HandlerOK("RegisterPlayer", job[w], mState[s], mPlayerId[s])
  BY HandlerMeans DEF RegisterPlayer
<1>2. /\ mPlayerMap' = [mPlayerMap EXCEPT ![id] = s]
      /\ mPlayerZone' = Erase(mZoneIdx[s], id) \cup {Entry(mZoneIdx[s], id, s)}
      /\ UNCHANGED <<mState, phase, mTempId, mPlayerId, mZoneIdx, crashed>>
      /\ Moves(w, "PostSend", job[w])
  BY DEF RegisterPlayer, Leave, Set, Moves, sessionVars, playerVars
<1>3. job[w].packet = "login" /\ HasId(s)
  BY <1>1, PlacesOfPackets DEF HandlerOK, HasId
<1>4. id \in Ids /\ mZoneIdx[s] \in Zones /\ mPlayerMap \in [Ids -> Sessions \cup {nullptr}]
      /\ mPlayerId \in [Sessions -> Ids \cup {NoId}]
  BY <1>1, <1>3 DEF HasId, AllInv, IInv, DataInv, RegInv, SessionInv
<1>5. \A e \in mPlayerZone : e.player # s /\ e.id # id
  <2>1. \A e \in mPlayerZone : e.player # s
    BY <1>1 DEF AllInv, RegInv, RegistryInv, RegisteredRight
  <2>2. \A e \in mPlayerZone : e.id = id => e.player = s
    BY <1>1, <1>3, EntriesHaveIds DEF AllInv, RegInv, IdsDiffer
  <2> QED
    BY <2>1, <2>2
<1>6. mPlayerZone' = mPlayerZone \cup {Entry(mZoneIdx[s], id, s)}
  BY <1>2, <1>5 DEF Erase
<1>7. /\ Entry(mZoneIdx[s], id, s) \in [zone : Zones, id : Ids, player : Sessions]
      /\ Entry(mZoneIdx[s], id, s).player = s /\ Entry(mZoneIdx[s], id, s).id = id
      /\ Entry(mZoneIdx[s], id, s).zone = mZoneIdx[s]
  BY <1>1, <1>4 DEF Entry
<1>8. OnlyPlayer(s)
  <2>1. \A t \in Sessions \ {s} : HasId(t) => mPlayerId[t] # id
    BY <1>1, <1>3 DEF AllInv, RegInv, IdsDiffer
  <2> QED
    BY <1>2, <1>4, <1>6, <1>7, <2>1 DEF OnlyPlayer
<1>9. HandlerOK("PostSend", job[w], mState[s], mPlayerId[s])
  BY <1>1, <1>3 DEF HandlerOK
<1>10. NoCrash' /\ SoleInv' /\ HandlerInv' /\ SessionInv' /\ IdsDiffer'
  <2>1. NoCrash'
    BY <1>2 DEF AllInv, RegInv, NoCrash
  <2>2. mPlayerId'[s] = mPlayerId[s] /\ (HasId(s)' => mZoneIdx'[s] \in Zones)
    BY <1>2, <1>4
  <2> QED
    BY <1>1, <1>2, <1>3, <1>4, <1>8, <1>9, <2>1, <2>2, HandlerKeepsSessions
<1>11. RegisteredRight(s)'
  <2>1. "PostSend" \notin ChangingPlaces
    BY DEF ChangingPlaces
  <2>2. /\ ~ Changing(s)'
        /\ \A v \in Workers : job'[v].on = s => at'[v] \notin ChangingPlaces
    BY <1>1, <1>2, <1>3, <2>1, OnlyHandlerChanges
  <2>3. Registered(s, mZoneIdx[s])'
    BY <1>2, <1>4, <1>6 DEF Registered, Entry
  <2> QED
    BY <1>2, <1>4, <1>5, <1>6, <1>7, <2>2, <2>3 DEF RegisteredRight, ChangingPlaces
<1>12. RegistryInv'
  <2>1. ItsHandler(w, s, job[w])
    BY DEF ItsHandler
  <2>2. mPlayerZone' \subseteq [zone : Zones, id : Ids, player : Sessions]
    BY <1>6, <1>7 DEF AllInv, RegInv, RegistryInv
  <2> QED
    BY <1>1, <1>2, <1>8, <1>11, <2>1, <2>2, OthersLeftAlone DEF RegistryInv
<1> QED
  BY <1>10, <1>12 DEF RegInv

LEMMA UpdatePositionKeepsRegistry ==
  ASSUME PlayersAssumption, AllInv, NEW w \in Workers, UpdatePosition(w),
         NEW s \in Sessions, job[w].on = s
  PROVE  RegInv'
<1> DEFINE id == mPlayerId[s]
<1>1. /\ at[w] = "UpdatePosition" /\ AtWork("UpdatePosition", job[w])
      /\ HandlerOK("UpdatePosition", job[w], mState[s], mPlayerId[s])
  BY HandlerMeans DEF UpdatePosition
<1>2. job[w].packet = "move" /\ HasId(s) /\ job[w] \in JobType
  BY <1>1, PlacesOfPackets DEF HandlerOK, HasId, AtWork
<1>3. PICK pos \in Positions :
        /\ mZoneIdx' = [mZoneIdx EXCEPT ![s] = UpdateZoneIdx(pos)]
        /\ IF mZoneIdx[s] # UpdateZoneIdx(pos)
           THEN /\ job' = [job EXCEPT ![w] = [job[w] EXCEPT !.from = mZoneIdx[s]]]
                /\ at' = [at EXCEPT ![w] = "ChangePlayerZone"]
           ELSE at' = [at EXCEPT ![w] = "PostSend"] /\ job' = job
  BY DEF UpdatePosition, Goto, Request, Set
<1>4. UNCHANGED <<mState, phase, mTempId, mPlayerId, mPlayerMap, mPlayerZone, crashed>>
  BY DEF UpdatePosition, sessionVars, registryVars
<1>5. /\ UpdateZoneIdx(pos) \in Zones /\ mZoneIdx[s] \in Zones
      /\ mZoneIdx \in [Sessions -> Zones \cup {NoZone}]
      /\ mPlayerId \in [Sessions -> Ids \cup {NoId}]
  BY <1>1, <1>2, ZoneInRange DEF PlayersAssumption, AllInv, IInv, DataInv, RegInv, SessionInv
<1>6. CASE mZoneIdx[s] = UpdateZoneIdx(pos)
  <2>1. UNCHANGED regVars
    BY <1>3, <1>4, <1>5, <1>6 DEF regVars
  <2>2. Moves(w, "PostSend", job[w]) /\ Same(job[w], job[w])
    BY <1>3, <1>6 DEF Moves, Same
  <2>3. HandlerOK("PostSend", job[w], mState[s], mPlayerId[s]) /\ job[w] # NoJob
    BY <1>1, <1>2, NoJobIsNowhere DEF HandlerOK
  <2>4. "UpdatePosition" \notin ChangingPlaces /\ "PostSend" \notin ChangingPlaces
    BY DEF ChangingPlaces
  <2> QED
    BY <1>1, <2>1, <2>2, <2>3, <2>4, GoesOnElsewhere
<1>7. CASE mZoneIdx[s] # UpdateZoneIdx(pos)
  <2> DEFINE j == [job[w] EXCEPT !.from = mZoneIdx[s]]
  <2>1. Moves(w, "ChangePlayerZone", j)
    BY <1>3, <1>7 DEF Moves
  <2>2. /\ j.on = s /\ j.packet = "move" /\ j.from = mZoneIdx[s]
        /\ j.targets = job[w].targets
    BY <1>2, <1>5, JobChanges DEF JobType
  <2> HIDE DEF j
  <2>3. HandlerOK("ChangePlayerZone", j, mState[s], mPlayerId[s])
    BY <1>1, <1>2, <2>2 DEF HandlerOK
  <2>4. OnlyPlayer(s)
    BY <1>3, <1>4 DEF OnlyPlayer
  <2>5. NoCrash' /\ SoleInv' /\ HandlerInv' /\ SessionInv' /\ IdsDiffer'
    <3>1. NoCrash'
      BY <1>4 DEF AllInv, RegInv, NoCrash
    <3>2. mPlayerId'[s] = mPlayerId[s] /\ (HasId(s)' => mZoneIdx'[s] \in Zones)
          /\ mPlayerId' \in [Sessions -> Ids \cup {NoId}]
      BY <1>1, <1>3, <1>4, <1>5
    <3>3. SoleInv' /\ HandlerInv' /\ SessionInv' /\ IdsDiffer'
      BY <1>1, <1>2, <1>4, <2>1, <2>2, <2>3, <2>4, <3>2, HandlerKeepsSessions
    <3> QED
      BY <3>1, <3>3
  <2>6. Changing(s)' /\ \A v \in Workers : job'[v].on = s /\ at'[v] \in ChangingPlaces =>
                                             at'[v] = "ChangePlayerZone" /\ job'[v] = j
    BY <1>1, <1>2, <2>1, <2>2, OnlyHandlerChanges DEF ChangingPlaces
  <2>7. RegisteredRight(s)'
    <3>1. ~ Changing(s)
      BY <1>1, <1>2, HandlerAlone DEF Changing
    <3>2. RegisteredRight(s)
      BY <1>1 DEF AllInv, RegInv, RegistryInv
    <3>3. Registered(s, mZoneIdx[s])
      BY <1>2, <3>1, <3>2 DEF RegisteredRight
    <3>4. \A v \in Workers : job'[v].on = s /\ at'[v] = "ChangePlayerZone" =>
                               Registered(s, job'[v].from)
      BY <2>2, <2>6, <3>3 DEF ChangingPlaces
    <3>5. \A e \in mPlayerZone : e.player = s =>
            mPlayerId[s] = e.id /\ mPlayerMap[e.id] = s /\ mZoneIdx[s] = e.zone
      BY <3>1, <3>2 DEF RegisteredRight
    <3> QED
      BY <1>4, <2>2, <2>6, <3>4, <3>5 DEF RegisteredRight, Registered, ChangingPlaces
  <2>8. RegistryInv'
    <3>1. ItsHandler(w, s, j)
      BY <1>2, <2>2 DEF ItsHandler
    <3> QED
      BY <1>1, <1>4, <2>1, <2>4, <2>7, <3>1, OthersLeftAlone DEF RegistryInv, AllInv, RegInv
  <2> QED
    BY <2>5, <2>8 DEF RegInv
<1> QED
  BY <1>6, <1>7

LEMMA ChangePlayerZoneKeepsRegistry ==
  ASSUME PlayersAssumption, AllInv, NEW w \in Workers, ChangePlayerZone(w),
         NEW s \in Sessions, job[w].on = s
  PROVE  RegInv'
<1> DEFINE id == mPlayerId[s]
<1>1. /\ at[w] = "ChangePlayerZone" /\ AtWork("ChangePlayerZone", job[w])
      /\ HandlerOK("ChangePlayerZone", job[w], mState[s], mPlayerId[s])
  BY HandlerMeans DEF ChangePlayerZone
<1> DEFINE there == {e \in mPlayerZone : e.zone = job[w].from /\ e.id = id}
           player == IF there = {} THEN nullptr ELSE (CHOOSE e \in there : TRUE).player
           new == Entry(mZoneIdx[s], id, s)
<1>2. job[w].packet = "move" /\ HasId(s) /\ job[w] \in JobType
  BY <1>1, PlacesOfPackets DEF HandlerOK, HasId, AtWork
<1>3. /\ id \in Ids /\ mZoneIdx[s] \in Zones /\ mPlayerId \in [Sessions -> Ids \cup {NoId}]
      /\ RegisteredRight(s) /\ Registered(s, job[w].from)
  BY <1>1, <1>2
  DEF HasId, AllInv, IInv, DataInv, RegInv, SessionInv, RegistryInv, RegisteredRight
<1>4. player = s
  <2>1. Entry(job[w].from, id, s) \in there
    BY <1>3 DEF Registered, Entry
  <2>2. \A e \in there : e.player = s
    BY <1>1, <1>2, EntriesHaveIds DEF AllInv, RegInv, IdsDiffer
  <2>3. (CHOOSE e \in there : TRUE) \in there
    BY <2>1
  <2> QED
    BY <2>1, <2>2, <2>3
<1>5. /\ mPlayerZone' = (Erase(mZoneIdx[s], id) \ there) \cup {new}
      /\ UNCHANGED <<mState, phase, mTempId, mPlayerId, mZoneIdx, mPlayerMap, crashed>>
      /\ Moves(w, "PostSend", job[w])
  BY <1>4 DEF ChangePlayerZone, Leave, Set, Moves, sessionVars, playerVars
<1>6. /\ new \in [zone : Zones, id : Ids, player : Sessions]
      /\ new.player = s /\ new.id = id /\ new.zone = mZoneIdx[s]
  BY <1>1, <1>3 DEF Entry
<1>7. \A e \in mPlayerZone : (e.player = s <=> e.id = id) /\ (e.player = s => e \in there)
  <2>1. \A e \in mPlayerZone : e.id = id => e.player = s
    BY <1>1, <1>2, EntriesHaveIds DEF AllInv, RegInv, IdsDiffer
  <2>2. \A e \in mPlayerZone : e.player = s => e.id = id /\ e.zone = job[w].from
    BY <1>1, <1>3 DEF RegisteredRight
  <2> QED
    BY <2>1, <2>2
<1>8. mPlayerZone' = {e \in mPlayerZone : e.player # s} \cup {new}
  BY <1>5, <1>7 DEF Erase
<1> HIDE DEF there, player, new
<1>9. OnlyPlayer(s)
  BY <1>5, <1>6, <1>8 DEF OnlyPlayer
<1>10. HandlerOK("PostSend", job[w], mState[s], mPlayerId[s])
  BY <1>1, <1>2 DEF HandlerOK
<1>11. NoCrash' /\ SoleInv' /\ HandlerInv' /\ SessionInv' /\ IdsDiffer'
  <2>1. NoCrash'
    BY <1>5 DEF AllInv, RegInv, NoCrash
  <2>2. mPlayerId'[s] = mPlayerId[s] /\ (HasId(s)' => mZoneIdx'[s] \in Zones)
    BY <1>3, <1>5
  <2>3. SoleInv' /\ HandlerInv' /\ SessionInv' /\ IdsDiffer'
    BY <1>1, <1>2, <1>3, <1>5, <1>9, <1>10, <2>2, HandlerKeepsSessions
  <2> QED
    BY <2>1, <2>3
<1>12. RegisteredRight(s)'
  <2>1. "PostSend" \notin ChangingPlaces
    BY DEF ChangingPlaces
  <2>2. /\ ~ Changing(s)'
        /\ \A v \in Workers : job'[v].on = s => at'[v] \notin ChangingPlaces
    BY <1>1, <1>2, <1>5, <2>1, OnlyHandlerChanges
  <2>3. Registered(s, mZoneIdx[s])'
    BY <1>3, <1>5, <1>8 DEF Registered, new
  <2>4. \A e \in mPlayerZone' : e.player = s => e = new
    BY <1>8
  <2>5. mPlayerMap[id] = s
    BY <1>3 DEF Registered
  <2> QED
    BY <1>5, <1>6, <2>2, <2>3, <2>4, <2>5 DEF RegisteredRight, ChangingPlaces
<1>13. RegistryInv'
  <2>1. ItsHandler(w, s, job[w])
    BY DEF ItsHandler
  <2>2. mPlayerZone' \subseteq [zone : Zones, id : Ids, player : Sessions]
    BY <1>6, <1>8 DEF AllInv, RegInv, RegistryInv
  <2> QED
    BY <1>1, <1>5, <1>9, <1>12, <2>1, <2>2, OthersLeftAlone DEF RegistryInv
<1> QED
  BY <1>11, <1>13 DEF RegInv

LEMMA NoIdNoEntry ==
  ASSUME PlayersAssumption, AllInv, NEW s \in Sessions, ~ HasId(s), NEW e \in mPlayerZone
  PROVE  e.player # s
BY EntriesHaveIds

LEMMA PlayerResetKeepsRegistry ==
  ASSUME PlayersAssumption, AllInv, NEW w \in Workers, PlayerReset(w),
         NEW s \in Sessions, job[w].on = s
  PROVE  RegInv'
<1> DEFINE id == mPlayerId[s]
<1>1. /\ at[w] = "PlayerReset" /\ AtWork("PlayerReset", job[w])
      /\ HandlerOK("PlayerReset", job[w], mState[s], mPlayerId[s])
  BY HandlerMeans DEF PlayerReset
<1>2. job[w].packet = "return"
  BY <1>1, PlacesOfPackets
<1>3. UNCHANGED regVars
  BY DEF PlayerReset, sessionVars, playerVars, registryVars, regVars
<1>4. CASE HasId(s)
  <2>1. Moves(w, "UnregisterPlayer", job[w])
    BY <1>4 DEF PlayerReset, HasId, Request, Set, Moves
  <2>2. HandlerOK("UnregisterPlayer", job[w], mState[s], mPlayerId[s]) /\ job[w] # NoJob
    BY <1>1, <1>2, <1>4, NoJobIsNowhere DEF HandlerOK, HasId
  <2>3. "PlayerReset" \notin ChangingPlaces /\ "UnregisterPlayer" \notin ChangingPlaces
    BY DEF ChangingPlaces
  <2>4. Same(job[w], job[w])
    BY DEF Same
  <2> QED
    BY <1>1, <1>3, <2>1, <2>2, <2>3, <2>4, GoesOnElsewhere
<1>5. CASE ~ HasId(s)
  <2>1. Moves(w, "ClearPlayer", job[w])
    BY <1>5 DEF PlayerReset, HasId, Goto, Set, Moves
  <2>2. HandlerOK("ClearPlayer", job[w], mState[s], mPlayerId[s])
    BY <1>1, <1>2 DEF HandlerOK
  <2>3. /\ OnlyPlayer(s) /\ UNCHANGED <<mState, phase, mTempId>>
        /\ mPlayerId' = mPlayerId /\ mPlayerMap' = mPlayerMap /\ mPlayerZone' = mPlayerZone
        /\ mZoneIdx' = mZoneIdx /\ ~ HasId(s)'
        /\ mPlayerId \in [Sessions -> Ids \cup {NoId}] /\ crashed' = crashed
    BY <1>3, <1>5 DEF OnlyPlayer, regVars, HasId, AllInv, IInv, DataInv
  <2>4. SoleInv' /\ HandlerInv' /\ SessionInv' /\ IdsDiffer'
    <3> QED
      BY <1>1, <1>2, <2>1, <2>2, <2>3, HandlerKeepsSessions
  <2>5. RegisteredRight(s)'
    <3>1. \A v \in Workers : job'[v].on = s /\ at'[v] \in ChangingPlaces =>
                               at'[v] = "ClearPlayer"
      BY <1>1, <1>2, <2>1, OnlyHandlerChanges
    <3>2. \A e \in mPlayerZone : e.player # s
      BY <1>1, <1>5, NoIdNoEntry
    <3> QED
      BY <2>3, <3>1, <3>2 DEF RegisteredRight, ChangingPlaces
  <2>6. RegistryInv'
    <3>1. ItsHandler(w, s, job[w])
      BY DEF ItsHandler
    <3> QED
      BY <1>1, <2>1, <2>3, <2>5, <3>1, OthersLeftAlone DEF RegistryInv, AllInv, RegInv
  <2> QED
    BY <2>3, <2>4, <2>6 DEF RegInv, NoCrash, AllInv
<1> QED
  BY <1>4, <1>5

LEMMA UnregisterPlayerKeepsRegistry ==
  ASSUME PlayersAssumption, AllInv, NEW w \in Workers, UnregisterPlayer(w),
         NEW s \in Sessions, job[w].on = s
  PROVE  RegInv'
<1> DEFINE id == mPlayerId[s]
<1>1. /\ at[w] = "UnregisterPlayer" /\ AtWork("UnregisterPlayer", job[w])
      /\ HandlerOK("UnregisterPlayer", job[w], mState[s], mPlayerId[s])
  BY HandlerMeans DEF UnregisterPlayer
<1>2. job[w].packet = "return" /\ HasId(s)
  BY <1>1, PlacesOfPackets DEF HandlerOK, HasId
<1>3. /\ mPlayerMap' = [mPlayerMap EXCEPT ![id] = nullptr]
      /\ mPlayerZone' = Erase(mZoneIdx[s], id)
      /\ UNCHANGED <<mState, phase, mTempId, mPlayerId, mZoneIdx, crashed>>
      /\ Moves(w, "ClearPlayer", job[w])
  BY DEF UnregisterPlayer, Leave, Set, Moves, sessionVars, playerVars
<1>4. /\ id \in Ids /\ mZoneIdx[s] \in Zones /\ mPlayerMap \in [Ids -> Sessions \cup {nullptr}]
      /\ mPlayerId \in [Sessions -> Ids \cup {NoId}]
  BY <1>1, <1>2 DEF HasId, AllInv, IInv, DataInv, RegInv, SessionInv
<1>5. \A e \in mPlayerZone : e.player = s <=> e.zone = mZoneIdx[s] /\ e.id = id
  <2>1. \A e \in mPlayerZone : e.id = id => e.player = s
    BY <1>1, <1>2, EntriesHaveIds DEF AllInv, RegInv, IdsDiffer
  <2>2. ~ Changing(s)
    BY <1>1, <1>2, HandlerAlone DEF Changing
  <2>3. \A e \in mPlayerZone : e.player = s => e.id = id /\ e.zone = mZoneIdx[s]
    BY <1>1, <2>2 DEF AllInv, RegInv, RegistryInv, RegisteredRight
  <2> QED
    BY <2>1, <2>3
<1>6. mPlayerZone' = {e \in mPlayerZone : e.player # s}
  BY <1>3, <1>5 DEF Erase
<1>7. OnlyPlayer(s)
  <2>1. \A t \in Sessions \ {s} : HasId(t) => mPlayerId[t] # id
    BY <1>1, <1>2 DEF AllInv, RegInv, IdsDiffer
  <2> QED
    BY <1>3, <1>4, <1>6, <2>1 DEF OnlyPlayer
<1>8. HandlerOK("ClearPlayer", job[w], mState[s], mPlayerId[s])
  BY <1>1, <1>2 DEF HandlerOK
<1>9. NoCrash' /\ SoleInv' /\ HandlerInv' /\ SessionInv' /\ IdsDiffer'
  <2>1. NoCrash'
    BY <1>3 DEF AllInv, RegInv, NoCrash
  <2>2. mPlayerId'[s] = mPlayerId[s] /\ (HasId(s)' => mZoneIdx'[s] \in Zones)
    BY <1>3, <1>4
  <2>3. SoleInv' /\ HandlerInv' /\ SessionInv' /\ IdsDiffer'
    BY <1>1, <1>2, <1>3, <1>4, <1>7, <1>8, <2>2, HandlerKeepsSessions
  <2> QED
    BY <2>1, <2>3
<1>10. RegisteredRight(s)'
  <2>1. /\ Changing(s)'
        /\ \A v \in Workers : job'[v].on = s /\ at'[v] \in ChangingPlaces =>
                                at'[v] = "ClearPlayer"
    BY <1>1, <1>2, <1>3, OnlyHandlerChanges DEF ChangingPlaces
  <2>2. \A e \in mPlayerZone' : e.player # s
    BY <1>6
  <2> QED
    BY <2>1, <2>2 DEF RegisteredRight, ChangingPlaces
<1>11. RegistryInv'
  <2>1. ItsHandler(w, s, job[w])
    BY DEF ItsHandler
  <2>2. mPlayerZone' \subseteq [zone : Zones, id : Ids, player : Sessions]
    BY <1>6 DEF AllInv, RegInv, RegistryInv
  <2> QED
    BY <1>1, <1>3, <1>7, <1>10, <2>1, <2>2, OthersLeftAlone DEF RegistryInv
<1> QED
  BY <1>9, <1>11 DEF RegInv

LEMMA ClearPlayerKeepsRegistry ==
  ASSUME PlayersAssumption, AllInv, NEW w \in Workers, ClearPlayer(w),
         NEW s \in Sessions, job[w].on = s
  PROVE  RegInv'
<1> DEFINE id == mPlayerId[s]
<1>1. /\ at[w] = "ClearPlayer" /\ AtWork("ClearPlayer", job[w])
      /\ HandlerOK("ClearPlayer", job[w], mState[s], mPlayerId[s])
  BY HandlerMeans DEF ClearPlayer
<1>2. job[w].packet = "return"
  BY <1>1, PlacesOfPackets
<1>3. /\ mPlayerId' = [mPlayerId EXCEPT ![s] = NoId]
      /\ mZoneIdx' = [mZoneIdx EXCEPT ![s] = NoZone]
      /\ UNCHANGED <<mState, phase, mTempId, mPlayerMap, mPlayerZone, crashed>>
      /\ Moves(w, "LeaveSync", job[w])
  BY DEF ClearPlayer, Leave, Set, Moves, sessionVars, registryVars
<1>4. /\ mPlayerId \in [Sessions -> Ids \cup {NoId}]
      /\ mPlayerId'[s] = NoId /\ ~ HasId(s)'
      /\ mPlayerId' \in [Sessions -> Ids \cup {NoId}]
  BY <1>1, <1>3 DEF HasId, AllInv, IInv, DataInv
<1>5. \A e \in mPlayerZone : e.player # s
  BY <1>1 DEF AllInv, RegInv, RegistryInv, RegisteredRight
<1>6. OnlyPlayer(s)
  BY <1>3 DEF OnlyPlayer
<1>7. HandlerOK("LeaveSync", job[w], mState[s], NoId)
  BY <1>1, <1>2 DEF HandlerOK
<1>8. NoCrash' /\ SoleInv' /\ HandlerInv' /\ SessionInv' /\ IdsDiffer'
  <2>1. NoCrash'
    BY <1>3 DEF AllInv, RegInv, NoCrash
  <2>2. SoleInv' /\ HandlerInv' /\ SessionInv' /\ IdsDiffer'
    BY <1>1, <1>2, <1>3, <1>4, <1>6, <1>7, HandlerKeepsSessions
  <2> QED
    BY <2>1, <2>2
<1>9. RegisteredRight(s)'
  <2>1. "LeaveSync" \notin ChangingPlaces
    BY DEF ChangingPlaces
  <2>2. \A v \in Workers : job'[v].on = s => at'[v] \notin ChangingPlaces
    BY <1>1, <1>2, <1>3, <2>1, OnlyHandlerChanges
  <2> QED
    BY <1>3, <1>4, <1>5, <2>2 DEF RegisteredRight, ChangingPlaces
<1>10. RegistryInv'
  <2>1. ItsHandler(w, s, job[w])
    BY DEF ItsHandler
  <2> QED
    BY <1>1, <1>3, <1>6, <1>9, <2>1, OthersLeftAlone DEF RegistryInv, AllInv, RegInv
<1> QED
  BY <1>8, <1>10 DEF RegInv

-----------------------------------------------------------------------------
(***************************************************************************)
(* The theorems.                                                           *)
(***************************************************************************)
LEMMA InitRegistry ==
  ASSUME PlayersAssumption, Init
  PROVE  RegInv
<1>1. NoCrash /\ SoleInv /\ HandlerInv
  BY NoJobIsNowhere DEF Init, NoCrash, SoleInv, HandlerInv
<1>2. SessionInv /\ IdsDiffer
  BY DEF Init, SessionInv, IdsDiffer, HasId
<1>3. RegistryInv
  BY DEF Init, RegistryInv, RegisteredRight, HasId
<1> QED
  BY <1>1, <1>2, <1>3 DEF RegInv

LEMMA NextKeepsRegistry ==
  ASSUME PlayersAssumption, AllInv, [Next]_vars
  PROVE  RegInv'
<1>1. CASE UNCHANGED <<regVars, at, job>>
  BY <1>1 DEF regVars, AllInv, RegInv, NoCrash, SoleInv, HandlerInv, SessionInv, IdsDiffer,
              RegistryInv, RegisteredRight, Registered, Changing, HasId
<1>2. CASE UNCHANGED vars
  BY <1>1, <1>2 DEF vars, regVars, sessionVars, playerVars, registryVars
<1>3. ASSUME NEW w \in Workers, EnterLock(w) PROVE RegInv'
  BY <1>1, <1>3 DEF EnterLock, regVars, sessionVars, playerVars, registryVars
<1>4. ASSUME NEW w \in Workers, Start(w) PROVE RegInv'
  BY <1>4, AcceptCompletionKeepsRegistry, StartKeepsRegistry, ResponseLoginKeepsRegistry,
     ResponseLogoutKeepsRegistry
  DEF Start
<1>5. ASSUME NEW w \in Workers, NEW s \in Sessions, job[w].on = s, Continue(w) PROVE RegInv'
  BY <1>5, ContinueElsewhere, SendBaseKeyKeepsRegistry, KeySharedKeepsRegistry,
     RegisterPlayerKeepsRegistry, UpdatePositionKeepsRegistry, ChangePlayerZoneKeepsRegistry,
     GetClosePlayersKeepsRegistry, BroadcastToKeepsRegistry, PlayerResetKeepsRegistry,
     UnregisterPlayerKeepsRegistry, ClearPlayerKeepsRegistry, ReturnToPoolKeepsRegistry
  DEF Continue
<1>6. ASSUME NEW w \in Workers, Continue(w) PROVE job[w].on \in Sessions
  <2> DEFINE busy == crashed = "no" /\ wants[w] = NoLock /\ at[w] # "idle"
  <2>1. ASSUME PostSend(w) \/ Commit(w) \/ SendBaseKey(w) \/ KeyShared(w) \/ RegisterPlayer(w)
        PROVE  busy
    BY <2>1 DEF At, PostSend, Commit, SendBaseKey, KeyShared, RegisterPlayer
  <2>2. ASSUME LoggedIn(w) \/ UpdatePosition(w) \/ ChangePlayerZone(w) \/ LeavePlayer(w)
        PROVE  busy
    BY <2>2 DEF At, LoggedIn, UpdatePosition, ChangePlayerZone, LeavePlayer
  <2>3. ASSUME GetClosePlayers(w) \/ BroadcastEnd(w) \/ SessionReset(w)
           \/ BufferReset(w) \/ DoSync(w)
        PROVE  busy
    BY <2>3 DEF At, GetClosePlayers, BroadcastEnd, SessionReset, BufferReset, DoSync
  <2>4. ASSUME LockPlayer(w) \/ PlayerReset(w) \/ UnregisterPlayer(w) \/ ClearPlayer(w)
           \/ LeaveSync(w) \/ ReturnToPool(w)
        PROVE  busy
    BY <2>4 DEF At, LockPlayer, PlayerReset, UnregisterPlayer, ClearPlayer, LeaveSync, ReturnToPool
  <2>5. ASSUME NEW p \in job[w].targets, BroadcastTo(w, p)
        PROVE  busy
    BY <2>5 DEF At, BroadcastTo
  <2>6. busy
    BY <1>6, <2>1, <2>2, <2>3, <2>4, <2>5 DEF Continue
  <2>7. At(w, at[w]) /\ at[w] # "idle"
    BY <2>6 DEF At
  <2> QED
    BY <2>7, AtMeans DEF AllInv, IInv
<1> QED
  BY <1>2, <1>3, <1>4, <1>5, <1>6, DisconnectKeepsRegistry DEF Next

\* All three invariants together are inductive.
THEOREM AllInvHolds == PlayersAssumption => (Spec => []AllInv)
<1> SUFFICES ASSUME PlayersAssumption
             PROVE  Spec => []AllInv
  OBVIOUS
<1>1. Init => AllInv
  BY InitHolds, InitReplies, InitRegistry DEF AllInv
<1>2. AllInv /\ [Next]_vars => AllInv'
  BY NextKeeps, NextKeepsReplies, NextKeepsRegistry DEF AllInv, IInv
<1> QED
  BY <1>1, <1>2, PTL DEF Spec

\* The map and the zones hold exactly the players that have an id, where they
\* are, though a player's fields change outside the registry's lock
\* (Player.cpp:45-54, 152-164, PlayerManager.cpp:26-106): one worker at a time
\* is at a player, and it tells the registry before it lets go of the session.
THEOREM RegistryRight == PlayersAssumption => (Spec => []RegisteredWhereItIs)
<1> SUFFICES ASSUME PlayersAssumption
             PROVE  Spec => []RegisteredWhereItIs
  OBVIOUS
<1>1. AllInv => RegisteredWhereItIs
  <2> SUFFICES ASSUME AllInv PROVE RegisteredWhereItIs
    OBVIOUS
  <2>1. ASSUME NEW s \in Sessions, ~ Changing(s), mPlayerId[s] # NoId
        PROVE  /\ mPlayerMap[mPlayerId[s]] = s
               /\ Entry(mZoneIdx[s], mPlayerId[s], s) \in mPlayerZone
    BY <2>1 DEF AllInv, RegInv, RegistryInv, RegisteredRight, Registered, HasId
  <2>2. ASSUME NEW e \in mPlayerZone
        PROVE  /\ e.player # nullptr
               /\ mPlayerId[e.player] = e.id /\ mPlayerMap[e.id] = e.player
               /\ ~ Changing(e.player) => mZoneIdx[e.player] = e.zone
    <3>1. e.player \in Sessions
      BY DEF AllInv, RegInv, RegistryInv
    <3>2. RegisteredRight(e.player)
      BY <3>1 DEF AllInv, RegInv, RegistryInv
    <3> QED
      BY <3>1, <3>2, PlayersAssumption DEF RegisteredRight, PlayersAssumption, nullptr
  <2> QED
    BY <2>1, <2>2 DEF RegisteredWhereItIs
<1> QED
  BY <1>1, AllInvHolds, PTL

\* Somebody is always near who chats, and only players that there are are
\* broadcast to (ClientSessionManager.cpp:84, 89): the player itself is
\* registered in its zone while its session handles the packet.
THEOREM NobodyCrashes == PlayersAssumption => (Spec => []NoCrash)
<1> SUFFICES ASSUME PlayersAssumption
             PROVE  Spec => []NoCrash
  OBVIOUS
<1>1. AllInv => NoCrash
  BY DEF AllInv, RegInv
<1> QED
  BY <1>1, AllInvHolds, PTL

\* The variables of Players keep their types: in particular no entry of the
\* registry is without an id, a zone or, PlayerManager.cpp:98 notwithstanding, a player.
THEOREM TypesHold == PlayersAssumption => (Spec => []TypeOK)
<1> SUFFICES ASSUME PlayersAssumption
             PROVE  Spec => []TypeOK
  OBVIOUS
<1>1. AllInv => TypeOK
  <2> SUFFICES ASSUME AllInv PROVE TypeOK
    OBVIOUS
  <2>1. mPlayerZone \subseteq [zone : Zones, id : Ids, player : Sessions \cup {nullptr}]
    BY DEF AllInv, RegInv, RegistryInv
  <2>2. job \in [Workers -> JobType] /\ L!LockTypeOK
    BY DEF AllInv, IInv, WorkInv, LockInv
  <2> QED
    BY <2>1, <2>2 DEF AllInv, IInv, DataInv, TypeOK, JobType
<1> QED
  BY <1>1, AllInvHolds, PTL
============================================================================
