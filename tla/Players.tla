------------------------------- MODULE Players -------------------------------
(***************************************************************************)
(* The players of the connected sessions and the zones they are in         *)
(* (Player.cpp, PlayerManager.cpp, the packets of ClientSession.cpp, and   *)
(* ReturnClientSession with the part of SessionReset that concerns them).  *)
(*                                                                         *)
(* at[w] is where worker w is.  A critical section is three steps: the     *)
(* request, which the LockOrderChecker sees, entering, and the body with   *)
(* the leaving.  A session has one player for ever, so a player is named   *)
(* by its session.  What SessionPool.tla shows is taken from there: one    *)
(* worker at a time handles the packets of a session, and only a session   *)
(* that nobody handles is returned.                                        *)
(***************************************************************************)
EXTENDS Integers, Sequences, FiniteSets

CONSTANTS
  Workers, Sessions,
  NoWorker, NoSession, NoLock,
  Positions,       \* the values of mPos, pairs of coordinates
  ZONE_RANGE,
  MaxLogins,       \* bound: ids that GetTempId issues
  MaxConnections   \* bound: connections that are accepted

ASSUME PlayersAssumption ==
  /\ NoWorker \notin Workers
  /\ NoSession \notin Sessions
  /\ Positions \subseteq Int \X Int
  /\ <<0, 0>> \in Positions
  /\ ZONE_RANGE \in Nat \ {0}
  /\ MaxLogins \in Nat /\ MaxConnections \in Nat

nullptr == NoSession
NoId == -1
NoZone == -1
Ids == 1 .. MaxLogins
ClientStates ==
  {"NOTHING", "SHARING_KEY", "WAIT_FOR_LOGIN", "LOGGED_IN", "WAIT_FOR_LOGOUT"}

-----------------------------------------------------------------------------
(***************************************************************************)
(* Zones: a square of ten times ten, the inner ones twice as wide.         *)
(***************************************************************************)
ZONE_NUMBER_EACH_AXIS == 10
ZONE_NUMBER == 100
Zones == 0 .. ZONE_NUMBER - 1

Least(i, j) == IF i < j THEN i ELSE j
Greatest(i, j) == IF i < j THEN j ELSE i

\* static_cast<int> and / round towards zero.
AxisIdx(v) ==
  LET idx == Least((IF v < 0 THEN 0 - v ELSE v) \div ZONE_RANGE, 4)
  IN  IF v > 0 THEN 5 + idx ELSE 4 - idx

UpdateZoneIdx(pos) == AxisIdx(pos[2]) * ZONE_NUMBER_EACH_AXIS + AxisIdx(pos[1])

\* The zones that GetClosePlayers walks through.
CloseZones(from) ==
  LET fromX == from % ZONE_NUMBER_EACH_AXIS
      fromY == from \div ZONE_NUMBER_EACH_AXIS
      last  == ZONE_NUMBER_EACH_AXIS - 1
  IN  {j * ZONE_NUMBER_EACH_AXIS + i :
         j \in Greatest(0, fromY - 1) .. Least(last, fromY + 1),
         i \in Greatest(0, fromX - 1) .. Least(last, fromX + 1)}

-----------------------------------------------------------------------------
(***************************************************************************)
(* Locks                                                                   *)
(***************************************************************************)
Lock(kind, s) == [kind |-> kind, of |-> s]
managerLock == Lock("manager", NoSession)      \* ClientSessionManager::mLock
playersLock == Lock("players", NoSession)      \* PlayerManager::mLock

Locks ==
  {managerLock, playersLock}
    \cup {Lock(kind, s) : kind \in {"player", "sync", "send"}, s \in Sessions}

ASSUME LockAssumption == NoLock \notin Locks

LockClass ==
  [manager |-> 0, player |-> 0, sync |-> 2, players |-> 3, send |-> 4]

mLockOrder == [l \in Locks |-> LockClass[l.kind]]

VARIABLES writer, readers, wants, mLockStack

L == INSTANCE LockOrderChecker
       WITH Threads <- Workers, NoThread <- NoWorker

lockVars == <<writer, readers, wants, mLockStack>>

VARIABLES
  phase,           \* of a session: in the pool, connected, or no longer connected
  connection,      \* history: the connection that the session serves or served last
  accepted,        \* history: how many there have been
  mState, mPlayerId, mPos, mZoneIdx,
  mPlayerMap, mPlayerZone, mTempId,
  mSendBuffer,     \* of the messages put into it since it was reset, the
                   \* connections they answer (none for a broadcast)
  at,              \* where a worker is
  job,             \* what it works on: the session, the packet, and its locals
  crashed

sessionVars == <<phase, connection, accepted, mState>>
playerVars == <<mPlayerId, mPos, mZoneIdx>>
registryVars == <<mPlayerMap, mPlayerZone>>
vars == <<lockVars, sessionVars, playerVars, registryVars, mTempId, mSendBuffer,
          at, job, crashed>>

Packets == {"base", "export", "login", "logout", "move", "chat", "return"}

\* serves is history: the connection that the packet came from.
NoJob == [on |-> NoSession, packet |-> "none", serves |-> 0, dest |-> NoSession,
          from |-> NoZone, targets |-> {}]

Job(s, packet, serves) ==
  [on |-> s, packet |-> packet, serves |-> serves, dest |-> s,
   from |-> NoZone, targets |-> {}]

Set(f, s, v) == f' = [f EXCEPT ![s] = v]

CrashAssert(cond, where) == crashed' = IF cond THEN crashed ELSE where

At(w, label) == crashed = "no" /\ wants[w] = NoLock /\ at[w] = label

Goto(w, label) == Set(at, w, label) /\ UNCHANGED lockVars

\* The worker spins for the lock l; behind it, it goes on at label.
Request(w, l, label) == L!Request(w, l) /\ Set(at, w, label)

\* The worker leaves the lock l and goes on at label.
Leave(w, l, label) == L!Leave(w, l) /\ Set(at, w, label)

\* A worker that goes on to "idle" is done with its packet.
JobAfter(w, label) == IF label = "idle" THEN Set(job, w, NoJob) ELSE UNCHANGED job

\* The loop around the lock flag, which FastSpinlock.tla opens.
EnterLock(w) ==
  /\ crashed = "no"
  /\ IF at[w] = "GetClosePlayers" THEN L!AcquireRead(w) ELSE L!AcquireWrite(w)
  /\ UNCHANGED <<sessionVars, playerVars, registryVars, mTempId, mSendBuffer,
                 at, job, crashed>>

-----------------------------------------------------------------------------
(***************************************************************************)
(* Session::PostSend to job.dest: the test, the lock, the copy; where the  *)
(* callers go on, whatever it returns.                                     *)
(***************************************************************************)
After ==
  [base |-> "idle", export |-> "KeyShared", login |-> "LoggedIn",
   logout |-> "idle", move |-> "LeavePlayer", chat |-> "Broadcast"]

PostSend(w) ==
  LET s == job[w].dest
  IN  /\ At(w, "PostSend")
      /\ IF phase[s] = "open"
         THEN Request(w, Lock("send", s), "Commit") /\ UNCHANGED job
         ELSE Goto(w, After[job[w].packet]) /\ JobAfter(w, After[job[w].packet])
      /\ UNCHANGED <<sessionVars, playerVars, registryVars, mTempId, mSendBuffer, crashed>>

\* The message is copied, unless the buffer is full of earlier ones: a message
\* that is lost goes on like one that is copied.
Commit(w) ==
  LET s == job[w].dest
      message == IF job[w].packet = "chat" THEN {} ELSE {job[w].serves}
  IN  /\ At(w, "Commit")
      /\ \/ Set(mSendBuffer, s, mSendBuffer[s] \cup message)
         \/ mSendBuffer[s] # {} /\ UNCHANGED mSendBuffer
      /\ Leave(w, Lock("send", s), After[job[w].packet])
      /\ JobAfter(w, After[job[w].packet])
      /\ UNCHANGED <<sessionVars, playerVars, registryVars, mTempId, crashed>>

-----------------------------------------------------------------------------
(***************************************************************************)
(* The connection, and the exchange of keys.                               *)
(***************************************************************************)

\* AcceptCompletion posts the first receive before it sets mState: another
\* worker may handle a packet of the session meanwhile.
AcceptCompletion(w, s) ==
  /\ At(w, "idle")
  /\ phase[s] = "free" /\ accepted < MaxConnections
  /\ accepted' = accepted + 1
  /\ Set(phase, s, "open")
  /\ Set(connection, s, accepted + 1)
  /\ Set(job, w, Job(s, "base", accepted + 1))
  /\ Goto(w, "SendBaseKey")
  /\ UNCHANGED <<mState, playerVars, registryVars, mTempId, mSendBuffer, crashed>>

SendBaseKey(w) ==
  /\ At(w, "SendBaseKey")
  /\ Set(mState, job[w].on, "SHARING_KEY")
  /\ Goto(w, "PostSend")
  /\ UNCHANGED <<phase, connection, accepted, playerVars, registryVars, mTempId, mSendBuffer,
                 job, crashed>>

\* DisconnectRequest, for any of its reasons, on any thread.
Disconnect(s) ==
  /\ crashed = "no"
  /\ phase[s] = "open"
  /\ Set(phase, s, "closed")
  /\ UNCHANGED <<lockVars, connection, accepted, mState, playerVars, registryVars, mTempId,
                 mSendBuffer, at, job, crashed>>

Handlers(s) == {w \in Workers : job[w].on = s}

\* A packet of the session is handled; what is received before the disconnect
\* is handled after it.
Receive(w, s, state, packet) ==
  /\ At(w, "idle")
  /\ phase[s] # "free"
  /\ \A v \in Handlers(s) : job[v].packet = "base"
  /\ mState[s] = state
  /\ Set(job, w, Job(s, packet, connection[s]))

ResponseExportedKey(w, s) ==
  /\ Receive(w, s, "SHARING_KEY", "export")
  /\ Goto(w, "PostSend")
  /\ UNCHANGED <<sessionVars, playerVars, registryVars, mTempId, mSendBuffer, crashed>>

KeyShared(w) ==
  /\ At(w, "KeyShared")
  /\ Set(mState, job[w].on, "WAIT_FOR_LOGIN")
  /\ Goto(w, "idle")
  /\ Set(job, w, NoJob)
  /\ UNCHANGED <<phase, connection, accepted, playerVars, registryVars, mTempId, mSendBuffer, crashed>>

-----------------------------------------------------------------------------
(***************************************************************************)
(* Login and logout.                                                       *)
(***************************************************************************)

\* ResponseLogin as far as RegisterPlayer: the id, then Player::Start.
ResponseLogin(w, s) ==
  /\ Receive(w, s, "WAIT_FOR_LOGIN", "login")
  /\ mTempId < MaxLogins
  /\ mTempId' = mTempId + 1
  /\ Set(mPlayerId, s, mTempId + 1)
  /\ Set(mZoneIdx, s, UpdateZoneIdx(mPos[s]))
  /\ Request(w, playersLock, "RegisterPlayer")
  /\ UNCHANGED <<sessionVars, mPos, registryVars, mSendBuffer, crashed>>

Entry(zone, id, player) == [zone |-> zone, id |-> id, player |-> player]

Erase(zone, id) == {e \in mPlayerZone : e.zone # zone \/ e.id # id}

RegisterPlayer(w) ==
  LET s == job[w].on
  IN  /\ At(w, "RegisterPlayer")
      /\ Set(mPlayerMap, mPlayerId[s], s)
      /\ mPlayerZone' = Erase(mZoneIdx[s], mPlayerId[s])
                          \cup {Entry(mZoneIdx[s], mPlayerId[s], s)}
      /\ Leave(w, playersLock, "PostSend")
      /\ UNCHANGED <<sessionVars, playerVars, mTempId, mSendBuffer, job, crashed>>

LoggedIn(w) ==
  /\ At(w, "LoggedIn")
  /\ Set(mState, job[w].on, "LOGGED_IN")
  /\ Goto(w, "idle")
  /\ Set(job, w, NoJob)
  /\ UNCHANGED <<phase, connection, accepted, playerVars, registryVars, mTempId, mSendBuffer, crashed>>

\* The player stays registered until the session is returned.
ResponseLogout(w, s) ==
  /\ Receive(w, s, "LOGGED_IN", "logout")
  /\ Set(mState, s, "WAIT_FOR_LOGOUT")
  /\ Goto(w, "PostSend")
  /\ UNCHANGED <<phase, connection, accepted, playerVars, registryVars, mTempId, mSendBuffer,
                 crashed>>

-----------------------------------------------------------------------------
(***************************************************************************)
(* Moving: everything inside mPlayerLock, the result is sent to the player *)
(* itself.                                                                 *)
(***************************************************************************)
ResponseMove(w, s) ==
  /\ Receive(w, s, "LOGGED_IN", "move")
  /\ Request(w, Lock("player", s), "UpdatePosition")
  /\ UNCHANGED <<sessionVars, playerVars, registryVars, mTempId, mSendBuffer, crashed>>

\* Mutant: the player changes its zone without telling the registry.
UpdatePositionOnly(w) ==
  LET s == job[w].on
  IN  /\ At(w, "UpdatePosition")
      /\ \E pos \in Positions :
           /\ Set(mPos, s, pos)
           /\ Set(mZoneIdx, s, UpdateZoneIdx(pos))
      /\ Goto(w, "PostSend")
      /\ UNCHANGED <<sessionVars, mPlayerId, registryVars, mTempId, mSendBuffer, job,
                     crashed>>

UpdatePosition(w) ==
  LET s == job[w].on
  IN  /\ At(w, "UpdatePosition")
      /\ \E pos \in Positions :
           /\ Set(mPos, s, pos)
           /\ Set(mZoneIdx, s, UpdateZoneIdx(pos))
           /\ IF mZoneIdx[s] # UpdateZoneIdx(pos)
              THEN /\ Set(job, w, [job[w] EXCEPT !.from = mZoneIdx[s]])
                   /\ Request(w, playersLock, "ChangePlayerZone")
              ELSE Goto(w, "PostSend") /\ UNCHANGED job
      /\ UNCHANGED <<sessionVars, mPlayerId, registryVars, mTempId, mSendBuffer, crashed>>

\* Mutant: the entry of the old zone is erased before it is read.
ChangePlayerZoneErasingFirst(w) ==
  LET s  == job[w].on
      id == mPlayerId[s]
  IN  /\ At(w, "ChangePlayerZone")
      /\ mPlayerZone' = (Erase(job[w].from, id) \cap Erase(mZoneIdx[s], id))
                          \cup {Entry(mZoneIdx[s], id, nullptr)}
      /\ Leave(w, playersLock, "PostSend")
      /\ UNCHANGED <<sessionVars, playerVars, mPlayerMap, mTempId, mSendBuffer, job,
                     crashed>>

\* operator[] of a map inserts a null pointer for a key that is missing.
ChangePlayerZone(w) ==
  LET s  == job[w].on
      id == mPlayerId[s]
      there == {e \in mPlayerZone : e.zone = job[w].from /\ e.id = id}
      player == IF there = {} THEN nullptr ELSE (CHOOSE e \in there : TRUE).player
  IN  /\ At(w, "ChangePlayerZone")
      /\ mPlayerZone' = (Erase(mZoneIdx[s], id) \ there)
                          \cup {Entry(mZoneIdx[s], id, player)}
      /\ Leave(w, playersLock, "PostSend")
      /\ UNCHANGED <<sessionVars, playerVars, mPlayerMap, mTempId, mSendBuffer, job,
                     crashed>>

LeavePlayer(w) ==
  /\ At(w, "LeavePlayer")
  /\ Leave(w, Lock("player", job[w].on), "idle")
  /\ Set(job, w, NoJob)
  /\ UNCHANGED <<sessionVars, playerVars, registryVars, mTempId, mSendBuffer, crashed>>

-----------------------------------------------------------------------------
(***************************************************************************)
(* Chat: ClientSessionManager::NearbyBroadcast.  The players are collected *)
(* inside the lock and sent to outside it.                                 *)
(***************************************************************************)
ResponseChat(w, s) ==
  /\ Receive(w, s, "LOGGED_IN", "chat")
  /\ Request(w, playersLock, "GetClosePlayers")
  /\ UNCHANGED <<sessionVars, playerVars, registryVars, mTempId, mSendBuffer, crashed>>

\* Mutant: the lock is kept over the broadcast.
GetClosePlayersKeepingLock(w) ==
  LET close == {e.player : e \in {e \in mPlayerZone :
                                    e.zone \in CloseZones(mZoneIdx[job[w].on])}}
  IN  /\ At(w, "GetClosePlayers")
      /\ Set(job, w, [job[w] EXCEPT !.targets = close])
      /\ Goto(w, "Broadcast")
      /\ UNCHANGED <<sessionVars, playerVars, registryVars, mTempId, mSendBuffer, crashed>>

GetClosePlayers(w) ==
  LET close == {e.player : e \in {e \in mPlayerZone :
                                    e.zone \in CloseZones(mZoneIdx[job[w].on])}}
  IN  /\ At(w, "GetClosePlayers")
      /\ Set(job, w, [job[w] EXCEPT !.targets = close])
      /\ CrashAssert(close # {}, "NearbyBroadcast")
      /\ Leave(w, playersLock, "Broadcast")
      /\ UNCHANGED <<sessionVars, playerVars, registryVars, mTempId, mSendBuffer>>

\* Only who is logged in at this moment is sent to; a null pointer is used.
BroadcastTo(w, p) ==
  /\ At(w, "Broadcast")
  /\ p \in job[w].targets
  /\ Set(job, w, [job[w] EXCEPT !.targets = @ \ {p}, !.dest = p])
  /\ CrashAssert(p # nullptr, "nullptr")
  /\ Goto(w, IF p # nullptr /\ mState[p] = "LOGGED_IN" THEN "PostSend" ELSE "Broadcast")
  /\ UNCHANGED <<sessionVars, playerVars, registryVars, mTempId, mSendBuffer>>

BroadcastEnd(w) ==
  /\ At(w, "Broadcast")
  /\ job[w].targets = {}
  /\ Goto(w, "idle")
  /\ Set(job, w, NoJob)
  /\ UNCHANGED <<sessionVars, playerVars, registryVars, mTempId, mSendBuffer, crashed>>

-----------------------------------------------------------------------------
(***************************************************************************)
(* ReturnClientSession: the manager's lock, SessionReset with the send     *)
(* buffer, then the player under its own two locks.                        *)
(***************************************************************************)
ReturnClientSession(w, s) ==
  /\ At(w, "idle")
  /\ phase[s] = "closed" /\ Handlers(s) = {}
  /\ Set(job, w, Job(s, "return", connection[s]))
  /\ Request(w, managerLock, "SessionReset")
  /\ UNCHANGED <<sessionVars, playerVars, registryVars, mTempId, mSendBuffer, crashed>>

SessionReset(w) ==
  /\ At(w, "SessionReset")
  /\ Request(w, Lock("send", job[w].on), "BufferReset")
  /\ UNCHANGED <<sessionVars, playerVars, registryVars, mTempId, mSendBuffer, job,
                 crashed>>

\* Mutant: what was not sent stays in the buffer.
BufferResetKeeping(w) ==
  /\ At(w, "BufferReset")
  /\ Leave(w, Lock("send", job[w].on), "DoSync")
  /\ UNCHANGED <<sessionVars, playerVars, registryVars, mTempId, mSendBuffer, job,
                 crashed>>

\* Mutant: the send lock is not left before the player is reset.
BufferResetKeepingLock(w) ==
  /\ At(w, "BufferReset")
  /\ Set(mSendBuffer, job[w].on, {})
  /\ Goto(w, "DoSync")
  /\ UNCHANGED <<sessionVars, playerVars, registryVars, mTempId, job, crashed>>

BufferReset(w) ==
  /\ At(w, "BufferReset")
  /\ Set(mSendBuffer, job[w].on, {})
  /\ Leave(w, Lock("send", job[w].on), "DoSync")
  /\ UNCHANGED <<sessionVars, playerVars, registryVars, mTempId, job, crashed>>

DoSync(w) ==
  /\ At(w, "DoSync")
  /\ Request(w, Lock("sync", job[w].on), "LockPlayer")
  /\ UNCHANGED <<sessionVars, playerVars, registryVars, mTempId, mSendBuffer, job,
                 crashed>>

LockPlayer(w) ==
  /\ At(w, "LockPlayer")
  /\ Request(w, Lock("player", job[w].on), "PlayerReset")
  /\ UNCHANGED <<sessionVars, playerVars, registryVars, mTempId, mSendBuffer, job,
                 crashed>>

PlayerReset(w) ==
  /\ At(w, "PlayerReset")
  /\ IF mPlayerId[job[w].on] # NoId THEN Request(w, playersLock, "UnregisterPlayer")
                                    ELSE Goto(w, "ClearPlayer")
  /\ UNCHANGED <<sessionVars, playerVars, registryVars, mTempId, mSendBuffer, job,
                 crashed>>

UnregisterPlayer(w) ==
  LET s == job[w].on
  IN  /\ At(w, "UnregisterPlayer")
      /\ mPlayerZone' = Erase(mZoneIdx[s], mPlayerId[s])
      /\ Set(mPlayerMap, mPlayerId[s], nullptr)
      /\ Leave(w, playersLock, "ClearPlayer")
      /\ UNCHANGED <<sessionVars, playerVars, mTempId, mSendBuffer, job, crashed>>

ClearPlayer(w) ==
  LET s == job[w].on
  IN  /\ At(w, "ClearPlayer")
      /\ Set(mPlayerId, s, NoId)
      /\ Set(mPos, s, <<0, 0>>)
      /\ Set(mZoneIdx, s, NoZone)
      /\ Leave(w, Lock("player", s), "LeaveSync")
      /\ UNCHANGED <<sessionVars, registryVars, mTempId, mSendBuffer, job, crashed>>

LeaveSync(w) ==
  /\ At(w, "LeaveSync")
  /\ Leave(w, Lock("sync", job[w].on), "ReturnToPool")
  /\ UNCHANGED <<sessionVars, playerVars, registryVars, mTempId, mSendBuffer, job,
                 crashed>>

ReturnToPool(w) ==
  LET s == job[w].on
  IN  /\ At(w, "ReturnToPool")
      /\ Set(mState, s, "NOTHING")
      /\ Set(phase, s, "free")
      /\ Leave(w, managerLock, "idle")
      /\ Set(job, w, NoJob)
      /\ UNCHANGED <<connection, accepted, playerVars, registryVars, mTempId, mSendBuffer, crashed>>

-----------------------------------------------------------------------------
Init ==
  /\ L!LockInit
  /\ phase = [s \in Sessions |-> "free"]
  /\ connection = [s \in Sessions |-> 0]
  /\ accepted = 0
  /\ mState = [s \in Sessions |-> "NOTHING"]
  /\ mPlayerId = [s \in Sessions |-> NoId]
  /\ mPos = [s \in Sessions |-> <<0, 0>>]
  /\ mZoneIdx = [s \in Sessions |-> NoZone]
  /\ mPlayerMap = [id \in Ids |-> nullptr]
  /\ mPlayerZone = {}
  /\ mTempId = 0
  /\ mSendBuffer = [s \in Sessions |-> {}]
  /\ at = [w \in Workers |-> "idle"]
  /\ job = [w \in Workers |-> NoJob]
  /\ crashed = "no"

\* A completion is dequeued.
Start(w) ==
  \E s \in Sessions :
    \/ AcceptCompletion(w, s) \/ ResponseExportedKey(w, s)
    \/ ResponseLogin(w, s)    \/ ResponseLogout(w, s)
    \/ ResponseMove(w, s)     \/ ResponseChat(w, s)
    \/ ReturnClientSession(w, s)

\* The worker goes on with what it has started.
Continue(w) ==
  \/ PostSend(w)       \/ Commit(w)
  \/ SendBaseKey(w)    \/ KeyShared(w)
  \/ RegisterPlayer(w) \/ LoggedIn(w)
  \/ UpdatePosition(w) \/ ChangePlayerZone(w) \/ LeavePlayer(w)
  \/ GetClosePlayers(w)
  \/ \E p \in job[w].targets : BroadcastTo(w, p)
  \/ BroadcastEnd(w)
  \/ SessionReset(w)   \/ BufferReset(w)      \/ DoSync(w)
  \/ LockPlayer(w)     \/ PlayerReset(w)      \/ UnregisterPlayer(w)
  \/ ClearPlayer(w)    \/ LeaveSync(w)        \/ ReturnToPool(w)

Next ==
  \/ \E s \in Sessions : Disconnect(s)
  \/ \E w \in Workers : Start(w) \/ EnterLock(w) \/ Continue(w)

Spec == Init /\ [][Next]_vars

-----------------------------------------------------------------------------
(***************************************************************************)
(* Properties                                                              *)
(***************************************************************************)
TypeOK ==
  /\ L!LockTypeOK
  /\ phase \in [Sessions -> {"free", "open", "closed"}]
  /\ connection \in [Sessions -> 0 .. accepted]
  /\ accepted \in 0 .. MaxConnections
  /\ mState \in [Sessions -> ClientStates]
  /\ mPlayerId \in [Sessions -> Ids \cup {NoId}]
  /\ mPos \in [Sessions -> Positions]
  /\ mZoneIdx \in [Sessions -> Zones \cup {NoZone}]
  /\ mPlayerMap \in [Ids -> Sessions \cup {nullptr}]
  /\ mPlayerZone \subseteq [zone : Zones, id : Ids, player : Sessions \cup {nullptr}]
  /\ mTempId \in 0 .. MaxLogins
  /\ job \in [Workers -> [on : Sessions \cup {NoSession}, packet : Packets \cup {"none"},
                          serves : 0 .. MaxConnections,
                          dest : Sessions \cup {nullptr},
                          from : Zones \cup {NoZone},
                          targets : SUBSET (Sessions \cup {nullptr})]]

\* The player of s is between a change of its own fields and the one of the registry.
Changing(s) ==
  \E w \in Workers : job[w].on = s
    /\ at[w] \in {"RegisterPlayer", "ChangePlayerZone", "ClearPlayer"}

\* The map and the zones hold exactly the players that have an id, each once,
\* under that id and in the zone it is in, unless a worker is just moving it
\* from one to the other: though the player's fields change outside the
\* registry's lock and the registry inside it (Player.cpp:45-54, 152-164, 26-43).
RegisteredWhereItIs ==
  /\ \A s \in Sessions : ~ Changing(s) /\ mPlayerId[s] # NoId =>
       /\ mPlayerMap[mPlayerId[s]] = s
       /\ Entry(mZoneIdx[s], mPlayerId[s], s) \in mPlayerZone
  /\ \A e \in mPlayerZone :
       /\ e.player # nullptr
       /\ mPlayerId[e.player] = e.id /\ mPlayerMap[e.id] = e.player
       /\ ~ Changing(e.player) => mZoneIdx[e.player] = e.zone

\* The assertion of NearbyBroadcast, that somebody is near, and the use of the
\* pointers it has collected (ClientSessionManager.cpp:84, 89).
NoCrash == crashed = "no"

\* A result that a worker posts for a packet goes to the client that sent the
\* packet: it is not found in the buffer when the session serves somebody else,
\* though PostSend tests the connection before it takes the lock
\* (Session.cpp:108-123, ClientSession.cpp:32-36).  A broadcast may be.
RepliesReachTheirClient ==
  \A s \in Sessions : mSendBuffer[s] \subseteq {connection[s]}

\* The workers use the locks as the LockOrderChecker wants them used.
FollowsLockOrder == L!Spec

\* No workers wait for each other in a circle, and none for itself: neither for
\* the watched locks nor for the two kinds the order says nothing of, one of
\* which is held while the others are entered (ClientSession.cpp:34, 52).
WaitsFor(w, v) == wants[w] # NoLock /\ L!Inside(v, wants[w])

NoCircle ==
  \A S \in (SUBSET Workers) \ {{}} : \E w \in S : \A v \in S : ~ WaitsFor(w, v)
=============================================================================
