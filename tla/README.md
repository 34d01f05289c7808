# A TLA+ development of the IOCP game server

The repository is the work of one course (`NHNNEXT_2014_GAME_SERVER`): a Windows
game server built on I/O completion ports, kept as one directory per homework.
`HW_08_/EduServer_IOCP` is the last and complete version; it is the one modelled,
and a file named here without a directory is in it. The modules beside this file
model the parts of it in which threads, completions and failures meet.

## 1. The system

One **main thread** accepts: every 100 ms it issues a pooled `ClientSession` for
every free place and posts `AcceptEx` on it. Four **IO workers** run
`IOThread::Run`: due timer jobs, then one completion of the port
(`DoIocpJob`), then the sends the thread has collected (`DoSendJob`). Everything
else happens inside those three calls. The workers share the sessions, the session
manager, the player manager and the central executer; locks are spin locks; the
timer queue and the list of sessions to flush are thread-local.

| Component | State | Operations | Meets |
|---|---|---|---|
| `FastSpinlock` | `mLockFlag`: writers in the high bits, readers in the low 20 | enter/leave write, enter/leave read | every other component |
| `CircularBuffer` | region A, region B, both in one array | `GetFreeSpaceSize`, `GetBuffer`, `Commit`, `GetContiguiousBytes`, `Remove`, `BufferReset` | one per direction in every session |
| Session manager | free list, issue and return counters, `mLock` | `AcceptClientSessions`, `ReturnClientSession` | main thread issues, workers return |
| Session | `mConnected`, `mRefCount`, socket, buffers, `mSendPendingCount`, key state | accept, `PreRecv`, `PostRecv`, `PostSend`, `FlushSend`, `DisconnectRequest`, the completions, `SessionReset` | all workers; the kernel |
| Overlapped contexts | type, session, one reference on it | constructor, `DeleteIoContext` | the kernel holds them meanwhile |
| Packet handling | `mRecvBuffer`, `mState`, `mIsKeyShared` | `PostRecv`, `RecvCompletion`, `Decrypt`, `PacketHandling`, the `Response...` handlers | send path, players |
| Players | `mPlayerMap`, `mPlayerZone`, id, position and zone of each player | register, unregister, change zone, `NearbyBroadcast`, `PlayerReset` under `DoSync` | locks of player, players, manager and send buffer |
| Central executer | count of tasks, concurrent queue | `DoDispatch` | any worker |
| Timer | per-thread priority queue, owner locks | `PushTimerJob`, `DoTimerJob` | tasks push jobs while they run |
| Lock order checker | per-thread stack of locks | `Push`, `Pop` | every ordered lock |
| Database pipeline | requests, the port of the database threads, results in the port of the workers | as `HW_07_LOG_DUMP` runs it; switched off in this version | sessions it references, players |
| Pools of memory, logging, clients | - | - | see section 6 |

What is hard in it:

* the operations of one session run on different workers at the same time, and
  the next completion of an operation may be handled before the call that posted
  it has returned;
* every system call may fail at once, later, or be cancelled, each with its own
  path through the reference counting;
* a session is pooled: whatever survives its reset belongs to the next client;
* `LSendRequestSessionList` holds plain pointers without a reference;
* locks nest: `mLock` around a send lock, a player's lock around the registry's,
  and on an error path a send lock around `mLock`;
* TCP delivers bytes: a receive may end anywhere in a packet, a packet may
  straddle the end of the circular buffer, and each receive is decrypted with a
  key stream that starts anew;
* a database request outlives the handler that made it by any time;
* several words are tested before the lock that protects the decision is taken.

What makes each component correct is its list of properties in section 3;
`PROJECT.json` lists the hazards with their lines.

## 2. The modules

| Module | Models | Proofs |
|---|---|---|
| `RWLock` | abstract: a lock held by readers or by one writer | |
| `FastSpinlock` | `FastSpinlock.cpp`, one action per access to `mLockFlag`; implements `RWLock` | `FastSpinlockProofs` |
| `ByteQueue` | abstract: a bounded queue of bytes that may refuse | |
| `CircularBuffer` | `CircularBuffer.h/.cpp` under `PostSend`, `FlushSend`, `SendCompletion`; implements `ByteQueue` | `PacketStreamProofs` |
| `SessionPool` | issue, accept, receive, disconnect, reference counts, return and reset; the completion port | `SessionPoolProofs` |
| `SessionSends` | `SessionPool` with the send path and the per-thread send lists | `SessionSendsProofs` |
| `DatabaseJobs` | `SessionPool` with the requests of `DBManager`, the database threads and the results | `DatabaseJobsProofs` |
| `LockOrderChecker` | abstract: `Push`, `Pop`, their assertions, and locks that are used under them | `LockOrderCheckerProofs` |
| `Players` | login, move, chat, logout and return of sessions, with every lock they take; implements `LockOrderChecker` | `PlayersProofs` |
| `PacketStream` | `CircularBuffer` under `PostRecv`, decryption and `PacketHandling`, for the stream of one client | `PacketStreamProofs` |
| `IoWorkers` | the set of IO workers | |
| `SerialExecutor` | abstract: tasks are run one by one, each once, in order | |
| `GrandCentralExecuter` | `DoDispatch`; implements `SerialExecutor` | `WorkerLoopProofs` |
| `Timer` | `Timer.cpp`, and the lock of `SyncExecutable` | `WorkerLoopProofs` |
| `WorkerLoop` | both, as `Player::OnTick` uses them | `WorkerLoopProofs` |
| `MC...` | the instances that TLC checks | |

### FastSpinlock

`mLockFlag` is one number; `WriteField` and `ReadField` are the two masks. A
thread's `pc` is its place in the code (`wSpin` is the loop of
`FastSpinlock.cpp:26`, `wAdd` line 29, and so on). `InterlockedAdd` and the test
of its result are one step, the tests of the spinning loops are steps of their
own. The two lines about the lock order checker are not part of the lock.

### CircularBuffer

`mBuffer` holds the bytes; the two region pointers are offsets, `nullptr` is
outside of them. The action `PostSend` is the code under the send lock
(free space, copy, commit; `GetFreeSpaceSize` may open region B, also when the
post is then refused), `FlushSend` hands the contiguous bytes to the kernel
(`sending` remembers where and what), `SendCompletion` removes any part of them,
and `Consume` is what `PacketHandling` does with a receive buffer.

### SessionPool and SessionSends

A thread is the list of calls it still has to make, `todo[t]`. One step makes the
first of them: it touches one shared word or calls the kernel once, and puts the
calls it makes in front of the rest. So `DeleteIoContext` inside `FlushSend`
inside a completion is what it is in the code, a nested call, and everything
between two steps can be interleaved. `kernel` is the set of posted operations;
`Complete` takes any of them, successful or not, in any order. `live` is the set
of contexts that exist, `issueRef` a history variable: the sessions whose issue
reference has not been released. A call that may fail is named in `Faults`.
`SO_REUSE` and a new socket per reset mean that a socket which was never bound to
the port reports no disconnect (`Deliverable`).

The loop over the packets of one receive is one call, `PacketHandling`: it may ask for
a disconnect, which `ResponseExportedKey` does when a key cannot be posted or made, and
only then is the next receive posted. `AcceptCompletion` sets `mConnected` and binds the
socket to the port in one step. Between the two, a flush left over from the last
connection could use a socket that belongs to no port yet; what its operations would
report is not said by this code, and no property here turns on it.

`SessionSends` adds `mSendBufferLock`, `mSendPendingCount`, the send buffer as two
counts (messages stored, messages in flight) and each thread's send list. The
critical section of `FlushSend` is split where the kernel is called, because the
completion may be dequeued before `mSendPendingCount++`. In it the packets of one
receive may be answered with a key, with the flush and the disconnects of
`ResponseExportedKey`, and then with posts to any sessions that are in use.

### DatabaseJobs

The module EXTENDS `SessionPool` and replaces two of its calls: an accept makes the
requests named in `Requests` (`HW_07_LOG_DUMP`, where `DBManager` and `Player` make
them) instead of sending a key, and what is received is echoed (`EchoBack`), which
disconnects nobody. A `DatabaseJobContext` is a record of its session and
its query; its constructor and destructor hold a reference, so requests are a fourth
kind of holder next to contexts, the issue and the main thread. `mDbCompletionPort`
holds the requests that are posted or being executed, `results` the ones that are
back; a database thread executes one with or without success. `loaded` is what a
successful `Load` puts into the player, which `SessionReset` takes away.

### LockOrderChecker and Players

`LockOrderChecker` has one step for a whole lock operation: a thread requests a lock
(the checker pushes it, then the thread spins: `wants`), enters it, leaves it (the
checker pops). The assertions of `Push` and `Pop` are guards, so its behaviours are
the ones that the checker lets pass. A lock of class `LO_DONT_CARE` is used but not
watched.

In `Players` a worker is at a place of the code (`at[w]`) with the locals of its
handler (`job[w]`). A critical section is three steps (request, enter, body with
leaving), so any two workers are interleaved between them; code between two critical
sections is a step of its own. A `Player` belongs to its session for ever and is
named by it. `mSendBuffer` holds, of every message posted since the reset, the
connection it answers: `connection` counts the accepts, so a pooled session serves
several. That one worker at a time handles the packets of a session, and that
only a session nobody handles is returned, is what `SessionPool` shows and is
assumed here in the guard of `Receive` and `ReturnClientSession`.

### PacketStream

A byte is its place in the client's stream and the set of key-stream indexes it is
xored with; it is readable when that set is empty. `Crypt` passes `Final` with each
call, so index 0 belongs to the first byte of each *receive* on the server and of
each *flush* on the client. A packet is its kind and the place of its last byte.
`phase` is what the session's only receive does:
`watch` (zero-byte receive), `receive`, `handle` (the loop of `DoIocpJob` around
`PacketHandling`), and the ends: `ended`, `full` (no room, disconnected), `misread`
(bytes that are no header are taken for one), `overrun` (decryption runs past the
array). Of the client (`HW_08_DummyClients`) only `FlushSend` is modelled: the public
key plain and first, then whole packets, encrypted per flush. An echo
(`default:` of `PacketHandling`) returns all contiguous bytes and may fail.

### GrandCentralExecuter, Timer and WorkerLoop

`at[w]` is where a worker is in `DoDispatch`; the increment with its test, the
push, the pop, and the decrement with its test are one step each. A `try_pop` on an
empty queue changes nothing and is left out. `MaxTasks` bounds the count.

In `Timer` a worker's priority queue is its top and the rest, because
`DoTimerJob` holds a reference to the *place* of the top while the task runs
(`Timer.cpp:38`): a job that rises to the top would be the one unlocked and
popped. `running` is a history variable, the job whose task was called. Jobs carry
an id so that two jobs due at the same tick are two jobs. `ownerLock` stands for
the lock of the object, used exclusively.

`WorkerLoop` is the composition: the task of a timer job is `Player::OnTick`, which
dispatches a buff now and then and a decay always, and arms the next tick of its
own player. So a worker that runs everybody's events is inside its timer job and
holds the lock of that job's player. In `HW_08_` the first call of `OnTick` is
commented out (`Player.cpp:56`); the classes are the same as in `HW_05_MT`, whose
callers (`Player.cpp:30-69`, `ClientSession.cpp:148`) are the ones composed here.

## 3. The runs

Each run finishes in about two minutes or less with two TLC workers.

| Run | Instance | Shows |
|---|---|---|
| `spinlock` | four threads, no symmetry, fairness | `MutualExclusion`; `FlagCounts` (the word is exactly the two counts); `NoOvertaking` (nobody enters between a writer's owning the field and its leaving); `Progress`, `OwnerEnters`; refinement of `RWLock` |
| `circular_buffer` | 5 bytes of two values, all sizes of posts, sends and removals | `RegionsDisjoint`, `InFlightIntact`, `EmptyHasSpace`, refinement of `ByteQueue` |
| `pool` | two sessions, two workers, every call may fail | `RefCountExact`, `ContextsOwned`, `ReturnedUnused`, `PoolAccounting`, `OneReceiver`, `NoCrash` |
| `database` | one session, two workers, the requests `Load` and `Delete`, fairness, data receives may fail, deadlock checked | `RefCountWithJobs`, `ResultReachesRequester` (no result meets a later connection); `Watched`, `Reclaimed` (a lost connection brings its session back, also with requests unanswered); `JobsAnswered` |
| `sends_two_workers` | one session, two workers, sends may fail | what survives the races: `OnlySendsOverlap` (while a session whose reference count passed the assertion of its return is reset, nobody but a flush or a post of another worker still works on it), `OneSendInFlight`, `InFlightIsStored` |
| `sends_return`, `sends_lock_order`, `sends_pending`, `sends_unsent` | one session, two workers, `WSASend` may fail | one disagreement each, section 5 |
| `stream` | three streams of up to four packets, headers of 2 bytes, a buffer of 6, every split and merge of the bytes | `HandledAsSent` (every packet in order and plain, as long as each receive got what one flush sent and no echo swallowed bytes); `NothingAfterWrap` (a stream that wraps is never read again); `FullOnlyWhenWrapped`; `PacketsHandled` (each packet is handled, or one of the listed ends is reached) |
| `players` | two sessions, two workers, three connections, two logins, positions in two zones that are not near, symmetry | `RegisteredWhereItIs`, `NoCrash` (the assertion of `NearbyBroadcast`, no null player), `RepliesReachTheirClient`, `NoCircle`, and every behaviour keeps the lock order (`FollowsLockOrder`) |
| `worker_loop` | two workers, two players, two jobs in a queue, delays of 0 and 1, up to three tasks counted | `OneExecuter`, `NothingStranded`, `CountIsWork`, `TasksKeepRunning`, refinement of `SerialExecutor`; `TopIsRunning`, `OwnerLocked` |

`HandledAsSent`, `NothingAfterWrap` and `PacketsHandled` say what the code does, and
with it how narrow the conditions are under which it works: TCP promises no receive
that ends where a flush ended, and a server that has received more bytes than the
buffer holds is bound to wrap unless the buffer happens to be empty.

Bounds. `Slots` distinguishes contexts of one session and type; two of each were
checked never to be too few, so no action is disabled by it. `CounterModulus`
makes the 64-bit issue and return counters wrap within the run. `Capacity` and
`MaxPosts` bound the send buffer and the posts that the packets of one receive
cause, the answer to a key exchange apart. `Requests` names the requests of one
accept: two of the three that `HW_07_LOG_DUMP` makes, since the result of a `Create`
does to a player what that of a `Delete` does, nothing. `DatabaseJobsProofs` is for
any requests. Two workers and two
sessions are enough for every race between a holder and a releaser of one session,
and for the free list to be neither full nor empty; the races on a send lock
involve one session and two threads. Five bytes let region B grow, wrap and
move while a send is in flight. In `stream` the buffer holds two or three packets,
so that a packet may end at, before and behind the end of the array; the third
packet is the first that can straddle it. In `players`
`MaxConnections` lets a session serve a second client while the other one is
connected, `MaxLogins` bounds the ids; two positions are enough to leave a zone and
its neighbours and to come back. Sessions and workers are symmetric there: no
action and no property names one.

Deadlock checking is off only where the system really may stop: a failed
`AcceptEx` ends the accept loop, a session whose `DisconnectEx` failed never comes
back, a crash is final, a buffer or a player run ends when its connections or its
stream are used up (`MaxConnections`, `Streams`). It is on in `spinlock` and
`database`.

Fairness. In `FastSpinlock` a thread keeps running: each is weakly fair, and so is
leaving the lock; entering it is not. That the owner of the write field enters
needs nothing more; that a particular waiting thread enters is not claimed, and
the code does not provide it. In `SessionPool` the calls of a thread are weakly
fair; waiting for `mLock` is strongly fair because the main thread sleeps 100 ms
between two turns; the port is a queue, so a completion that is due is dequeued
(strong fairness per session): the one of a disconnect, and the receives a
disconnect cancels. A receive on a healthy connection and an accept may stay
pending for ever. `DatabaseJobs` adds that a database thread executes what is in
its port (weak) and that a result, a completion that is due, is dequeued (strong).
In `PacketStream` receiving and handling go on (weak); nothing is assumed of an
echo, whose room in the send buffer is freed only by the worker that waits for it,
nor of the client. In `WorkerLoop` a worker inside `DoDispatch` keeps running and
the events return; nothing is assumed of timers, of the clock or of who dispatches,
and that the worker in the loop ever gets out of it is not claimed: others may
dispatch for ever. `Players` has no fairness and claims no liveness but the absence
of a circle of waiting workers.

Every property has a mutant: an operator beside the one it replaces (`...Untested`,
`...WithoutAddRef` and the like) that makes the mistake the property is there to
exclude. They are used by no specification of this directory.

## 4. Proofs

`FastSpinlockProofs` proves for every set of at most 2047 threads (the assumption
`ThreadsAssumption`; the read field and the write field then hold the counts) that
`FlagCounts` and `MutualExclusion` are invariant, that `NoOvertaking` holds of
every step and that the lock implements `RWLock`. The inductive invariant `IInv`
adds to the type the equation `mLockFlag = 2^20 * writers + readers`, that at
most one thread owns the write field (`OneOwner`), and that no reader is inside
when a writer is (`HeldExcludesReaders`): `MutualExclusion` alone is not
inductive because whether an announced thread may proceed depends on the counts.

`PacketStreamProofs` has two parts. The first, on `CircularBuffer`, proves for every
capacity and every set of bytes that
`TypeOK /\ RegionsDisjoint /\ InFlightIntact` is inductive, that an empty buffer
reports all of its room, and that the buffer implements `ByteQueue`. The two
lemmas behind it describe `Write` and `Remove` on the contents
(`WriteContents`, `RemoveContents`), each from where the regions were.

The second part proves the safety properties of `PacketStream` for any capacity, any size
of the header and any packets that fit into the buffer. Its invariant `StreamInv` says
three things. What is on its way falls into flushes, each of some whole packets, with the
key stream from index 0 (`NetworkInv`). While the server waits for more, or once the
bytes have wrapped, no whole packet is at the front of the buffer (`WaitInv`): a receive
and the decryption after it write behind region A or into region B, so a front that could
not be handled stays as it is, which is why nothing is handled after a wrap
(`NothingHandledAfterWrap`). And as long as receives match flushes and no echo swallows
anything, the buffer is empty at every receive and holds, while it is handled, whole plain
packets from the next one on (`HandledInv`); the header at the front is then that of one
packet only (`OneHeader`). `HandledAsSentInvariant` and `FullOnlyWhenWrappedInvariant`
follow.

`WorkerLoopProofs` begins with the executer: for any finite set of workers
`OneExecuter`, `CountIsWork` and `NothingStranded` are invariant and
`DoDispatch` implements `SerialExecutor`. `OneExecuter` needs to know that the
count is positive exactly while somebody is in the loop (`CountedMeansExecuted`),
which is what makes "the increment gave 1" mean "nobody is in it"; that nothing is
stranded then follows from `CountIsWork`, because a count of zero leaves no task.

Then it proves the timers' `TopIsRunning` and `OwnerLocked` for any
delays: a job that is taken is due (`TakenIsDue`), and what its task pushes is due
at the worker's tick or later, so it cannot rise above the top. `Composition`
shows that the worker loop implements both specifications, which carries every
safety theorem about either over to the two together.

`LockOrderCheckerProofs` proves for any threads, any locks and any assignment of the
five classes that a program that keeps to the order never has watched locks in a
circle (`KeepingTheOrder`: whoever waits for a watched lock waits for a thread that,
if it waits too, waits for a lock of a later class), and that the assertion on the
depth of the stack cannot fire (`DepthNeverReached`). Its invariant says that a
stack goes strictly upwards and is no deeper than the class of its top
(`StackGoesUp`), that every watched lock a thread is inside of is in its stack
(`HeldInStack`), and that the one it waits for is on top and not one it is inside of
(`WantedOnTop`); the second and third tie the waits-for relation to the stacks.

`PlayersProofs` holds for any workers, sessions, positions and bounds, in three
parts. The first, on the locks, describes for every place in the code which locks a
worker there has requested, which it still waits for and what its stack in the checker is
(`LockInv`, with `WorkInv` for the packets that go through a place). From it follow
`LockOrderFollowed`, the refinement of `LockOrderChecker`, and `NoCircleOfWorkers`,
which goes further than the checker: `mPlayerLock` and the manager's lock are in no
class, so it ranks all five kinds of locks and shows that who waits, waits for a
thread that can only wait for a higher rank.

The second part proves `RepliesReachTheirClient`. Its invariant ties a job to the
connection it serves, and the send buffer to the connection of its session: a session
whose packet is handled is not returned, and who returns it is alone and has emptied
the buffer before the session is free again. That the reset is inside the send lock
is what keeps a `PostSend` with a stale test of `mConnected` from writing later.

The third part proves `RegisteredWhereItIs` and `NoCrash`. The statement is
far from inductive: it needs that one worker at a time handles a session's packets
(`SoleInv`), what state and id the session has at each place (`HandlerInv`,
`SessionInv`), that no two players have one id (`IdsDiffer`), and that
`ChangePlayerZone` finds the entry of the zone its caller read before it took the
lock (`RegisteredRight`). `TypesHold` and `NobodyCrashes` follow: the null pointer of
`PlayerManager.cpp:98` is never inserted, and a chatting player is in the zones it
looks into (`OwnZoneIsClose`), so the assertion of `NearbyBroadcast` holds.

`SessionPoolProofs` proves every safety invariant of `SessionPool`, for any sessions,
workers, slots and failing calls. None of them is inductive: who will release a
reference is not in the shared state but in `todo`, the list of calls a thread still
has to make. The invariant describes what such a list can be (`Structure`): a *plan*, the
service of one completion, which is a call or two on the connection (where the packets
are handled, and perhaps a disconnect asked for, before the next receive is posted),
then late calls, then the deletion of the context; a *chain*, the return of a session; or nothing. Of
these it says that

* a context that is not in the kernel is deleted by exactly one thread, and one in the
  kernel by none (`ContextsOwned`, with its owner named);
* `mRefCount` is the number of contexts plus the issue reference (`RefCountExact`);
* a session in the free list, or with a thread that returns it, has neither, and only
  one thread returns it (`ReturnedUnused`);
* each session has two tokens at most, the right to connect and disconnect and the
  right to receive; each is in the kernel or with the next call of one thread
  (`OneReceiver`). That the connection's is unique is why the issue reference is given
  up once.

The counters and the free list follow (`PoolAccounting`), and with them `NoCrash`.
`Watched` (a connection that is up has a receive pending, or a thread that is busy with
it) has one hypothesis, that posting the zero-byte receive does not fail
(`"WSARecvZero" \notin Faults`). The hypothesis is needed: `AcceptCompletion` only logs
that failure (`ClientSession.cpp:152`), and then nothing watches the connection. The
lemmas are stated for an arbitrary set of further calls and an arbitrary count of
further references, so that they serve a module that EXTENDS `SessionPool`.

`DatabaseJobsProofs` uses them so, with the requests of a session as the further
references, and proves `RefCountWithJobs`, the pool's accounting and `NoCrash`, and
`Watched` for the server with requests in flight. `ResultReachesRequester` needs three
more facts. Every request that was made is in exactly one place, one of the two
ports or the hands of one thread (`Answers`); a session whose connection is not
accepted yet has none (`Unasked`), because the previous connection's references kept it
from being returned; and a player that has data is not in the pool, and its `Load` is
answered (`LoadDone`).

`SessionSendsProofs` proves `OneSendInFlight`, `InFlightIsStored` and `OnlySendsOverlap`
for any sessions, workers, capacity of the buffer and failing calls. `FlushSend` takes a
reference of a session it has none of, so the pool's invariant does not hold here: a
session may be flushed while it is returned or in the free list (run `sends_return`). What
takes its place (`SendInv`):

* A session in the free list, or returned by a thread outside its send lock, is *bare*
  (`Bare`): not issued, not connected, and without a context but the one of a send that
  the thread inside its send lock deletes next, because its `WSASend` failed. At most one
  thread returns it without the lock, and only this one puts it back (`Pooled`).
* A thread inside the lock may return the session once more, when that send held the
  last reference (run `sends_lock_order`). It never gets past the reset of the buffer,
  which enters the lock again: the assertion of the lock order checker stops the program.
* `mRefCount` is exact, except between `SessionReset`, which overwrites it, and the reset
  of the buffer (`CountsInv`). Whoever passes the assertion of `ReturnClientSession` has
  seen an exact count of zero.
* The send of a session is a token like the receive: in the kernel, or with the next call
  of one thread, and then counted in `mSendPendingCount` or about to be (`SendsInv`); it
  keeps its message in the buffer (`BufferInv`). The reset finds no token, for the
  context of a token would not be bare.
* The list of a thread is no plan or chain, but has an order: what may be before a call,
  what needs a release behind it, and what is made inside the lock (`Listed`, `Backed`,
  `Inside`).

After an assertion has fired the program stops, and the two facts on the sends stay true
(`SendSafe`). The properties that the other four runs of `SessionSends` check are false.

Only model-checked:

* liveness: `Progress` and `OwnerEnters` of the spin lock, `Reclaimed`, `JobsAnswered`,
  `PacketsHandled` and `TasksKeepRunning`. They rest on fairness, which needs `ENABLED`,
  and that is out of the prover's reach. Every safety property that a run shows to hold
  is a theorem;
* what a session does with a packet in `SessionPool` and the packet's handler in
  `Players` composed: `Players` takes from `SessionPool` that one worker at a time
  handles the packets of a session and that only an idle one is returned.

## 5. Where the code and its own statements disagree

* `sends_return`: `ReturnClientSession` asserts that no reference is left
  (`ClientSessionManager.cpp:42`). `FlushSend` works on a plain pointer and takes
  its reference at `Session.cpp:171`, after the last release by another worker.
* `sends_lock_order`: a `WSASend` that fails at once deletes its context inside
  `mSendBufferLock`; as the last reference it resets the session, which enters
  that lock again (`LockOrderChecker.cpp:18-20` forbids it).
* `sends_pending`: a failed send never decrements `mSendPendingCount`, the reset
  does not clear it, and the next client of that session is sent nothing
  (`Session.cpp:157` says what the count means).
* `sends_unsent`: "flush later" (`Session.cpp:116`) is dropped when a send is
  pending, and the completion does not flush.

## 6. Not modelled, and why

* `ServerSession`: no code creates one in this version.
* Start-up, `Finalize`, `main`: one thread, once.
* The keys themselves and their life time (`KeyChanger`, `Crypt`), a library's; what
  encryption does to a byte is in `PacketStream`. `FlushSend` encrypts the bytes it
  sends in place, also a public key that still waited when the keys were shared: only
  the client sees that, and it is listed as a hazard.
* The three update requests of the database, which nothing makes, and ODBC (`DbHelper`).
* Malloc'd memory, object pools: contexts are fresh when allocated. The size table is
  arithmetic on constants and the free lists are those of Windows.
* Diagnostics: `Log`, `EventLog` and its index, `Exception`, `StackWalker`. They
  write records and never change the state of the server.
* `GetCurrentPlayers`, the buffs and what they compute: never called, or numbers that
  no control depends on.

Most lines of the repository are none of these. Of its 36.4 thousand lines of
implementation, 11.2 thousand are the packet classes that `protoc` generates
(`MyPacket.pb.*`, in four places) and `StackWalker`, a third party's; 12 thousand are
earlier stages of the same server (`HW_02` to `HW_07`), each a copy of the one before
with one homework added; most of the rest are the two test clients, with their own
copies of the session code and of the buffers, and the renderer. `HW_08_` without its
generated and third-party files is about 5.7 thousand lines, a good part of which are
headers, includes, logging and start-up. Mapping the copies too would say of the
same definition several times that it models the same code.

## 7. Plan

Done: the locks and their order, the circular buffer, the session life cycle with its
send path and the database requests, the packet stream, the players, the central
executer and the timers. What would come next:

1. The tick of a player whose session was already reset: `WorkerLoop` composed with
   `Players`, once `HW_08_` starts the tick again.
2. The send buffer of `PacketStream`: an echo that waits for a flush of its own worker,
   with `FlushSend` and the encryption in place.
