# CppNetEngine in TLA+

CppNetEngine is a C++ game-server engine for Windows: sockets driven by an I/O
completion port (IOCP), an actor executor on a second completion port, a timing
wheel, lock-free containers and pooled memory. This directory models the parts
in which threads, completions and counters meet, and the protocol that the packet
generator and the sample programs put on top; it checks them with TLC on small
instances, and proves with TLAPS, for every value of the constants, the safety
invariants of all of them, what the executor, the timing wheel, the queue and the
pools refine, and what the pure algorithms compute for every input.

Source paths below are relative to `src/CppNetEngine`.

## 1. The system

| Component | State | Operations | Talks to |
|---|---|---|---|
| Actor executor: `Actor`, `ActorOverlapped`, `JobDispatcher`, `ActorScheduler` | job queue and its count, `mbAcquire`, owner pointer of the overlapped, completion port | Post, PostDelay, Register, Schedule, Dispatch, Execute | lock-free queue, timing wheel, kernel port |
| Scoped actor: `ScopedActor` | sorted list of members, `mAcquireIndex`, own job queue | Post, Register, Schedule (bypassing the flag), tryAcquireAll, Release, Dispatch | members, scheduler |
| Timing wheel: `TimingWheel`, `TimerHandle` | three levels of buckets, current tick, `mbTicking`, cancel flags | AddTiming, Tick, processTick, cascade, Cancel | ActorScheduler |
| Admission: `Service`, `SessionManager`, `WaitQueueManager`, session state | members, seat count, ticket line, `mSessionState` | AddSession, RemoveSession, admitWaitingSession, Disconnect | session, user callbacks |
| Send path: `Sender`, `IocpSendEvent` | send queue, `mbSendRegistered`, owner pointers, pending buffers | Send, Register, Process, Clear | lock-free queue, IocpCore, Session |
| Receive path: `Receiver`, `NetReceiveBuffer`, `PacketSession` | ring of bytes with two positions, owner pointers | Register, Process, OnReceive, Clear | IocpCore, Session |
| Connection events: `Connector`, `Disconnector`, `Acceptor`, `Listener` | one outstanding overlapped operation each, owner pointers; the listener's socket and its vector of acceptors | Register, Process, Clear, StartAccept, CloseAccept | IocpCore, Service |
| Sockets: `SocketUtils` | three function pointers fetched at start-up | Init, CreateTcpSocket, Close, and the calls of Winsock | Listener, Session |
| `IocpCore` | completion port | Register, Dispatch | every IocpObject |
| Reaper: `SessionReaper`, `SessionTimeoutTracker` | last activity; the job queue of an actor | ReapSession | timing wheel, actor executor, Session |
| Object pool: `ObjectPool` (and `LockFreeStack`) | tagged top, next pointers, reservation counter | Alloc, Free | chunk pools |
| Lock-free queue: `LockFreeQueue` | tagged head and tail, count | TryEnqueue, TryDequeue, Clear | object allocator |
| Chunk pools: `TlsObjectPool`, `MemoryPool` | a chunk per thread, two counters per chunk | Alloc, Free | object pool |
| Size classes: `MemoryAllocator`, `ObjectAllocator`, `SendBufferAllocator` | none of their own | rounding of sizes | chunk pools |
| Utilities: `ThreadManager`, `CrashReporter`, `NetEngineLogger`, `NetAddress`, smart pointers | | | |
| `PacketGenerator` | none | Load, Generate | the files of `Common/Protocol` and of the two programs |
| Protocol messages: the classes of `Login.proto`, one copy per program | the fields of a message | setters, Clear, MergeFrom, CopyFrom, ByteSizeLong, serialise, parse | MakeSendBuffer, packet handlers |
| `GameServer`, `DummyClient` | generated handler maps | OnConnected, OnRecvPacket, handlers | PacketSession, Service |

**How they interact.** Worker threads call `IocpCore::Dispatch`, which hands a
completion to the owner of the event: a session (connect, disconnect, send,
receive) or a listener (accept). Session handlers call `Service`, which seats or
queues the session, and user callbacks, which post jobs to actors. Scheduler
threads call `ActorScheduler::Dispatch`: they take a completion of an actor, run
a batch of its jobs, and turn the timing wheel, whose callbacks post delayed jobs
and reap idle sessions. Every queue node, job, buffer and session comes from a
chunk pool whose chunks come from an object pool.

**What makes each part correct, and what makes that hard.**

* *Actor executor.* One job of an actor at a time, in order; nothing accepted is
  forgotten. The flag is taken and given back by Schedule, then taken again by
  Dispatch, on other threads; completions are discarded when the flag is found
  taken or the owner pointer empty; the batch size is read once.
* *Timing wheel.* A timer runs at its tick, on whatever level it started, once,
  unless it was cancelled. Buckets are chosen from absolute ticks, cascades can
  nest, `mbTicking` is given back before the callbacks run.
* *Admission.* Seats are neither lost nor given twice; a ticket tells the place
  in the line; callbacks come in order. Handlers for different sessions run on
  different threads and hand seats to each other.
* *Send path.* At most one send outstanding, buffers in order and once, none left
  behind. Senders that lose the flag rely on the winner, whose emptiness test and
  whose lowering of the flag are separate steps; the session may close anywhere.
* *Object pool.* No node in two hands. Nodes are reused while other threads hold
  stale pointers to them; only the pop advances the tag; the counter runs ahead
  of the stack on the way down and behind it on the way up.
* *Chunk pools.* No object in two hands, although the owner of a chunk counts
  without synchronisation and whoever frees last resets the chunk.
* *Receive path.* Every byte reaches the packet parser once, in order, and every
  packet the user whole. The kernel writes to a ring in two pieces, the parser
  sees it as linear memory and is told the length of one completion, and the
  session may be cleared between any two steps.
* *Connection events.* A session object is freed, and its seat and accept slot
  come back, although every one of its parts holds it and any of the calls that
  open and close it may fail, on whatever thread. Whoever is connected is watched
  by the reaper, an actor whose timer, posted job, look and next timer are separate
  steps, the post one that a full queue drops.
* *Listening.* A completion finds its acceptor in a vector that another thread
  may still be filling, and CloseAccept does not wait for the accepts that are
  outstanding.
* *Scoped actor.* While a job runs, every member is held and nobody else holds
  it; a dispatcher that fails on one member gives back exactly what it won; and
  nobody's work is forgotten over it.
* *Queue.* What is accepted comes out once, in order, and a consumer that reserved
  an element finds it, although the link of an enqueuer carries no tag and nodes
  are reused.
* *Size classes, send buffers.* A block goes back to the pool it came from and is
  large enough; a packet's header tells its size, which has 16 bits.
* *Generator and messages.* What one program can send the other has a handler
  for, and reads as it was written; nothing compares the copies of the generated
  files in the two programs.

## 2. Modules

| Module | What it is |
|---|---|
| `SerialMailbox` | abstract: jobs of a mailbox run one at a time, in order |
| `ActorSystem` | the executor, one shared access per step; implements `SerialMailbox` |
| `MCActorSystem` | its instances |
| `ScopedActor`, `MCScopedActor` | extends `ActorSystem`: scoped actors that contend with its steps for the members' flags |
| `TimerCalendar` | abstract: timers are due at an instant; time does not pass a timer that is due |
| `TimingWheel` | the wheel; implements `TimerCalendar` |
| `ExecutorProofs` | theorems about the executor, its scoped actors and the wheel its threads turn, with the refinements of `SerialMailbox` and `TimerCalendar` |
| `Admission` | seats, line and session state |
| `Connection`, `MCConnection` | extends `Admission`: accept slots, connecting, reaper, Clear, and the references that keep a session alive |
| `ConnectionProofs` | theorems about both, and about `SessionTimeout` |
| `Listening`, `MCListening` | the listener, its acceptors and their sockets, from start-up to CloseAccept |
| `ListeningProofs` | theorems about it |
| `SessionTimeout` | the clock arithmetic of the reaper |
| `Sender`, `MCSender` | the send side of a session |
| `NetReceiveBuffer` | the ring of bytes, as operators, with the queue it stands for |
| `Receiver` | the receive side of a session, with the parser of packets |
| `ReceiverProofs` | theorems about both |
| `MCReceiver` | its instance, and the protocol of its packets over the sample programs |
| `FifoQueue` | abstract: what is accepted comes out once, in order |
| `LockFreeQueue`, `MCLockFreeQueue` | the queue, one access to shared memory per step; implements `FifoQueue` |
| `LockFreeQueueProofs` | theorems about it, with the refinement |
| `FreeList` | abstract: an item is in at most one pair of hands |
| `ObjectPool`, `MCObjectPool` | the lock-free pool; implements `FreeList` of nodes |
| `ObjectPoolProofs` | theorems about it |
| `ChunkPool`, `MCChunkPool` | the chunk pools, over a `FreeList` of chunks; implements `FreeList` of objects |
| `ChunkPoolProofs` | theorems about it, with the refinement |
| `SizeClasses` | which pool serves a size, as operators |
| `SendBuffers` | `NetSendBuffer`, its allocator and `MakeSendBuffer`, as operators |
| `PacketProtocol` | the generator, and what the code it writes does with the id of a packet |
| `LoginMessages` | the message classes |
| `SendPathProofs` | theorems about these three, `SizeClasses` and `Sender` |
| `SamplePrograms` | the two sample programs: ids, handlers, classes, parameters, the client's greeting |

Operators called `...NoX`, `...OffByOne` and the like, commented "Wrong on
purpose", are faulty variants of an action. No specification uses them; putting
one in place of the action it varies shows that a property notices.

### How state and actions correspond to the code

*ActorSystem.* `queue[a]` and `count[a]` are the linked nodes and `mCount` of
`mJobQueue`; `acquired`, `owned`, `port` are `mbAcquire`, "`mpOwner` of the
overlapped is set" and the completions inside the port; `pc`, `tgt`, `ret`,
`self`, `left`, `job` are a thread's position and locals. Post is `PushJob`,
`CountJob`, `Register`; Schedule is `SetOwner`, `ScheduleAcquire`,
`PostCompletion` (or `PostCompletionFails`), `ScheduleRelease`; Dispatch is
`TakeCompletion` (or `TimeSlice`), `GetOwner`, `DispatchAcquire`, `ReadBatch`,
`Execute` and `FinishJob` repeatedly, `EndBatch`, `ClearActorOverlapped`,
`DispatchRelease`, a Register of its own, `EndTick`. A running job may post
(also to its own actor). `Fire` is a timer that comes back through Post.

*TimingWheel.* `wheel[l][b]` are the buckets, `expire[t]` is `mExpireTick`,
`tick` and `lastTime` are `mCurrentTick` and `mLastTickTime`. A bucket is the set
of its timers, which leaves the order of those of one tick open. `BeginTick` wins
`mbTicking` and computes the rounds, `ProcessTick` is one iteration with its
cascades under `mLock`, `EndTicking` gives the flag back, `ReadCancelFlag`,
`Call` and `DropHead` are the execution list. Two tickers run these.

*Admission.* `handler[s]` is the position of `processConnect` or
`processDisconnect` of `s`. `AddSession` .. `SetSessionWaiting` follow
`Service::AddSession`; `RemoveSession`, `DequeueWaitQueue`,
`AddWaitingSession`, `SetWaitingToConnected`, `RemoveAdmitted`,
`ReleaseKeepTicket` follow `RemoveSession` and `admitWaitingSession`. Each
critical section of a manager and each exchange of the session state is a step.
`told[s]` records the callbacks; `maxWaitSize` is the size the line was made with.

*Connection.* `slot[a]`, `guest[a]` are an acceptor and the session it holds;
`self[s]` the parts of a session that hold it, `service` the sessions whose
`mpService` is set; `opening[s]`, `closing[s]`, `reaping[s]` the steps of
`processConnect`, `processDisconnect` and `ReapSession`. `reaper` says whether the
service has a reaper (a client never has); `timer` are the reap jobs in the wheel,
`posted` those in the reaper's job queue, `asleep` that no completion is on its way
for that queue, and `unposted` is the history of those the full queue turned down. `RegisterAccept`, `AcceptCompletes`, `AcceptIsLost`, `Rearm` are
Acceptor and Listener; `Dial`, `DialFails`, `ConnectIsLost`, `ConnectCompletes`,
`StartReturns` are Connector and ClientService; `Handle` takes a step of
`Admission` inside a handler; `OpenReap` is RegisterReap in processConnect,
`TimerFires` the callback of its timer, which posts or drops the job,
`CompletionIsLost` stands for a completion of the reaper that fails to be queued or
is thrown away, `RunReapJob`, `Expired`, `NotExpired`, `ReapAgain` are the job;
`Clear` is Session::Clear. Whether the idle time is
over is a choice here and computed in `SessionTimeout`.

*Listening.* `kernel[h]` is what has become of a socket, `mSocket` the listener's
variable, `main` the position of the thread that starts and closes it.
`SocketUtilsInit` is SocketUtils::Init, `CreateListener` .. `StartReturns` are
StartAccept, which puts each acceptor in the vector before it registers
(`acceptors`). `slot[a]`, `guest[a]`, `port[a]` are an acceptor's position, the
socket of its session and the value of `mSocket` it has read: `CreateSession`,
`ReadForAccept`, `AcceptEx` are Register, `Completes` the kernel and Dispatch,
`Process`, `SetUpdateAcceptSocket`, `HandOver` are Process. `SessionEnds` leaves a
socket that nobody uses again.

*ScopedActor.* `sport[s]`, `sowned[s]`, `jobs[s]`, `index[s]` are the completions,
the owner, the number of jobs and `mAcquireIndex` (plus one) of a scoped actor;
`at`, `scope`, `goal`, `i` a thread's position and locals in its code.
`Unique`, `Before`, `Place` and `Members` are the constructor, which drops equal
neighbours and sorts by the seeds. `TryMember` is one iteration of `tryAcquireAll`, `ReleaseMember` one of Release,
`ScopedBatch` .. `ScopedClearOverlapped` are Dispatch. The jobs are only counted.

*LockFreeQueue.* `NewNode`, `ReadTail`, `Link`, `AddCount` are TryEnqueue;
`MoveReadTag` .. `MoveExchange` are moveTail; `Reserve`, `Undo`, `Check`,
`ReadHead`, `ReadNext`, `Copy`, `Swing`, `DeleteNode` are TryDequeue; `BeginClear`,
`ClearNode` the destructor's Clear. `held[n]` counts how often the allocator has
handed a node out, `chain` is the list the pointers should form.

*Sender.* `SendBegin`, `Link`, `AddCount` are Send; `RegisterBegin` .. `Issue`
are Register, with each dequeue, the lowering of the flag and the second look as
steps; `Complete`, `Process`, `Answer` are a completion of WSASend; four steps
are Clear. `Close` and `ProcessDisconnect` are the session's end on other
threads. `flight` are the outstanding sends the kernel knows of.

*Receiver.* One receive is outstanding or handled at a time, so its position is a
single `pc`. `RegisterBegin`, `Measure`, `Issue` are Register; `Complete` is what
the kernel does with the memory in `wsabufs`, and Dispatch; `ProcessBegin`,
`MoveWrite`, `Deliver`, `MoveRead` are Process, `Kick` its Disconnect and Clear.
OnReceive is `Deliver`, then one round of its loop in each `ParsePacket`, and
`EndParse`; where the bytes it takes for a header are one, they name the size of
their packet, and any other bytes any size. `ends[p]` is where packet `p` ends in
what the peer sends. `Close`, `ClearOwner`, `ClearRing` are the end of
the session on other threads. `arrived`, `consumed`, `delivered`, `late`,
`wrapped` are history variables. Operators of `NetReceiveBuffer` have the names
of its methods.

*ObjectPool.* Each read of tag, top and next, each exchange and each change of
the counter is a step; `holders[n]` counts the callers that hold `n`; `chain` is
a history variable, the stack the pointers should form.

*ChunkPool.* `alloc[c]`, `free[c]` are the counters of a chunk, `current[t]` is
`spTlsChunk`. `AllocBegin`, `FirstChunk`, `GetData`, `Refill` are Alloc;
`FreeObject`, `ResetAlloc`, `ResetFree`, `ReturnChunk`, `Uncount` are Free.

*The modules of operators* (`NetReceiveBuffer`, `SizeClasses`, `SendBuffers`,
`PacketProtocol`, `LoginMessages`, `SessionTimeout`, `SamplePrograms`) have no
variables: their code computes, or is called by one owner at a time. Operators
have the names of the functions. `PacketProtocol` abstracts the text of the files
to the sets of packets in them; `LoginMessages` a message to a function from field
numbers to values, a string to its length and whether it is UTF-8.

## 3. Runs

| Run | Instance | Shows |
|---|---|---|
| `Actor` | 2 posters, 2 dispatchers, 1 actor, 3 jobs, a queue of 2, batches of 2, one failing PostQueuedCompletionStatus, fairness | the flag is a lock (`FlagHasOneHolder`), a batch never finds the queue empty (`BatchBacked`), jobs are left behind only after a lost completion (`StrandedOnlyIfLost`), the actor is a serial mailbox (`ImplementsMailbox`), accepted and delayed jobs run unless a completion was lost (`WorkIsDoneOrLost`) |
| `ScopedActor` | 1 scoped actor over 2 actors with a job each, named in the wrong order, 1 poster, 2 dispatchers, one failing post | inside a scope every member is held by it and nobody else (`MembersExclusive`); work stays behind only for known reasons (`StrandedOnlyIfLostOrHeld`) |
| `TimingWheel` | 2 x 2 x 2 ticks of 2 ms, delays 5 and 18 ms, clock to 18 ms, 2 threads, fairness | `ImplementsCalendar`, `CancelIsFinal`, `TimersFire` |
| `Connection` | 3 sessions, 2 accept slots or a client, 1 seat, a line of 1 or of 2, one failing DisconnectEx, one spurious exchange failure, two failures of the accept or connect path, one SetSessionInGame, with a reaper whose queue holds 1 job, or without | seats and callbacks (`SeatsAreAccounted`, `CallbacksInOrder`); what a waiting session reads as its place is its place in the line (`TicketTellsPlace`); who keeps a seat still owes it (`SeatIsOwed`); a session that holds itself is of use, closing, or left behind for a known reason (`SessionsAreAccounted`); whoever is connected is watched unless the reaper's queue was full (`ConnectedIsWatched`) |
| `AdmissionWaiting` | 2 sessions, 1 seat | violated: `WaitingIsRecorded` |
| `Listening` | 2 acceptors, 6 sockets | completions find their acceptor and an outstanding accept is ready (`OutstandingIsReady`), an acceptor hands over at most one connection after CloseAccept (`ClosedHandsOverOnce`) |
| `Sender` | 3 threads, 2 buffers, 1 buffer per send, a queue of 1, fairness | `OneSendAtATime`, `SentInOrder`, `SentOrClosed` |
| `SenderPending` | 3 threads, 3 buffers, 2 per send | violated: `PendingHoldsFlight` |
| `Receiver` | a ring of 6 (5 bytes), 3 packets of 2 or 3 bytes, headers of 2 | `RingIsAQueue`, `UnreadIsStream`, `InOrder`, `CaughtUp` |
| `Queue` | 3 threads, 3 values, a queue of 2, 4 nodes | `ReservedFindsNode`, `NodesAccounted`, `ImplementsFifo` |
| `ObjectPoolSafe` | 3 threads, 3 nodes, 4 pops | `ChainIntact`, `ReservedFindsNode`, `ImplementsFreeList` |
| `ChunkPoolSafe` | 3 threads, 5 chunks of 2 objects | `ChunkHasRoom`, `ChunksAreAccounted`, `ImplementsFreeList` |

The runs `Actor`, `Connection`, `Sender`, `Receiver` and `ObjectPoolSafe` also check
the type invariant of their module; those of the queue, the chunk pools and the
listener are proved, like the others.

Run `Receiver` evaluates, as assumptions of `MCReceiver`, what is computed rather
than stepped through, over samples that reach every limit:

* the checked-in handlers, ids and classes of the two programs agree with each
  other and with what the generator makes for them (`CopiesAreCurrent`,
  `ClassesAgree`), and they satisfy the hypotheses of the theorems of
  `SendPathProofs` about the generator (`TwoSound`);
* the client's greeting is read as it was written and keeps the session
  (`Greeting`); the server keeps a client for nothing but an echo
  (`SampleServer`), and not for a text of another code page (`OtherTextIsKicked`);
* a third project widens every file (`WiderThanPair`), and no configuration is a
  success (`SilentSuccess`);
* the sizes of varints and messages against their definition (`ShortestVarint`,
  `WholeMessage`);
* the reaper of the sample server takes a silent client at its second look
  (`SilentClient`), and a timeout below a second takes a busy one
  (`TimeoutBelowASecond`).

`MCSender` does the same for `SendBuffers` and `SizeClasses`.

**Why these bounds are enough.** Two dispatchers and two posters are the fewest
with which a completion is taken before its Schedule has released the flag, while
another Schedule has set the owner and a third thread clears it; the queue limit
and the batch limit are below the number of jobs. The scoped actor needs two
members (to fail on the second), each with a job that competes for its flag, and
two dispatchers, one inside the scope and one at a member. The wheel keeps its three levels and shrinks each to two
buckets, so that a delay of 18 ms crosses every level, cascades twice in one tick
and is larger than the wheel (it is capped), and one of 5 ms ends inside a tick.
The connection instance has one
seat and three sessions. With a line of one there is one session more than seats and
line together, which is turned away; with a line of two there are a first and a
second place, so that a ticket counts somebody in front of it. `WaitSizes` is the
set of both, and `maxWaitSize` the one the server was given. Two failures lose a
slot and fail another session elsewhere; a session is created once, so three of them
pass through two slots. The reaper's queue holds one job, so that the timer of a
second session finds it full. The listening
instance has a socket for the engine, one for the listener and four for two
acceptors, so that each accepts, hands over and registers again, and one of them
finds no socket left. The
sender has more senders than buffers per send and queue places. The
ring is larger than a packet and smaller than two, so that receives end inside
headers and packets and every position wraps. ABA in the pool
needs one thread asleep over a pop, a pop and a push by others: three threads and
three nodes give it (an exchange of the pointer alone breaks `ChainIntact` and
`ImplementsFreeList`). A chunk of two objects has a first, a last and a
refill; five chunks let three threads each own one while two are on their way
back. In the queue a node must be dequeued, deleted, handed out again and linked
again while an enqueuer sleeps: four nodes are the dummy, a queue of two, and one
to spare, and three threads an enqueuer that sleeps, one that does not, and a
consumer.

**Where systems stop.** The runs of `Connection`, `Admission`, `Listening`, `TimingWheel`, `Sender`,
`Receiver`, `LockFreeQueue`, `ObjectPool` and `ChunkPool` allow a state without successor: sessions are used
once, a process without sockets ends, a closed session receives nothing, the clock stops at its bound, buffers,
pops and chunks run out. The
executor never stops (dispatchers poll), and deadlock is checked there and in
`ScopedActor`.

**Bounds that are not in the code.** `PostFailures`, `DisconnectFails`,
`WeakFails`, `AcceptFails` (how often the system or an exchange fails),
`InGameMoves`, `ScopedPosts` (calls of user code), `MaxNow` (the clock),
`ReaperJobs` (`mMaxCount` of the reaper, smaller), `MaxSends`, `Packets` (what the peer sends), `MaxTag` (pops), `Nodes` and `Chunks` (what the system allocator can
return), `Handles` (what the kernel can).

## 4. Fairness

Every step inside a call has weak fairness: a running thread goes on. Beyond it,

* `ActorSystem`: a dispatcher polls again and again (`TimeSlice`, weak), a
  completion in the port is taken by some dispatcher in the end (`TakeCompletion`
  per actor, strong: with every poll the port hands out a completion if it has
  one, in FIFO order, so none is passed over for ever), and a timer in the wheel
  fires in the end (`Fire`, strong: a dispatcher turns the wheel after every poll;
  that timers fire is the subject of `TimingWheel`).
* `TimingWheel`: time passes and the threads tick.
* `Sender`: threads go on and some thread takes a completion of WSASend.

No call is fair to begin: nothing assumes that anybody posts, sends, adds a timer
or disconnects. `Connection`, `Listening`, `ScopedActor`, `Receiver`, the queue and the pools
have safety properties only, and no fairness: that nothing is forgotten there is
said by invariants (`SeatIsOwed`, `SessionsAreAccounted`, `ConnectedIsWatched`,
`StrandedOnlyIfLostOrHeld`, `CaughtUp`, `NodesAccounted`), each of which names who
still has to act.

## 5. What is proved

`ExecutorProofs`, on `ActorSystem` (any finite number of threads, any actors, jobs, batch and
queue limits and number of failures; assumption `ConstantsAssumption`):

* `TypeCorrect`, `FlagIsALock`, `BatchIsBacked` from one inductive invariant,
  `IInv == TypeOK /\ Located /\ CountTrailsLinks /\ FlagHasOneHolder /\
  BatchBacked`. `BatchBacked` alone is not inductive: it needs that nobody else
  dequeues, which is `FlagHasOneHolder`, and that the counter is not above the
  linked nodes, which is `CountTrailsLinks` (the nodes are the count plus the
  enqueuers between link and fetch_add). `FlagHasOneHolder` needs `Located`: a
  thread inside a call knows its actor.
* `StrandingNeedsALoss` on top of `IInv`: an actor with counted jobs is attended
  to unless a completion of it was lost. Its strengthening says that a Schedule
  in its release step has left a completion behind, or has lost it.

* `ExecutorIsSerial`: the executor implements `SerialMailbox`. A thread has a job
  just while it runs it or is inside a Post the job makes (`JobIsRun`), and only
  the thread that holds the flag runs one (`FlagHasOneHolder`), so `Execute` finds
  the mailbox idle and takes its oldest job.

and on `ScopedActor` (any scoped actors over any actors, with any seeds and jobs):

* `MembersAreSorted`: the constructor's sort, in which equal seeds keep their
  order, leaves every member in one place and the seeds ascending. It is a theorem
  about `Place` (`PlaceIsOwn`), from the numbers of members before each.
* `ScopeHoldsMembers`, as long as no two dispatches of one scoped actor have
  overlapped (`ScopedInv`). The flag of an actor can be taken in three ways: a
  Dispatch of it, a Schedule of it, and membership in a scope that has come past
  its place. `OneWay` says that the flag is set exactly while one of these is open,
  and only one; it needs that one thread is inside a scoped actor (`OneInside`) and
  that `mAcquireIndex` is where that thread has come to (`IndexFits`), which is
  what a failed acquisition, that gives back just the members before the one it
  failed on, relies on.
* `StrandedForAReason` (`Minded`): without that condition, since losing track of
  the members loses no job. `ReleaseBacked` is what the executor's own proof
  needed; `GoalsEnd` says that a thread's goal is set just while it posts to a
  scoped actor.

On the timing wheel, in the same module (any finite set of timers, any number of
tickers, levels of any sizes, any interval and delays): `WheelTypes`,
`WheelIsCalendar`, `CancelledNeverRuns`.

* `WheelInv` says where a timer may be (`Placed`): in the bucket its expire tick
  names on that level; on the first level, due within one turn of it; on the
  others, in a block of ticks (`Block`) that has not begun, or begins with the tick
  to be processed. Then `CascadesKeepTime`: a block begins just when the digits
  below it are zero (`FirstCascade`, `SecondCascade`), processTick then cascades
  just the bucket of that block, and what is left on the upper levels is due later;
  on the first level the bucket that is turned holds exactly the timers of this
  tick (`FirstBucketIsDue`). A timer that comes down in the second cascade of a tick
  may land on any level, the one just cascaded included; `AddedInTime` covers it.
* `HandedOnce` (who was handed out is not in the wheel) makes an AddTiming an `Add`
  and a passed node a `Finish`.
* `CancelledNeverRuns` needs only that the flag is never lowered again and that the
  callback is called by the thread that has just read it: a timer cancelled while
  no thread is between the two (`FlagRead`) is `Silenced`, in the wheel as well as
  in the list of a Tick that has taken it out.

`ConnectionProofs` (any finite sets of sessions and slots, any number of seats, any
length of the line, any number of failures), in two invariants:

* `AdmissionInv` gives `Seats`, `Places`, `Callbacks`, `Owed`. None of the four is
  inductive alone. A handler admits a session of which it knows nothing but that
  it stood in the line, and another handler may disconnect it at that moment:
  `WaiterIsQuiet` says that such a session is Disconnected with nothing
  outstanding, so that Disconnect does nothing to it. `ActiveIsMember` (no session
  is ever Waiting; who is connected is a member, heard OnConnected and nothing
  else, and none of its handlers runs) and `LeavingIsMember` tie state, seat,
  callbacks and DisconnectEx together; `SeatsAreAccounted` follows because a seat
  moves between the members and the seats kept for a member to come.
* `ConnectionInv` adds `PhasesAgree` (which handler a step of `Admission` belongs
  to) and `DisconnectorHolds` (the disconnector keeps a session as long as its
  completion may still be needed), and gives `Types` and `NobodyIsForgotten`.
  `InSight` and `OnePlace` are the two halves of `Watched`, and each is inductive
  with the types and the phases: a connected session is handed from processConnect
  to the wheel, from the wheel to the reaper's queue, from there to ReapSession and
  back to the wheel, or is `unposted`; and nobody puts it where it already is. A step of `Connection` is a step of `Admission`, SetSessionInGame, or
  leaves its variables alone, so the first invariant is used and not repeated.

`ListeningProofs` (any finite set of sockets, any number of acceptors): one invariant,
`Inv`, gives `FindsAcceptor` and `ClosedEnds`. A socket belongs to the listener, to
one acceptor or to a session, and its state in the kernel follows the position of
its owner (`ListenerIsReady`, `GuestsApart`); an acceptor that handed a connection
over after CloseAccept reads INVALID_SOCKET when it registers (`LateHasEnded`), so
AcceptEx fails.

`SendPathProofs`, on `Sender` (any finite number of threads; any batch, queue and
number of sends):
`SenderTypes`, `OneSend`, `InOrder`. `SentInOrder` needs that buffers in hand belong
to the registration (`InHandRegisters`), of which there is one
(`OneSendAtATime`); that in turn holds until something is torn down, and
`OwnerClearedFirst` says that nothing is before the owner is. `CountTrailsQueue` and
`BatchHasRoom` carry the types.

`ReceiverProofs` (a ring of any size, any number of packets of any sizes, any cuts
of the stream):

* `RingKeepsQueue`: in every state of the receiver the ring is a queue of bytes.
  `Write` puts its bytes into the free places in order (`ScatterFills`), around the
  end of the array too, `Peek` copies the oldest and `Read` removes them
  (`WriteAppends`, `PeekIsOldest`, `ReadRemoves`). The arithmetic of the positions
  is in `WrapIsMod`, `RingSizes` and `PlacesApart`.
* `NothingOverwritten` (`Held`): as long as the receiver has its owner, the k-th
  unread byte is byte `consumed + k` of the stream, and what a completion brought
  is in the places behind (`RingHolds`). It needs that the disconnect handler takes
  the owner before it clears the ring (`LengthsFit`); a clear between the
  completion and its accounting finds the owner gone.
* `PacketsInOrder`, `NoneLeftBehind` (`Ordered`): unless a completion crossed the
  end of the ring, OnReceive stands at the start of a packet before every round of
  its loop (`ParseAligned`), so the bytes there are a header and name the size of
  that packet. That every byte of the stream lies in one packet is
  `EveryByteHasAPacket` and `PacketsApart`, by an induction on sets of numbers
  (`SetInduction`, proved from the well-foundedness of the naturals, since the
  induction theorems of the library cannot be cited).

`ObjectPoolProofs` (any finite number of threads and nodes; `PoolAssumption`; the
bound on pops plays no part in the argument):

* `PoolTypes`, `NoStalePop`, `NoDoubleAllocation`, `ReservationHolds`,
  `CountIsExact`, `PoolImplementsFreeList`. The heart is `FreshReads`: if the tag
  has not moved since a thread read it, no node was popped since, so the node it
  then saw on top is still in the chain and its next pointer is the one the
  thread read. Pushes do not spoil that, which is why Free may leave the tag
  alone; the exchange that succeeds therefore installs the second node of the
  chain. `Counting` (chain length = counter + threads that lowered it and have
  not popped + threads that pushed and have not raised it) gives
  `ReservationHolds`: a reservation is backed by a node of the chain.
* `PoolImplementsFreeList`: every step of the pool is a `Take` of a free node, a
  `Give` of a held one, or a stutter of `FreeList`. `ChunkPool` uses exactly that
  specification for its chunks.

`ChunkPoolProofs` (any finite sets of threads and chunks, chunks of any size from
one): `AllocFindsObject`, `ChunksAreKept`, `AllocCountIsExact` and
`ChunksImplementFreeList`. `CountersAgree` (a chunk that nobody resets has handed out
and not counted exactly the objects that are out) tells the thread that raises
`free` to the size that it is the last, whence `ResetIsAlone`: it has the chunk for
itself, although two plain stores and the return follow. `OwnChunk` (a thread gets
its next chunk with the last object of this one) gives Alloc its object.

`LockFreeQueueProofs` (any finite number of producers and nodes, one consumer at a
time, as `Reserve` says): `QueueTypes`, `ReservedIsFound`, `NodesAreAccounted`,
`QueueIsFifo`. The model goes as far as the first link to a recycled node; up to
there

* the link without a tag is right: an enqueuer whose node was not deleted since it
  read the tail finds null behind it only at the end of the chain, and finds the
  tail there (`SeenIsPassed`); so the tail is at most one node behind
  (`EndsOfChain`), and whoever has linked that node moves it before counting
  (`TailIsPushed`), with a tag that tells whether somebody else did
  (`MoveKnowsTail`);
* nodes behind the dummy are the count, the enqueuers that have linked and not
  counted, and the reservation (`Counting`). A consumer with a reservation
  therefore finds two nodes in the chain, and three if the tail is behind: head
  and tail do not meet (lemma `HeadIsBehind`), and the `continue` at line 100 is
  never taken;
* a node in hand is in one pair of hands (`OwnNode`, `HeldIsOwned`);
* the refinement: `Link` is `Accept`, `Swing` is `HandOut`, all else stutters.

What the pure algorithms compute, for every input. They are operators, so these
are theorems of arithmetic and sets, without invariants:

* `SendPathProofs`, on sizes and send buffers: `PoolServesSize` and `PoolFitsBest` (a size is served by a
  pool that exists, whose blocks hold it and which wastes less than a stride),
  `RoundingFillsBlock`, `FrameIsWhole` (a message of at most 65529 bytes is
  framed whole), `LongerWraps` (a longer one never is: the process ends, or the
  message is written behind its buffer).
* on messages: `ReceivedIsSent` (what is parsed is what was written, and
  it is refused just when a text is not UTF-8), `CopyIsEqual`, `LoginFits`,
  `EchoLimit`, which rest on bounds of the size of a varint and on
  `FrameIsWhole`.
* on the generator: `SentIsHandled` and `EchoIsInvalid` for two projects,
  `MessageReachesReceiver` for any number of them, under the hypothesis that ids
  are distinct and their upper half names the service of their file. The
  hypotheses are assumptions checked for the sample programs.
* `ConnectionProofs`, on the times of the reaper: `ReapedWasSilent`,
  `SilentIsReaped`.

Only model-checked: everything under fairness, `TimersFire` among it (the provers
do not do liveness).

## 6. What the violated runs show

* `Session.cpp:224`: `setSessionWaiting` exchanges Disconnected for
  Disconnected. A session in the line is never in state Waiting, so
  `setWaitingToConnected` refuses it when its turn comes (`AdmissionWaiting`).
* `Sender.cpp:129`: Clear empties the buffers of a send that is outstanding
  (`SenderPending`). The passing properties of `Sender` therefore speak of the
  time before anybody begins to tear it down.

Known and modelled, without a run of its own. No text of the repository says
otherwise, except where one is named:

* *Executor.* A completion discarded between `ScheduleAcquire` and
  `ScheduleRelease`, or found without an owner, strands the actor until the next
  Post (`lost` in `ActorSystem`).
* *Scoped actor.* Every Post queues a completion, so two dispatchers can be inside
  one scoped actor; they share `mAcquireIndex` and give back each other's
  members (`overlapped`; nothing is promised from there on). Release does not
  call Register of the members: a member whose Schedule lost its flag to the scope
  waits for its next Post (`starved`). The constructor removes equal neighbours
  before it sorts: an actor given twice, with another between, stays a member
  twice, the second acquisition fails on the flag the first one took, and the jobs
  of that scoped actor never run (`Unique`, `Members`; the run gives its duplicate
  as neighbours, which is handled).
* *Timing wheel.* A wheel that is behind the clock counts a new delay from its own
  tick: the timer fires early by the lag.
* *Admission and connection.* Disconnect(ServerFull) (`Session.cpp:175`) on a
  session that is still Disconnected does nothing: the session that finds the server
  and the line full is told nothing, no DisconnectEx is made, and its socket stays
  open, although the comment of the enumerator (`Session.h:27`) makes it the reason of
  a disconnect for when even the waiting queue is full (`ServerFull`, `refused`). A
  seat is lost when DisconnectEx fails at once
  (`io`). Sessions that are refused, or whose accept or connect fails, are never
  freed: their parts hold them, and Disconnect does nothing for them (`refused`,
  `dropped`). An accept that fails after its completion loses its slot. A
  completion that failed is dispatched like one that succeeded. RegisterReap calls
  through a null service after a Clear on another thread (`crashed`).
* *Sockets.* `SocketUtils::Close` (`SocketUtils.cpp:65`) calls closesocket only
  for INVALID_SOCKET, and Session::Clear overwrites its socket: none is ever
  closed, and a process can accept no more connections in its life than the kernel
  has sockets for it. CloseAccept only forgets the socket. `Listening` has both, and
  no property about them: that nothing is given back needs no run.
* *Queue.* An enqueuer that slept while its tail node was dequeued, deleted and
  linked again links to the wrong place: the link has no tag (`ImplementsFifo` and
  `NodesAccounted` speak of the time before). A second Clear walks nodes that the
  first has deleted.
* *Send path.* A full send queue ends in a null dereference at `Sender.cpp:36`
  (`fault` in `Sender`).
* *Receive path.* `Receiver.cpp:48` passes the length of the completion, not
  `dataSize`: bytes that an earlier completion left in the ring are never made up
  for, so a packet received in two parts waits for later bytes (`late`), and the
  unread bytes only grow, until the ring is full and the session is kicked. And
  OnReceive reads the ring as linear memory: a completion that crosses the end of
  the ring yields garbage (`wrapped`). `InOrder` and `CaughtUp` therefore hold for
  completions that do not cross the end, the latter for those that find the ring
  empty; `UnreadIsStream` holds always.
* *Packets.* The size of a packet has 16 bits: a message longer than 65529 bytes
  wraps it. At 65530 bytes the size is 0, and Reserve reads the first byte of an
  array that is not there (`NetSendBuffer.cpp:55`, `ReserveFaults`); up to 65535 the
  message is written behind a buffer of 256 bytes. A packet of 65535 bytes does not
  fit the receiver's ring of 65534.
  A text that is not UTF-8 is sent with a log line, refused by the peer, and the
  sender kicked. The sample server kicks whoever logs in.
* *Generator.* Its `||` between the roles gives a project, when there are three,
  handlers and MakeSendBuffer functions of packets between the other two, and each
  file stays as the last pair wrote it; a message still reaches its receiver. With
  no configuration it reports success and writes nothing.
* *Reaper.* The record of the activity may be a second old, so a timeout below a
  second disconnects sessions that send all the time. The callback of a timer posts
  the job to the reaper: when its queue is full the job is dropped, and the session
  is never looked at again (`unposted`); when the completion is lost it waits until
  another session's timer fires (`asleep`).

## 7. Plan

Done: all models, and the proofs of section 5, which cover every property the
runs check except those that need fairness. What is left is proof: no stranding
with a single dispatcher and no other poster, for which `lost` stays false.

## 8. What is not modelled, and why

* A torn `shared_ptr`. `ActorOverlapped::mpOwner` and `Sender::mpOwner` are
  plain shared pointers used by several threads; the models make each access
  atomic. Likewise the vector of pending buffers while a close clears it.
* Spurious failure of `compare_exchange_weak` inside a loop (it repeats the
  reads); outside a loop, in `Session`, it is modelled.
* `Actor::Flush` and `Actor::Clear`, `TlsObjectPool::AllFree`, preloading of a
  pool: nothing in the engine calls them. `LockFreeStack` is not used; it is the
  protocol of `ObjectPool`.
* A delay of 0, which runs the callback in place, and the lower limit of 16 ms on
  `mTickIntervalMs` (any interval is allowed).
* Whether a session is idle is a choice in `Connection`, which has no clock; the
  arithmetic is in `SessionTimeout`.
* Overlapping dispatches of one scoped actor, a link to a reused node, a call
  through a null pointer: recognised by a variable, and not followed further.
* The options of sockets and the addresses: `Listening` has the sockets of a
  server and their states; those of a client, and WSACleanup, are left out.
  `Connection` starts where StartAccept ends.
* Reflection, arenas, moves and unknown fields of the message classes, the
  generated files without messages, and the C# copies of the classes, which the
  generator does not use.
* The queue and the flag of the reaper in `Connection`: its jobs are a set, one of
  which runs at a time, and `CompletionIsLost` may happen whenever none runs, which
  is more often than in the code. How an actor comes to lose a completion is
  `ActorSystem`.
* The order of completions inside a port: any of them may be taken, which allows
  more than the kernel does.
* The weak references in the waiting line always lock: the events of a session
  keep it alive as long as it is in the line.
* The main functions beyond their parameters (the loops of their threads are the
  dispatch actions), thread start and join, the kernel, Winsock, logging, crash
  reports, smart pointers and container aliases.
