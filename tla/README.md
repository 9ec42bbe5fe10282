# A TLA+ verification of ratkinia-server

`ratkinia-server` is a Windows MMORPG server in C++20: an IOCP network server
with TLS sessions on one side, a pool of game threads running actors on the
other, a PostgreSQL connection pool, and an ECS layer with its own memory pools.
This directory holds the TLA+ models of its concurrent core, the TLC runs that
check them and the TLAPS proofs about them. `PROJECT.json` is the machine
readable index (components, runs, mutants, source map, hazards, findings,
theorems).

## 1. Inventory of the system

| Component | Source | State it keeps | Operations | How it interacts |
|---|---|---|---|---|
| Network server and session lifecycle | `NetworkServer.*`, `Session.*` (flags, `Close`, `Cleanup`), `OverlappedEx.h` | `sessions_` under the shared mutex `sessionsMutex_`; per session `isIoOnline_[3]`, `shouldClose_`, the SSL object and socket | `PostAccept`, `PostReceive`, `PostSend`, the InitiateSend branch, `SessionCleanupRoutine`, `SendMessageTo`, `DisconnectSession`, `ChangeAssociatedActor` | IOCP completions drive N worker threads; actors call in from the game threads; messages go out to actor mailboxes |
| Receive path | `Session.cpp` `TryPostReceive`, `TryProcessReceiveBuffers`, `PeekReceivedMessage`, `NetworkServer.cpp` dispatch loop | two ring buffers (TLS, app), the read BIO | kernel -> TLS ring -> BIO -> app ring -> `Msg_Cts` | several workers may be inside one session |
| Send path | `Session.cpp` `TrySendAsync`, `TryPostSend`, `TryProcessSendBuffers`, `InitiateSendAsync`, `PushMessage` | app queue, write BIO, TLS ring, the Send and InitiateSend flags | push, wake, drain, `WSASend`, complete | actors push, workers drain |
| Ring arithmetic | `Session.h` `GetRingBufferSize`, `GetWritableSizes`, `GetReadableSizes` | none | pure functions | used by both paths |
| Game round scheduler | `MainServer.*` | `workerThreadsWorkVersion_`, `workIndex_`, `workingThreadCount_`, `mainThreadShouldWakeup_` | `Run`, `WorkerThreadBody` | runs every actor once per 16 ms round |
| Actors and mailboxes | `Actor/Actor.*`, `ActorRegistry.*`, `ActorMessageDispatcher.h`, `Message/*` | two message vectors and `pushIndex_` under `pushMutex_`; the handler table; the name map | `PushMessage`, `Run`, `TryPushMessageTo` | network workers push, game threads run |
| Authentication actor | `Actor/A_Auth.*`, `AuthJob.h`, `Database/DbService_Account.*` | `contextIdMap_`, `idContextMap_`, two job queues, background thread | login, register, disconnect, `Tick` | replies through the network interface, queries the database |
| Database connection pool | `Database/DbConnectionPool.*`, `DbConnection.*` | idle connections, mutex and condition variable | `Acquire`, `Release` | used by actors |
| Message body pool | `MpscMessageBodyPool.*` | eight lock-free free lists | `Acquire`, `Release` | stand-alone |
| SPSC ring buffer | `SpscRingBuffer.*` | `head_`, `tail_` | `TryEnqueue`, `TryPeek`, `Dequeue` | stand-alone |
| Parallel executor | `Floweryclover/ParallelExecutor.h` | working flags, work index, per-thread results | `ParallelFor`, `ParallelForWorkerThreads`, destructor | stand-alone |
| Indexed list, sparse list/array, free-list pool | `Util/MemoryPool/*` | intrusive free and allocated lists, dense/sparse index arrays | `Create`, `CreateAt`, `Erase`, `Get`, `Emplace` | under the entity manager and the global objects |
| Entity manager | `EntityManager.h`, `Entity.h` | 12-bit versions per id | `Create`, `CreateWithSpecificId`, `Destroy`, `Get` | uses the indexed list |
| Global objects, events, systems | `GlobalObject/*`, `Event/*`, `System/*`, `Component/*` | possession and ownership maps, event queues | `TryPossess`, `Unpossess*`, `AddOwnership`, the unpossess system | legacy ECS layer, not wired to `MainServer` at this commit |
| Commented-out code | `Stub.cpp`, `Executor.h`, `Channel.h` | - | - | every line is a comment |

The commit is a work in progress: `ActorRegistry` and `Actor.cpp` do not agree
with their headers (`Actor::Run` is the body of `DynamicActor::Run`,
`ActorRegistry::Register` and `Get` are the intended registry operations, and
`MainServer` calls both). The models follow the bodies.

### What is hard in it, and what makes it correct

The state of the server is shared between IOCP workers, game threads, one
background thread and the kernel, with few locks held for long. The hard
behaviours, and the properties that answer them:

- **Sessions.** Any thread may start, complete, fail or close the operations of
  a session, while its object is destroyed by whichever thread clears the last
  flag. Correct means: a flag of `isIoOnline_` matches exactly one operation, the
  object outlives the I/O that uses it and every thread that uses it, the session
  is erased and reported once, and it is reported in the end.
- **Messages out.** A message crosses a queue, a BIO and a ring, under three
  mutexes and two flags. Correct means: the client gets the messages once and
  in order, the kernel's buffer is not written to, no wakeup is lost.
- **Messages in.** The same the other way, with a dispatch loop that several
  workers can be in.
- **Rounds.** Two condition variables and three counters hand each actor to one
  thread per round. Correct means: once per round, in one thread, no overlap of
  rounds, no lost wakeup, for ever.
- **Mailboxes.** `Run` reads a vector without the lock the pushers take. Correct
  means: it behaves as one queue.
- **Authentication.** Requests become jobs that come back after their session
  may have ended. Correct means: the two maps are inverse and hold no dead
  context, and no job is lost, doubled or overtaken on its way to its answer.
- **Pools and containers.** Intrusive lists, versions and rings reach their limits
  after long sequences of legal calls: double release, reuse, wrap-around.

`PROJECT.json` lists these hazards at their lines with the properties that
cover them.

## 2. Modules

| Module | Models | Abstract specification | Proofs |
|---|---|---|---|
| `SessionLifecycle` | accept, the three operations and their flags, `sessionsMutex_`, cleanup, what actors call | `SessionStream` | `SessionLifecycleProofs` |
| `SessionReceive` | the receiving half of one session and the dispatch loop | the prefix in `MailboxIsPrefix` | `SessionReceiveProofs` |
| `SessionSend` | the sending half of one session | the prefix in `StreamIsWhole` | `SessionSendProofs` |
| `RingArithmetic` | the ring operators of `Session.h` and `SpscRingBuffer.h` | - | `RingArithmeticProofs` (lemmas) |
| `MainServerRounds` | `MainServer::Run`, `WorkerThreadBody` | `ActorRounds` | `MainServerRoundsProofs` |
| `ActorMailbox` | `PushMessage` and `Run` of one actor | `MessageQueue` | `ActorMailboxProofs` |
| `AuthActor` | the handlers of `A_Auth`, its background thread, `Tick` | - | `AuthActorProofs` |
| `DbConnectionPool` | `Acquire`, `Release`, the wait on the condition variable | - | `ServerPartsProofs` |
| `ParallelExecutor` | construction, `ParallelFor`, the worker threads, destruction | `ForkJoin` | `ServerPartsProofs` |
| `SpscRingBuffer` | `TryEnqueue`, `TryPeek`, `Dequeue`, byte by byte | the stream of bytes | `ServerPartsProofs` |
| `MpscMessageBodyPool` | `Acquire` and `Release`, one atomic operation per step | - | `ServerPartsProofs` |
| `IndexedUnmanagedList` | the two intrusive lists, as operators on a record | - | `ServerPartsProofs` (lemmas) |
| `SparseList`, `SparseArray` | the sparse containers on top of it, and their iteration | `IdMap` | `ServerPartsProofs` |
| `EntityManager` | versions of entities, on the same list | - | `ServerPartsProofs` |
| `GlobalObjects` | possession, ownership, the event queue, the unpossess system | - | `ServerPartsProofs` |

A specification with several instances, or with constants that a `.cfg` cannot
write, has an `MC...` module, which does no more than name the values.
`SessionLifecycle` and `MpscMessageBodyPool` are checked as they are.
`MCServerParts` puts the small components that share no state side by side: the
variable `part` says which of them a behaviour is about, and each of them keeps
the properties, the actions and the fairness of its own module.

How they fit together: `SessionReceive` shows that the messages of a client reach
the mailbox of an actor whole and in order, `SessionLifecycle` that an actor sees
every context as `SessionStream` (messages, then one `Msg_SessionDisconnected`,
then nothing); `ActorMailbox` carries that order through the mailbox;
`MainServerRounds` (`ActorRounds`) shows that one thread at a time runs an actor
and that it runs again and again. `AuthActor` takes all of them as its
environment: handlers and `Tick` are atomic with respect to each other, a context
says nothing after its disconnection, and its fairness is
`EveryActorRunsForever`. What it takes from the database waits in
`DbConnectionPool`. `SessionSend` is the way back. In the ECS layer
`EntityManager` and `SparseList` share `IndexedUnmanagedList`, and
`GlobalObjects` uses maps because `SparseList` refines `IdMap`.

### Conventions

- A thread is a program counter `pc[t]`; a label is the statement it is about to
  execute. What the code does under one mutex, or in one atomic operation, is one
  step; what it does between two of them is another step. Calls that change
  nothing shared are folded into the step before.
- Atomics are sequentially consistent, also the relaxed ones. The one place
  where this may hide something is listed as a hazard (`MainServer.cpp:100`).
- Undefined behaviour does not stop a model: `SessionLifecycle` records a use of
  a freed object in `faults` and goes on with either outcome. Passing properties
  hold across these steps unless they say otherwise. In the same way `events`
  of `SessionSend` and `SessionReceive` records the exceptional steps after which
  a property no longer holds in this code; each is named in the property.
- An operator whose comment begins with `Mutant:` is a plausible bug in the operator
  below it. No specification uses it; replacing the one by the other violates
  the property `PROJECT.json` pairs it with.
- Exhaustible data (messages, requests, accepts) is bounded by a constant that
  appears in the guard of the action that consumes it. The declaration says
  `bound:`.

### SessionLifecycle

State: `sessions_` and its mutex (`readers`, `writer`, and `waiters`, the threads
queued for the exclusive lock); per context the flags
(`isIoOnline`), what is in the kernel or the completion queue (`inFlight`),
`shouldClose_`, whether the SSL object and the socket are gone; per thread
`pc`, the context and the kind of completion it serves, the result of
`PostReceive`. Bytes are abstracted: whether a ring is empty, full or broken
is a nondeterministic outcome of the step that would look.

| Actions | Code |
|---|---|
| `BeginAccept`, `AcceptFails`, `TakeContext`, `EmplaceLock`, `Emplace` | `PostAccept`, with `SSL_accept` as a step that may never end |
| `AwaitExclusive` | a `unique_lock` on `sessionsMutex_` that has to wait |
| `Dequeue`, `DequeueFailed`, `PostIoFailed`, `Enter` | `WorkerThreadBody`, the first statements of `TryPostReceive`, `TryPostSend`, `PostInitiateSend` |
| `ProcessReceiveBuffers`, `BeginReceive`, `WsaRecv`, `Dispatch`, `LeavePostReceive` | `TryPostReceive`, `TryReceiveAsync`, `PostReceive` |
| `BeginSend`, `ProcessSendBuffers`, `WsaSend` | `TrySendAsync`, `PostSend`, the InitiateSend branch |
| `CleanupBarrier` to `CleanupNotify` | `SessionCleanupRoutine`, `Session::Close`, `Session::Cleanup` |
| `SendMessageTo`, `DisconnectSession` | the network interface the actors call |

`sessionsMutex_` is a `std::shared_mutex`, on this platform an SRW lock. A request
for shared ownership is granted when nobody owns the lock exclusively and
nobody is queued to. A thread that asks for it again while it owns it (the
InitiateSend branch, lines 179 and 331) is undefined behaviour: the fault
`RecursiveLock` records it, and the lock treats it as any other request, so that
it waits for ever behind a queued thread. `SelfDeadlock` is this wait, or the one
for the exclusive lock at 341 by a thread that owns the shared one.

### SessionReceive

State: both rings with their heads and tails, the read BIO, how far the client's
stream has arrived and has been decrypted, the Receive flag,
`receiveBuffersProcessMutex_` and what its owner has loaded, what each worker has
peeked, and `mailbox`, what the actor has been given; the auxiliary variable
`unread`, which no guard reads, holds the slots of the TLS ring whose cells have
not gone to the BIO. The client's stream is the
cells 1, 2, ...; a message is a header cell and its body, a cell is the content
of one TLS record and takes one slot of either ring. Bodies may wrap, and then go
through `contiguousPopBuffer`.

| Actions | Code |
|---|---|
| `PostReceive`, `PostIoFailed`, `AdvanceTail` | a completion, `TryPostReceive` |
| `TlsToBio`, `BioToApp`, `RingFull`, `TlsError` | `TryProcessReceiveBuffers` and its exits |
| `TryReceiveAsync` | `Session::TryReceiveAsync` |
| `PeekNothing`, `Peek`, `PushToActor`, `PopReceivedMessage`, `PopAndLeave` | the dispatch loop of `NetworkServer::PostReceive`, `PeekReceivedMessage`, `PopReceivedMessage` |
| `SendWantsReceive` | `TryProcessSendBuffers` that calls `TryProcessReceiveBuffers` |
| `Close`, `CloseElsewhere` | `SessionCleanupRoutine`, as far as a receive can tell |

`RingFull` keeps what the failed call has left in the read BIO; the bytes that
`SSL_read` had taken are lost (event `Lost`). A Receive at tail 0 may bring
`BufferCapacity` cells at once (event `FullReceive`): head and tail are then equal,
the ring looks empty, and the next Receive overwrites all of them.

### SessionSend

State: `sendAppQueue_`, the write BIO, the ring with `head` and `tail`, the Send
and InitiateSend flags, the buffer the kernel has, `sendBuffersProcessMutex_`,
and `wire`, what the client has received. Messages are numbered in the order
they are pushed; each becomes one TLS record of one slot.

| Actions | Code |
|---|---|
| `PushMessage`, `InitiateSend` | `SendMessageTo` |
| `PostInitiateSend`, `PostSend`, `AdvanceHead`, `PostIoFailed` | the completions, `TryPostSend` |
| `BeginSend`, `ProcessReceive`, `WsaSend` | `TrySendAsync` |
| `LockProcess`, `WriteMessage`, `LoadHead`, `FillRing`, `ReceiveWantsSend` | `TryProcessSendBuffers` and its two callers |
| `Close`, `CloseElsewhere` | `SessionCleanupRoutine`, as far as a send can tell |

`events` records what makes the stream incomplete in this code: an overlap of
a send with the accounting of the one before (the finding below), a full ring
or a TLS error (both close the session), and two results of OpenSSL
(`WantRead`, `WantWrite`) that the code handles but OpenSSL does not report on
memory BIOs after the handshake. `StreamIsWhole` holds also after `WantWrite`,
when the receive path fills the ring next to the owner of the Send flag;
`PushedMessageIsSent` does not, because the receive path starts no send for what
it has moved.

### MainServerRounds

State: the three atomics and the flag by their names, a program counter for the
main thread and one for each worker, `desiredVersion` and the claimed index of
each worker. `VersionModulus` stands for 2^32. The set of the threads that
sleep on a condition variable is the set of those at label `asleep`.
`ActorRounds` has three actions: an actor starts, an actor finishes, a new
round begins when all have finished. The refinement maps `running` to the
actors claimed by workers at `run`, and `done` to the rest below `workIndex_`.

`hardware_concurrency()` may return 0; `Run` would then wait for ever. The
assumption `Workers # {}` excludes it.

### ActorMailbox

State: `messageQueue_`, `pushIndex_`, the owner of `pushMutex_`, the argument of
each push, the program counter and the iterator of `Run`. `PushLock` and
`PushEmplace` are the two halves of `PushMessage` (reading `pushIndex_` and
appending), so that a push in progress is a state of its own; `RunTest` to
`RunClear` are the statements of `Run`. The refinement maps `queue` to what the
iterator has left of the drained vector, followed by the other one. A message
that has been moved out is `Moved`, so that handling a null pointer would break
the type invariant.

### AuthActor

State: both maps (as sets of pairs, so that a map that is not one can be seen),
both job queues, the job the background thread has, the one that waits between
the two transactions of `TryCreateAccount`, the rows of the accounts table, and
which requests were refused at once or have been answered by `Tick`. A handler is
one action (`OnRegisterRequest`, `OnLoginRequest`, `OnDisconnected`), `TakeJob` and
`FinishJob` are the background thread, `TickJob` is one turn of the loop of `Tick`
including its early returns. For a registration it ends with the `SELECT EXISTS`,
and `TickInsert` is the `INSERT`, which adds a row or reports `UnknownError` and
then ends `Tick`. The checks of length and characters answer at once and change
nothing; they are left out.

No code of this commit assigns `authThread_`, so nothing runs
`AuthBackgroundThreadBody`, and no queued login or registration is answered at
this commit. The model has the steps of that body but no fairness for them, so
the behaviours in which they are never taken are among those the properties hold
for. `FinishedJobIsAnswered` is about the half that does run: a job that has
come back is answered, also behind jobs that make `Tick` return early.
`JobsAreAnsweredInOrder` follows each request through both queues, the thread and
the transactions. That no name is inserted twice rests on the one thread that
runs `A_Auth`, and on whatever the table in the database says, which is not in
the repository; it is a hazard without a property.

### DbConnectionPool

State: `connections_`, the owner of `mutex_`, and per client its place in
`Acquire` or `Release` and the connection it holds. `Lock`, `Test` and `Spurious`
are the wait with its predicate (a client that finds the pool empty falls asleep
and gives up the mutex in one step, as `wait` does); `ReleaseLock` and `Release` are
`Release`, which notifies any one sleeper before it gives up the mutex.

### ParallelExecutor

State: the flag of each thread, `shouldStop_`, the shared work index, `work_`, the
result pages, and the program counters. `Start` and `Started` are the
constructor, `ParallelFor`, `Launch` and `Await` a call, `Destruct`, `Stop` and
`Join` the destructor; a thread goes through `Loop`, `Wait`, `Check`, `Claim`,
`RunTask`, `ChunkDone` and `Finish`. A wait on an atomic flag returns when it finds the
new value (`Wait`, `Started`, `Await`), and sleeps when it finds the old one
(`ThreadSleeps`, `CallerSleeps`) until a `notify_one` on that flag, which is a step
after the store (`CallerNotifies`, `ThreadNotifies`); then it looks again. `sleepers`
and `callerSleeps` are who sleeps, `raised` and `lowered` the stores that are still
to be notified. `ForkJoin` leaves open what the results of a call are;
`ResultsAreExact` says it. The pages keep the results of earlier calls, as in the
code; `Resultless` are indices for which the task returns none.

### SpscRingBuffer and MpscMessageBodyPool

The ring copies one byte per step, on both sides, so that a peek overlaps with an
enqueue; `Publish` and `Dequeue` are the two stores of the shared indices. The k-th
byte of the stream has the value k modulo `ByteValues`, more than the ring holds.

The body pool has one step per load, read of `Next` and compare and exchange.
`sent` are the bodies on their way to the consumer. What `operator new` returns
is some block that has never been used.

### IndexedUnmanagedList, SparseList, SparseArray, EntityManager

`IndexedUnmanagedList` has no state: `Create`, `CreateAt`, `Erase` and `Get` are
operators on a record of links, flags and the two heads, line by line, with the
stale `Prev` that `CreateAt` and `Erase` leave behind. `SparseList` adds the dense
array with its swap and pop, and a range-based for whose body may be any
operation; `SparseArray` moves the data. An owner of a `SparseList` keeps either
to `Emplace` or to `EmplaceAt` (`Interfaces`), as those of the repository do.
With `EmplaceAt` the lists themselves are corrupted (`ListsAreExact` is for the
others), and what its owner sees is a map all the same, which is what
`ImplementsIdMap` says. Mixing both ways on one list hands a live node out
again: `EmplaceAt(1)`, `Erase(1)`, `EmplaceAt(1)`, `Emplace`.
`EntityManager` offers both, and nothing at this commit creates entities, so
that hazard is recorded at `IndexedUnmanagedList.h:168`.

`EntityManager` adds the versions. `issued` remembers every `Entity` handed out,
the node and the creation (`incarnation`) it came from. The constructor of `Entity`
keeps the low bits of the index (`IdCount` stands for 2^20), so that from node
`IdCount` on two nodes share an id, and `Create`, unlike `CreateWithSpecificId`, hands
out `NullId` too. `EntityNamesOneCreation` is about the entities of the nodes
below `IdCount`, whatever those with aliased ids do to them; it claims nothing of
the others, and the hazard at `EntityManager.h:76` says why.

### GlobalObjects

State: the two maps of `G_Possession`, the three of `G_PlayerCharacters`, the queue
of `Event_SessionErased`, and `abort`, which says whether the process has stopped in
a check of `EraseBySparseIndex` or `EmplaceAt` (`"map"`, which
`PossessionIsOneToOne` excludes) or in the integrity check of `AddOwnership`
(`"owner"`, which its callers can bring about). One action per method, and the system
`S_PlayerCharacters_UnpossessOnDisconnected` as one action over the whole queue.

## 3. What the runs show

| Run | Instance | Shows |
|---|---|---|
| `session` | 2 workers, 1 actor, 1 session, 1 dispatched message | `FlagHasOneOwner`, `IoNeverOutlivesSession`, `ServedSessionIsAlive`, `ClosingSessionIsReported`, `ExclusiveLockIsGranted`; implements `SessionStream` |
| `receive` | 2 workers, messages of 1, 1 and 3 cells, rings of 4 | `MailboxIsPrefix`, `KernelWritesFreeSlots`, `ArrivedMessageIsDispatched` |
| `send` | 2 workers, 3 messages, 3 slots (2 usable) | `StreamIsWhole`, `KernelBufferIsStable`, `PushedMessageIsSent` |
| `rounds` | 3 workers, 2 actors, versions modulo 4 | `ActorRunsInOneThread`, `NoWorkerFallsBehind`, `NoLostWakeup`, `EveryActorRunsForever`; implements `ActorRounds` |
| `auth` | 2 contexts, 2 accounts, 3 requests | `MapsAreInverse`, `JobsAreAnsweredInOrder`, `FinishedJobIsAnswered` |
| `parts` | see `MCServerParts.cfg` | mailbox: `DrainedVectorIsPrivate`, `PushedMessageIsHandled`, implements `MessageQueue`; connections: `PoolIsExact`, `AcquireReturns`; executor: `ResultsAreExact`, `CallReturns`, implements `ForkJoin`; ring: `PeekedBytesAreNext`; bodies: `BlocksAreSound`; containers: `ContainerIsExact`, `IterationIsComplete`, implement `IdMap`; entities: `EntityNamesOneCreation`; global objects: `GlobalMapsAgree` |

Why the bounds are enough to be interesting.

- *Sessions* do not share state apart from the map and its lock, so one session is
  enough for the flags. Two workers and an actor already have three threads in
  one cleanup; the safety properties are proved for any number of each.
- *Receive*: four slots hold three, the longest message; bodies wrap in both
  rings, the application ring fills up before it is read, and two workers
  are in one dispatch loop. The bound on the mailbox leaves one message more than
  were sent, for a double dispatch.
- *Send*: a ring of three slots wraps with three messages and is full with three in
  the BIO.
- *Rounds*: a modulus of 4 lets the version wrap while the model runs, and three
  workers leave one behind while two go on.
- *Auth*: two contexts on two accounts with three requests contain every order of
  two logins and a registration, or of two registrations and a login, with both
  disconnections.
- *Parts*: three messages fill both vectors of the mailbox; four clients on two
  connections have two sleepers, one newcomer and one holder; two calls of the
  executor on two threads with chunks of 2 and none or three axes leave old
  results and a short last chunk behind; blocks of one to three bytes wrap in a ring of four; three
  blocks in two classes with one producer (two find the violation below); three
  ids in pages of two grow the list twice; three entities on two ids have one that
  is aliased and one that is `NullId`, and their versions modulo 2 wrap within three
  creations; two contexts, players, characters and entities with two versions.

`session`, `receive` and `parts` do not check deadlock: when no client connects,
no bytes come, or the bounded data of a part is used up, the server waits, and
that is its normal state.

### Findings

Six runs find a violation; each is a disagreement of the code with what the
repository says of it.

- `session_self_deadlock`: the InitiateSend branch calls
  `SessionCleanupRoutine` with `sessionsMutex_` held shared; it asks there for the
  shared lock again, which never comes once another thread is queued for the
  exclusive one (`NetworkServer.cpp:179-184`, `331`), and then for the exclusive
  one itself (`341`).
- `session_use_after_free`: `Cleanup` frees the SSL object while another worker
  is on its way to the buffers (`Session.cpp:442`); and `InitiateSendAsync` does
  not look at `shouldClose_`, so that a completion can be posted between `Close`
  and the erase (`Session.cpp:246`).
- `auth_ghost_login`: `Tick` applies a login for a context whose disconnection
  has been handled; the account stays online (`A_Auth.cpp:216`).
- `send_twice`: `TryPostSend` clears the Send flag before it advances the head;
  the same records can be sent twice (`Session.cpp:235-238`).
- `receive_twice`: `PostReceive` starts the next Receive before its dispatch loop;
  two workers can peek and push one message and pop two
  (`NetworkServer.cpp:275-290`).
- `bodies_shared`: `Acquire` exchanges the list head for a `Next` that may be
  stale (ABA); with two producers one block gets two owners
  (`MpscMessageBodyPool.h:33-46`). With one producer `BlocksAreSound` holds.

Four more came up while modelling. No text of the repository says otherwise, so they
are steps of the models or notes of hazards: a Receive at tail 0 may fill the
whole ring, which then looks empty, so that the next one overwrites its bytes
(event `FullReceive`, `Session.cpp:64`); nothing starts the background thread of
`A_Auth`; entities from the 2^20th on share ids; and the mixed use of `Create` and
`CreateAt` above.

### Fairness

- `SessionLifecycle`: weak fairness of every worker and actor inside a call; the
  lock is only promised to a thread for which it stays free. Every pending
  operation completes, as the kernel guarantees once the socket is closed, and
  the completion queue hands each completion to one of the workers that ask
  for one time and again (strong fairness of `TakeCompletion`). `SSL_accept` need
  not return: nothing is assumed of clients, nor of calls by actors. So
  `ClosingSessionIsReported` exempts the behaviours in which in the end all workers
  are in a handshake, beside those that self-deadlock, meet undefined behaviour
  or send for ever.
- `SessionReceive`: weak fairness of each worker that has taken a completion.
  Completions, further bytes and the end of the session need not come.
- `SessionSend`: strong fairness of each worker inside a call (it waits for
  `sendBuffersProcessMutex_`) and of the taking of completions, since workers may
  be busy with the receive path in between; weak fairness of `InitiateSend`.
- `MainServerRounds`: weak fairness of each thread, which assumes that every
  `Actor::Run` returns. None for spurious wakeups.
- `ActorMailbox`: pushers leave `PushMessage`, and the actor is run again and
  again, which `MainServerRounds` shows. Strong fairness of `Run`, for the mutex.
- `AuthActor`: weak fairness of the actor, for the same reason. None for the
  background thread, which nothing starts.
- `DbConnectionPool`: weak fairness of each client, whose handlers end and
  release, and strong fairness of getting the mutex. None for spurious wakeups.
- `ParallelExecutor`: weak fairness of the caller and of each thread, for what they do
  while they do not sleep; tasks end. No spurious return of a wait.

## 4. What is proved

Every safety invariant that a passing run checks is a theorem, and so is every
refinement. The proofs are for any number of threads (finitely many workers in
the rounds), contexts, actors, messages, slots, blocks and so on. Each proves an
invariant by induction over the steps, one step of the proof for each action,
and then that the property follows from it.

- **`SessionLifecycleProofs`**: `TypeCorrect`, `FlagsMatchOperations`,
  `NoIoAfterDestruction`, `ServedSessionsAreAlive`, `Refinement`. The invariant
  `IInv` adds to the properties: what a thread serves at each statement, who
  holds the lock, that only the accepting thread knows a new session, that after
  a `Close` that returned true neither Send nor Receive can be started
  (`CloseInv`: `shouldClose_` was set before the flags were read under all three
  mutexes, and every setter tests it under its own), and that a session with a
  Send or Receive is in the map. Only the last two make
  `IoNeverOutlivesSession` inductive: the erase comes many steps after the check
  it depends on.
- **`SessionReceiveProofs`**: `MessagesAreWholeAndInOrder`,
  `ReceiveIntoFreeSlots`, `ReceiveTypes`. The invariant has two parts. The first
  holds always: one worker at most has set the Receive flag and not yet given it
  to the kernel, the mutex has one owner, the TLS ring looks empty whenever a
  WSARecv is pending or about to start, and before a `FullReceive` it is empty: the
  unread slots are those from head to tail and of a completion whose tail is not
  yet stored (`UnreadIsOwned`). `ReceiveIntoFreeSlots` follows from the last two. The second holds until the events that
  `MailboxIsPrefix` excludes: the application ring holds, cell by cell, the
  client's stream from the header behind the last popped message up to what
  `SSL_read` has taken (`StreamInOrder`), one worker at most holds a peeked
  message, which is the next one and stays at its place until its pop, and the
  head that the owner of the mutex has loaded is the head or behind it. After
  bytes were lost (`RingFull`) nobody is left who would decrypt (`LossIsFinal`),
  so that the loss is never followed by a later cell.
- **`SessionSendProofs`**: `MessagesLeaveInOrder`, `PendingBytesAreStable`,
  `OneSendAtATime`, `SendTypes`. The messages are numbered through from the wire
  over ring and BIO to the queue, where the first `k` slots of the ring may
  already be on the wire: `k` is 0 unless one worker is about to advance the head
  by `k` (`StreamInOrder`). A worker that fills the ring has loaded a head that is
  at or behind the real one, so that what it takes for free is free, also while
  a WSASend is pending. `OneSendAtATime` needs no event excluded: the Send flag
  alone decides it.
- **`RingArithmeticProofs`**: the lemmas that both of them and the byte ring rest
  on. A write behind the tail keeps the content and adds the data to it,
  advancing the head drops a prefix, different offsets are different slots, a
  read returns what was written; and remainders, for streams counted modulo a
  number.
- **`MainServerRoundsProofs`**: `CountersNeverWrap`, `OneThreadPerActor`,
  `WorkersKeepPace`, `WakeupsAreNotLost`, `Refinement`. The core is a counting
  argument: while a round is open, `workingThreadCount_` is the number of the
  workers that still owe it their decrement, so the one that sees 1 is the last,
  and the main thread that sees its flag knows all workers wait for the next
  version.
- **`ActorMailboxProofs`**: `TypeCorrect`, `NoPushIntoDrainedVector`,
  `Refinement`. The invariant says that outside of the loop the moved-out part
  of the drained vector is empty, and that the owner of the mutex has read the
  present `pushIndex_`.
- **`AuthActorProofs`**: `TypeCorrect`, `InverseMaps`, `JobsInOrder`. The
  invariant adds that a finished login job with a matching password names an
  account, which `Tick` relies on without a test. The order of the jobs is inductive
  by itself: what moves is the head of one queue and becomes the end of the next.
- **`ServerPartsProofs`**, one section for each of the small components:
  - *SpscRingBuffer* (`PeekedBytesStay`). Behind the head lie the bytes produced
    and not consumed, in order; what the producer has stored lies behind the
    tail, in slots that the consumer does not look at; and the copy of a block
    that wraps has begun with the block's bytes.
  - *ParallelExecutor* (`ResultsStayExact`, `ExecutorForksAndJoins`). The chunks
    that threads have claimed are disjoint. An index of the call has been run, or
    lies in one thread's chunk, or above the shared index; a thread stops only
    when the shared index is past the last axis. The shared index is bounded by
    one chunk for each thread above the axes, so that it does not wrap under
    `ParallelAssumption`. `ForkJoin` follows step by step. Who sleeps and who is to
    be notified matters to liveness only: such a step changes none of the variables
    the invariant is about (`StepOfTheFlow`).
  - *EntityManager* (`EntitiesNameOneCreation`). The version of a node is the
    number of its creations modulo `Versions`, so that two creations with one
    version are at least `Versions` creations apart; below `IdCount` the masked id of
    a node is its index.
  - *GlobalObjects* (`GlobalMapsStayInAgreement`). Each pair of maps is one to
    one; the system that ends possessions is followed through its queue event by
    event.
  - *MpscMessageBodyPool* (`BodiesFitTheirBlocks`, `OneProducerIsSound`). With any
    number of producers no block changes its size class, so that a body fits its
    block even where the block gets two owners. With one producer every block is
    either owned or in exactly one list, where its place counts from the end; the
    `Next` that `Acquire` has read stays the right one until the exchange,
    since others only push, and a push changes the head.
  - *SparseList*, *SparseArray* (`ContainersStayExact`, `IterationsAreComplete`,
    `ListImplementsMap`, `ArrayImplementsMap`). The two intrusive lists are again
    nodes with places. `Erase` takes a node from the middle by its `Prev`, and the
    proof shows that only the `Prev` of nodes in use must be right: that of a free
    node may be stale as long as free nodes leave at the head, which is the case
    where an owner never calls `EmplaceAt`. For an owner that does, only the types
    of the lists are invariant, and with them everything that does not follow a
    link: the dense array and the dense indices are each other's inverse, also
    when the erased element is the last one, so that container is a map too. An
    iteration that erased nothing has met the watched index or has its place
    ahead. The run's `ImplementsIdMap` is the conjunction of the two refinements,
    which are two theorems.
  - *DbConnectionPool* (`PoolStaysExact`, `HoldersTypeCorrect`). That no waiter is
    forgotten compares two cardinalities and is inductive by itself: a connection
    that comes back notifies a thread that was not counted, one that is taken is
    taken by a thread that was. It needs only that connections are finitely many
    and that holders alone have one.

What is assumed. The proofs use the named `ASSUME`s of the modules, which the
runs evaluate, and nothing else. Most say that sizes are positive, that bounds
are numbers and that null values are no objects. Those that say something of the code:
`BodyAssumption`, that every size has a class (a larger one ends the process in
`GetMemoryBlockListHeadFor`); `ParallelAssumption`, that the axes and one chunk
for each thread stay below the wrap of the index; `InterfaceAssumption`, that the
owner of a `SparseList` does not use both ways to emplace, which holds of those in
the repository; and that `hardware_concurrency()` is not 0.

Functions that are recursive in the model (`HeaderOf`, `WithNode`, `Chain`) are
reasoned about with the least number that a statement fails for
(`LeastNumber`), since the library's induction theorems take an operator.

Only model-checked: all liveness properties (`ClosingSessionIsReported`,
`ExclusiveLockIsGranted`, `ArrivedMessageIsDispatched`, `PushedMessageIsSent`,
`EveryActorRunsForever`, `PushedMessageIsHandled`, `FinishedJobIsAnswered`,
`AcquireReturns`, `CallReturns`), because `ENABLED` and fairness are out of the
prover's reach, and the six properties that the code violates.

## 5. Plan

What could be added:

1. The links of a `SparseList` under `EmplaceAt`: which of them stay right, beyond
   their types.
2. The change of the associated actor in `SessionLifecycle`, when an actor uses it.

### Not modelled

- `ParallelForWorkerThreads`: its declaration names its two constraint
  parameters in the wrong order, so that no call of it compiles.
- `SpscRingBuffer::TryEnqueue` of types other than characters: where the ring wraps
  it goes through `tempEnqueueBuffer_`, which no constructor allocates.
- `FreeListPool`: nothing uses it; it is the free list of `IndexedUnmanagedList`
  without the rest. The destructors of the containers, of which that of
  `SparseArray` (lines 44-59) destroys blocks that were never constructed.
- `TryChangeAssociatedActor`, `ChangeAssociatedActor`: nothing calls them.
- Construction and shutdown of `MainServer` and `NetworkServer`: the models begin
  with everything registered. The only deletion of the server is
  `Main.cpp:42`, which the next line uses and under which `Run` goes on.
- A failed `AcceptEx`, which stops the process.
- The registry lookup by name: the table is constant once the server runs.
- ECS registration (tables filled by one thread), `Main.cpp`, the files that are
  one comment (`Stub.cpp`, `Executor.h`, `Channel.h`), the wire format (generated
  code), the SQL of the queries beyond what they return.
