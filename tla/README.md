# LiteForge: a TLA+ verification of the concurrent core and the network sessions

LiteForge is a game engine framework in C++ for Windows. Its libraries are stacked: `Core`
(containers, memory, threads, tasks), `Runtime` (promises, assets, networking, reflection),
`AbstractEngine` and `Engine` (graphics, world), `Service`, and the programs and tests in `Game`.
This project models the part every other library stands on and that tests reach least: the lock-free
queue, the task scheduler, promises, the locks, the pool allocator and the atomic smart pointers; and
the part where threads and packets meet: the sessions and the reliable messages of the network
drivers. All paths below are relative to `src/Code`.

## 1. Inventory

### The parts that are modelled

| part | source | state it keeps | operations | depends on |
|---|---|---|---|---|
| ConcurrentRingBuffer | `Core/Concurrent/ConcurrentRingBuffer.h` | slots (state word, data, serial), two ticket counters, size | TryPush, TryPop, Size | atomics |
| TaskScheduler, TaskWorker, TaskHandle | `Core/Concurrent/Task*.cpp` | a ring of tasks, a fence, running flags, worker threads | Initialize, RunTask, TaskHandle::Wait, the worker loop, UpdateSync, Shutdown | ring, ThreadFence |
| ThreadFence | `Core/Platform/ThreadFence.cpp` | a manual-reset event | Set, Signal (a pulse), Wait | Windows |
| Promise, AsyncImpl | `Runtime/Async` | the state of a promise, its task and fence; two buffers of queued promises, a drain thread | Execute, Queue, Run, Resolve, Reject, Wait, LazyWait, RunPromise, DrainQueue, Shutdown | TaskScheduler, ThreadFence |
| RWSpinLock | `Core/Platform/RWSpinLock.cpp` | global state, count of readers, a spin lock | AcquireRead, ReleaseRead, AcquireWrite, ReleaseWrite | SpinLock |
| RWLock | `Core/Platform/RWLock.cpp` | the same, a count of writers, a fence | the same four, TryAcquireRead, TryAcquireWrite | SpinLock, ThreadFence |
| MultiSpinLock | `Core/Platform/SpinLock.cpp` | owner, depth, an internal lock | Acquire, TryAcquire, TryAcquire(ms), Release | atomics |
| DynamicPoolHeap, PoolHeap | `Core/Memory` | a list of pools, garbage flags, counters; per pool a free list and a count | Allocate, Free, GCCollect, Release | RWSpinLock, SpinLock |
| AtomicSmartPointer | `Core/Memory/AtomicSmartPointer.h` | a node per object: strong count, weak count, pointer | copy, upgrade, drop, assignment of strong and weak pointers | atomics |
| Net client driver | `Runtime/Net/Client` | driver state, handshake data, heartbeat timer, lists and map of messages | Initialize, Update, Shutdown, Send, the handlers of packets | sockets, AtomicSmartPointer, SpinLock, RWSpinLock |
| Net server driver | `Runtime/Net/Server` | per session a state, handshake data and timers; lists and maps of sessions and messages | the same | the same |
| Net messages | `Runtime/Net` NetMessage, NetTransmit, NetRequest, NetEvent | the state, timer and retransmits of a message; a table of packets seen | SetState, NetTransmitBuffer::Update, callbacks | drivers |

They interact by calls and by shared words. A worker reads the ring's `mSize` without a lock to
decide whether to sleep; `TaskHandle::Wait` reaches into the ring's slots by index; `AsyncImpl`
hands promises to the scheduler and learns the handle afterwards; a promise's executor calls back
into `AsyncImpl`; the pool heap reads flags and counts that other threads change. Each network driver
has a thread that calls Update and a thread that receives; they share the sessions, the state of a
message and the message map, and the two drivers share only a network that loses, reorders and
copies packets. Sessions and messages are held by atomic smart pointers.

### What is hard about each part, and what makes it correct

- **ConcurrentRingBuffer**. Tickets wrap and collide, so any producer and consumer may meet in any
  slot. Correct: a reservation is exclusive, `mSize` is exact, no item is lost, duplicated or
  invented.
- **TaskScheduler**. A task may be reached by a worker, by a waiting client, by UpdateSync and by
  Shutdown; a slot may be reused under a handle; sleeping is decided by a separate test. Correct:
  every task runs exactly once, a handle runs only its own task, Shutdown returns with nothing left.
- **Promise**. The state is tested and stored in two steps by threads of four kinds. Correct: the
  executor and the callbacks run once, a wait ends and ends with the promise done, Shutdown leaves
  nothing behind.
- **RWSpinLock, RWLock**. The first reader locks for all, the last one unlocks; counting a writer
  and moving the fence are two steps. Correct: exclusion, exact counts, no reader stranded, writers
  first.
- **MultiSpinLock**. Owner and depth are two words. Correct: granted means owned, until the last
  release.
- **DynamicPoolHeap**. Flags and counts are tested long before they are used. Correct: a pool in use
  is never freed, an unused one can be, the limits hold.
- **AtomicSmartPointer**. The two counts are read one after the other to decide who frees what, and a
  convertible object counts in its own node. Correct: an owner finds the object alive, it is destroyed
  once, the node is freed once and under nobody, nothing leaks.
- **Sessions**. Both drivers retransmit while answers are under way, each shares the handshake data
  between its threads, and a hello may be taken for a new one. Correct: a session that is complete is
  the one its client has the keys of, a handshake ends, a lost session is swept, handshake data is not
  used once released.
- **Messages**. An acknowledgement changes the state of a message from another thread, at any point of
  UpdateMessages, late or twice. Correct: a message has one outcome, success is true, every
  acknowledgement finds its message, every acknowledged message ends.

### The parts that are not modelled

| part | why |
|---|---|
| `Runtime/Asset` manager, operations, cache | left of the plan; load states and operations that span threads, a block allocator |
| `Runtime/Async` AppThread, ThreadDispatcher | left of the plan; callbacks sent to named threads |
| `Runtime/Net` file transfer, controllers | requests and responses on top of the drivers' messages; they promise nothing that the messages below do not |
| `Core/Concurrent` Task\<T\>, IOCPQueue, TaskDeliveryThread | a wrapper of TaskHandle; a wrapper of the system's completion port; compiled out |
| `Core/Platform` threads, files, async I/O, `Core/Net` sockets | wrappers of system calls |
| `Core` strings, math, streams, reflection, crypto, containers | single-threaded data transformation, or calls into OpenSSL |
| `AbstractEngine`, `Engine`, `Service`, `Game` | graphics, input and the programs: driven by one application loop |
| `src/Public`, `src/Content`, `src/Docs`, `src/Tools` | vendored code, data, documents, binaries |

## 2. Plan

Most important first; the steps marked with a tick are done.

1. ✓ `ConcurrentRingBuffer` with its abstract `ConcurrentBag`; `TaskScheduler` over it.
2. ✓ `Promise` over an abstract scheduler.
3. ✓ `RWSpinLock` with its abstract `ReadersWriter`; `RWLock` over it; `MultiSpinLock`.
4. ✓ `DynamicPoolHeap` over an abstract writer lock.
5. ✓ Proofs for the ring, RWSpinLock and MultiSpinLock.
6. ✓ `AtomicSmartPointer`: one object and its node, strong and weak pointers of several threads, with
   proofs.
7. ✓ The network: `NetSession`, both drivers and their four threads from the hello to the sweep, and
   `NetMessages`, the reliable messages of either driver, with proofs. They are two modules because a
   message needs of the session only whether it is ready (`connected`).
8. ✓ Proofs for the scheduler (`AtMostOnce`, `NothingLost`, from an invariant that holds
   `SlotReservation` and `QueueSize`) and for RWLock, the two refinements included.
9. ✓ Proofs of every other safety property the runs check: `ReadyMeansFilled` and `ImplementsBag` of the
   ring, `ClosedMeansDone` and `HandleNamesTask` of the scheduler, the pool heap, Promise, and `NothingLeaks`.
10. `AssetOp` and `AssetMgr`: the states of an asset and the operations on it that wait for one
   another, over `Promise`; then the cache's block allocator as operators checked against a
   reference definition.
11. `AppThread` and `ThreadDispatcher`, and `ExecuteOn`, added to `Promise`.
12. Assignment of smart pointers between two objects; Shutdown of the network drivers.

Each run is one question; a disagreement that a changed configuration shows (section 5) has no run of
its own.

## 3. The modules

Every module has its variables named after the members of the class, `at` or `pc` for where a thread
is in an operation, and history variables where a property needs them (marked *history*). One action
is one access that another thread can observe. A spin, and the sleep between its attempts, is an
action that is not enabled yet; that loses no behaviour, because a failed attempt changes nothing.

### ConcurrentRingBuffer (abstract: ConcurrentBag)

`AllocatePushSlot`, `ReservePush`, `TransferPush`, `ReleasePush` are TryPush; the four `Pop` actions
are TryPop. `Index` is the conversion of the signed 32-bit ticket to `SizeT` before the remainder
(so the sequence of slots jumps when the counter wraps unless the size divides 2^64), `NextSerial`
the increment that skips the invalid serial. Data, serial and result are touched only under a
reservation, so they move in one step with `mSize`, the one word of the transfer that is read without
it. Resize runs before any thread does and is part of Init.

`ConcurrentBag` is what callers are promised: a bounded bag whose operations take effect at one
instant between call and return, and may fail at any time ("the allocated slot is in use"). It is a set
of places that no call names, so a caller sees only how often an item is in it. A push takes effect
at its releasing compare-exchange, a pop at its reserving one.

### TaskScheduler

Extends the ring; the items are tasks, and `Spawns` says which task a callback submits, so that
RunTask is also entered from inside a callback that a worker, a waiting client or Shutdown runs.
`RunTask`, `RunTaskRetry`, `RunTaskSignal` are RunTask; `WaitReserve`, `WaitInvoke`, `WaitRelease`
TaskHandle::Wait; the `Worker` actions BackgroundUpdate and Update; the `Shutdown` actions Shutdown;
`UpdateSync`, `UpdateSyncInvoke` the synchronous mode. `open` is the state of the manual-reset event;
`Signal` is PulseEvent, which releases the threads that wait and leaves the event nonsignaled.

Abstractions: the workers' running flags are cleared in one step, since each is read by its own
worker, which then only ends; RunTask is not in progress when Shutdown starts (the header gives
it no meaning), though TaskHandle::Wait may be; a handle is waited for once, by the thread that got it,
as Task and Promise do. Two threads that wait for copies of one handle are left out.

### Promise

`Execute` and `Queue` are the start of a promise, `RunPromise...` AsyncImpl::RunPromise with
SetState's test and store as separate steps, `RunLoad`, `RunCheck`, `RunStore` Promise::Run,
`Executor` the user's executor with the Resolve it calls, `ResolveCheck` and `ResolveStore` SetState's
fence and store. `LoadPending` to `Leave` are Wait and LazyWait. `DrainSwap` and `DrainNext` are the
drain thread and the `Shutdown` actions AsyncImpl::Shutdown. `mTask` is whether the promise has learnt
its handle. The scheduler is a set of tasks each of which is run once, which is what `TaskScheduler`
is checked to provide. As a worker that misses a wakeup may sleep on (section 5), no fairness is assumed of
`WorkerTake`: a task may stay in the set until TaskHandle::Wait or Shutdown runs it.

Abstractions: an executor resolves before it returns (Reject has the same steps); users are outside
Wait when Shutdown starts, but may call it later; `Waits` bounds who waits for what; the 100 ms wait of the drain thread ends at any time; the two buffers are sequences
under `mLock`, so that each push and swap is a step; Shutdown's loop visits the promises that
are in `mBuffer` when it starts (an insertion during that loop would invalidate its iterator in C++).
A promise's task handle is written while another thread may test it; a torn read of it is not modelled.

### RWSpinLock (abstract: ReadersWriter) and RWLock

Actions are named for what they touch: `LockReaders`/`UnlockReaders` are `mReaderLock`,
`CountReader`/`UncountReader` the count, `LockForReaders`, `LockForWriter` and their counterparts the
compare-exchanges on `mGlobal`. RWLock extends RWSpinLock, replaces the entry points (`WaitFirst`,
`TryAcquireRead`, `AnnounceWrite`, `TryAcquireWrite`), and adds `FenceWait` and `FenceTimeout` (the
1 ms wait and its loop condition), `CountWriter`, `CloseFence`, `UncountWriter`, `OpenFence`.

### MultiSpinLock

`AcquireInternal`, `Claim`, `CountRef`, `Enter` or `LeaveUnowned` are the body of the three
acquisitions; `call` says which one a thread is in. `ReleaseInternal`, `Uncount`, `Disown`, `Exit` are
Release. `held` (*history*) is what the thread's owner believes it has.

### DynamicPoolHeap

`list` is the list of nodes; `avail`, `mAllocations` and `mLock` are the pools, the free list as the
number of objects on it. `PoolPop` and `PoolCount` are the two steps of PoolHeap::Allocate under its
lock (the count is read without it), `PoolPush` and `PoolUncount` those of Free. `Advance` walks the
list in Allocate; `PushLock` to `PushHeapFails` are PushHeap; `CheckEmpty`, `MarkGarbage`, `Marked`
the end of Free, where the compare-exchange and the increment are two steps. GCCollect holds
`mGCLock` as a writer, so it is one step and excludes all others, which is what `ReadersWriter`
promises; what stays in the list stays in its order (`Kept`). A failed assertion takes its thread to a place that stops everything. The lookup of the
owner of a freed pointer is the node itself; freeing a foreign pointer is left out.

### AtomicSmartPointer

One object and its node; a step is one access to the node. `CopyStrong`, `CopyWeak` and `Upgrade` are the
copying constructors, `DropStrong` to `CheckNode` the drop of a strong pointer (the decrement, the
weak count raised around the destructor, DestroyPointer, the test of both counts), `DropWeak` and
`CheckStrong` that of a weak one. `SelfWeak` is whether the object is convertible, that is, holds a weak
pointer to itself, which `DestroyObject` drops. `raced` and `resurrected` (*history*) say that the
last weak pointer was dropped beside the last strong one, and that a weak pointer was upgraded when no
strong one was left. After a double destruction or a double free the program is undefined, and the
model stops (`Defined`).

Abstractions: a thread owns at most one pointer of each kind; a copy may end up with another thread, which is
how pointers travel between threads here. CheckNode reads both counts in one step, since with both at
zero nobody is left to change them. Assignment and the shared null node are left out (one object).

### NetMessages

The reliable messages of one connection, with the client's driver or the server's as the sender: their
UpdateMessages is the same code twice, and `server` chooses where they differ. `Send` is the application;
`AcceptNew` to `Sweep` are UpdateMessages: serialization, transmission, the callback and the two
steps around it (`UpdateMessageFinal`, `FinalCallback`, `FinalGarbage`), registration in the map, mark
and sweep. `TransmitFailed` is apart from the transmission because the acknowledgement may be handled in
between. `ProcessMessage` is the peer, with its NetTransmitBuffer; `ProcessMessageAck` the receiving
thread of the sender. `succeeded`, `failed`, `received`, `delivered` and `late` are *history*; `late` counts
the acknowledgements that found a message after SetState(Garbage) and before the mark.

The network is two sets of datagrams: one that is never taken is lost, any may be taken first, and a
taken one may stay, as often as `Duplicates` allows. `Close` is the end of the session at any moment;
`Expire` a timer that runs out. The keys, the layout of packets and the fire-and-forget messages,
which have no state, are left out.

### NetSession

`client` is the client's driver with a program counter for each of its two threads, `session` the
server's connections, `update` the server's Update. The client's Update is `UpdateInitNetwork` to
`HeartbeatSent`, its receiving thread `OnClientHelloAck` to `OnServerHeartbeat`; the server's receiving thread is
`OnClientHello`, `OnServerHelloAck`, `OnHeartbeat`, its Update `AcceptNew` to `Sweep`. What is a step of its
own is what a lock of the code separates: `UpdateWaitServerHello` reads the timer and `ResendClientHello`
continues under `mHandshakeLock`; `UpdateClientReady` sends a heartbeat and `HeartbeatSent` notes it;
`UpdateServerHello` sends and `WaitHandshake` notes it; `UpdateServerReady` tests and `RetransmitServerHello`
continues under the session's lock. `data` is the count of retransmits in the handshake data, `None` once
that is released; `early` (*history*) are the sessions acknowledged before `WaitHandshake`, and `crashed` that
the server has used handshake data that was released, where the model stops.

Timers are in ticks of one clock, and only their order counts. Any number of steps fit between two ticks,
unless `Prompt`. A packet that is never taken is lost; `Dropped` names types whose first packet surely is.
`Failures` are sends and keys that fail and hellos that cannot be read: the client's driver fails over a
ServerHello, the server has acknowledged a ClientHello and makes no session of it. `accepted` counts those too.

Abstractions: one client in full, and the others only as what they do to it, namely take the slot of
its hello in the server's table (`pushedOut`; every client numbers its hello 1, and the table has one
slot for that number). A handler of the server is one step, since it works on one session under that session's lock.
An acknowledgement that is not signed with the session's key is dropped by its receiver and is not put
in the network. The passes of Update over the sessions are taken in any order, as sessions share
nothing. The test at the end of Update is joined to the step before it, which has read the same timer. Shutdown is
not an action: the client may stop at any time as it is, which is what the server sees of it.

## 4. The runs

| run | question | bounds | states |
|---|---|---|---|
| `ring` | are reservations exclusive, is the size exact, is it a bag? | 3 threads, 2 items, size 2, 2-bit tickets, 3 serials | 143 k |
| `scheduler_safety` | does every task run at most once and stay somewhere until then? | 2 workers, 1 client, 3 tasks of which one is submitted by a callback, ring of 2, both modes | 983 k |
| `scheduler_shutdown` | does Shutdown return, with everything run? | 2 workers, 1 client, 2 tasks, both modes, fair | 204 k |
| `promise` | do promises run once, and do waits and Shutdown keep their word? | 2 users, 1 worker, 1 executed and 1 queued promise, 4 kinds of wait, fair but for the workers | 325 k |
| `rwlock` | is RWLock a readers/writer lock, and are readers released? | 2 readers, 2 writers, fair | 10 k |
| `multispinlock` | is ownership exclusive and the depth exact? | 3 threads, depth 2 | 500 |
| `pool_heap` | are pools freed only when unused, and limits kept? | 2 threads, up to 3 pools of 2 objects | 528 k |
| `smart_pointer` | do owners find the object alive, and is everything released once? | 3 threads, a convertible object | 5 k |
| `net_messages` | has a message one true outcome, and does an acknowledged one end? | 2 messages, 2 transmissions, 1 copy, both drivers, fair | 1.11 M |
| `net_session` | is a complete session the client's own, do handshakes and lost sessions end? | 2 transmissions of each hello, 1 eviction, timers 0, 1, 2, failures, fair | 954 k |
| `scheduler_lost_wakeup` | *finding* | 1 worker, 1 client, 2 tasks, fair | |
| `net_session_lost_hello` | *finding* | as `net_session`; only the first ServerHello is lost, time waits for what is due | |

Why the bounds suffice. A ring of two slots with tickets modulo 4 makes every pair of operations meet,
wraps the counters within three operations, and lets one thread reserve while another draws the same
slot and a third has passed; the widths are constants, and the proofs hold for all of them. With three
serials (0 and 1 are used, 2 is the invalid one) the serial wraps as well. In the scheduler's runs
it does not wrap within a behaviour (modulus 12), since a 32-bit serial that came round would name a
wrong task; `HandleNamesTask` says so. A ring of two with three tasks is full while a callback submits, so RunTask retries. Two
readers and two writers are the least in which a departing writer, an arriving one, a last and a first
reader overlap. Three pools of two objects have a pool that is full, one partly used and one empty at once.
Tasks, promises and messages are used once, so the histories are bounded without a guard. Three threads
are an owner, one that upgrades and one that drops, all inside the node at once. Two messages are swept
and settled in one pass in different states; two transmissions and one copy give an
acknowledgement that comes twice, late, or after a failure. With two transmissions a hello is sent
again, and given up; one eviction lets it make a second session beside the first. Of the timers
(heartbeat, acknowledgement, connection) the code requires this order and uses nothing else. The counts
of retransmissions, evictions and copies are constants, and the proofs hold for all of them.
`CHECK_DEADLOCK FALSE` is set where the program ends: after Shutdown (scheduler, promise), at a
failed assertion (pool heap), when every pointer is dropped (smart pointer), when all messages are settled
(messages) and at the null dereference (session). The ring and the locks are checked for deadlock.

A type invariant that no run lists is part of an inductive invariant that section 6 proves.

Fairness. Each thread's steps are weakly fair, one fairness condition per thread: the operating system
runs every thread. What users choose to do (submit, wait, start a write) is not fair, except that in
`scheduler_shutdown` the owner calls Shutdown, as the destructor asserts. In `promise` neither that call nor
a worker's taking of a task is fair, because a wakeup can be lost (section 5): `WaitTerminates` and
`StartedIsDone` hold if no worker ever wakes up. No strong
fairness is assumed of any lock; where a property needs it, it is not claimed. In `net_messages` the
application calls Update and time passes; in `net_session` both applications do, and the client's handler of
the ServerHello returns once entered. Of the network nothing is assumed: every liveness property
of these two runs holds when all packets are lost.

What the passing runs exclude, because the code does not provide it: callbacks that submit tasks
(`scheduler_shutdown`) and the immediate `TryAcquire()` (`multispinlock`). In `promise` a queued
promise is waited for, but `RunsOnce` and `WaitReturnsDone` speak of the other promises only (all but
`Shared`). A started promise is eventually done or its task is in the scheduler's queue, where it may stay
until Shutdown; a LazyWait for it may sleep that long, and every other call returns. In `smart_pointer` the three properties about use, destruction and release except the two races
that `raced` and `resurrected` name, and release after the upgrade that `resurrected` names;
`OutcomeOnce` allows one OnSuccess more for each acknowledgement that `late` counts, and
`ReleasedMeansAcknowledged` says what goes wrong after an acknowledgement in `early`. `AcknowledgedEnds` excepts
a client that has lost its connection, which no longer updates its messages. Each is a disagreement
described next.

## 5. Disagreements between the code and its documentation

With a run that shows each:

1. **A wakeup can be lost** (`scheduler_lost_wakeup`). A worker tests the size and then waits; RunTask
   pulses the event. A pulse between the two wakes nobody, and the task waits for the next RunTask
   (`TaskWorker.cpp:137`; "tasks run are guaranteed to be completed", `TaskScheduler.h:82`). A promise
   executed then stays queued as well, and a LazyWait for it sleeps until something else is submitted.
2. **A lost ServerHello ends the handshake** (`net_session_lost_hello`). The acknowledgement of the hello
   sets the client's retransmits to 0, which UpdateWaitServerHello reads as timed out; the server sends
   again only after the same delay, which starts later (`NetSecureClientDriver.cpp:472`; "Test we can make a
   connection if the client drops the SERVER_HELLO", `NetDriverConnectionTests.cpp:145`, a test
   that drops the acknowledgement as well).

Without a run, reproduced by changing a configuration:

- `QueuedRunsOnce` for `RunsOnce` in `Promise.cfg`: Wait and LazyWait run a promise that has no task while
  the drain thread submits it, and its callbacks run twice (`Runtime/Async/Promise.cpp:146`).
- `Chained <- OneChain`, `Deferred = {p1, p3}`, `Waits <- NoWaits` in `Promise.cfg`: a promise that an
  executor queues during Shutdown is never run ("Guarantee we execute our promises.",
  `AsyncImpl.cpp:80`); `ClosedMeansDone` is violated.
- `WaitReturnsDone` without its exception for `Shared` promises, in `Promise.cfg`: Wait and LazyWait
  may return while a queued promise is still pending, when the drain thread moves it from queued to
  pending between the two loads of `IsPending() || IsQueued()` (`Runtime/Async/Promise.cpp:137` and `:152`).
- `WriterEnters` for `ReaderEnters` in `RWLock.cfg`: one writer leaves while another arrives, the fence
  ends open, and later readers keep the writer out (`RWLock.h:30`, "gives writers priority").
- `RecycledHeapServes` in `PoolHeap.cfg` with three threads, `MaxHeaps = 2` and `ObjectCount = 1`: the heap
  chosen for recycling is empty when it is used, and the assertion of PushHeap fails
  (`DynamicPoolHeap.cpp:320`).
- `Spawns <- OneSpawns`, `Items {k1, k3}`, `Roots {k1}` in `SchedulerShutdown.cfg`: a spilled task
  whose callback submits another leaves it in the queue, and the final assertion of Shutdown
  (`TaskScheduler.cpp:124`) fails; `ClosedMeansDone` and `EveryTaskRuns` are violated.
- `"try"` in `Calls` of `MultiSpinLockSafety.cfg`: TryAcquire() returns true whether or not it got the
  lock (`SpinLock.cpp:245`), against "returns true if the current thread has ownership"
  (`SpinLock.h`); `GrantedMeansOwned` is violated.
- `MessageEnds` in `NetMessages.cfg`: a message whose retransmissions are used up stays in Transmit
  for ever, although its life ends when it "times out trying to transmit" (`NetMessage.h:35`; the
  test for a retransmission at `NetSecureClientDriver.cpp:968` and `NetSecureServerDriver.cpp:1034` is never true again).
- `SuccessMeansDelivered` in `NetMessages.cfg`: nothing resizes the transmit buffers of a connection, so
  every message is a duplicate to the server, acknowledged and not given to its controller
  (`NetSecureServerConnection.h:158`).
- `HeardOnce` for `OutcomeOnce` in `NetMessages.cfg`: OnSuccess is called twice when a second acknowledgement comes
  between SetState(Garbage) and the mark (`NetSecureClientDriver.cpp:676`).
- `~crashed` as an invariant in `NetSession.cfg`: an acknowledgement handled before `WaitHandshake` releases the
  ServerHello, which UpdateServerReady then retransmits, a null dereference (`NetSecureServerConnection.cpp:264`).
- `DestroyedOnce` and `StrongMeansAlive` without `resurrected`, `NodeFreedOnce` without `raced`, in
  `SmartPointer.cfg`: a weak pointer that is upgraded during the last drop brings a dying object back
  (`AtomicSmartPointer.h:382`), and the last weak and the last strong drop may both free the node (`:170`).

Seen while modelling and not reproduced by a run: a synchronous scheduler whose queue is full spins in
RunTask for ever (`TaskScheduler.cpp:137`); TryAcquire(milliseconds) never decrements its spin counter
and so never times out (`SpinLock.cpp:261`); `mGarbageHeapCount` drifts up when a mark falls between the
two compare-exchanges of MarkRecycle (`DynamicPoolHeap.cpp:50`), towards the assertion at line 202;
that assertion contains the increment itself, which is lost in a build that compiles `Assert` to nothing
(`Core/Common/Assert.h`); moving a DynamicPoolHeap does not carry over `mMaxHeaps`; a heartbeat that
is lost is not sent again (`NetSecureClientDriver.cpp:814` waits for its answer), and the timer is
refreshed by the answers to heartbeats only, although the header says by any communication
(`NetSecureClientDriver.h`), so one lost heartbeat ends an idle session; the server's sweep asserts that a
session has one owner (`NetSecureServerDriver.cpp:799`) while a handler may hold another.

## 6. Proofs

Checked by TLAPS for every value of the constants that satisfies the modules' assumptions.

**TaskSchedulerProofs, the ring.** `RingTypeCorrect`: the one hard fact is that `Index` is in range although
the ticket is signed; it follows from the remainder of a non-negative number, since a negative
ticket becomes `WordModulus - IdModulus + id`. `SlotOwnership`: `Ownership` is inductive given the types,
because every step of an owner is guarded by its own id in the state word and every reservation finds
a ready state. `SizeIsExact`: `mSize` is compared with the cardinality of `Counted`, a set defined
from states and places; each action adds one slot to it, removes one, or leaves it, which needs
`Ownership` (two threads that count the same slot would be one element). The bound follows because
`Counted` is a subset of the slots. `ReadySlots`: that a ready slot is full or empty is inductive only with
what a reserved slot and its owner hold at each step between the two compare-exchanges (`DataInv`).
`RingImplementation`: each step of the ring maps to Invoke, Put, Take or Return of `ConcurrentBag`, or to a
stutter; Take needs `ReadySlots` (what is reserved is an item), and that the transfer does not change what
the pop has taken needs that its owner is the only one in the slot.

**RWLockProofs, the spin lock.** The inductive invariant `IInv` joins the types, `MutualExclusion` (one writer,
and no reader beside it), `ReadersCounted` (the count is the number of threads between their
increment and their decrement, and only the owner of `mReaderLock` is inside it), `GlobalNamesHolder` (what `mGlobal` says of who holds it) and
`LastReaderAlone` (nobody is counted while the last reader is between its decrement and its release
of `mGlobal`). Mutual exclusion alone is not inductive: that a writer finds `mGlobal` unlocked says
nothing about the readers unless `mGlobal` is tied to the threads that share it. From it follow
`Exclusion`, `ReaderCountExact`, `ReleasesMatch`, and `Implementation`: each step maps to StartRead,
EndRead, StartWrite, EndWrite or a stutter.

**RWLockProofs, the lock.** The count of writers is exact by induction over RWLock's own steps. The rest is
inherited: mapping the readers that are still before RWSpinLock's first step to `idle`, every step of RWLock
is one of RWSpinLock or changes none of its variables (`LockImplementsSpinLock`), so what is
proved of RWSpinLock's behaviours holds of RWLock's, and the refinement of ReadersWriter composes.

**TaskSchedulerProofs, the scheduler.** `SchedulerInv` joins the types with seven facts: `SlotReservation` (a reserved slot
has one owner, a consumer, a producer or a waiting client), `Steps` (where a thread is in the
scheduler bounds where it is in the ring, as RunTask's retry and the callbacks enter it from several places), `Vacant`
(nothing is overwritten), `Accounted` (a submitted task is in exactly one slot, push, pop or place of
the spilled list and has not run, or is in none and has run once), `Cleared` (the task still visible in a slot
that TaskHandle::Wait is about to clear has run), `SpawnedOnce` and `QueueSize`. `AtMostOnce` alone is not inductive: that a task popped
has not run needs that it was nowhere else. The assumption on tasks is that no two callbacks submit the same task and
that what a callback submits is submitted by nobody else.

`ShutdownCompletes` assumes that no callback submits a task, because with such callbacks it is false
(section 5). `ClosingKept` says how far Shutdown has come: once the workers are joined all have ended and only the
main thread has a popped task, once the queue was drained `mSize` is zero, and at the end the spilled list is empty.
`HandlesNameTheirTasks` assumes fewer tasks than half the serials, because a serial that comes round names
a wrong task. A push and a pop each move the serial of a slot on by one, and each task is pushed once; `Serials`
bounds every serial by twice the number of tasks pushed, so it never wraps, and ties the serial of a
handle to the one task that was in the slot under it.

**DynamicPoolHeapProofs.** `PoolInv` says of each pool that its objects are on the free list, held, or on the way
between the two with a thread that is inside (`avail` plus those is `ObjectCount`, `mAllocations` is the ones
that are counted), of the list that it has no node twice and that `mHeapCount` is its length, and of every thread
inside that the nodes it refers to are in the list (`Located`). GCCollect frees nothing in use because a pool without allocations has no object out when nobody is
inside. The limit of `mMaxHeaps` needs that only the owner of `mPushHeapLock` grows the list (`PushOwned`). The
mark is the subtle part: an unmarked pool without allocations has a thread that is about to test or mark it
(`Remembered`), and a pool loses its mark only while the thread that recycles it holds an object of it.
`GarbageCounted` compares `mGarbageHeapCount` with the marks, those still to be counted and the recyclings
still to be uncounted.

**MultiSpinLockProofs.** All four theorems assume that `"try"` is not among `Calls`, because with it
they are false. The inductive invariant says what owner and depth are in every place in which they
disagree for a moment.

**AtomicSmartPointerProofs.** `StrongCounted` makes the last decrement the one that leaves no owner.
`LastDropAlone` carries the rest: while the node points at the object a thread inside a last drop is
alone there and nobody owns a strong pointer; once it does not, only the thread that cleared it reaches
the destructor. For the node, `WeakCounted` counts the weak pointers, the brackets of last drops and the
object's own, and `FreesAlone` says that whoever is about to free it is the last one in it.
`NothingIsLeaked` needs the converse: while the object lives or the node is there, somebody has a pointer or
is in the drop that will see to it (`NotForgotten`), even if two drops read each other's count.

**NetMessagesProofs.** `Settled` is the heart: a message with one callback more than its late acknowledgements
account for is between the callback and SetState(Garbage), is Garbage, or has left the list. From none of
these is a callback made again, unless an acknowledgement undoes Garbage before the mark, and that one
is counted. `Unfailing` adds that OnFailed is never among the repeated ones: once it was called the message can
only be set to Success, and no transmission that could fail is under way. So `OneOutcome` bounds the
callbacks of every message, also of those acknowledged late. `Evidence` ties success to an
acknowledgement and that to the peer; `Mapped` and `Lists` tie the map to the lists through registration and sweep.

**NetSessionProofs.** `Signed`: what only the owner of a session's keys can send comes from the client that
has taken them, and it never takes a second session's; so a session that is told its handshake is
complete is the client's. `Kept`: as long as no acknowledgement came early, a session that waits has its
handshake data, because OnHeartbeatTick ends the wait and releases the data together.

**PromiseProofs.** `RunsOnce` says nothing of where a promise is, so it is not inductive. `Sound` joins the
types with `Stations` (where each kind of thread may be, and where it returns to, as Run is entered from the
worker, from Wait, from the drain thread and from Shutdown) and `Stages` (what Shutdown has done by each of its
steps). `OneRun` adds that the right to run a promise which nobody waits for while it is queued is held once
(`HeldOnce`: by its task, by one entry of one list, or by one thread), and that where the holder is says what
`mState` is and how often the executor and the callbacks have run (`Progress`). From these follow
`RunsOnceHolds` and `WaitMeansDone`: a wait returns only when it has read a state that such a promise does
not leave. `ShutdownExecutesAll` needs the reverse, that a promise is not dropped: a queued one is in a list or
being started, a pending one is a task or somebody runs it (`NotDropped`), and each step of Shutdown leaves
a list empty that nobody fills again (`Emptied`). It assumes that no executor queues a promise, because with
one that does it is false (section 5).

Every safety property that a passing run checks, the three refinements included, is stated by one of these
theorems. The assumptions they add to the modules' own are named above: no immediate `TryAcquire()`
(MultiSpinLock), no tasks submitted by callbacks and no promises queued by executors (the two Shutdowns),
and fewer tasks than half the serials (handles). The exceptions inside the properties (section 4) stay.

Only model-checked: the liveness properties, which are outside the prover's reach: `ShutdownReturns` and
`EveryTaskRuns` of the scheduler, `WaitTerminates` and `StartedIsDone` of Promise, `ReaderEnters` of RWLock,
`AcknowledgedEnds` of the messages, `HandshakeEnds` and `SessionsEnd` of the sessions.
