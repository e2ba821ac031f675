# A TLA+ development for xfsfree

xfsfree is a free XFS/LFS manager for Linux: a shared library (`LFSadmin`) that
applications link against to open financial devices through service providers.
It keeps the sessions of every process of the machine in one block of shared
memory, hands out buffers, and carries messages over a ring buffer in System V
shared memory. This directory holds the specifications of its core, the TLC
configurations that check them, and the proofs that TLAPS checks.

## 1. Inventory

| Component | State | Operations | Correct when |
|---|---|---|---|
| Session manager, `LFSadmin/LFSadmin.cpp` | `ShMemLayout` in shared memory: `pidTable`, per process `hServices[]` (next request id, `Library*`) and `handles[]` | `LFSStartUp`, `LFSCleanUp`, `LFSCreateAppHandle`, `LFSDestroyAppHandle`, `LFSAsync*`, `LFSCancelAsyncRequest` | sessions of different processes do not disturb each other; ids and handles are not given out twice; no process calls through another's pointer |
| Buffer manager, same file | `Context::allocMap` of the process, the C heap | `LFMAllocateBuffer`, `LFMAllocateMore`, `LFMFreeBuffer`, `LFSFreeResult` | each block is in one buffer, freed once, with its root |
| Message queue, `msgqueue/MessageQueue.h`, with `Semaphore.h` | ring (`head`, `tail`, `data`), four semaphores, a thread id word beside each | `Write`, `Read`, `Clear`, `SetMode`, `Wait`, `Post` | FIFO, one writer and one reader at a time, no lost wake-up, recovery from a thread that dies inside |
| Shared segments, `msgqueue/SharedMemory.h`, and the constructor of the queue | the System V segments | create, attach, clear, check the size | all processes that attach agree on the ring |
| Synchronous calls, `LFSadmin.cpp` with `sys/msgwnd.cpp` | a `MsgWnd` per call | `LFSOpen`, `LFSClose`, `LFSExecute`, ... | a call returns when its request is completed (it does not: section 2) |
| Callbacks, `LFSadmin.cpp` | `callbackMap` of the process | `LFMRegCallBack`, `LFMUnRegCallBack`, `LFMPostMessage` | the function registered for a name gets its events, each once |
| Timers, `LFSadmin.cpp` | `timers[]` in shared memory, kernel timers, `TimerParam`s | `LFMSetTimer`, `LFMKillTimer`, `timerProc` | a timer delivers its own context under its own number; slots of killed timers are used again (they are not) |
| `lfs::Allocator`, `lfs/allocator.*` | source, hint, head block, bytes handed out | `create`, `createArray`, `allocate` | pieces inside their blocks and apart, one root to free |
| Versions, `lfs/version.*`, `util/operators.hpp` | none | constructors, `value`, comparisons, `contains` | the wire format loses nothing, one total order |
| `Context`, `LFSadmin.cpp` with `sys/shmem.*` | `_ctx` of each process, the shared memory object `LFS_MANAGER` and its mutex | `initializeContext`, `access` | one `Context` per process, one object for all |
| Owning classes: `UniquePtr`, `Handle`, `MethodScope` | a pointer, handle or function | construct, move, assign, destroy | nothing is given back twice or lost |
| Registry, `lfs/registry.*` | a key handle; the values are kept by the XFS manager | `value`, `setValue`, `removeValue`, `removeKey` | `value` returns what was there |
| Logging, `inisetting`, exceptions, other utilities | none that others rely on | I/O and language helpers | not modelled |

How they interact. Every `LFS*` function first runs `CHECK_IF_STARTED` or a
locked section of its own on the shared tables, under the one cross-process
mutex `LFS_MANAGER_MUTEX`; then, without the mutex, it calls the provider
through a `Library*` taken from the tables. Providers answer with
`LFMPostMessage`, which runs the callback in a detached thread. The synchronous
functions wrap the asynchronous ones: `MsgWnd` is to read the answers from the
message queue, but in this build nothing writes there (`LFMPostMessage` has its
`Write` under `#if 0`). The queue is the only component with semaphores of its own; its
constructor is a critical section over yet another `CSemaphore`. `Allocator`
builds results on the buffer functions.

What is hard here:

- *Shared state that outlives its users.* Table entries, `Library*` values,
  semaphores, thread id words and segments stay behind when a process dies.
- *Interleaving.* Threads of several processes run between the locked section
  and the provider call, and between any two steps of the queue.
- *Recovery by guessing.* `CSemaphore::Wait` takes a semaphore over when the
  thread named in a word beside it is gone; the two are not written atomically.
- *State without a lock.* `callbackMap` is written and searched by any thread,
  and a detached thread reads the name of its object from the caller's buffer.
- *Limits.* `hServices` overruns into `handles` when it is full, service numbers and
  handles index the tables unchecked, `reqId` counts on, `ULONG` sums wrap, the ring
  keeps one slot free.
- *Partial failure.* Opens that fail half way, waits that are interrupted,
  `malloc` that returns null, exceptions in the middle of an array.

`PROJECT.json` lists these hazards line by line with the properties that would
catch them.

## 2. Modules

| Module | Models | Checked by | Proved in |
|---|---|---|---|
| `BufferTrees` | what the buffer functions promise (abstract) | | |
| `Buffers` | `allocMap` and the heap | `MCSequences`, `MCSequences.cfg` | `BuffersProofs` |
| `Manager` | the session tables and the functions on them | `MCManager`, `ManagerServices.cfg`, `ManagerSessions.cfg` | `ManagerProofs` |
| `Contexts` | `initializeContext` and the shared memory object | `MCRaces`, `MCRaces.cfg` | `RacesProofs` |
| `Callbacks` | `callbackMap` and the delivery of events | `MCCallbacks`, `Callbacks.cfg` | `CallbacksProofs` |
| `SynchCalls` | the synchronous functions from end to end | `MCRaces` | `RacesProofs` |
| `BoundedQueue` | what the message queue promises (abstract) | | |
| `MessageQueue` | `CMessageQueue` over `CSemaphore` | `MCMessageQueue`, `QueueCrash.cfg`, `QueueLive.cfg`, `QueueAsync.cfg`, `QueueTakeover.cfg`, `QueueCleared.cfg` | `MessageQueueProofs` |
| `QueueOpen` | the constructor of `CMessageQueue`, `CSharedMemory` | `MCQueueOpen`, `QueueOpen.cfg` | `QueueOpenProofs` |
| `Allocator` | `lfs::Allocator` | `MCSequences` | `LibraryProofs` |
| `Timers` | the timers and the manager mutex | `MCTimers`, `Timers.cfg` | `TimersProofs` |
| `Version` | `Version`, `VersionRange` | `MCSequences` | `LibraryProofs` |
| `Ownership` | `UniquePtr`, `Handle`, `MethodScope` | `MCSequences` | `LibraryProofs` |
| `Registry` | `XFS::Registry::Key` | `MCRaces` | `RacesProofs` |

Seven small components share no state with each other, so they are checked in two
runs. `MCSequences` has those whose operations are not interleaved with anything
(`Buffers`, `Allocator`, `Ownership`, `Version`), `MCRaces` those in which others act
between the steps of a function (`Contexts`, `SynchCalls`, `Registry`). In every
behaviour of such a run one component is at work (`part`) and the others stay in an
initial state, so the reachable states of the components add up. Every module keeps a
specification of its own (`BuffersSpec`, `ContextsSpec`, ...), which is what the
proofs are about. `LibraryProofs` has the proofs about the classes of the `lfs`
library, `RacesProofs` those about the components of `MCRaces`.

### Buffers

`allocMap` maps each root address to the set of addresses chained to it; `heap`
and `foreign` are the live blocks of the manager and of the rest of the process.
Callers may pass any address, also a stale one, and `malloc` may return any
address that is not live, so freed addresses come back. The three functions are
one action each, with their early returns. `malloc` that fails leads to
`memset(NULL, ...)` in `LFMAllocateBuffer`, before the check of the pointer:
the process dies (`crashed`). `badFree` notes a `free` of a block that is not live.

`ImplementsTrees` is the refinement of `BufferTrees` with the mapping `TreeOf`
(each live block to the root whose chain holds it).

### Manager

A *process* is one incarnation; `pidOf` is what `getpid()` returns, and the
kernel gives a pid out again after its process has died. `pidTable`, `reqId`,
`spLib` and `handles` are the tables. Every locked section is one action, and
`CallProvider` is the `lib->call` that follows it; `calls` holds the ones in
between. A `Library` is named after the process in whose memory it lives. A
call through another process's `Library`, or through a pointer made of other bytes
(`Wild`), may end the caller.

`LFSAsyncOpen` has four outcomes: no free entry, the library does not load, it
loads, and the overrun. When all entries are in use `std::find_if` returns the
end of `hServices`, and the open writes `reqId` and `spLib` over the first
handles of the entry (`OverwrittenHandles`). It gives the caller the handle
`NServices + 1`.

Nothing compares `usService` or an application handle with the size of its table
(`LFSadmin.cpp:365`, `418`, `571`), so callers may pass any number. `hServices[s - 1]`
of one entry may be an entry of the next process's `hServices` (`ServiceAt`) or two
words of handles, its own or another's (`HandlesAt`); `handles[h - 1]` may be a handle of
another process (`HandleAt`) or a byte of a counter or pointer (`ByteAt`). The model
computes the place from the layout of `apps` and does there what the code does: a request
reads the `Library*`, counts the word up (`Incremented` has the bytes that can come of
it) and calls through what it has read; a destroy clears the byte. `overrun` holds a mark
`<<app, field>>` for each field, `reqId`, `spLib` or `handles` of an entry, that was written
in this way since the entry was last cleared. The properties speak of fields without a
mark: what a process does outside its tables is followed, and what it cannot reach is
shown to stay. A number that leaves `apps` altogether, for the pid table, the timers or
what lies around the segment, is not followed.

`owns`, `held`, `opens` and `issued` are what the clients know; they exist to
state the properties.

The synchronous functions run their checks and then `MsgWnd::start`; here they are
modelled up to that point (`StartsWindow`), and from there on in `SynchCalls`.

### Contexts

The first thread of a process that calls the manager builds its `Context`: it
looks at `_ctx` without the lock, locks, looks again (`Recheck`), opens or
creates the shared memory object, gives it its size, maps it and stores `_ctx`.
Each is an action; the constructor may throw at any of them (`Throw`), and a
process may die anywhere (`Die`), also with the mutex, which it then keeps. The
mutex of `initializeContext` and the one of `access` are the same named mutex.
`_ctx` is a plain pointer that is read without the lock; its store is taken to
become visible after the stores of the constructor.

### Callbacks

An insertion into `callbackMap` is two steps, a node with a null function
(`Insert`) and the function (`Assign`). A search while an insertion is under
way, that of `operator[]` too, may miss any name; two insertions at once may wreck the
tree (`wrecked`), after which a search may find old nodes and the process may crash.
These are the outcomes the data race is given. The thread of an event (`thread`) reads
the name from the buffer of the caller, which the caller may use again
(`Reuse`), and looks it up (`Find`); then it calls the function (`Call`).
`regd`, the finished registrations in order, `silenced`, the names that were
unregistered since (which changes nothing in the map), and the fields `floor`, `intact`,
`raced` and `wanted` of an event are there to state the properties.

### SynchCalls

A call makes a window, waits in `start()`, issues its request, waits for the
completion and destroys the window. The token `start()` waits for is released
behind an endless loop (`msgwnd.cpp:44`), and the completion is posted to a name
nobody has registered, so each wait ends only when a signal interrupts it:
`acquire()` does not look at the result of `sem_wait`. A call that does get to
its end destroys a `std::thread` that is running, which is `std::terminate`.

### MessageQueue

`loc` is a thread's place in `Write`, `Read` or `Clear`, `phase` its place in
`CSemaphore::Wait`. Each access to shared state after which another thread could
run is an action: `Acquire` (the semaphore) and `Own` (the thread id word) are
two, as are storing the message and advancing `head`. The take-over is four steps:
the poll fails (`TimeOut`), the waiter looks at the word and asks whether its thread
exists (`Query`, one step for the two reads of the word and the question), writes its
own id (`Claim`), and looks again after a millisecond (`Confirm`). Any number of waiters
may be at each of them; the last to claim wins. `Interrupt` is `sem_timedwait` failing with `EINTR`; inside the
loop of `Write` or `Read` it returns without the `Post`. `Die` ends a thread
anywhere. `accepted` and `out` are the messages in the order in which `head` and
`tail` passed them. `mode` is the mode of the queue object of a thread.

`ImplementsQueue` is the refinement of `BoundedQueue`: the queue is `Content`, the
messages between `tail` and `head`, and only the steps that move `head` or `tail` are
steps of the queue.

### QueueOpen

Each process constructs one queue: the thread id word of `sem` is created and
cleared without a lock (`OpenWord`, `ZeroWord`), `sem` is taken, the segment is
created or attached (`GetSegment`), cleared (`ZeroSegment`), its size compared
(`CheckSize`), and `sem` is posted (`Finish`, or `Refuse` before the exit). Its take-over
is that of `MessageQueue`. `disturbed` notes that a process went on without `sem`, or
lost its id from the word, by a late clearing, while it had `sem`. A segment that is too small makes `shmget` fail and the process exit with `sem`
taken. A stale `EEXIST` in `errno` lets a process skip the clearing. An interrupted
wait lets it go on without `sem`.

### Timers

Here the manager mutex is a variable: `Enter` is the lock of `access()`, and the
body of a function releases it. `LFMSetTimer` finds the first slot without a name;
it may find the table full, fail in `timer_create` or in `timer_settime` (which
leaves a kernel timer behind), or succeed. A name may be empty, and then the slot
still looks unused. (A null `timer_id` and a `timeval` of 0 are refused before the
mutex is taken and change nothing.) `LFMKillTimer` takes any id. It is a `timer_t`, opaque to
the program, and is used as an index of `timers[]` too: `Ids` holds values inside
and outside the table. Beyond the table the test of the name may find anything,
or the process dies (`Fault`). The test of `timer_delete` is inverted, so `Deleted`
keeps the slot and `NotDeleted` clears it. `Expire` starts a thread of
`timerProc`, which takes the mutex and then waits for it again in the
`CHECK_IF_STARTED` of `LFMPostMessage`: that lock has the same guard, which stays false
while the thread has the mutex, so the first step is the last one of that thread.
A process may die anywhere, also with the mutex.

### Allocator and Version

`Allocator` follows the three ways of `allocate` (first block, room in the head
block, block of its own) with sums modulo `UlongRange`; `createArray` allocates
the array and then item by item (`todo`), and an exception may end it after any
item. `Version` holds the operators of `version.cpp` and of the derived
comparisons; its state is one choice of arguments per step.

### Ownership and Registry

`Ownership` has the objects of one of three classes, chosen at the start; they
differ in what an assignment of an object to itself does. `Registry` has one value
of one key and a `Key` object per program. `value()` is two queries, between which
other programs act; a key that was deleted and created again is another one, and
handles for the old one are invalid. What the WFM functions do is external.

## 3. Runs

| Run | Checks | Shows |
|---|---|---|
| `sequences` | `NoLeakNoDangling`, `NoBadFree`, `ImplementsTrees`; `PiecesApart`, `OneTree`; `OwnedOnce`, `LostOnlyByAssignment`; `WireRoundTrip`, `OrderAgrees` | address reuse and stale arguments break nothing, and `Buffers` implements `BufferTrees`; hints that run out, sums that wrap and exceptions leave the pieces of a result apart and on one root; moves give nothing back twice, but an assignment loses what the target owned; versions against the numeric order of major, minor |
| `races` | `OneContext`, `OneSegment`, `MappedWhole`, `MutexGivenBack`; `ValueWasThere`, `DefaultOnlyIfMissing`; `OnlySignalsPass` | racing first calls, failing constructors and deaths: one `Context` per process, one object of full size for all; what `value()` returns while others change the value between its two queries; only a signal lets a synchronous call out of `start()` |
| `manager_services` | `ServiceIssuedOnce`, `RequestIdsFromOne`, `ErrorsOnlyBurnEntries`, `EntriesOfDeadStay` | with threads between lock and call, two sessions on one entry after each other: nothing is given out twice, a failing call harms nobody, also when numbers lie outside their tables, but for the fields these hit; the first request shares its id with the open, and entries of the dead are lost |
| `manager_sessions` | `PidsUnique`, `SessionIntact`, `CallsUseOwnLibrary`, `HandlesMatchClients` | crashes, reused pids and reused entries do not touch a session that began with its own `LFSStartUp`; a number outside its table can, and then only in the fields it writes |
| `callbacks` | `LatestCallback`, `OnlyUnwantedDropped`, `EventsHandled` | what an event may rely on without a lock, and that every event is called or dropped in the end |
| `timers` | `TimersKeepSlots`, `LostMutexFreezes` | what holds of timers in spite of the index confusion in `LFMKillTimer`, and that a fired timer or a death inside stops the manager for good |
| `queue_crash` | `MutualExclusion`, `FIFO`, `ImplementsQueue` | deaths, take-overs with several claimers, interruptions, a `Clear`, changes of mode and a short buffer let no two threads in together and lose, duplicate or reorder no message |
| `queue_live` | `NoLostWakeup`, `EveryMessageLeaves` | no side sleeps while the other has made room or written |
| `queue_open` | `AttachedAgree`, `SizeSetOnce`, `RingInSegment` | racing constructors with different sizes agree, also when some die inside and several claim `sem`; after an interrupted wait or a wiped id they need not, but the ring stays inside its segment |
| `queue_async` (violation) | `AsyncNeverWaits` | see below |
| `queue_takeover` (violation) | `TakeoverOnlyFromDead` | see below |
| `queue_cleared` (violation) | `ReadReturnsData` | see below |

**Three disagreements.**
*`queue_async`*: the comments of `Write` and `Read` say that 0 is returned in
asynchronous mode when the ring is full or empty. The code looks at the ring
before it has the lock; an asynchronous writer that sees the last free slot, and that
another writer (in either mode) overtakes, later waits for a reader.
*`queue_takeover`*: a take-over logs that the semaphore was "abnormally locked".
The word that says so is written after `sem_timedwait` returns and never cleared
by `Post`. A waiter whose poll ends between the two steps of a live owner takes
the semaphore from it. `queue_crash` excludes this with `Timely`.
*`queue_cleared`*: the comment of `Read` says that it returns 0 in asynchronous
mode only. `Clear` does not look at what its wait returns; interrupted, it empties
the ring under a reader in blocking mode, which then takes a slot nobody has
written, of length 0, and moves `tail` past `head`. In the other runs only `Write`
and `Read` are interrupted.

**Bounds, and why they are enough.**

- `Buffers`: four addresses hold two buffers, a chain of two, and one more
  block to reuse. The theorems lift the bound.
- `Manager`: two processes and two pids. The second process runs beside the
  first or after it, under its pid or another. `ManagerServices` has one table
  entry with two services (reuse, table full, overrun), request ids up to
  `MaxReqId` = 2, and `MaxCalls` = 1 call between lock and provider;
  `ManagerSessions` has two entries with one service. `WordCells` is the number
  of handles that one machine word covers (8 in the code, 1 here). `MaxService` and
  `MaxHandle` reach to the end of `apps`, handles also, negative, to its beginning;
  `MaxMarks` = 1 field at a time is written from outside its table. The theorems hold
  for every value of all of these. The view leaves out `ret`, which no step reads.
- `MessageQueue`: a ring of 2 or 3 slots holds 1 or 2 messages, so that it is
  full, empty and wraps; three writers write a message each (`MaxWrites` = 1), which is
  more than the ring holds. `SemMax` = 2 stands for `SEM_VALUE_MAX`; a `Post` at that value
  fails and nobody looks. In `queue_crash`, `w1`, `w2` and `r1` may die, so that two live
  writers claim the mutex of a dead one, one of them dies with it and the last takes it over
  again; `w2` and `r1` may be interrupted, `w2`'s messages do not fit the buffer of `r1`, `w2`
  changes its mode, and a thread clears the ring. `queue_live` has three writers and two
  readers that all time out and query.
- `Contexts`: two threads of one process and one each of two others; a second
  object could be created, and is not.
- `Callbacks`: two threads that register, two names, one buffer that is used
  again, two events and two registrations: replacing, inserting side by side,
  overtaking.
- `SynchCalls`: two threads that signals may interrupt and one they may not.
- `Ownership`: three objects and three things, so that an assignment has a source,
  a target and a bystander. `Registry`: two programs, texts of equal and of greater size,
  and a key that is created twice.
- `QueueOpen`: four processes are a creator, one that dies inside, one that takes
  over and a latecomer; three sizes give smaller-first, larger-first and one in
  between. Every one of them may be interrupted.
- `Allocator`: `UlongRange` = 16 (2^64 in the code), so that sizes above and sums across
  the range are in reach; `MaxPieces` = 4.
- `Timers`: two slots and three calls that take one, so that the table is full and
  slots are reused; ids 0 and 1 are slots of the same or another timer, 5 is none.
- `Version`: bytes of four bits (`Byte` = 16), ten words.

Symmetry is used where the runs check invariants and action properties and the
permuted constants occur alike in the configuration (`Manager`, `QueueOpen`,
`Timers`, the objects and things of `Ownership`), never with liveness.

**Deadlock** is not checked where the system may stop: processes come and go
(`Manager`, `QueueOpen`, `Timers`), the process of `Buffers` may die in `memset`, the bound
on pieces ends `Allocator`, the readers of a queue wait when the writers are done, a
process that dies inside keeps the mutex of `Contexts`, the process of `Callbacks` may
crash, synchronous calls wait for ever, and the bound on keys ends `Registry`.

**Fairness.** `queue_live`: weak fairness of each thread's steps inside a
call it has begun (the operating system schedules runnable threads; a wait for a
semaphore that stays available ends), and of `Read` for each reader, which is
the loop of `MsgWnd::start`. Writers need not write. No strong fairness: a POSIX
semaphore does not promise that a given waiter ever gets it, and
`EveryMessageLeaves` does not need it. Threads do not die and are not interrupted in this run; a
writer that dies between `head++` and its `Post` does leave a reader asleep
beside a message until the next `Write`. `callbacks`: weak fairness of each
detached thread, which waits for nothing; nobody has to post or register.

**Timing** (`Timely`). The code relies on two things, for the mutexes of `MessageQueue`
and for `sem` of `QueueOpen`. The proviso of `Query`: when a waiter concludes that the
thread in the word is gone, the mutex has not changed hands since its poll of a second
failed: no token has come back, and no thread has got it and is still about to write its
id. These are the few instructions between lines 168 and 184 of `Semaphore.h` against
someone else's way through `Post` and exit, or between lines 168 and 171. The proviso of
`Confirm`: the millisecond of line 187 is longer than another claimer takes from its
query (line 184) to its claim (line 186). Nothing else is assumed of the order: waiters
query and claim together, and that one of them gets the mutex is what `MutualExclusion`
and `AttachedAgree` check; without the recheck of line 188 they fail (mutant
`Confirm_NoRecheck`). `queue_takeover` shows what happens without the provisos.

## 4. Proofs

Every safety property of the passing runs, invariants, action properties and the
two refinements, is also a theorem, for arbitrary values of the constants and for the
abstractions of sections 2 and 5. The
assumptions are those named in the modules (`NullAssumption`, `PidsAssumption`,
`SizesAssumption`, ...), which TLC evaluates in the runs; they say that constants
of different kinds differ and that sizes are numbers. The theorems about the message
queue have provisos on top, named in their statements (below).

### The message queue

The two provisos of `MessageQueueProofs`, `Undisturbed`, are the ones of
`queue_crash`: `Timely` (section 3), and no interrupted `Clear`. The code does not work
without either; `queue_takeover` and `queue_cleared` are the counterexamples. Any writer or
reader may be interrupted, and any thread may die anywhere.

- `QueueMutualExclusion` rests on `LockInv`. `MutualExclusion` says nothing about the
  semaphores, so it is far from inductive. `LockInv` adds that a mutex semaphore
  has at most one token, and none while a thread holds or claims it (`TokenOK`), that one
  thread holds it and nobody claims it meanwhile (`OneHolder`), and that the thread id word
  names the thread inside while it lives (`WordOK`). Any number of threads may claim a mutex
  together. A claim whose id was overwritten is void, so when the last claimer has written
  its id, one valid claim is left, and its `Confirm` makes it the holder.
  `TakeoverOnlyFromDead` follows as well.
- `QueueFIFO` adds `RingInv`: what a thread has checked (`IsWrite`, `IsRead`) is still
  true when it copies and when it advances, because only the other side has moved
  since, and it only makes more room or more messages. Then the ring between `tail`
  and `head` is the part of `accepted` that `out` lacks; the steps are arithmetic modulo the
  size of the ring (`PutArithmetic`, `TakeArithmetic`).
- `RingImplementsQueue`: `Spec => ImplementsQueue`. It needs one fact more, `Fresh`: the
  message a writer is at was not accepted before, also not in a `Write` that ended half
  way, so that each `Put` has a new message.
- `QueueNoLostWakeup` has the proviso `Mortal = {}`, which is how `queue_live` is
  configured: a thread that dies between moving `head` and its `Post` does lose the
  wake-up. `WakeInv` says that a thread that waits while the ring has what it
  waits for has a token, or the other side is at its `Post`.

`QueueOpenProofs`: `OpenRingInSegment` holds whoever is interrupted, by `SegmentInv` alone:
a process goes on only with a segment as large as its ring. `OpenAttachedAgree` and
`OpenSizeSetOnce` need `SectionInv`, which holds until somebody is disturbed: one
process has `sem`, or any number claim it, the token is gone meanwhile, and whoever
clears the segment finds no size noted.

### The manager

- `BuffersSafe`: `BuffersTypeOK`, `ManagedBlocksDisjoint`, `NoLeakNoDangling` and
  `NoBadFree` together are inductive. None is so alone: a free is good because
  exactly the live blocks are recorded, and they stay so because chains are disjoint.
- `BuffersImplementTrees`: `BuffersSpec => ImplementsTrees`. `TreeOf` picks the root of a
  block; disjointness makes the choice unique, so that each action grows one
  tree, releases one, or stutters.
- `ManagerPidsUnique`, `ManagerSessionsIntact`, `ManagerCallsUseOwnLibrary`,
  `ManagerNumbersFresh`: one inductive invariant, `IInv` of `ManagerProofs`. To
  the checked properties it adds: running processes have different pids
  (`RunningPidsDiffer`), without which two sessions could meet in one entry; an
  entry of a session holds no other process's library (`OwnLibrariesOnly`),
  which is what clearing the entry in `LFSStartUp` is for; and every issued id
  is below the counter (`IdsBelow`), which makes the next one fresh. All are
  stated for fields without a mark of `overrun`. Numbers outside the tables are within
  the theorems: the steps that use one change the fields they mark and no others.
- `ManagerRequestIds`, `ManagerErrorsOnlyBurn`: on top of `IInv`, `IdInv` says that an
  entry with a library has a counter above 0 (`LibrariesCounted`) and that the ids
  issued on an open service are those from 1 up to its counter (`SessionIds`).
- `ManagerEntriesOfDeadStay`: an action property. Only `LFSStartUp`, on a free entry, and
  `LFSCleanUp`, on the entry of a running process, write `pidTable`.
- `CallbacksDeliver`: `MapInv` says that an entry of `callbackMap` is a registration of its own
  name, and the last one as long as no two insertions have met. A node with a null
  function could hide a registration from a search; until then it does not, because the
  name of an insertion under way is still missing from the map and was never registered.
  `ThreadsInv` carries this from the post of an event to its callback. `LargestExists` (a
  bounded set of numbers has a maximum) comes from the library's theorem on
  well-founded relations. `CountInv` says that
  no registration gets the number that stands for a missing name.
- `TimersKeep`: `TimersKeepSlots` and the types are inductive. `LFMSetTimer` takes
  slots without a name, and a slot loses its name only through an id that is
  no timer of the caller. `TimersMutexLost` follows from the steps alone.
- `ContextsOneContext`, `ContextsOneSegment`, `ContextsMutex`: one invariant for any
  threads and processes. It says who has the mutex where (`MutexInv`), which object a
  constructor in progress has opened and sized (`PlaceInv`), and that a process whose
  `_ctx` is null has made no Context (`ContextInv`); the last one holds because only
  the holder of the mutex is between `Recheck` and `Publish`.
- `CallsOnlySignalsPass`: no semaphore of a window ever gets a token (`CallInv`), so a call
  that no signal interrupts stays in `start()`.

### The library

- `RegistryReadsSound`: a call of `value()` under way has taken note of what the value is
  now (`SeenNow`), and each query answers with the value of that moment.
- `AllocatorSafe`, `AllocatorHeadStable`: adds that before the first block nothing was
  handed out (`HeadKnown`) and that, while the hint lasts, the head block has
  room for it and its pieces end where the next begins (`HeadFill`).
- `OwnershipOnce`, `OwnershipLosses`: two objects never own one thing, and what was given
  back is owned by none.
- `VersionsCorrect`: the arithmetic of two-digit numbers in base `Byte`.

The proofs also cover what no run repeats: `ManagedBlocksDisjoint` of `Buffers`,
`SizeIsTotal` and `HeadStable` of `Allocator`, `ContainsInterval` of `Version`,
`NextIdIsFresh` of `Manager` (no two requests draw one id), and the type invariants.

Only model-checked: liveness (`EveryMessageLeaves`, `EventsHandled`), which the prover
does not do. Only refuted, by TLC: `AsyncNeverWaits` and `ReadReturnsData`, which are
false of the code, and `TakeoverOnlyFromDead` without `Timely`.

## 5. Not modelled

- In `Manager`, a process that dies inside a locked section. The mutex is not
  robust, so all other processes then wait for ever: `LostMutexFreezes` of `Timers`.
- The time a timer runs: in `Timers` a timer may expire at any moment, so that the
  milliseconds that line 280 takes for nanoseconds make no difference. Names that do not fit the 64 bytes of a slot.
- Service numbers and handles that lead out of `apps`, to the pid table, the timers or
  the memory around the segment, and what a call through such a pointer (`Wild`) does
  beyond ending the process.
- Two reads of a thread id word by one waiter (lines 177 and 184 of `Semaphore.h`) and
  the system's answer are one step.
- A process that gets the pid of a crashed one and is told `ALREADY_STARTED`
  works in the old entry. It is in the model, but the properties speak of
  sessions that began with their own `LFSStartUp`.
- The order in which events reach their callbacks: there is none, and none is promised.
- The function a `SynchMsgWnd` would run for a message: no message is written.
- Finite timeouts of `CSemaphore::Wait`, which nothing passes; the Windows branches;
  code under `#if 0`.
- Copies of a `Registry::Key` (each would close the handle); nothing makes one. The
  conversions of its templates.
- Logging (a file that only people read), `inisetting` (a path read from a file; one
  that does not load is an outcome of `LFSAsyncOpen`), exceptions and the rest of `util`:
  I/O and language helpers without a state another component relies on.

## 6. Plan

The system's components are modelled as far as section 5 says, and what the runs
check of them is proved, but for liveness. What is left:

1. Facts the proofs use that deserve a theorem of their own: that `WordOK` and `TokenOK`
   hold of the queue at all times, that a process that is refused by `QueueOpen` leaves
   no trace, that the wake-up of a queue is lost only at the two places where a thread
   can die between `head` or `tail` and `Post`.
2. The semaphore of `QueueOpen` and the ones of `MessageQueue` are the same class:
   one abstract specification of `CSemaphore` that both implement.
