# Synchronization, suspension and thread pool of CoreCLR: TLA+ models, checks and proofs

The parts of the CoreCLR execution engine in which threads meet:

* **object monitors**: every .NET object can be locked, waited for and hashed,
  with one word in front of the object, a table of *sync blocks* for the objects
  whose word is too small, a monitor in the sync block and a pool of events, while
  garbage collector and finalizer thread take sync blocks away again
  (`src/vm/syncblk.{h,inl,cpp}`, parts of `threads.cpp`, `synch.cpp`,
  `eventstore.cpp`, `jithelpers.cpp`, `object.cpp`);
* **suspension**: a collection needs every other thread out of managed code;
  threads switch between cooperative and preemptive mode by plain stores
  (`src/vm/threads.h`, `threadsuspend.cpp`, `src/gc/gc.cpp`);
* **the thread pool**: a work-stealing queue per worker, a global queue, and the
  runtime that creates, retires and wakes workers
  (`src/mscorlib/src/System/Threading/ThreadPool.cs`, `src/vm/win32threadpool.cpp`).

This code is lock-free in large parts, used by every managed program, and very
hard to test: what can go wrong needs two or three threads, a timeout, a collision
or a collection, each at the right instruction.

Paths in this document are relative to the repository.

## 1. Inventory

### Components modelled

| Component | State | Operations | Module |
|---|---|---|---|
| `Monitor` (abstract) | owner, count | acquire, re-enter, exit | `Monitor` |
| `AwareLock` and the event it blocks on (`CLREventBase`) | `m_MonitorHeld` (lock bit and waiter count), `m_HoldingThread`, `m_Recursion`, precious bit, `m_TransientPrecious`, lazily created auto-reset event | `Enter`, `TryEnter`, `Contention`, `EnterEpilogHelper`, `LeaveHelper`, `CreateMonitorEvent`, `SetMonitorEvent` | `AwareLock` |
| `Object.Wait/Pulse/PulseAll`, `ThreadQueue`, `PendingSync`, `EventStore` | the queue of a sync block, `WaitEventLink`s on thread stacks, the list of links of each thread, events and their store | `SyncBlock::Wait`, `Pulse`, `PulseAll`, `EnqueueThread`, `DequeueThread`, `RemoveThread`, `Thread::Block`, `PendingSync::Restore`, `GetEventFromEventStore`, `StoreEventToEventStore` | `MonitorWait` |
| `ObjHeader` | the header word (thin lock, hash code or sync block index, spin lock bit), the sync block of one object, the lock of the cache | the JIT monitor helpers, `EnterObjMonitorHelper`, `LeaveObjMonitor`, `GetSyncBlock`, `GetHashCodeEx`, the pins of `Wait` and `Contention`, `GCWeakPtrScanElement` | `ObjHeader` |
| `SyncBlockCache` | the sync table, free slots, free sync blocks, the ephemeral bitmap, the cleanup list, the task bit and flag of the finalizer thread | `GetSyncBlock`, `NewSyncBlockSlot`, `Grow`, `GetNextFreeSyncBlock`, `GCWeakPtrScan`, `GCDone`, `CleanupSyncBlocks`, `DeleteSyncBlock` | `SyncBlockCache` |
| GC modes and `ThreadSuspend` | `m_fPreemptiveGCDisabled` with store buffers, `TS_GCSuspendPending`, the thread list, `g_TrapReturningThreads`, `GcInProgress`, `g_pSuspensionThread`, the events, the thread store lock, the collision event, `gc_lock`, the state of a no-GC region | `DisablePreemptiveGC`, `EnablePreemptiveGC`, `PulseGCMode`, `LockThreadStore`, `SuspendEE`, `SuspendRuntime`, `RestartEE`, `HasStarted`, `OnThreadTerminate`, `GarbageCollectGeneration`, `StartNoGCRegion`, `EndNoGCRegion` | `ThreadSuspend` |
| `WorkStealingQueue` | array, mask, head, tail, `m_foreignLock` | `LocalPush`, `LocalPop`, `LocalFindAndPop`, `TrySteal` | `WorkStealingQueue` |
| `ThreadPoolWorkQueue` | global queue, list of local queues, `wsqActive`, `numOutstandingThreadRequests` | `Enqueue`, `Dequeue`, `Dispatch`, `LocalFindAndPop`, the finalizer of a worker's queue | `WorkQueue` |
| `ThreadpoolMgr` | the four counts, limits, two semaphores, recorded requests, the gate thread's status | `SetAppDomainRequestsActive`, `MaybeAddWorkingWorker`, `WorkerThreadStart`, `NotifyRequestComplete`, `AdjustMaxWorkersActive`, `SetMinThreads`, `SetMaxThreads`, `EnsureGateThreadRunning`, `GateThreadStart` | `WorkerPool` |

### How they interact

* `ObjHeader` locks in the header word as long as it can (*thin lock*). A second
  thread, too deep a recursion, a thread id above 1023, a hash code or a `Wait`
  makes `GetSyncBlock` create a sync block under the lock of the cache, copy lock
  or hash code under the spin lock bit and overwrite the header with the index.
  From then on the `AwareLock` of the sync block is the monitor.
* `AwareLock` blocks on an event that the first waiter creates; `Leave` decides
  to signal in the exchange that frees the lock and signals afterwards.
* `SyncBlock::Wait` puts a link that lives on its own stack into the queue of the
  sync block, leaves the monitor completely, blocks, and in `Restore` enters as
  often again. `Pulse` takes a link from the queue and sets its event.
* The collector asks `IsIDisposable` for each sync block and frees those nobody
  needs; those of dead objects go to a list the finalizer thread works off.
  Threads that hold a pointer to a sync block in preemptive mode must be visible
  in one of the fields `IsIDisposable` looks at. A collection of the young
  generations looks only at slots in cards that the ephemeral bitmap marks.
* A collection takes `gc_lock`, then `SuspendEE` takes the thread store lock, sets
  the trap and waits until every other thread in the list has left cooperative
  mode. A suspension for another reason (ReJIT, profiler) may hold the thread
  store lock already; it notices the collection, gives up, restarts the runtime
  and waits for the collection's turn. `StopTheWorld` is the rule on collections
  that `ObjHeader` and `SyncBlockCache` rely on.
* A work item goes to the local queue of the worker that creates it or to the
  global queue; `EnsureThreadRequested` asks the runtime for a worker unless
  enough are asked for. The runtime records the request and wakes, un-retires or
  creates a worker, which takes the request and runs `Dispatch`. The gate thread
  raises the limit when requests wait too long.

### What is hard, and the properties that answer it

`PROJECT.json` lists the hazards at their lines with the properties that would
catch each one. In short:

* monitors: the window between freeing the lock and signalling (`NoLostWakeup`,
  `CallsReturn`); waiters that time out or are interrupted while a signal is on its
  way (`WaiterAccounting`); the two fields of the owner written one after the other
  (`MutualExclusion`, `ImplementsMonitor`); pulses racing timeouts (`NoLostPulse`,
  `PulsedLinkAlive`, `RemovedBySignaller`); links on stacks (`NoDanglingLink`);
  waits inside waits (`EventsExclusive`); a store without memory in the middle of
  `Restore` (`WaitLeftWithMonitor`); a header that is copied while others use it
  (`HeaderFrozen`, `HashStable`, `HeaderImplementsMonitor`); sync blocks freed under
  a thread (`PinnedWhileUsed`, `NoUseAfterDeflation`); cards cleared too early
  (`EphemeralCarded`, `BackPointers`); sync blocks lost or used twice
  (`BlocksPartitioned`); cleanups forgotten (`CleanupAnnounced`);
* suspension: a mode switch still in a store buffer (`StopTheWorld`); threads that
  start or end meanwhile (`ListedWhenManaged`); requests to collect that are
  coalesced (`RequestHonoured`) while a no-GC region is set up (`RegionSettled`); events read without a lock and used again
  (`WaiterWillBeWoken`, `AborterWillBeWoken`); two suspensions that wait for each
  other (`WorkHappens`, `StoreReleased`);
* thread pool: owner and thief at the last item, growth and overflowing indices
  (`TakenOnce`, `NothingLost`, `AbsentWasTaken`); two counts of requests changed one
  after the other (`RequestsInSync`); missed steals, recalls and workers that exit
  (`NothingStranded`, `WorkHappens`); time-outs that race with a release, and
  requests that come in while a worker goes to sleep or the gate thread exits
  (`CountsMatch`, `RequestServed`, `GateWatches`).

### Components not modelled

The garbage collector proper, the JIT, the type loader, managed synchronization
classes, tiered compilation, EventPipe, binder and metadata, debugger, interop and
PAL are listed in `PROJECT.json` with the reason. They appear here only by their
effect. Most of the repository's two million lines are of this kind: compilers,
parsers, marshalling, tests of them and generated headers, with little state that
a model checker could explore.

## 2. Modules

`Monitor` is the abstract specification. `AwareLock`, `MonitorWait`, `ObjHeader`,
`SyncBlockCache`, `ThreadSuspend`, `WorkStealingQueue`, `WorkQueue` and
`WorkerPool` model the code; each has a `...Props` module with what it guarantees.
`MC...` modules give the instances for TLC; where one holds several components or
instances, a variable chosen in the initial state says which one a behaviour runs.
The `...Proofs` modules hold the proofs. An operator marked
"Mutant of" is a plausible mistake in the code of the definition below it, which the
property that guards against it finds.

The modules compose by contract. `MonitorsProofs` and the run `Monitors`
show that `AwareLock` implements `Monitor`. `ObjHeader` and `MonitorWait` then use
a monitor that is entered and left in one step. `ObjHeader` takes from `AwareLock`
in addition the waiter count, the pins and the rule that newcomers do not overtake
counted waiters, and is itself shown to implement `Monitor` through inflation and
deflation. `SyncBlockCache` abstracts the use of a sync block to one bit,
"not `IsIDisposable`", whose protection is the subject of `PinnedWhileUsed` and
`NoUseAfterDeflation`. `WorkQueue` uses a local queue whose calls are one step each,
except that a steal may be missed: what `TakenOnce`, `NothingLost` and
`AbsentWasTaken` show of `WorkStealingQueue`. `WorkerPool` and `WorkQueue` meet at
the recorded requests: each abstracts the other to "may ask for a worker at any
time" and "a recorded request is taken by some worker", and the second is what
`WorkHappens` shows of `WorkerPool`.

**AwareLock.** One action per access to shared memory that another thread can
see. `m_MonitorHeld` is the pair `heldBit`, `heldWaiters`, read and written
together. A successful compare-exchange is one action together with the load it
depends on: a failed one changes nothing and loops. `pc` names where a thread is:
`enter`, `spin`, `try` the entry loops; `own`, `ownUnpin`, `release` owning the bit
without being recorded; `epilog` to `interrupted` the stages of
`EnterEpilogHelper`; `signal` and `resignal` owing a signal. The event is three
Booleans: created, signalled before it was created, set. `depth`, `phantom`,
`exceptions` and `waited` are history.

**MonitorWait.** `frames[t]` is the stack of `Wait` calls of a thread, because a
blocked thread may run code that waits again (`DoAppropriateWaitWorker` defers to
the SynchronizationContext or pumps messages). A link is named by thread and stack
depth, so a link that outlives its frame is visible. `chain[t]` is
`Thread::m_WaitEventLink`, the set of the links in the thread's list, `queue[s]` the
queue of the sync block. Once a pointer
into a stack frame that is gone exists, behaviour is undefined and the model ends
(`Defined`).

**ObjHeader.** `header` is a record with the layout the bits of the word select.
`owner` and `count` are defined from header and sync block, and they *are* the
refinement mapping. `GetSyncBlock` is the sequence `get`, `spinLock`, `transfer`,
`setIndex`, `unspin`, `unlock`. `GCWeakPtrScan` is enabled when every thread is at
a point where a collection may find it (`Safe`).

**SyncBlockCache.** Slots are numbers, sync blocks model values; `index` is in the
header, `object` and `slotBlock` in the table. `gen` is the generation of an
object as the bitmap sees it (ephemeral or not). A collection is `GCMark` (the
scan after marking), optionally `GCRelocate` (the scan of a compacting collection)
and `GCEnd` (generations are assigned, `GCDone` is called). `stale` holds slots
whose reference was not updated when the object moved. The lists are sets, with
`m_FreeCount` and `m_ActiveCount` beside them.

**ThreadSuspend.** `todo[t]` is what a thread still has to do, the next step first,
because mode switches happen in the middle of almost everything: a call puts its
steps in front. `buffer[t]` holds stores to `m_fPreemptiveGCDisabled` that other
threads do not see yet; interlocked operations and `FlushProcessWriteBuffers` drain
it. The first pass of `SuspendRuntime` marks the threads in cooperative mode
(`pending`), later passes unmark those that have left it. `counted` and `marked`
say for each thread that waits for `gc_lock` whether the collection count has
changed, and whether a collection has marked the heap, since it asked. The count also
changes without a mark: `StartNoGCRegion` (threads in `Starters`) asks for memory
instead of a collection, and `should_proceed_with_gc` may find that there is enough
(`ShouldProceed`), or a minimal collection may find it (`AllocateForNoGC`). `spared`
says that this is what happened since a thread asked; `region`, `noMemory`, `starter`
and `proceed` are the fields of `current_no_gc_region_info`, `g_no_gc_lock` and
`proceed_with_gc_p`. So the comment at `gc.cpp:34977` on a request that is dropped,
"this means a GC has happened", does not hold of a no-GC region; `RequestHonoured`
says what does.

**WorkStealingQueue.** One action per access to a field that another thread may
change. Indices are integers of limited width (`Int32`), so that they overflow.
`takes`, `present` and `denied` are history: how often an item was handed out, what
has been queued all through a call, and what a call that reported "empty" without a
missed steal should have seen.

**WorkQueue.** `pc` follows `Dispatch`, `Dequeue` and `EnsureThreadRequested`;
`after` is where the latter returns to. `wsqActive` is the hint (2, 1, 0) that lets
a worker skip the local queues. `pending` stands for the runtime's count of
requests. An exited worker's queue is emptied by the finalizer thread.

**WorkerPool.** `counts` is the 64-bit word; a compare-exchange loop is one action
and what follows it another. `todo` is as in `ThreadSuspend`: `MaybeAddWorkingWorker`
is called from many places. `found` is `foundWork`, which says whether a worker
sleeps after the next round. `SetMinThreads` and `SetMaxThreads` write the limit first
and adjust `MaxWorking` in another step; a proposal of HillClimbing (`Proposals`) may
stem from limits that have changed since. `leftRaised` is history: a worker that
left has raised `MaxWorking` from 0 (known limits).

## 3. Runs

| Run | Instance | Shows |
|---|---|---|
| `Monitors` | `AwareLock`: 3 threads, all entry points, recursion 2, one exception; `ObjHeader`: 3 threads, one with a large id, one thin recursion level, 2 hash codes, 3 entries; `MonitorWait`: 3 threads, 1 object, timed and untimed waits, pulse and pulse-all, one interrupt, no nesting | mutual exclusion, no lost wakeup, exact waiter count, pinning; one hash code, no use of a deleted sync block, stable header during a transfer; both are an abstract `Monitor`; pulses are not lost, links do not dangle, a signalled wait was dequeued |
| `AwareLockOOM` | 3 threads, recursion 1, one exception | *violation*: finding 1 |
| `AwareLockTimeout` | 3 threads, timeout of one tick | *violation*: finding 2 |
| `MonitorWaitNested` | 2 threads, 2 objects, waits two deep, event store with 2 events, one interrupt, one rude abort, one failed allocation | no event is used twice |
| `MonitorWaitStaleSet` | the instance of `MonitorWaitNested` without interrupts and failures | *violation*: finding 3 |
| `MonitorWaitRestoreOOM` | the instance of `MonitorWaitNested` without interrupts and rude aborts | *violation*: finding 4 |
| `SyncBlockCache` | 3 objects, 3 slots, 3 sync blocks, cards of 2 slots, table of 3 that may grow to 4, one failed allocation | header and table agree, the bitmap misses nothing, no sync block is lost or used twice, no cleanup is forgotten |
| `MonitorLive` | `MonitorWait` with 3 threads, `AwareLock` with 3 threads, `ObjHeader` with 2 | untimed entries are granted, pulsed waits return, no operation on a header is blocked for ever |
| `ThreadSuspend` | 3 threads with a role each (collects, suspends, is in the way); or 2 that both do everything, one of which starts and ends, with store buffers of 2; or 2 that collect and start no-GC regions | a stopped runtime is stopped, the thread list is complete, coalesced requests had their collection, a no-GC region that was asked for is settled, nobody waits in vain |
| `ThreadPool` | `WorkStealingQueue` with 2 thieves and 3 items from the highest index, or 1 thief, 4 items, one `LocalFindAndPop` and the highest three indices; `WorkQueue` with 2 workers and 3 items; `WorkerPool` with 2 workers, 2 requests, minima 0 to 2, one change of a limit, one failed creation | items are handed out once and not lost, requests are counted right, no item or request is left behind, counts match the threads |
| `WorkQueueHint` | `WorkQueue` with 3 workers that never miss a steal, 3 items | *violation*: finding 5 |
| `RuntimeLive` | `WorkQueue` with 2 workers (one exits, one is disturbed) and 2 items; `ThreadSuspend` with 2 threads; `WorkerPool` with 2 workers, 2 requests | items run, requests are taken, collections take place, the thread store lock is released |

### Bounds

Three threads are an owner, a waiter and a third that interferes (a newcomer, a
second waiter, a timeout), which is what each hazard of the monitors needs. The proofs
are for any number of threads and any bound, but for three kinds of hypotheses that
section 4 names where they are made: `FlatInv` of `MonitorWait` has no nested waits
(`MaxNesting = 1`), and `PulsedLinkAlive` no rude aborts either; `WorkStealingQueue`
has `HeadSafe`; where something is counted the set of threads or blocks is finite.
Recursion 2 distinguishes
first, inner and last level. One exception suffices to leave any of the places where
one can be thrown, and what it leaves behind stays. In `ObjHeader` one thin recursion level
overflows within 3 entries; in the code the numbers are 63 and unbounded. In
`SyncBlockCache` three objects fill two cards, one of them shared, and the third
makes the table grow into the limit of the mask; `BlocksPerArray = 2` makes the pool
need a second array.

In `ThreadSuspend` a collision needs a collecting thread, one that suspends for
another reason and one that neither can stop at once; two buffered stores are a
switch there and back. In `WorkStealingQueue` arrays start with 2 slots and
`MaxIndex` is 7, so three items make the array grow and the indices reach the end
of the integers. The start indices near `MaxIndex` stand for a queue that has been
in use long enough: in the code the release build starts at 0, the debug build at
`int.MaxValue`. With two thieves the run `ThreadPool` starts only at `MaxIndex`, where
the first push masks the indices; from 6 two thieves move the head past the largest
integer, and `NothingLost` is false (known limits).
`WorkQueue` with two workers has every pair of worker, owner and finalizer;
`WorkQueueHint` shows that a third worker matters for `wsqActive`.
`WorkerPool` with two workers, minima 0, 1 and 2 and maxima 1 and 2 has a worker that
waits or is retired beside one that works, and a limit of 0 with a request.
A no-GC region needs the thread that starts it and another that collects meanwhile.

Every bound is a CONSTANT marked as such. Deadlock is not checked where threads may
rest in the code too: a wait without timeout that nobody pulses, a thread pool
without work.

### Fairness

The scheduler runs every thread (WF of its next step). Beyond that:

* `MonitorLive`: owners leave; the event is fair to its waiters, the bounded spin
  loop ends, and an owner does not enter and leave inner levels for ever (SF).
  Timed `TryEnter` is excluded: its retry loop may alternate between "held" and
  "free" as long as others use the monitor. In `MonitorWait` SF of re-entering the
  monitor is what the same run shows of `AwareLock`.
* `RuntimeLive`: processors drain their store buffers; a thread that is asked to
  stop comes to a safe point, since its return is hijacked, it is redirected or it
  polls, and `SuspendRuntime` tries again after every `PING_JIT_TIMEOUT`; the thread
  store lock is not withheld from a thread for ever (SF: a Crst wakes its waiters); a
  worker does not miss every steal and does not use up its quantum before every
  first look at the queue (SF); when the gate thread can find the pool starved again
  and again, it does (SF: its delay is fixed). A suspension that is not for a
  collection is promised nothing: collections may overtake it for ever.

One conjunct of a combined run stands for one conjunct of each component; as a
behaviour runs only one component, it says of each what its `Props` module states
as `Fairness`.

## 4. Proofs

Checked by TLAPS for every value of the constants: any set of threads, workers or
objects (finite where something is counted), any bound on recursion, timeouts,
failures, table and buffer sizes. Every inductive invariant below was model-checked
on small instances before it was proved; what each module assumes of its constants is its
`...Assumption`, which TLC evaluates in the runs.

**`AwareLock`** (`MonitorsProofs`; `AwareLockAssumption`:
`NoThread` is no thread, the bounds are naturals; `FiniteThreads`).

* `TypeCorrect`, `MutualExclusionHolds`. Mutual exclusion is not inductive: a
  thread that has won the lock bit has not recorded itself yet, and one that
  leaves forgets itself before it clears the bit. `OwnInv == TypeOK /\ Ownership`
  says that such a thread is alone, that nobody is recorded meanwhile, that the bit
  is set exactly while somebody owns it, and that `recursion` is the number of
  entries of the recorded owner. One step per action in `OwnInvEntry`
  and `OwnInvRest`.
* `WaiterAccountingHolds`, `PinnedWhileUsedHolds`. Both compare a counter with the
  cardinality of a set of threads. `CountMove` says how the cardinality changes
  when one thread moves; `CountsStep` applies it to every action. Pinning is an
  inequality, because an exception leaves its pin behind for good.
* `NoLostWakeupHolds`. Inductive as it stands with the types: each form of a
  pending wakeup (event set, signalled before creation, a thread about to signal or
  just woken) ends only in another one, or with the lock taken.
* `AwareLockImplementsMonitor`. With `OwnInv` the refinement mapping `absOwner`,
  `absCount` is well defined (`AbsState`); a step that does not touch the bit, the
  owner fields or `Holding` is invisible (`Invisible`), and the others are
  `Acquire`, `Reenter` or `Exit`.

**`ObjHeader`** (`ObjHeaderProofs`; `ObjHeaderAssumption`: `NoThread` is no thread,
`NoHash` no hash code, the bounds are naturals). `HeaderInv` has the types and

* `OneInflates`: the holder of the cache lock is the one thread that inflates, the
  spin bit is its, and the layout is what its place in `GetSyncBlock` says;
* `HeaderFields`, `BlockFields`: the fields a layout does not have are empty, and
  between `Transfer` and the store of the index the sync block says what the header
  says;
* `PinsCounted`: the transient-precious count is the number of threads in the
  places where the code has pinned the block. This is what `NoUseAfterDeflation`
  rests on;
* `OneHash`, `EntriesSaved`: where the hash code is, and that the entries a `Wait`
  has given up are those it will restore.

From it follow `HeaderTypes`, `NoUseAfterDeflationHolds`, `HashStableHolds`, the
action property `HeaderFrozenHolds`, and `HeaderImplementsMonitor`: every step is a
step of `Monitor` or leaves owner and count alone, inflation and deflation
included. `MonitorsProofs` also carries these five results over to the system of the
run `Monitors`, in which the header stands next to a contended lock and to `Wait`, and
joins the types of all three (`MonitorTypesHold`).

**`MonitorWait`** (`MonitorWaitProofs`; `MonitorWaitAssumption`: the own events are
different and not in the pool, bounds are naturals). Two invariants, because nested
waits break some promises and not others:

* `WaitInv`, for any depth of nesting, with rude aborts and failed allocations. The
  reference count of a link counts the calls that use it and a thread has one link
  for a sync block (`LinksCounted`, `OneLinkEach`), no two links that are alive have
  the same event or one that is in the store (`OneEventEach`), and a link that a call still waits on is queued, signalled or about to be
  signalled. From it follow `WaitTypes`, `NoLostPulseHolds` and `EventsExclusiveHolds`.
* `FlatInv`, when no code that waits runs inside of a `Wait` (`MaxNesting = 1`): every
  queued link belongs to a call that is not over, is queued once and in the queue of
  its own monitor; a thread that pulses owns the monitor of the link it has dequeued;
  the event of a queued call is not set and nobody is about to set it. `NoDanglingLinkHolds` and
  `RemovedBySignallerHolds` follow, and without rude aborts `PulsedLinkAliveHolds`: the
  frame cannot go away before its thread has the monitor again, which the pulsing
  thread still owns. `MonitorWaitStaleSet` shows that `MaxNesting = 1` is needed: a
  thread that waits again within `Restore` uses the event of the wait that it is
  about to leave. A rude abort leaves without
  the monitor, so the frame may be gone before the event is read. `MonitorsProofs`
  carries these results over to the run `Monitors`.

**`SyncBlockCache`** (`SyncBlockCacheProofs`; `SyncBlockCacheAssumption`: a finite
set of blocks, an initial size between 1 and the limit of the mask, positive card and
array sizes). `CacheInv` adds to `BackPointers` that a slot has an object exactly when
it has a block (`SlotsWellFormed`), that cards cover ephemeral objects in the middle of
a collection too (`Carded`), that a block is in one place (`OnePlace`), that the
counters count (`Counted`), and where the finalizer thread is (`FinalizerAt`). Proved:
`CacheTypes`, `BackPointersHold`, `EphemeralCardedHolds`, `BlocksPartitionedHolds`,
`CleanupAnnouncedHolds`.

**`ThreadSuspend`** (`ThreadSuspendProofs`; `ThreadSuspendAssumption`: collectors,
suspenders, starters of no-GC regions and mortal threads are threads, a store buffer holds at least one store).
The argument goes from one thread to all of them:

* `StacksFit`: a thread's stack of calls is one that `Row` allows for its mode and for
  whether it holds the thread store lock. Which stack an action leads to is a fact
  about one thread;
* `FlagsFit`, `OneCollects`, `CountsFit`, `AbortFits`, `NewUnlisted`: the flags of the
  suspension are those of the thread that holds the thread store lock, a thread has
  `gc_lock` exactly while its stack says so, nobody gets it between the change of the
  collection counts and the marking, the event of a collision is in use only while a
  collection is on its way;
* `WorldFits`: once `SuspendRuntime` has flushed the store buffers, whoever still runs
  cooperatively is seen to do so and is counted or going to be looked at; nobody does
  when the world is stopped. It was not inductive until a thread in `gcLeave` counted
  as running: its collection is over, the next may begin.

A no-GC region adds only its types: between the change of the counts and the marking
nobody gets `gc_lock`, whether it is the heap that is marked or memory that is found
(`Served`). Proved from `SuspendInvariant`: `SuspendTypes`, `StopTheWorldHolds`,
`ListedWhenManagedHolds`, `RequestHonouredHolds`, `WaiterWillBeWokenHolds`,
`AborterWillBeWokenHolds`.

**`WorkerPool`** (`ThreadPoolProofs`; `WorkerPoolAssumption`: a finite set of
workers, the client and the gate thread are none of them, positive maxima).
`PoolInv` has, besides the types and ranges, the stacks of the threads (`Stacked`,
`GateFits`), the counts (`CountsMatch`), and who keeps a request alive as long as no
creation has failed: somebody is working or is on the way to a look at the requests
(`Served`), and the gate thread runs or is being started (`Watched`). The proof goes from the stack of one
thread (`Row`) to how the number of threads in each group of steps changes when one
of them moves (`CountMove`), and from there to the four counts of the word
(`Balances`). Proved: `CountsMatchHolds`, `RequestServedHolds`, `GateWatchesHolds`,
for all limits, a minimum of 0 included. A limit of 0 is why `RequestServed` has its
exceptions (known limits): while `MaxWorking` is 0 nobody works until the gate thread
raises it, and a worker that raises it when it leaves (`leftRaised`) wakes nobody.

**`WorkQueue`** (`WorkQueueProofs`; `WorkQueueAssumption`: a finite set of workers,
client and finalizer thread are none of them, at least one processor). `QueueInv` has,
besides the types, where each thread may be (`Placed`, `Held`), that a queue with items
is in the list (`Listed`), that a worker which scans has found its own queue empty
(`Looked`), the counts (`RequestsInSync`), and who will find the items: a queue with
items has a request, or a thread that will look at it or ask (`GlobalServed`,
`LocalServed`; the latter while the hint is up, see finding 5). A request is as good as
a look only because the two counts agree: `EnsureThreadRequested` stays silent when it
counts enough of them. Proved from `QueueInvariant`: `RequestsInSyncHolds`,
`NothingStrandedHolds`, and the assertion of `Dequeue` that the list has the worker's
own queue (`OwnQueueListedHolds`). `ThreadPoolProofs` carries the first two over to the
system of the run `ThreadPool`.

**`WorkStealingQueue`** (`WorkStealingQueueProofs`; `QueueAssumption`: owner and thieves
are different, the array starts with 2 slots or more, and its length divides
`MaxIndex + 1`, as powers of two do). Items are followed by index rather than by slot: masking maps a window
of indices no longer than the array one-to-one to slots (`AndInjective`), so growth
(`GrowItems`) and the masking of the indices (`ResetItems`) need no induction over the
array. `QueueInv` has

* `LockFits`, `AtFits`, `ClaimFits`, `IndexFits`: who has the lock, which index a thread
  works with, and that head and tail cross only by what a thief or the owner is
  claiming. Since both move their index before they look at the other's, the range of
  the items has several ends (`Low`, `High`, `Reach`, `End`);
* `Stock`, `Within`: the array has every item that was pushed and not handed out, once,
  and nothing outside of the range;
* `HandFits`: what a thread has read is still in its slot when it clears it;
* `Denials`: an item that a call did not find is in the hands of another thread
  (`Covered`).

It is inductive as long as no thief moves the head past the largest index
(`NoOverflow`). There are two reasons why none does, and the theorems assume one of
them (`HeadSafe`): there is one thief, so the head is still where it has seen it below
the tail (`SeenBelow`); or the tail does not come to the largest index, except by
starting there as in the debug build (`TailFar`). In both cases the number of pushes
is at most `MaxIndex`, so that the array never needs more slots than there are indices.
The known limits have what happens outside of `HeadSafe`. Proved: `QueueTypes`,
`TakenOnceHolds`, `NothingLostHolds`, `AbsentWasTakenHolds`; `ThreadPoolProofs` carries
them over to the run `ThreadPool`, where both instances satisfy `HeadSafe`, and joins
the types of all parts in `PoolTypesHold`.

**Only model-checked.** Every invariant and every action property that a passing run
checks is proved, but for `RegionSettled`. What else remains with TLC is liveness (`CallsReturn`, `WorkHappens`,
`StoreReleased`): fairness and ENABLED are out of the prover's reach, so also the
eventual completion of what `NothingStranded`, `RequestServed`, `NoLostPulse` and
`WaiterWillBeWoken` show to be announced.

## 5. Findings

1. `syncblk.cpp:3084`: when the event of a monitor cannot be allocated, the
   exception leaves with the waiter counted; the monitor can then be free with a
   counted waiter that does not exist. The count is never taken back, so no newcomer
   takes the fast path again; each goes through the event, which `Leave` does set.
2. `syncblk.cpp:3101`: the remaining timeout of a timed `TryEnter` is deducted from
   a copy that the next round overwrites.
3. `syncblk.cpp:3561`: `t1` waits on an object with its own event (`m_EventWait`) and
   times out; `t2` enters the monitor and its `Pulse` dequeues the link of `t1`. `Restore`
   takes the link off the list of `t1` (`threads.cpp:4540` never stores `m_EventWait`), and
   in the contended entry `t1` runs code that waits on a second object: the list is
   empty, so this `Wait` takes and resets `m_EventWait`. The late `Set` of `t2` ends it
   as signalled, with its link still in the queue of the second object.
4. `threads.cpp:4543`: when the event store cannot allocate, `Restore` throws before it
   has entered the monitor again, against the comment at 4558, "We need to make sure
   that the finally from lock is excuted with the lock owned."
5. `ThreadPool.cs:520`: two stale compare-exchanges lower `wsqActive` from 2 to 1 and
   from 1 to 0 after a worker has pushed an item and written 2. The request made for
   the item then finds no work, the owner does not look at its own queue either, and
   the item stays there until somebody pushes another local item. (The state with
   every worker back in the runtime and the item still queued is reached some 15
   steps after the violation.)

### Known limits

Observations that no run states; the constants reproduce them. The first is why
the theorem on `NothingLost` has a hypothesis.

* `ThreadPool.cs:350`: `TrySteal` increments the head before it looks at the tail, and
  only the tail is kept from overflowing (137-150). With the tail at `int.MaxValue` one
  thief takes the last item; a second one, which saw the old head, writes `head + 1`,
  a negative number, before it restores it. The owner in `LocalPop`, with the tail
  already lowered, finds this head below the tail, reads null and starts over, and now
  returns without restoring the tail (320). The next item it pushes lies below the
  head, where nobody looks. In the code this takes 2^31 pushes to one queue.
  `NothingLost` (`WorkStealingQueueProps`) with two `Thieves`, `MaxIndex = 7`,
  `InitialSize = 2`, `StartIndices = {6}`, `MaxPushes = 2`, `MaxFinds = 0`; the attempt
  to prove it for any number of thieves led here.
* `threadsuspend.cpp:7142`: `SyncClean::CleanUp` relies on nobody being in
  cooperative mode, but after a collision `RestartEE` runs with threads still
  running: `NobodyCooperativeAtCleanUp` (`ThreadSuspendProps`), with three threads,
  one in `Collectors`, another in `Suspenders`, `Mortals = {}`, `BufferSize = 1`.
* `win32threadpool.cpp:1054-1059`: when a worker cannot be created, the comment says
  that "the gate thread will eventually notice that no completions are happening and
  force the creation of a new thread". `GateThreadStart` (4359-4360) raises the limit
  only when `NumActive >= MaxWorking`, so after a failed creation that leaves fewer
  active threads than `MaxWorking` it does nothing and the request waits for the next
  one: `RequestsTaken` (`WorkerPoolProps`) under `FairSpec` with `MinThreads = {1}`,
  `MaxThreads = {2}`, `MaxRequests = 2`, `MaxChanges = 0`, `MaxFailures = 1`.
  A gate thread that could not be created leaves a request behind a busy worker the
  same way.
* `win32threadpool.cpp:608`: `SetMinThreads(0)` is accepted; `MaxWorking` then becomes 0
  when the last worker exits (2168) or HillClimbing proposes it, against the assertion
  at `win32threadpool.h:441`, `MaxWorking > 0`. A request that is recorded then finds
  nobody at work, and the gate thread raises the limit. But if a worker that leaves
  raises it from 0 to a new minimum, `SetMinThreads`, which has written the minimum
  (616) and not yet begun its loop (619), finds nothing to raise and does not call
  `MaybeAddWorkingWorker`; the gate thread sees fewer active threads than `MaxWorking`
  (4359-4360), and the request waits for the next one. A proposal of 0 that
  HillClimbing made before the minimum was raised has the same effect.
  `RequestServed` without `leftRaised`, in the instance of the run `ThreadPool`.
* `win32threadpool.cpp:1917`: when COM cannot be initialized on a new worker it
  exits without taking its counts back (not modelled).
* `m_ActiveCount` of `SyncBlockCache` stays too high by one when no array of sync
  blocks can be allocated (`syncblk.cpp:1057` counts, `:1079` throws;
  `BlocksPartitioned` allows for it).

## 6. Not modelled

* Memory-model reordering other than the store buffers of `ThreadSuspend`. The
  other modules are sequentially consistent; their code uses interlocked operations
  and volatile fields for the words that matter.
* Application-domain index bits of the header and of the sync block.
* Orphaned thin locks and recycled thread ids (`IdDispenser` is sequential code
  under one lock).
* Timed `TryEnter` through the header (it is in `AwareLock`).
* COM interop data in sync blocks, exceptions in their cleanup, indices reserved
  without a sync block (only COM callers do), app-domain unload.
* The sync table that was replaced and is kept until the next collection, for
  readers that do not take the lock.
* Failures of `Thread::HasStarted` (`threads.cpp:2253-2267` and 2316): the thread goes
  back to preemptive mode without having been in the list.
* Background and server collections; of a no-GC region the sizes, and the counters of
  collections within it; suspension by the debugger, at shutdown, for
  an abort, and of a thread without stack to block on. How a thread is brought to a
  safe point (hijacking, redirection, polling) is one action.
* Of the thread pool: I/O completion threads, timers and registered waits, what
  HillClimbing decides (any limit may be proposed), unload of an application domain,
  unmanaged work requests, the handler of `ThreadAbortException` in `Dispatch`
  (`ThreadPool.cs:636-651`: this mscorlib does not offer `Thread.Abort`).
* The order of free lists (sets here).

## 7. Plan

1. The theorems on `MonitorWait` and `WorkStealingQueue` without their hypotheses on
   nesting and thieves, once finding 3 and the first known limit are repaired in the code.
2. An abstract specification of the local queue (a bag from which owner and thieves
   take) and the refinement from `WorkStealingQueue`.
3. `IdDispenser` with `ObjHeader`; readers of the replaced sync table;
   `SimpleRWLock` and the deadlock detection of class construction.
