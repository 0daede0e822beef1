---------------------------- MODULE ThreadSuspend ----------------------------
(***************************************************************************)
(* GC modes and the suspension of the runtime: Thread::DisablePreemptiveGC *)
(* and EnablePreemptiveGC (vm/threads.h) with their rare paths,            *)
(* ThreadSuspend::SuspendEE, SuspendRuntime and RestartEE                  *)
(* (vm/threadsuspend.cpp), the start and the end of a thread               *)
(* (vm/threads.cpp), and the caller that matters most,                     *)
(* GCHeap::GarbageCollectGeneration (gc/gc.cpp), with the no-GC regions    *)
(* that change what it does.                                               *)
(*                                                                         *)
(* Control.  todo[t] is what thread t still has to do, the next step       *)
(* first: a call puts the steps of the callee in front, a return takes the *)
(* head away.  The last entry is where the thread is between operations.   *)
(*                                                                         *)
(* Memory.  A mode switch stores m_fPreemptiveGCDisabled without a barrier *)
(* and then reads another word, so each thread has a store buffer for that *)
(* field; interlocked operations of the thread and                         *)
(* FlushProcessWriteBuffers empty it.  The other fields are written by     *)
(* interlocked operations or next to one.                                  *)
(*                                                                         *)
(* A suspension by the debugger, at shutdown and of a thread without stack *)
(* to block on (TS_BlockGCForSO) is left out.                              *)
(***************************************************************************)
EXTENDS Naturals, Sequences, SequencesExt

CONSTANTS Thread,
          NoThread,     \* a null thread pointer
          Collectors,   \* threads whose allocations may trigger a collection
          Suspenders,   \* threads that suspend for another reason (ReJIT, ...)
          Starters,     \* threads that start and end no-GC regions
          Mortals,      \* threads that start and end; the others run all along
          BufferSize    \* bound: stores of a thread that may be in flight

ASSUME ThreadSuspendAssumption ==
  /\ NoThread \notin Thread
  /\ Collectors \subseteq Thread /\ Suspenders \subseteq Thread
  /\ Starters \subseteq Thread /\ Mortals \subseteq Thread
  /\ BufferSize \in Nat \ {0}

VARIABLES
  coop,        \* m_fPreemptiveGCDisabled, as other threads see it
  buffer,      \* stores to it that are still in the thread's store buffer
  pending,     \* threads with TS_GCSuspendPending
  started,     \* threads without TS_Unstarted and TS_Dead: what GetThreadList has
  trap,        \* g_TrapReturningThreads
  inProgress,  \* GcInProgress
  suspension,  \* g_pSuspensionThread
  gcDone,      \* WaitForGCEvent is set
  rendezvous,  \* g_pGCSuspendEvent is set
  store,       \* who holds the thread store lock
  attempting,  \* m_pThreadAttemptingSuspendForGC
  abortEvt,    \* s_hAbortEvtCache: "none", "idle" (s_hAbortEvt is null) or "used"
  abortSet,    \* that event is set
  scan,        \* threads the current pass of SuspendRuntime has not inspected
  gcLock,      \* who holds gc_heap::gc_lock
  counted,     \* threads whose localCount is no longer dd_collection_count
  marked,      \* history: threads for which a collection marked since they asked
  spared,      \* history: threads for which memory for a no-GC region was set up
               \* instead, with the runtime stopped
  region,      \* pause_no_gc, minimal_gc_p and started: see Regions
  noMemory,    \* start_status = start_no_gc_no_memory
  starter,     \* who is in StartNoGCRegion, with g_no_gc_lock
  proceed,     \* proceed_with_gc_p
  todo         \* what each thread still has to do

modes   == <<coop, buffer>>
flags   == <<trap, inProgress, suspension, gcDone>>
abortVs == <<attempting, abortEvt, abortSet>>
gc      == <<gcLock, counted, marked, spared>>
noGC    == <<region, noMemory, starter, proceed>>
vars    == <<modes, pending, started, flags, rendezvous, store, abortVs, scan,
             gc, noGC, todo>>

\* Steps in which the thread works on references to objects.
CoopSteps == {"managed", "fixAlloc", "gcCount", "gcLock", "gcCheck"}

Steps == CoopSteps \cup
  {"native", "unstarted",
   "store1", "trap?", "rareDisable", "untilGCComplete", "waitGC", "recoop", "again",
   "store0", "catch?", "rareEnable", "signal",
   "hasStarted", "lockStore", "abort?", "abortEvt?", "abortWait", "enterStore",
   "transfer", "die", "unlockStore",
   "suspendEE", "nudge", "locked", "announce", "remember", "trapOn", "progressOn",
   "flush", "inspect", "pass", "passed", "collide", "retry", "work",
   "cleanUp", "progressOff", "trapOff", "forget", "wake",
   "gcUpdate", "gcMark", "gcLeave"}

\* A no-GC region that StartNoGCRegion has asked for (of the second kind when a full
\* blocking collection is not allowed), that has started, and that a collection has
\* put an end to before EndNoGCRegion.
Asked   == {"asked", "minimal"}
Regions == Asked \cup {"none", "started", "over"}

\* Threads whose request to collect has been answered.
Served == marked \cup spared

StateOK ==
  /\ coop \in [Thread -> BOOLEAN]
  /\ buffer \in [Thread -> Seq(BOOLEAN)]
  /\ \A t \in Thread : Len(buffer[t]) <= BufferSize
  /\ pending \subseteq Thread /\ started \subseteq Thread /\ trap \in {0, 1}
  /\ {inProgress, gcDone, rendezvous, abortSet} \subseteq BOOLEAN
  /\ {suspension, store, attempting, gcLock} \subseteq Thread \cup {NoThread}
  /\ abortEvt \in {"none", "idle", "used"}
  /\ scan \subseteq Thread /\ counted \subseteq Thread /\ Served \subseteq Thread
  /\ todo \in [Thread -> Seq(Steps)] /\ \A t \in Thread : todo[t] # <<>>

RegionOK ==
  /\ region \in Regions /\ noMemory \in BOOLEAN /\ proceed \in BOOLEAN
  /\ starter \in Thread \cup {NoThread}

TypeOK == StateOK /\ RegionOK

Init ==
  /\ coop = [t \in Thread |-> FALSE]
  /\ buffer = [t \in Thread |-> <<>>]
  /\ pending = {} /\ started = Thread \ Mortals /\ trap = 0
  /\ inProgress = FALSE /\ suspension = NoThread /\ gcDone = TRUE
  /\ rendezvous = FALSE /\ store = NoThread /\ attempting = NoThread
  /\ abortEvt = "none" /\ abortSet = FALSE /\ scan = {}
  /\ gcLock = NoThread /\ counted = {} /\ marked = {} /\ spared = {}
  /\ region = "none" /\ noMemory = FALSE /\ starter = NoThread /\ proceed = TRUE
  /\ todo = [t \in Thread |-> IF t \in Mortals THEN <<"unstarted">> ELSE <<"native">>]

-----------------------------------------------------------------------------
At(t, step) == Head(todo[t]) = step

\* The step is done: these come next, then what was to do after it.
Then(t, steps) == todo' = [todo EXCEPT ![t] = steps \o Tail(@)]

\* The mode the thread itself sees.
OwnMode(t) == IF buffer[t] = <<>> THEN coop[t] ELSE Last(buffer[t])

\* StoreWithoutBarrier to m_fPreemptiveGCDisabled.
Store(t, b) ==
  /\ Len(buffer[t]) < BufferSize
  /\ buffer' = [buffer EXCEPT ![t] = Append(@, b)]
  /\ UNCHANGED coop

\* An interlocked operation of the thread drains its store buffer.
Drained(t) ==
  /\ coop' = [coop EXCEPT ![t] = OwnMode(t)]
  /\ buffer' = [buffer EXCEPT ![t] = <<>>]

\* The processor writes the oldest buffered store to memory.
Drain(t) ==
  /\ buffer[t] # <<>>
  /\ coop' = [coop EXCEPT ![t] = Head(buffer[t])]
  /\ buffer' = [buffer EXCEPT ![t] = Tail(@)]
  /\ UNCHANGED <<pending, started, flags, rendezvous, store, abortVs, scan, gc, noGC, todo>>

GoOn == UNCHANGED <<started, flags, rendezvous, store, abortVs, scan, gc, noGC, pending>>

-----------------------------------------------------------------------------
(* Thread::DisablePreemptiveGC and RareDisablePreemptiveGC.                *)

Disable == <<"store1">>
Enable  == <<"store0">>

\* Enter cooperative mode first ...
Store1(t) == At(t, "store1") /\ Store(t, TRUE) /\ Then(t, <<"trap?">>) /\ GoOn

\* ... and only then look whether threads are to be trapped.
CheckTrap(t) ==
  /\ At(t, "trap?")
  /\ Then(t, IF trap # 0 THEN <<"rareDisable">> ELSE <<>>)
  /\ UNCHANGED modes /\ GoOn

MustWait(t) == inProgress /\ suspension # t

RareDisable(t) ==
  /\ At(t, "rareDisable")
  /\ Then(t, IF MustWait(t) /\ store # t THEN Enable \o <<"untilGCComplete">> ELSE <<>>)
  /\ UNCHANGED modes /\ GoOn

\* GCHeap::WaitUntilGCComplete.
UntilGCComplete(t) ==
  /\ At(t, "untilGCComplete")
  /\ Then(t, IF MustWait(t) THEN <<"waitGC">> ELSE <<"recoop">>)
  /\ UNCHANGED modes /\ GoOn

WaitGC(t) ==
  /\ At(t, "waitGC") /\ gcDone
  /\ Then(t, <<"recoop">>)
  /\ UNCHANGED modes /\ GoOn

\* FastInterlockOr(&m_fPreemptiveGCDisabled, 1).
Recoop(t) ==
  /\ At(t, "recoop")
  /\ coop' = [coop EXCEPT ![t] = TRUE]
  /\ buffer' = [buffer EXCEPT ![t] = <<>>]
  /\ Then(t, <<"again">>) /\ GoOn

Again(t) ==
  /\ At(t, "again")
  /\ Then(t, IF MustWait(t) THEN Enable \o <<"untilGCComplete">> ELSE <<>>)
  /\ UNCHANGED modes /\ GoOn

(* Thread::EnablePreemptiveGC and RareEnablePreemptiveGC.                  *)

Store0(t) == At(t, "store0") /\ Store(t, FALSE) /\ Then(t, <<"catch?">>) /\ GoOn

\* CatchAtSafePoint: somebody waits for this thread.
Catch(t) ==
  /\ At(t, "catch?")
  /\ Then(t, IF t \in pending THEN <<"rareEnable">> ELSE <<>>)
  /\ UNCHANGED modes /\ GoOn

RareEnable(t) ==
  /\ At(t, "rareEnable")
  /\ Drained(t)
  /\ Then(t, IF store # t THEN <<"signal">> ELSE <<>>) /\ GoOn

\* g_pGCSuspendEvent->Set().
Signal(t) ==
  /\ At(t, "signal")
  /\ rendezvous' = TRUE
  /\ Then(t, <<>>)
  /\ UNCHANGED <<modes, pending, started, flags, store, abortVs, scan, gc, noGC>>

-----------------------------------------------------------------------------
(* What threads do between these.                                          *)

Enter(t, from, steps) ==
  /\ todo[t] = <<from>> /\ starter # t
  /\ todo' = [todo EXCEPT ![t] = steps]
  /\ UNCHANGED <<modes, pending, started, flags, rendezvous, store, abortVs, scan, gc>>

Call(t, from, steps) == Enter(t, from, steps) /\ UNCHANGED noGC

ReturnToManaged(t) == Call(t, "native", Disable \o <<"managed">>)
CallNative(t)      == Call(t, "managed", Enable \o <<"native">>)

\* A hijacked return, a redirected thread or a GC poll: Thread::PulseGCMode.
PulseGCMode(t) == t \in pending /\ Call(t, "managed", Enable \o Disable \o <<"managed">>)

\* SuspendEE for another reason, from managed code of the runtime or from a
\* thread in preemptive mode; RestartEE follows.
SuspendAndRestart == <<"suspendEE", "work", "cleanUp">>

SuspendOther(t) ==
  /\ t \in Suspenders
  /\ \/ Call(t, "managed", SuspendAndRestart \o <<"managed">>)
     \/ Call(t, "native", SuspendAndRestart \o <<"native">>)

\* Thread::HasStarted, and Thread::OnThreadTerminate of a running thread.
Start(t) ==
  Call(t, "unstarted", <<"hasStarted", "lockStore", "transfer", "unlockStore", "managed">>)

\* Mutant of Terminate: the thread is dead before it goes cooperative.
TerminateDeadFirst(t) ==
  /\ t \in Mortals
  /\ Call(t, "native", <<"lockStore", "die", "unlockStore">>
                           \o Disable \o <<"fixAlloc">> \o Enable \o <<"unstarted">>)

Terminate(t) ==
  /\ t \in Mortals
  /\ Call(t, "native", Disable \o <<"fixAlloc">> \o Enable
                           \o <<"lockStore", "die", "unlockStore", "unstarted">>)

RequestGC == <<"gcCount", "gcLock", "managed">>

Collect(t) == t \in Collectors /\ Call(t, "managed", RequestGC)

\* m_fPreemptiveGCDisabled = TRUE, without a look at the trap.
HasStarted(t) == At(t, "hasStarted") /\ Store(t, TRUE) /\ Then(t, <<>>) /\ GoOn

\* ThreadStore::TransferStartedThread: GetThreadList has the thread from now on.
Transfer(t) ==
  /\ At(t, "transfer")
  /\ started' = started \cup {t}
  /\ Drained(t) /\ Then(t, <<>>)
  /\ UNCHANGED <<pending, flags, rendezvous, store, abortVs, scan, gc, noGC>>

FixAlloc(t) == At(t, "fixAlloc") /\ Then(t, <<>>) /\ UNCHANGED modes /\ GoOn

\* FastInterlockOr(&m_State, TS_Dead): GetThreadList skips it from now on.
Die(t) ==
  /\ At(t, "die")
  /\ started' = started \ {t}
  /\ Drained(t) /\ Then(t, <<>>)
  /\ UNCHANGED <<pending, flags, rendezvous, store, abortVs, scan, gc, noGC>>

-----------------------------------------------------------------------------
(* ThreadSuspend::LockThreadStore and UnlockThreadStore.  Whoever holds    *)
(* gc_lock locks it for a collection.                                      *)

ForGC(t) == gcLock = t

LockStore(t) ==
  /\ At(t, "lockStore")
  /\ Then(t, IF OwnMode(t) /\ ~ForGC(t)
             THEN Enable \o <<"abort?">> \o Disable ELSE <<"abort?">>)
  /\ UNCHANGED modes /\ GoOn

\* Give way to a collection that an earlier suspension collided with.
CheckAbort(t) ==
  /\ At(t, "abort?")
  /\ Then(t, IF abortEvt = "used" /\ ~ForGC(t) /\ attempting \notin {NoThread, t}
             THEN <<"abortEvt?">> ELSE <<"enterStore">>)
  /\ UNCHANGED modes /\ GoOn

\* hAbortEvt = s_hAbortEvt, read a second time and without the lock.
ReadAbortEvt(t) ==
  /\ At(t, "abortEvt?")
  /\ Then(t, IF abortEvt = "used" THEN <<"abortWait">> ELSE <<"enterStore">>)
  /\ UNCHANGED modes /\ GoOn

AbortWait(t) ==
  /\ At(t, "abortWait") /\ abortSet
  /\ Then(t, <<"enterStore">>)
  /\ UNCHANGED modes /\ GoOn

EnterStore(t) ==
  /\ At(t, "enterStore") /\ store = NoThread
  /\ store' = t
  /\ Drained(t) /\ Then(t, <<>>)
  /\ UNCHANGED <<pending, started, flags, rendezvous, abortVs, scan, gc, noGC>>

UnlockStore(t) ==
  /\ At(t, "unlockStore")
  /\ store' = NoThread
  /\ Drained(t) /\ Then(t, <<>>)
  /\ UNCHANGED <<pending, started, flags, rendezvous, abortVs, scan, gc, noGC>>

-----------------------------------------------------------------------------
(* ThreadSuspend::SuspendEE.                                               *)

\* A collection has priority: it says so before it queues for the lock ...
SuspendEE(t) ==
  /\ At(t, "suspendEE")
  /\ attempting' = IF ForGC(t) THEN t ELSE attempting
  /\ Then(t, (IF ForGC(t) THEN <<"nudge">> ELSE <<>>) \o <<"lockStore", "locked">>)
  /\ UNCHANGED <<modes, pending, started, flags, rendezvous, store, abortEvt,
                 abortSet, scan, gc, noGC>>

\* ... and wakes a suspension that holds it.
Nudge(t) ==
  /\ At(t, "nudge")
  /\ rendezvous' = TRUE
  /\ Then(t, <<>>)
  /\ UNCHANGED <<modes, pending, started, flags, store, abortVs, scan, gc, noGC>>

\* Mutant of Locked: those who gave way are not told.
LockedSilently(t) ==
  /\ At(t, "locked")
  /\ attempting' = IF ForGC(t) THEN NoThread ELSE attempting
  /\ Then(t, <<"announce">>)
  /\ UNCHANGED <<modes, pending, started, flags, rendezvous, store, abortEvt,
                 abortSet, scan, gc, noGC>>

\* The lock is held: release the suspensions that gave way.
Locked(t) ==
  /\ At(t, "locked")
  /\ IF ForGC(t)
     THEN /\ attempting' = NoThread
          /\ abortEvt' = IF abortEvt = "none" THEN "none" ELSE "idle"
          /\ abortSet' = (abortEvt # "none" \/ abortSet)
     ELSE UNCHANGED abortVs
  /\ Then(t, <<"announce">>)
  /\ UNCHANGED <<modes, pending, started, flags, rendezvous, store, scan, gc, noGC>>

\* ResetWaitForGCEvent.
Announce(t) ==
  /\ At(t, "announce")
  /\ gcDone' = FALSE
  /\ Then(t, <<"remember">>)
  /\ UNCHANGED <<modes, pending, started, trap, inProgress, suspension, rendezvous, store,
                 abortVs, scan, gc, noGC>>

Remember(t) ==
  /\ At(t, "remember")
  /\ suspension' = t
  /\ Then(t, <<"trapOn">>)
  /\ UNCHANGED <<modes, pending, started, trap, inProgress, gcDone, rendezvous, store,
                 abortVs, scan, gc, noGC>>

\* TrapReturningThreads(TRUE).
TrapOn(t) ==
  /\ At(t, "trapOn")
  /\ trap' = trap + 1
  /\ Drained(t) /\ Then(t, <<"progressOn">>)
  /\ UNCHANGED <<pending, started, inProgress, suspension, gcDone, rendezvous, store,
                 abortVs, scan, gc, noGC>>

ProgressOn(t) ==
  /\ At(t, "progressOn")
  /\ inProgress' = TRUE
  /\ Drained(t) /\ Then(t, <<"flush">>)
  /\ UNCHANGED <<pending, started, trap, suspension, gcDone, rendezvous, store,
                 abortVs, scan, gc, noGC>>

-----------------------------------------------------------------------------
(* ThreadSuspend::SuspendRuntime.                                          *)

\* Mutant of Flush: store buffers are not flushed.
FlushNothing(t) ==
  /\ At(t, "flush")
  /\ scan' = started
  /\ Then(t, <<"inspect">>)
  /\ UNCHANGED <<modes, pending, started, flags, rendezvous, store, abortVs, gc, noGC>>

\* FlushProcessWriteBuffers; then the first pass over the thread list.
Flush(t) ==
  /\ At(t, "flush")
  /\ coop' = [u \in Thread |-> OwnMode(u)]
  /\ buffer' = [u \in Thread |-> <<>>]
  /\ scan' = started
  /\ Then(t, <<"inspect">>)
  /\ UNCHANGED <<pending, started, flags, rendezvous, store, abortVs, gc, noGC>>

\* One thread of the first pass: those in cooperative mode are marked.
Inspect(t) ==
  /\ At(t, "inspect")
  /\ \/ \E u \in scan :
          /\ pending' = IF u # t /\ coop[u] THEN pending \cup {u} ELSE pending \ {u}
          /\ scan' = scan \ {u}
          /\ UNCHANGED todo
     \/ /\ scan = {}
        /\ scan' = pending
        /\ Then(t, <<"pass">>)
        /\ UNCHANGED pending
  /\ UNCHANGED <<modes, started, flags, rendezvous, store, abortVs, gc, noGC>>

\* One thread of a later pass: a marked one that left cooperative mode counts
\* as suspended.
Pass(t) ==
  /\ At(t, "pass")
  /\ \/ \E u \in scan :
          /\ pending' = IF coop[u] THEN pending ELSE pending \ {u}
          /\ scan' = scan \ {u}
          /\ UNCHANGED todo
     \/ /\ scan = {}
        /\ Then(t, <<"passed">>)
        /\ UNCHANGED <<pending, scan>>
  /\ UNCHANGED <<modes, started, flags, rendezvous, store, abortVs, gc, noGC>>

Collided(t) == attempting \notin {NoThread, t}

\* No marked thread is left.
Rendezvoused(t) ==
  /\ At(t, "passed") /\ pending = {}
  /\ rendezvous' = FALSE
  /\ Then(t, <<>>)
  /\ UNCHANGED <<modes, pending, started, flags, store, abortVs, scan, gc, noGC>>

\* Another thread wants to collect: give up (ERROR_TIMEOUT).
GiveUp(t) ==
  /\ At(t, "passed") /\ pending # {} /\ Collided(t)
  /\ Then(t, <<"collide">>)
  /\ UNCHANGED modes /\ GoOn

\* Mutant of WaitRendezvous: the wait has no timeout.
WaitRendezvousUntimed(t) ==
  /\ At(t, "passed") /\ pending # {} /\ ~Collided(t) /\ rendezvous
  /\ rendezvous' = FALSE
  /\ scan' = pending
  /\ Then(t, <<"pass">>)
  /\ UNCHANGED <<modes, pending, started, flags, store, abortVs, gc, noGC>>

\* g_pGCSuspendEvent->Wait(PING_JIT_TIMEOUT) returns, set or not.
WaitRendezvous(t) ==
  /\ At(t, "passed") /\ pending # {} /\ ~Collided(t)
  /\ rendezvous' = FALSE
  /\ scan' = pending
  /\ Then(t, <<"pass">>)
  /\ UNCHANGED <<modes, pending, started, flags, store, abortVs, gc, noGC>>

\* SuspendEE after ERROR_TIMEOUT: the event for those who are to give way,
\* created when there is none (which may fail), and RestartEE.
Collide(t) ==
  /\ At(t, "collide")
  /\ \/ abortEvt' = "used" /\ abortSet' = FALSE
     \/ abortEvt = "none" /\ UNCHANGED <<abortEvt, abortSet>>
  /\ Then(t, <<"cleanUp", "retry">>)
  /\ UNCHANGED <<modes, pending, started, flags, rendezvous, store, attempting,
                 scan, gc, noGC>>

\* PulseGCMode when somebody suspends this thread now, and from the start.
Retry(t) ==
  /\ At(t, "retry")
  /\ Then(t, (IF t \in pending /\ OwnMode(t) THEN Enable \o Disable ELSE <<>>)
               \o <<"suspendEE">>)
  /\ UNCHANGED modes /\ GoOn

-----------------------------------------------------------------------------
(* ThreadSuspend::RestartEE.                                               *)

\* SyncClean::CleanUp and PrepareForEERestart.
CleanUp(t) ==
  /\ At(t, "cleanUp")
  /\ pending' = pending \ started
  /\ Then(t, <<"progressOff">>)
  /\ UNCHANGED <<modes, started, flags, rendezvous, store, abortVs, scan, gc, noGC>>

ProgressOff(t) ==
  /\ At(t, "progressOff")
  /\ inProgress' = FALSE
  /\ Then(t, <<"trapOff">>)
  /\ UNCHANGED <<modes, pending, started, trap, suspension, gcDone, rendezvous, store,
                 abortVs, scan, gc, noGC>>

\* Mutant of TrapOff: the trap stays.
TrapOffLost(t) ==
  /\ At(t, "trapOff")
  /\ Drained(t) /\ Then(t, <<"forget">>)
  /\ UNCHANGED <<pending, started, flags, rendezvous, store, abortVs, scan, gc, noGC>>

\* TrapReturningThreads(FALSE).
TrapOff(t) ==
  /\ At(t, "trapOff")
  /\ trap' = trap - 1
  /\ Drained(t) /\ Then(t, <<"forget">>)
  /\ UNCHANGED <<pending, started, inProgress, suspension, gcDone, rendezvous, store,
                 abortVs, scan, gc, noGC>>

Forget(t) ==
  /\ At(t, "forget")
  /\ suspension' = NoThread
  /\ Then(t, <<"wake">>)
  /\ UNCHANGED <<modes, pending, started, trap, inProgress, gcDone, rendezvous, store,
                 abortVs, scan, gc, noGC>>

\* Mutant of Wake: the event is not set.
WakeNobody(t) ==
  /\ At(t, "wake")
  /\ Then(t, <<"unlockStore">>)
  /\ UNCHANGED modes /\ GoOn

\* SetWaitForGCEvent; ResumeRuntime unlocks the thread store.
Wake(t) ==
  /\ At(t, "wake")
  /\ gcDone' = TRUE
  /\ Then(t, <<"unlockStore">>)
  /\ UNCHANGED <<modes, pending, started, trap, inProgress, suspension, rendezvous, store,
                 abortVs, scan, gc, noGC>>

-----------------------------------------------------------------------------
(* GCHeap::GarbageCollectGeneration, workstation GC.                       *)

\* localCount = dd_collection_count(dd).
GCCount(t) ==
  /\ At(t, "gcCount")
  /\ counted' = counted \ {t} /\ marked' = marked \ {t} /\ spared' = spared \ {t}
  /\ Then(t, <<>>)
  /\ UNCHANGED <<modes, pending, started, flags, rendezvous, store, abortVs, scan, gcLock,
                 noGC>>

\* Mutant of GCLock: whoever finds it taken spins in cooperative mode.
GCLockSpins(t) ==
  /\ At(t, "gcLock") /\ gcLock = NoThread
  /\ gcLock' = t
  /\ Drained(t) /\ Then(t, <<"gcCheck">>)
  /\ UNCHANGED <<pending, started, flags, rendezvous, store, abortVs, scan, counted,
                 marked, spared, noGC>>

\* enter_spin_lock: whoever finds it taken toggles its mode between attempts.
GCLock(t) ==
  /\ At(t, "gcLock")
  /\ \/ /\ gcLock = NoThread /\ gcLock' = t
        /\ Drained(t) /\ Then(t, <<"gcCheck">>)
     \/ /\ gcLock # NoThread
        /\ Then(t, Enable \o Disable \o <<"gcLock">>)
        /\ UNCHANGED <<modes, gcLock>>
  /\ UNCHANGED <<pending, started, flags, rendezvous, store, abortVs, scan, counted,
                 marked, spared, noGC>>

\* Mutant of GCCheck: the collection is counted when the others run again.
GCCheckCountsLate(t) ==
  /\ At(t, "gcCheck")
  /\ Then(t, IF t \in counted THEN <<"gcLeave">>
             ELSE Enable \o <<"suspendEE">> \o Disable
                    \o <<"gcMark", "cleanUp", "gcUpdate", "gcLeave">>)
  /\ UNCHANGED modes /\ GoOn

\* Somebody else collected while this thread waited for the lock: nothing to do.
GCCheck(t) ==
  /\ At(t, "gcCheck")
  /\ Then(t, IF t \in counted THEN <<"gcLeave">>
             ELSE Enable \o <<"suspendEE">> \o Disable
                    \o <<"gcUpdate", "gcMark", "cleanUp", "gcLeave">>)
  /\ UNCHANGED modes /\ GoOn

\* Threads that wait for gc_lock: those with a localCount.
Asking == {u \in Thread : Contains(todo[u], "gcLock")}

\* should_proceed_with_gc.  A collection within a no-GC region ends the region.
\* For one that is asked for, should_proceed_for_no_gc looks whether there is memory
\* enough: then nothing is collected, and neither is it when a full collection would
\* be needed and is not allowed or when an attempt has failed already.
ShouldProceed ==
  \/ /\ region \in Asked
     /\ \/ ~noMemory /\ proceed' = TRUE /\ UNCHANGED <<region, noMemory>>
        \/ /\ proceed' = FALSE /\ region' = "started"
           /\ \/ UNCHANGED noMemory
              \/ region = "minimal" /\ noMemory' = TRUE
  \/ /\ region \notin Asked
     /\ region' = IF region = "started" THEN "over" ELSE region
     /\ proceed' = TRUE /\ UNCHANGED noMemory

\* The counts change in any case: first thing in gc1, or in
\* update_collection_counts_for_no_gc.
GCUpdate(t) ==
  /\ At(t, "gcUpdate")
  /\ ShouldProceed
  /\ counted' = counted \cup Asking
  /\ Then(t, <<>>)
  /\ UNCHANGED <<modes, pending, started, flags, rendezvous, store, abortVs, scan,
                 gcLock, marked, spared, starter>>

\* Mutant of AllocateForNoGC: the region is not recorded as started.
AllocateForNoGCUnstarted ==
  \/ UNCHANGED <<region, noMemory>>
  \/ noMemory' = TRUE /\ UNCHANGED region

\* allocate_for_no_gc_after_gc: is there memory for the region now?
AllocateForNoGC ==
  \/ region' = "started" /\ UNCHANGED noMemory
  \/ noMemory' = TRUE /\ UNCHANGED region

\* garbage_collect, if it is to proceed; a minimal collection marks nothing.  (Nobody
\* reads proceed_with_gc_p after this until ShouldProceed sets it.)
GCMark(t) ==
  /\ At(t, "gcMark")
  /\ IF proceed /\ region # "minimal"
     THEN marked' = marked \cup Asking /\ UNCHANGED spared
     ELSE spared' = spared \cup Asking /\ UNCHANGED marked
  /\ IF proceed /\ region \in Asked THEN AllocateForNoGC ELSE UNCHANGED <<region, noMemory>>
  /\ proceed' = TRUE
  /\ Then(t, <<>>)
  /\ UNCHANGED <<modes, pending, started, flags, rendezvous, store, abortVs, scan,
                 gcLock, counted, starter>>

GCLeave(t) ==
  /\ At(t, "gcLeave")
  /\ gcLock' = NoThread
  /\ counted' = counted \ {t} /\ marked' = marked \ {t} /\ spared' = spared \ {t}
  /\ Then(t, <<>>)
  /\ UNCHANGED <<modes, pending, started, flags, rendezvous, store, abortVs, scan, noGC>>

-----------------------------------------------------------------------------
(* GCHeap::StartNoGCRegion and EndNoGCRegion: cooperative, and one after   *)
(* the other under g_no_gc_lock.                                           *)

RegionOnly ==
  UNCHANGED <<modes, pending, started, flags, rendezvous, store, abortVs, scan, gc,
              proceed, todo>>

\* prepare_for_no_gc_region, and a collection to start the region.
StartNoGCRegion(t) ==
  /\ t \in Starters /\ starter = NoThread /\ region = "none"
  /\ Enter(t, "managed", RequestGC)
  /\ region' \in Asked /\ starter' = t
  /\ UNCHANGED <<noMemory, proceed>>

\* The region is started or was not to be had (handle_failure_for_no_gc).
StartedNoGCRegion(t) ==
  /\ starter = t /\ todo[t] = <<"managed">>
  /\ region' = IF noMemory THEN "none" ELSE region
  /\ noMemory' = FALSE /\ starter' = NoThread
  /\ RegionOnly

\* EndNoGCRegion; and StartNoGCRegion within a region (start_no_gc_in_progress) is a
\* failure and ends the region, too.
EndNoGCRegion(t) ==
  /\ t \in Starters /\ starter = NoThread /\ region # "none" /\ todo[t] = <<"managed">>
  /\ region' = "none"
  /\ UNCHANGED <<noMemory, starter>> /\ RegionOnly

\* What a suspension for another reason does with the runtime stopped.
Work(t) == At(t, "work") /\ Then(t, <<>>) /\ UNCHANGED modes /\ GoOn

-----------------------------------------------------------------------------
ModeSwitch(t) ==
  \/ Store1(t) \/ CheckTrap(t) \/ RareDisable(t) \/ UntilGCComplete(t) \/ WaitGC(t)
  \/ Recoop(t) \/ Again(t) \/ Store0(t) \/ Catch(t) \/ RareEnable(t) \/ Signal(t)

StoreLock(t) ==
  \/ LockStore(t) \/ CheckAbort(t) \/ ReadAbortEvt(t) \/ AbortWait(t)
  \/ EnterStore(t) \/ UnlockStore(t)

Suspending(t) ==
  \/ SuspendEE(t) \/ Nudge(t) \/ Locked(t) \/ Announce(t) \/ Remember(t) \/ TrapOn(t)
  \/ ProgressOn(t) \/ Flush(t) \/ Inspect(t) \/ Pass(t) \/ Rendezvoused(t)
  \/ GiveUp(t) \/ WaitRendezvous(t) \/ Collide(t) \/ Retry(t) \/ Work(t)

Restarting(t) == CleanUp(t) \/ ProgressOff(t) \/ TrapOff(t) \/ Forget(t) \/ Wake(t)

Collecting(t) ==
  \/ GCCount(t) \/ GCLock(t) \/ GCCheck(t) \/ GCUpdate(t) \/ GCMark(t) \/ GCLeave(t)
  \/ StartedNoGCRegion(t)

Lifetime(t) == HasStarted(t) \/ Transfer(t) \/ FixAlloc(t) \/ Die(t)

\* The next step of an operation that has begun.
Step(t) ==
  ModeSwitch(t) \/ StoreLock(t) \/ Suspending(t) \/ Restarting(t) \/ Collecting(t)
  \/ Lifetime(t)

\* A thread begins an operation.
Begin(t) ==
  ReturnToManaged(t) \/ CallNative(t) \/ SuspendOther(t) \/ Start(t) \/ Terminate(t)
  \/ Collect(t) \/ StartNoGCRegion(t) \/ EndNoGCRegion(t)

Moves(t) == Step(t) \/ Begin(t) \/ PulseGCMode(t) \/ Drain(t)

Next == \E t \in Thread : Moves(t)

Spec == Init /\ [][Next]_vars
==============================================================================
