------------------------------ MODULE AwareLock ------------------------------
(***************************************************************************)
(* The contended monitor of CoreCLR: class AwareLock (vm/syncblk.h,        *)
(* vm/syncblk.inl, vm/syncblk.cpp) together with the lazily created        *)
(* auto-reset event it blocks on (CLREventBase, vm/synch.cpp).             *)
(*                                                                         *)
(* Granularity.  One action is one access to shared memory that another    *)
(* thread can observe.  A loop "load the word, compute, compare-exchange"  *)
(* is one action, its successful iteration: a failed compare-exchange      *)
(* changes nothing and goes round again, and the only other shared field   *)
(* such a loop reads, m_HoldingThread, is compared with the running thread *)
(* itself, whose answer no other thread can change.  The decrement of      *)
(* m_TransientPrecious, which only the GC reads, goes with the step next   *)
(* to it.                                                                  *)
(*                                                                         *)
(* m_MonitorHeld is one word: bit 0 is heldBit, the bits above it are      *)
(* heldWaiters.  Every action that reads or writes it does so at once.     *)
(***************************************************************************)
EXTENDS Integers

CONSTANTS Thread,         \* threads that use this monitor
          NoThread,       \* NULL in m_HoldingThread
          EnterOps,       \* the entry points the clients of this monitor use
          MaxRecursion,   \* bound: how deep one thread enters
          MaxExceptions,  \* bound: interrupts, aborts and out-of-memory events
          TimeOut         \* the timeout of a timed TryEnter, in clock ticks; 0
                          \* when all waits end within the tick they start in

ASSUME AwareLockAssumption ==
  /\ NoThread \notin Thread
  /\ EnterOps \subseteq {"Enter", "Contention", "TryEnter", "TryEnterTimed"}
  /\ MaxRecursion \in Nat \ {0}
  /\ MaxExceptions \in Nat
  /\ TimeOut \in Nat

VARIABLES
  heldBit,        \* m_MonitorHeld & 1
  heldWaiters,    \* m_MonitorHeld >> 1
  holdingThread,  \* m_HoldingThread
  recursion,      \* m_Recursion
  precious,       \* SyncBlockPrecious bit of m_dwSyncIndex
  transient,      \* m_TransientPrecious
  eventAlloc,     \* CLREVENT_FLAGS_MONITOREVENT_ALLOCATED
  eventFlag,      \* CLREVENT_FLAGS_MONITOREVENT_SIGNALLED
  eventSet,       \* the auto-reset event is signalled
  pc,             \* where each thread is
  call,           \* the operation each thread runs
  depth,          \* history: entries the thread was granted and has not left
  exceptions,     \* history: exceptions so far (bounded)
  phantom,        \* history: waiter counts left behind by an exception
  waited          \* history: ticks the call has spent in its event waits

word   == <<heldBit, heldWaiters>>
owned  == <<holdingThread, recursion>>
life   == <<precious, transient>>
event  == <<eventAlloc, eventFlag, eventSet>>
ghosts == <<depth, exceptions, phantom, waited>>
vars   == <<word, owned, life, event, pc, call, ghosts>>

Calls == {"none", "Enter", "Contention", "TryEnter", "TryEnterTimed", "Leave"}

\* Threads that own heldBit but are not (or no longer) named by holdingThread.
Holding == {"own", "ownUnpin", "release"}

\* Inside EnterEpilogHelper, counted in heldWaiters.
Queued == {"epilog", "publish", "allocSet", "wait", "woken", "timedOut",
           "interrupted"}

PCs == {"idle", "enter", "spin", "spun", "try", "wouldBlock", "signal",
        "resignal"} \cup Holding \cup Queued

\* The threads the waiter part of m_MonitorHeld counts.
Waiters == {t \in Thread : pc[t] \in Queued}

TypeOK ==
  /\ heldBit \in BOOLEAN /\ heldWaiters \in Int
  /\ holdingThread \in Thread \cup {NoThread} /\ recursion \in Nat
  /\ precious \in BOOLEAN /\ transient \in Int
  /\ eventAlloc \in BOOLEAN /\ eventFlag \in BOOLEAN /\ eventSet \in BOOLEAN
  /\ pc \in [Thread -> PCs] /\ call \in [Thread -> Calls]
  /\ depth \in [Thread -> Nat] /\ exceptions \in Nat /\ phantom \in Nat
  /\ waited \in [Thread -> Nat]

Init ==
  /\ heldBit = FALSE /\ heldWaiters = 0
  /\ holdingThread = NoThread /\ recursion = 0
  /\ precious = FALSE /\ transient = 0
  /\ eventAlloc = FALSE /\ eventFlag = FALSE /\ eventSet = FALSE
  /\ pc = [t \in Thread |-> "idle"]
  /\ call = [t \in Thread |-> "none"]
  /\ depth = [t \in Thread |-> 0]
  /\ exceptions = 0 /\ phantom = 0
  /\ waited = [t \in Thread |-> 0]

-----------------------------------------------------------------------------
Goto(t, from, to) == pc[t] = from /\ pc' = [pc EXCEPT ![t] = to]

\* The call returns to its caller.
Return(t, from) == /\ Goto(t, from, "idle")
                   /\ call' = [call EXCEPT ![t] = "none"]

\* An exception leaves the operation at this point.
Throw(t, from) == /\ Return(t, from)
                  /\ exceptions < MaxExceptions
                  /\ exceptions' = exceptions + 1

\* A granted entry, seen by the caller.
Granted(t) == depth' = [depth EXCEPT ![t] = @ + 1]

\* state == 0: neither held nor waited for.
WordIsZero == ~heldBit /\ heldWaiters = 0

\* The recursive entry all three entry loops share.
Recurse(t, from) ==
  /\ ~WordIsZero
  /\ holdingThread = t
  /\ recursion' = recursion + 1
  /\ Granted(t)
  /\ Return(t, from)
  /\ UNCHANGED <<word, holdingThread, event, exceptions, phantom, waited>>

\* The compare-exchange of m_MonitorHeld from 0 to 1.
TakeFree(t, from, to) ==
  /\ WordIsZero
  /\ heldBit' = TRUE
  /\ Goto(t, from, to)
  /\ UNCHANGED <<heldWaiters, owned, life, event, call, ghosts>>

\* The compare-exchange that adds this thread to the waiters.
CountAsWaiter(t, from) ==
  /\ ~WordIsZero
  /\ heldWaiters' = heldWaiters + 1
  /\ Goto(t, from, "epilog")
  /\ UNCHANGED <<heldBit, owned, life, event, call, ghosts>>

-----------------------------------------------------------------------------
\* Mutant of BeginEnter: Contention goes preemptive without pinning the block.
BeginEnterUnpinned(t, op) ==
  /\ pc[t] = "idle" /\ depth[t] < MaxRecursion
  /\ call' = [call EXCEPT ![t] = op]
  /\ pc' = [pc EXCEPT ![t] = CASE op = "Enter" -> "enter"
                               [] op = "TryEnter" -> "try"
                               [] OTHER -> "spin"]
  /\ waited' = [waited EXCEPT ![t] = 0]
  /\ UNCHANGED <<word, owned, life, event, depth, exceptions, phantom>>

\* A client calls Enter, Contention (the JIT helpers' contended path), or
\* TryEnter without or with a timeout.  TryEnter with a timeout starts with
\* Contention, and Contention pins the sync block before it lets the GC run.
BeginEnter(t, op) ==
  /\ pc[t] = "idle" /\ depth[t] < MaxRecursion
  /\ call' = [call EXCEPT ![t] = op]
  /\ \/ /\ op = "Enter"
        /\ Goto(t, "idle", "enter") /\ UNCHANGED transient
     \/ /\ op = "TryEnter"
        /\ Goto(t, "idle", "try") /\ UNCHANGED transient
     \/ /\ op \in {"Contention", "TryEnterTimed"}
        /\ Goto(t, "idle", "spin") /\ transient' = transient + 1
  /\ waited' = [waited EXCEPT ![t] = 0]
  /\ UNCHANGED <<word, owned, precious, event, depth, exceptions, phantom>>

\* Enter: one successful round of its loop.
Enter(t) ==
  \/ TakeFree(t, "enter", "own")
  \/ Recurse(t, "enter") /\ UNCHANGED life
  \/ holdingThread # t /\ CountAsWaiter(t, "enter")

\* Contention: one TryEnter() of the spin loop, which never waits; a thread
\* abort handled on the way leaves with the pin.
SpinTry(t) ==
  \/ TakeFree(t, "spin", "ownUnpin")
  \/ /\ Recurse(t, "spin")
     /\ transient' = transient - 1 /\ UNCHANGED precious
  \/ /\ ~WordIsZero /\ holdingThread # t
     /\ Goto(t, "spin", "spun")
     /\ UNCHANGED <<word, owned, life, event, call, ghosts>>

SpinAbort(t) ==
  /\ \/ Throw(t, "spin")
     \/ Throw(t, "spun")
  /\ UNCHANGED <<word, owned, life, event, depth, phantom, waited>>

SpinAgain(t) ==
  /\ Goto(t, "spun", "spin")
  /\ UNCHANGED <<word, owned, life, event, call, ghosts>>

\* The spin loop ends without the lock: an infinite Contention goes on with
\* Enter(); the one of a timed TryEnter reports that it did not enter, and
\* TryEnter then returns FALSE if the time is over and tries again otherwise.
SpinEnd(t) ==
  /\ transient' = transient - 1
  /\ \/ call[t] = "Contention" /\ Goto(t, "spun", "enter") /\ UNCHANGED call
     \/ call[t] = "TryEnterTimed" /\ Goto(t, "spun", "try") /\ UNCHANGED call
     \/ call[t] = "TryEnterTimed" /\ Return(t, "spun")
  /\ UNCHANGED <<word, owned, precious, event, ghosts>>

\* TryEnter: its first loop.
TryEnter(t) ==
  \/ TakeFree(t, "try", "own")
  \/ Recurse(t, "try") /\ UNCHANGED life
  \/ /\ ~WordIsZero /\ holdingThread # t
     /\ \/ call[t] = "TryEnter" /\ Return(t, "try")
        \/ call[t] = "TryEnterTimed" /\ Goto(t, "try", "wouldBlock") /\ UNCHANGED call
     /\ UNCHANGED <<word, owned, life, event, ghosts>>

\* TryEnter: a pending abort is handled before the first loop.
TryAbort(t) ==
  /\ Throw(t, "try")
  /\ UNCHANGED <<word, owned, life, event, depth, phantom, waited>>

\* TryEnter: the second loop, which counts the thread as a waiter or retries.
WouldBlock(t) ==
  \/ /\ WordIsZero
     /\ Goto(t, "wouldBlock", "try")
     /\ UNCHANGED <<word, owned, life, event, call, ghosts>>
  \/ CountAsWaiter(t, "wouldBlock")

\* Enter, TryEnter, EnterHelper and the end of EnterEpilogHelper: the thread
\* that won the lock bit records itself.  The two ways in that pinned the
\* sync block unpin it.
SetOwner(t) ==
  /\ \/ /\ Return(t, "own") /\ UNCHANGED transient
     \/ /\ Return(t, "ownUnpin") /\ transient' = transient - 1
  /\ holdingThread' = t /\ recursion' = 1
  /\ Granted(t)
  /\ UNCHANGED <<word, precious, event, exceptions, phantom, waited>>

-----------------------------------------------------------------------------
\* EnterEpilogHelper up to the wait: pin the sync block and, if there is no
\* event yet, make the block precious for good and create the event.
EpilogStart(t) ==
  /\ transient' = transient + 1
  /\ \/ eventAlloc /\ Goto(t, "epilog", "wait") /\ UNCHANGED precious
     \/ ~eventAlloc /\ Goto(t, "epilog", "publish") /\ precious' = TRUE
  /\ UNCHANGED <<word, owned, event, call, ghosts>>

\* CreateMonitorEvent cannot create the event and throws OutOfMemory.  No
\* handler is in place yet: the waiter count and the pin stay behind.
EpilogOutOfMemory(t) ==
  /\ Throw(t, "publish")
  /\ phantom' = phantom + 1
  /\ UNCHANGED <<word, owned, life, event, depth, waited>>

\* Mutant of PublishEvent: an early signal is not forwarded to the new event.
PublishEventNoForward(t) ==
  /\ Goto(t, "publish", "wait")
  /\ eventAlloc' = TRUE
  /\ UNCHANGED <<word, owned, life, eventFlag, eventSet, call, ghosts>>

\* CreateMonitorEvent: the flag update.  The thread that sets the flag
\* forwards a signal that came before the event existed.
PublishEvent(t) ==
  /\ \/ eventAlloc /\ Goto(t, "publish", "wait")
     \/ ~eventAlloc /\ ~eventFlag /\ Goto(t, "publish", "wait")
     \/ ~eventAlloc /\ eventFlag /\ Goto(t, "publish", "allocSet")
  /\ eventAlloc' = TRUE
  /\ UNCHANGED <<word, owned, life, eventFlag, eventSet, call, ghosts>>

ForwardSignal(t) ==
  /\ Goto(t, "allocSet", "wait")
  /\ eventSet' = TRUE
  /\ UNCHANGED <<word, owned, life, eventAlloc, eventFlag, call, ghosts>>

\* The event wait ends: it is signalled (and, being auto-reset, unsignalled
\* by this), the timeout of a timed TryEnter runs out, or Thread.Interrupt
\* or an abort raises an exception in it.  A signalled wait has lasted any
\* time within its timeout.  The loop deducts that time from a copy of the
\* timeout (param.timeOut) which the next round takes afresh from timeOut,
\* so every wait of the call has the whole timeout.
WaitSignalled(t) ==
  /\ eventSet
  /\ Goto(t, "wait", "woken")
  /\ eventSet' = FALSE
  /\ \/ call[t] # "TryEnterTimed" /\ UNCHANGED waited
     \/ /\ call[t] = "TryEnterTimed" /\ waited[t] <= TimeOut
        /\ \E d \in 0..TimeOut : waited' = [waited EXCEPT ![t] = @ + d]
  /\ UNCHANGED <<word, owned, life, eventAlloc, eventFlag, call,
                 depth, exceptions, phantom>>

WaitTimedOut(t) ==
  /\ call[t] = "TryEnterTimed"
  /\ Goto(t, "wait", "timedOut")
  /\ waited' = [waited EXCEPT ![t] = @ + TimeOut]
  /\ UNCHANGED <<word, owned, life, event, call, depth, exceptions, phantom>>

\* (The exception may also come when the wait has been satisfied, out of the
\* SynchronizationContext to which DoAppropriateWaitWorker hands the wait.)
WaitInterrupted(t) ==
  /\ exceptions < MaxExceptions
  /\ Goto(t, "wait", "interrupted")
  /\ exceptions' = exceptions + 1
  /\ eventSet' \in {eventSet, FALSE}
  /\ UNCHANGED <<word, owned, life, eventAlloc, eventFlag, call, depth, phantom, waited>>

\* Mutant of WokenTry: a woken thread does not look at the lock bit.
WokenTryBlind(t) ==
  /\ heldBit' = TRUE /\ heldWaiters' = heldWaiters - 1
  /\ Goto(t, "woken", "ownUnpin")
  /\ UNCHANGED <<owned, life, event, call, ghosts>>

\* A woken thread takes a free lock and leaves the waiters in one exchange,
\* or finds it held and waits again.
WokenTry(t) ==
  \/ /\ heldBit
     /\ Goto(t, "woken", "wait")
     /\ UNCHANGED <<word, owned, life, event, call, ghosts>>
  \/ /\ ~heldBit
     /\ heldBit' = TRUE /\ heldWaiters' = heldWaiters - 1
     /\ Goto(t, "woken", "ownUnpin")
     /\ UNCHANGED <<owned, life, event, call, ghosts>>

\* Mutant of TimedOut: the waiter count is not taken back.
TimedOutCounted(t) ==
  /\ transient' = transient - 1
  /\ Return(t, "timedOut")
  /\ UNCHANGED <<word, owned, precious, event, ghosts>>

\* A timed-out thread leaves the waiters, unpins and returns FALSE.
TimedOut(t) ==
  /\ heldWaiters' = heldWaiters - 1
  /\ transient' = transient - 1
  /\ Return(t, "timedOut")
  /\ UNCHANGED <<heldBit, owned, precious, event, ghosts>>

\* The finally block of an interrupted wait leaves the waiters ...
Interrupted(t) ==
  /\ heldWaiters' = heldWaiters - 1
  /\ Goto(t, "interrupted", "resignal")
  /\ UNCHANGED <<heldBit, owned, life, event, call, ghosts>>

\* ... and passes the signal on; the exception then leaves with the pin.
Resignal(t) ==
  /\ eventSet' = TRUE
  /\ Return(t, "resignal")
  /\ UNCHANGED <<word, owned, life, eventAlloc, eventFlag, ghosts>>

-----------------------------------------------------------------------------
\* Mutant of Leave: any thread may give the lock up.
LeaveUnowned(t) ==
  /\ pc[t] = "idle" /\ holdingThread # NoThread
  /\ recursion' = recursion - 1
  /\ \/ /\ recursion # 1
        /\ UNCHANGED <<holdingThread, pc, call>>
     \/ /\ recursion = 1
        /\ holdingThread' = NoThread
        /\ Goto(t, "idle", "release")
        /\ call' = [call EXCEPT ![t] = "Leave"]
  /\ depth' = [depth EXCEPT ![holdingThread] = @ - 1]
  /\ UNCHANGED <<word, life, event, exceptions, phantom, waited>>

\* Leave / LeaveHelper: the owner gives up one level; at the last one it
\* forgets itself as the owner before it frees the lock bit.  (Called by a
\* thread that is not the owner it returns an error and changes nothing.)
Leave(t) ==
  /\ pc[t] = "idle" /\ holdingThread = t
  /\ recursion' = recursion - 1
  /\ depth' = [depth EXCEPT ![t] = @ - 1]
  /\ \/ /\ recursion # 1
        /\ UNCHANGED <<holdingThread, pc, call>>
     \/ /\ recursion = 1
        /\ holdingThread' = NoThread
        /\ Goto(t, "idle", "release")
        /\ call' = [call EXCEPT ![t] = "Leave"]
  /\ UNCHANGED <<word, life, event, exceptions, phantom, waited>>

\* Mutant of Release: the waiter part is not looked at.
ReleaseSilently(t) ==
  /\ heldBit' = FALSE
  /\ Return(t, "release")
  /\ UNCHANGED <<heldWaiters, owned, life, event, ghosts>>

\* LeaveHelper: clear the lock bit; with waiters the event must be signalled.
Release(t) ==
  /\ heldBit' = FALSE
  /\ \/ heldWaiters # 0 /\ Goto(t, "release", "signal") /\ UNCHANGED call
     \/ heldWaiters = 0 /\ Return(t, "release")
  /\ UNCHANGED <<heldWaiters, owned, life, event, ghosts>>

\* Signal / SetMonitorEvent: an event that does not exist yet is marked.
Signal(t) ==
  /\ \/ eventAlloc /\ eventSet' = TRUE /\ UNCHANGED eventFlag
     \/ ~eventAlloc /\ eventFlag' = TRUE /\ UNCHANGED eventSet
  /\ Return(t, "signal")
  /\ UNCHANGED <<word, owned, life, eventAlloc, ghosts>>

\* What the runtime does for a thread once a call has begun.
Step(t) ==
  \/ Enter(t) \/ SpinTry(t) \/ SpinEnd(t) \/ TryEnter(t) \/ WouldBlock(t)
  \/ SetOwner(t) \/ EpilogStart(t) \/ PublishEvent(t) \/ ForwardSignal(t)
  \/ WokenTry(t) \/ TimedOut(t) \/ Interrupted(t) \/ Resignal(t)
  \/ Release(t) \/ Signal(t)

\* What its environment (the client, the clock, other threads' interrupts,
\* the memory manager) does to it.
Environment(t) ==
  \/ \E op \in EnterOps : BeginEnter(t, op)
  \/ Leave(t) \/ WaitTimedOut(t) \/ WaitInterrupted(t)
  \/ SpinAgain(t) \/ SpinAbort(t) \/ TryAbort(t) \/ EpilogOutOfMemory(t)

Next == \E t \in Thread : Step(t) \/ Environment(t) \/ WaitSignalled(t)

Spec == Init /\ [][Next]_vars
==============================================================================
