--------------------------- MODULE AwareLockProps ----------------------------
(***************************************************************************)
(* What AwareLock guarantees.                                              *)
(***************************************************************************)
EXTENDS AwareLock, FiniteSets

\* A process has finitely many threads.
ASSUME FiniteThreads == IsFiniteSet(Thread)

\* Two threads that were both granted the monitor and have not left it are
\* the same thread, and its m_Recursion is the number of its entries.
MutualExclusion ==
  \A t, u \in Thread :
    depth[t] > 0 => /\ depth[u] > 0 => t = u
                    /\ holdingThread = t /\ recursion = depth[t] /\ heldBit

\* A signal that will reach a waiter: the event is set, or was signalled
\* before it existed, or a thread is about to set it (one that was interrupted
\* may have consumed it), or a waiter already consumed it and is about to try
\* the lock.
WakeupPending ==
  \/ eventSet
  \/ eventFlag /\ ~eventAlloc
  \/ \E t \in Thread : pc[t] \in {"signal", "interrupted", "resignal", "allocSet", "woken"}

\* The lost-wakeup hazard of Leave: the lock bit is freed first and the event
\* signalled later, while waiters time out, are interrupted, and create the
\* event.  Whenever the monitor is free and waiters are counted, a wakeup is
\* on its way.
NoLostWakeup == ~heldBit /\ heldWaiters > 0 => WakeupPending

\* The assertions (state >> 1) != 0 of EnterEpilogHelper: the waiter part of
\* the word counts the threads in EnterEpilogHelper (and what was left behind
\* by those that ran out of memory there).
WaiterAccounting == heldWaiters = Cardinality(Waiters) + phantom

\* SyncBlock::IsIDisposable, what the GC asks before it frees the block.
IsIDisposable == ~precious /\ ~heldBit /\ heldWaiters = 0 /\ transient = 0

\* Where a thread has incremented m_TransientPrecious and not decremented it
\* yet; there it runs in preemptive mode, so that a GC may run, except in
\* "ownUnpin", where it already holds the lock bit.
PinnedAt == {"spin", "spun", "ownUnpin", "publish", "allocSet", "wait",
             "woken", "timedOut", "interrupted", "resignal"}

Preemptive(t) == pc[t] \in PinnedAt \ {"ownUnpin"}

\* The GC never frees a sync block under a thread that waits or spins on it.
PinnedWhileUsed == (\E t \in Thread : Preemptive(t)) => ~IsIDisposable

\* The comment of Enter and TryEnter (syncblk.cpp:2854 and 2965): "It's possible to get
\* here with waiters but no lock held, but in this case a signal is about to be
\* fired which will wake up a waiter."  There is a waiter to wake up.
CountedWaiterExists == ~heldBit /\ heldWaiters > 0 => Waiters # {}

\* The comment of EnterEpilogHelper (syncblk.cpp:3106): "Measure the time we
\* wait so that, in the case where we wake up and fail to acquire the mutex, we
\* can adjust remaining timeout accordingly."  A timed TryEnter waits no longer
\* than its timeout.
TimeOutHonoured == \A t \in Thread : waited[t] <= TimeOut

-----------------------------------------------------------------------------
\* The thread that owns the lock bit.
LockOwner(t) == holdingThread = t \/ pc[t] \in Holding

\* What makes MutualExclusion inductive: a thread that won the lock bit and has
\* not recorded itself (or has just taken its record back) is alone, nobody is
\* recorded meanwhile, and the bit is set exactly while someone owns it.
Ownership ==
  /\ \A t \in Thread : depth[t] = IF holdingThread = t THEN recursion ELSE 0
  /\ holdingThread # NoThread => recursion >= 1
  /\ \A t \in Thread : pc[t] \in Holding => holdingThread = NoThread
  /\ \A t, u \in Thread : pc[t] \in Holding /\ pc[u] \in Holding => t = u
  /\ heldBit <=> \E t \in Thread : LockOwner(t)

Pinned == {t \in Thread : pc[t] \in PinnedAt}

\* What makes PinnedWhileUsed inductive: every such thread is counted (an
\* exception leaves its count behind for good).
Pinning == transient >= Cardinality(Pinned)

\* AwareLock implements Monitor: the monitor is taken when the lock bit is
\* won and free again when the lock bit is cleared.
absOwner == IF \E t \in Thread : LockOwner(t)
            THEN CHOOSE t \in Thread : LockOwner(t) ELSE NoThread

absCount == IF absOwner = NoThread THEN 0
            ELSE IF holdingThread = NoThread THEN 1 ELSE recursion

M == INSTANCE Monitor WITH owner <- absOwner, count <- absCount

\* Every step of AwareLock is a step of the abstract monitor or leaves it alone.
ImplementsMonitor == M!Spec

-----------------------------------------------------------------------------
\* The scheduler runs every thread that can run; the event serves its waiters
\* in turn; the spin loop is bounded; an owner leaves some time.
Fairness ==
  \A t \in Thread : /\ WF_vars(Step(t)) /\ WF_vars(Leave(t))
                    /\ SF_vars(WaitSignalled(t) \/ SpinEnd(t))

FairSpec == Spec /\ Fairness

\* Nobody starves: every Enter that waits without a timeout is granted, although
\* other entering threads, waiters that time out or are interrupted, the
\* creation of the event and the owner that leaves interleave in every way.
\* (A timed TryEnter has no such guarantee: its retry loop can alternate
\* between "held" and "free again" for as long as others use the monitor.)
EnterReturns ==
  \A t \in Thread :
    (call[t] \in {"Enter", "Contention", "Leave"}) ~> (call[t] = "none")
==============================================================================
