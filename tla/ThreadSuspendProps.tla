------------------------- MODULE ThreadSuspendProps --------------------------
(***************************************************************************)
(* What the suspension of the runtime guarantees.                          *)
(***************************************************************************)
EXTENDS ThreadSuspend

\* SuspendEE has returned to this thread and RestartEE has not begun to let the
\* others go.  (A thread that ran at gcUpdate would still run at gcMark.)
Stopped(t) ==
  \/ Head(todo[t]) \in {"work", "gcMark"}
  \/ Head(todo[t]) \in {"cleanUp", "progressOff"} /\ ~Contains(todo[t], "retry")

\* The thread works on references to objects.
InManaged(t) == Head(todo[t]) \in CoopSteps

\* The exclusive lock on managed execution that SuspendEE acquires: while it is
\* held no other thread runs cooperatively, whatever its store buffer hid when
\* SuspendRuntime looked at it.
StopTheWorld == \A s, t \in Thread : Stopped(s) /\ t # s => ~InManaged(t)

\* The collector may rely on every thread being in the list: a thread that runs
\* cooperatively is one GetThreadList returns.
ListedWhenManaged == \A t \in Thread : InManaged(t) => t \in started

\* A request to collect is answered without a collection only when, since it was
\* made, one has marked the heap or the memory for a no-GC region has been set up
\* with the runtime stopped.
RequestHonoured == \A t \in Thread : At(t, "gcCheck") /\ t \in counted => t \in Served

\* StartNoGCRegion does not return success without a region, whichever thread's
\* collection it was that found its request (no attempt at it is left out because
\* the counts have changed for another reason).
RegionSettled ==
  \A t \in Thread : starter = t /\ todo[t] = <<"managed">> => noMemory \/ region \notin Asked

\* WaitForGCEvent and the trap go together: nobody waits for an event that no
\* one is going to set.  The thread that has reset it holds the thread store lock;
\* it is g_pSuspensionThread but for the steps next to the reset and the set.
WaiterWillBeWoken ==
  (\E t \in Thread : At(t, "waitGC")) /\ ~gcDone =>
     /\ store # NoThread
     /\ suspension = store \/ At(store, "remember") \/ At(store, "wake")

\* The same for the event of a collision: whoever waits for it, a collection is
\* on its way to set it.
AborterWillBeWoken ==
  (\E t \in Thread : At(t, "abortWait")) /\ ~abortSet => attempting # NoThread

\* RestartEE (threadsuspend.cpp:7139) at SyncClean::CleanUp: "we know that no
\* threads are in COOP mode at this point (because the EE is suspended)".
NobodyCooperativeAtCleanUp ==
  \A s, t \in Thread : At(s, "cleanUp") /\ t # s => ~InManaged(t)

-----------------------------------------------------------------------------
\* The scheduler runs every thread and the processor drains its store buffers; a
\* thread that somebody waits for comes to a safe point (its return is hijacked,
\* it is redirected or it polls, and SuspendRuntime tries again after every
\* PING_JIT_TIMEOUT); a thread that wants the thread store lock gets it when it
\* is free often enough.
Fairness ==
  \A t \in Thread : /\ WF_vars(Step(t)) /\ WF_vars(Drain(t))
                    /\ WF_vars(PulseGCMode(t))
                    /\ SF_vars(EnterStore(t))

FairSpec == Spec /\ Fairness

\* A collection that has been decided on takes place, in spite of other
\* suspensions it collides with, of rendezvous events set too early or never, and
\* of threads that spin for gc_lock.  (A suspension for another reason can be
\* overtaken by collections for ever.)
CollectionHappens == \A t \in Thread : (At(t, "suspendEE") /\ ForGC(t)) ~> At(t, "gcMark")

\* Whoever suspends the runtime lets it run again, or gives way.
StoreReleased == \A t \in Thread : (store = t) ~> (store # t)
==============================================================================
