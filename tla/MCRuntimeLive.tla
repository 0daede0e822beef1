---------------------------- MODULE MCRuntimeLive ----------------------------
(***************************************************************************)
(* The liveness properties of the two halves of the thread pool and of     *)
(* thread suspension, one component at a time: a behaviour runs the one    *)
(* that "part" names and leaves the others as they start.  Two threads are *)
(* the workers of the pool, or suspend the runtime; the gate thread goes   *)
(* by the name of the finalizer thread.  The fairness of a component is    *)
(* that of its Props module; one conjunct below stands for a conjunct of   *)
(* each.                                                                   *)
(***************************************************************************)
EXTENDS WorkQueueProps

CONSTANTS First, Second,   \* the two threads
          NoThread

VARIABLE part

VARIABLES
  tsCoop, tsBuffer, tsPending, tsStarted, tsTrap, tsInProgress, tsSuspension,
  tsGcDone, tsRendezvous, tsStore, tsAttempting, tsAbortEvt, tsAbortSet,
  tsScan, tsGcLock, tsCounted, tsMarked, tsSpared, tsRegion, tsNoMemory, tsStarter,
  tsProceed, tsTodo,

  wpCounts, wpLimits, wpWorkerSem, wpRetiredSem, wpPending, wpGateStatus,
  wpTodo, wpFound, wpRequested, wpChanges, wpFailures, wpLeftRaised

\* Nobody starts a no-GC region here.
TS == INSTANCE ThreadSuspendProps WITH
  Thread <- Worker, Collectors <- Worker, Suspenders <- {Second}, Starters <- {},
  Mortals <- {Second}, BufferSize <- 1,
  region <- tsRegion, noMemory <- tsNoMemory, starter <- tsStarter, proceed <- tsProceed,
  coop <- tsCoop, buffer <- tsBuffer, pending <- tsPending,
  started <- tsStarted, trap <- tsTrap, inProgress <- tsInProgress,
  suspension <- tsSuspension, gcDone <- tsGcDone, rendezvous <- tsRendezvous,
  store <- tsStore, attempting <- tsAttempting, abortEvt <- tsAbortEvt,
  abortSet <- tsAbortSet, scan <- tsScan, gcLock <- tsGcLock,
  counted <- tsCounted, marked <- tsMarked, spared <- tsSpared, todo <- tsTodo

WP == INSTANCE WorkerPoolProps WITH
  Gate <- Finalizer, MinThreads <- {1}, MaxThreads <- {2}, MaxRequests <- 2,
  MaxChanges <- 0, MaxFailures <- 0,
  counts <- wpCounts, limits <- wpLimits, workerSem <- wpWorkerSem,
  retiredSem <- wpRetiredSem, pending <- wpPending,
  gateStatus <- wpGateStatus, todo <- wpTodo, found <- wpFound,
  requested <- wpRequested, changes <- wpChanges, failures <- wpFailures,
  leftRaised <- wpLeftRaised

tsVars == <<tsCoop, tsBuffer, tsPending, tsStarted, tsTrap, tsInProgress, tsSuspension,
             tsGcDone, tsRendezvous, tsStore, tsAttempting, tsAbortEvt, tsAbortSet,
             tsScan, tsGcLock, tsCounted, tsMarked, tsSpared, tsRegion, tsNoMemory,
             tsStarter, tsProceed, tsTodo>>

wpVars == <<wpCounts, wpLimits, wpWorkerSem, wpRetiredSem, wpPending, wpGateStatus,
             wpTodo, wpFound, wpRequested, wpChanges, wpFailures, wpLeftRaised>>

allVars == <<part, vars, tsVars, wpVars>>

LiveInit ==
  part \in {"queue", "suspend", "pool"} /\ Init /\ TS!Init /\ WP!Init

\* A step of one part.
InQueue(step)   == part = "queue" /\ step /\ UNCHANGED <<part, tsVars, wpVars>>
InSuspend(step) == part = "suspend" /\ step /\ UNCHANGED <<part, vars, wpVars>>
InPool(step)    == part = "pool" /\ step /\ UNCHANGED <<part, vars, tsVars>>

LiveNext == InQueue(Next) \/ InSuspend(TS!Next) \/ InPool(WP!Next)

\* What the scheduler runs, by thread.
Run(t) ==
  InQueue(WorkerStep(t) \/ TrySteal(t)) \/ InSuspend(TS!Step(t)) \/ InPool(WP!WorkerStep(t))

Calls(t) == InQueue(Step(t)) \/ InPool(WP!AddStep(t))

\* An idle worker takes a request, a processor drains its store buffer, a
\* thread in the way of a suspension comes to a safe point, helpers run.
Go1 == InQueue(\E w \in Worker : TakeActiveRequest(w)) \/ InSuspend(TS!Drain(First))
         \/ InPool(WP!GateStep)
Go2 == InQueue(FinalizerStep) \/ InSuspend(TS!Drain(Second)) \/ InPool(WP!NoDelay)
Go3 == InSuspend(TS!PulseGCMode(First)) \/ InPool(WP!LowerLimit \/ WP!RaiseLimit \/ WP!LimitRaised)
Go4 == InSuspend(TS!PulseGCMode(Second))

\* What happens when it is possible often enough.
Often1 == InQueue(TrySteal(First)) \/ InSuspend(TS!EnterStore(First))
            \/ InPool(WP!GateThreadStart)
Often2 == InQueue(Observe(First)) \/ InSuspend(TS!EnterStore(Second))

LiveSpec ==
  /\ LiveInit /\ [][LiveNext]_allVars
  /\ \A t \in Worker : WF_allVars(Run(t))
  /\ \A t \in Thread : WF_allVars(Calls(t))
  /\ WF_allVars(Go1) /\ WF_allVars(Go2) /\ WF_allVars(Go3) /\ WF_allVars(Go4)
  /\ SF_allVars(Often1) /\ SF_allVars(Often2)

\* What has been asked for, and that it has been done: an item has been enqueued
\* and has run; a collection has been decided on and has marked; requests for a
\* thread have been recorded and are all taken.
ItemOf(t) == IF t = First THEN 1 ELSE 2

Asked(t) ==
  \/ part = "queue" /\ made >= ItemOf(t)
  \/ part = "suspend" /\ TS!At(t, "suspendEE") /\ TS!ForGC(t)
  \/ part = "pool" /\ t = First /\ wpPending > 0

Answered(t) ==
  \/ part = "queue" /\ ItemOf(t) \in done
  \/ part = "suspend" /\ TS!At(t, "gcMark")
  \/ part = "pool" /\ wpPending = 0

\* Every item runs, though workers miss steals, are sent back and exit
\* (WorkQueueProps!EveryItemRuns); a collection takes place, in spite of the
\* suspensions it collides with (ThreadSuspendProps!CollectionHappens); a request
\* for a thread is taken, though workers time out
\* (WorkerPoolProps!RequestsTaken).
WorkHappens == \A t \in Worker : Asked(t) ~> Answered(t)

\* Whoever suspends the runtime lets it run again, or gives way
\* (ThreadSuspendProps!StoreReleased).
StoreReleased == tsStore # NoThread ~> tsStore = NoThread
==============================================================================
