--------------------------- MODULE WorkerPoolProps ---------------------------
(***************************************************************************)
(* What the runtime's half of the thread pool guarantees.                  *)
(***************************************************************************)
EXTENDS WorkerPool

\* How many threads have one of these steps ahead of them.
Doing(labels) ==
  Cardinality({t \in Thread : \E i \in DOMAIN todo[t] : todo[t][i] \in labels})

\* The counts are what the threads do: each thread is counted once, through
\* time-outs that race with a release of the semaphore, retirement and recall,
\* and creations that fail; and no more are at work than are active.
CountsMatch ==
  LET unretiring == retiredSem + Doing({"unretire"})
      releasing  == workerSem + Doing({"release"})
  IN
  /\ counts.working = Doing({"work", "execute", "dispatch", "keep"})
                        + releasing + unretiring + Doing({"create", "renege"})
  /\ counts.active = counts.working + Doing({"sweep", "waiting", "leaveWaiting"}) - releasing
  /\ counts.retired = Doing({"recalled", "retire", "retired", "leaveRetired"}) - unretiring
  /\ counts.working <= counts.active

\* Nobody is in the middle of adding a worker or of looking for work again.
Settled ==
  /\ \A t \in Thread : todo[t] # << >> =>
       Head(todo[t]) \notin {"add", "create", "renege", "unretire", "release", "sweep",
         "recalled", "retire", "ensureGate", "createGate", "lower", "raise", "raised"}
  /\ workerSem = 0 /\ retiredSem = 0

\* No request falls between a worker that goes to sleep, retires or exits and the
\* client that sees it still at work: while a request is recorded, somebody
\* works or is on the way.  (Nobody is after a failed creation, while the limit is
\* 0, or when a worker that left has raised the limit from 0.)
RequestServed ==
  Settled /\ pending > 0 /\ failures = 0 =>
    counts.working > 0 \/ counts.maxWorking = 0 \/ leftRaised

\* The same for the gate thread, which exits after a round without a request,
\* unless it could not be created.
GateWatches == Settled /\ pending > 0 /\ failures = 0 => gateStatus # "notRunning"

-----------------------------------------------------------------------------
\* The scheduler runs every thread; work items return; when the gate thread can
\* find the pool starved often enough it finds it so.
Fairness ==
  /\ \A t \in Thread : WF_vars(AddStep(t))
  /\ \A w \in Worker : WF_vars(WorkerStep(w))
  /\ WF_vars(GateStep) /\ WF_vars(NoDelay) /\ SF_vars(GateThreadStart)
  /\ WF_vars(LowerLimit) /\ WF_vars(RaiseLimit) /\ WF_vars(LimitRaised)

FairSpec == Spec /\ Fairness

\* Requests are taken.
RequestsTaken == pending > 0 ~> pending = 0
==============================================================================
