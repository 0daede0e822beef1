--------------------------- MODULE WorkQueueProps ----------------------------
(***************************************************************************)
(* What the managed half of the thread pool guarantees.                    *)
(***************************************************************************)
EXTENDS WorkQueue

\* Every worker is in the runtime and nothing is on the way.
Resting == \A t \in Thread : pc[t] \in {"idle", "gone"}

\* numOutstandingThreadRequests never drifts away from the count the runtime
\* keeps: they differ by the calls of RequestWorkerThread not yet made and the
\* Dispatch calls not yet at MarkThreadRequestSatisfied.  A count too high would
\* silence EnsureThreadRequested for ever, one too low would flood the runtime.
RequestsInSync ==
  requests = pending + Cardinality({t \in Thread : pc[t] \in {"mark", "request"}})

\* With every worker back in the runtime and no request recorded, no item is
\* left in the global queue, nor in a local queue that the wsqActive hint would
\* have the next worker look at: each way out of Dispatch, a missed steal and
\* the queue of a worker that exited lead to one more request.
NothingStranded ==
  Resting /\ pending = 0 =>
    /\ workItems = << >>
    /\ wsqActive > 0 => \A w \in Worker : local[w] = << >>

\* The comment of Dequeue (ThreadPool.cs:519): "So effectively we cannot mark the
\* queue empty when an item is in the queue."  With three workers this does not
\* hold: the compare-exchange of LowerActive sees the value it saw before the
\* scan although the hint went down and up again meanwhile.
InactiveIsEmpty ==
  wsqActive = 0 => \A w \in Worker :
     local[w] # << >> => pc[w] \in {"announce", "activate"}

-----------------------------------------------------------------------------
\* The scheduler runs every thread; the runtime hands a recorded request to some
\* idle worker; a worker that may be disturbed does not miss every steal nor
\* spend its quantum before every first look at the queue.
Fairness ==
  /\ \A t \in Thread : WF_vars(Step(t))
  /\ \A w \in Worker : WF_vars(WorkerStep(w) \/ TrySteal(w))
  /\ \A w \in Disturbed : SF_vars(TrySteal(w)) /\ SF_vars(Observe(w))
  /\ WF_vars(\E w \in Worker : TakeActiveRequest(w))
  /\ WF_vars(FinalizerStep)

FairSpec == Spec /\ Fairness

\* Every item runs, also one in the local queue of a worker that exits.
EveryItemRuns == \A n \in Item : made >= n ~> n \in done
==============================================================================
