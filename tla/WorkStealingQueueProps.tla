------------------------ MODULE WorkStealingQueueProps -----------------------
(***************************************************************************)
(* What the local queue of a thread-pool thread guarantees.                *)
(***************************************************************************)
EXTENDS WorkStealingQueue

\* No call is under way.
Quiet == \A t \in Thread : pc[t] = "idle"

\* The items between head and tail; a null is the hole of LocalFindAndPop.
Reachable == {Slot(i) : i \in head..tail - 1} \ {Null}

\* No item is handed out twice: the owner that pops without the lock, a thief
\* and LocalFindAndPop never take the same slot, also when it is the last one
\* and when the indices are masked or the array grows in between.
TakenOnce == \A n \in Item : takes[n] <= 1

\* No item is lost: between calls, what was pushed and not handed out is exactly
\* what lies between head and tail, whatever races left the indices there
\* (LocalPopCore and TrySteal both take back an index they moved in vain).
NothingLost == Quiet => Reachable = Queued

\* An item that was queued all through a call which found the queue empty and
\* missed no steal has been handed out to somebody: LocalPop, LocalPopCore and
\* CanSteal look without the lock, and a wrong "empty" would leave the item behind.
AbsentWasTaken == Quiet => denied \cap Queued = {}
==============================================================================
