--------------------------- MODULE ObjHeaderProps ----------------------------
(***************************************************************************)
(* What the object header guarantees through all its changes of layout.    *)
(***************************************************************************)
EXTENDS ObjHeader, FiniteSets

M == INSTANCE Monitor

\* The lock survives inflation and deflation: whatever the header and the sync
\* block go through, owner and count change only as the abstract monitor says.
ImplementsMonitor == M!Spec

\* An object has one hash code (GetHashCodeEx): it is never lost or chosen twice
\* while it moves from the header to the sync block, two threads choose it at
\* the same time, or the GC takes the sync block away.
HashStable == Cardinality(hashes) <= 1

\* The GC never deletes the sync block under a thread that has a pointer to it.
NoUseAfterDeflation == (\E t \in Thread : pc[t] \in Using) => header.layout = "index"

\* GetSyncBlock copies the lock while it has the spin lock bit (the comment in
\* GetSyncBlockIndex: "Now the header will be stable"): until it overwrites the
\* header, nobody else enters, leaves or stores a hash code there.
HeaderFrozen ==
  [][\A t \in Thread : pc[t] \in {"transfer", "setIndex"} /\ pc'[t] # "unspin"
       => header' = header]_vars

\* An owner leaves the level n of the monitor.
LeaveAt(t, n) == LeaveObjMonitor(t) /\ count = n

\* The scheduler runs every thread; waits end; an owner does not enter and leave
\* for ever without leaving its last level; a waiter that is woken again and
\* again finds the lock free some time (AwareLock lets nobody overtake it for ever).
Fairness ==
  /\ \A t \in Thread :
       /\ WF_vars(Step(t)) /\ WF_vars(WaitEnds(t))
       /\ SF_vars(WaiterEnters(t) \/ LeaveAt(t, 1))
  /\ \A n \in 2..MaxEntries : SF_vars(\E t \in Thread : LeaveAt(t, n))

FairSpec == Spec /\ Fairness

\* Spin lock, cache lock and monitor block nobody for ever: every operation on
\* the object returns.
OperationsReturn == \A t \in Thread : pc[t] # "idle" ~> pc[t] = "idle"
==============================================================================
