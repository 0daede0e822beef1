---------------------------- MODULE MonitorsProofs ---------------------------
(***************************************************************************)
(* AwareLock keeps its promises for any number of threads, any recursion   *)
(* depth and any number of exceptions, and implements Monitor.  What       *)
(* ObjHeaderProofs proves of the header of an object, and                  *)
(* MonitorWaitProofs of the types of Wait and Pulse, holds in the system   *)
(* that TLC checks in the run Monitors: they stand there next to each      *)
(* other and never touch each other.                                       *)
(***************************************************************************)
EXTENDS MCMonitors, FiniteSetTheorems, TLAPS

\* The invariant whose preservation is proved: types and ownership need each
\* other, since leaving decrements both the recursion and the history count.
OwnInv == TypeOK /\ Ownership

\* A new AwareLock is free: nobody is recorded and nobody holds the bit.
LEMMA OwnInvInit == Init => OwnInv
<1> SUFFICES ASSUME Init PROVE OwnInv
  OBVIOUS
<1>1. TypeOK
  <2>1. /\ heldBit \in BOOLEAN /\ precious \in BOOLEAN
        /\ eventAlloc \in BOOLEAN /\ eventFlag \in BOOLEAN /\ eventSet \in BOOLEAN
        /\ holdingThread \in Thread \cup {NoThread}
    BY Zenon DEF Init
  <2>2. pc \in [Thread -> PCs] /\ call \in [Thread -> Calls]
    BY DEF Init, PCs, Calls
  <2> QED BY <2>1, <2>2 DEF Init, TypeOK
<1>2. \A t \in Thread : ~LockOwner(t) /\ depth[t] = 0 /\ pc[t] \notin Holding
  BY AwareLockAssumption DEF AwareLockAssumption, Init, LockOwner, Holding
<1>3. Ownership
  BY <1>2 DEF Init, Ownership
<1> QED BY <1>1, <1>3 DEF OwnInv

\* The steps of the entry loops and of the spin phase.
LEMMA OwnInvEntry ==
  ASSUME OwnInv, NEW t \in Thread,
         \/ \E op \in EnterOps : BeginEnter(t, op)
         \/ Enter(t) \/ SpinTry(t) \/ SpinAbort(t) \/ SpinAgain(t)
         \/ SpinEnd(t) \/ TryEnter(t) \/ TryAbort(t) \/ WouldBlock(t)
  PROVE  OwnInv'
<1> USE DEF OwnInv, TypeOK, Ownership, LockOwner, PCs, Calls, Holding, Queued,
            Goto, Return, Throw, Granted, WordIsZero, word, owned, life,
            event, ghosts
<1> USE AwareLockAssumption DEF AwareLockAssumption
<1>1. CASE \E op \in EnterOps : BeginEnter(t, op)
  BY <1>1 DEF BeginEnter
<1>2. CASE Enter(t)
  <2>1. CASE TakeFree(t, "enter", "own")
    BY <2>1 DEF TakeFree
  <2>2. CASE Recurse(t, "enter") /\ UNCHANGED life
    BY <2>2 DEF Recurse
  <2>3. CASE holdingThread # t /\ CountAsWaiter(t, "enter")
    BY <2>3 DEF CountAsWaiter
  <2> QED BY <1>2, <2>1, <2>2, <2>3 DEF Enter
<1>3. CASE SpinTry(t)
  <2>1. CASE TakeFree(t, "spin", "ownUnpin")
    BY <2>1 DEF TakeFree
  <2>2. CASE Recurse(t, "spin") /\ transient' = transient - 1 /\ UNCHANGED precious
    BY <2>2 DEF Recurse
  <2> QED BY <1>3, <2>1, <2>2 DEF SpinTry
<1>4. CASE SpinAbort(t)
  BY <1>4 DEF SpinAbort
<1>5. CASE SpinAgain(t)
  BY <1>5 DEF SpinAgain
<1>6. CASE SpinEnd(t)
  BY <1>6 DEF SpinEnd
<1>7. CASE TryEnter(t)
  <2>1. CASE TakeFree(t, "try", "own")
    BY <2>1 DEF TakeFree
  <2>2. CASE Recurse(t, "try") /\ UNCHANGED life
    BY <2>2 DEF Recurse
  <2> QED BY <1>7, <2>1, <2>2 DEF TryEnter
<1>8. CASE TryAbort(t)
  BY <1>8 DEF TryAbort
<1>9. CASE WouldBlock(t)
  BY <1>9 DEF WouldBlock, CountAsWaiter
<1> QED BY <1>1, <1>2, <1>3, <1>4, <1>5, <1>6, <1>7, <1>8, <1>9

\* The steps of the event wait, and the owner's.
LEMMA OwnInvRest ==
  ASSUME OwnInv, NEW t \in Thread,
         \/ SetOwner(t) \/ EpilogStart(t) \/ EpilogOutOfMemory(t)
         \/ PublishEvent(t) \/ ForwardSignal(t) \/ WaitSignalled(t)
         \/ WaitTimedOut(t) \/ WaitInterrupted(t) \/ WokenTry(t)
         \/ TimedOut(t) \/ Interrupted(t) \/ Resignal(t)
         \/ Leave(t) \/ Release(t) \/ Signal(t)
  PROVE  OwnInv'
<1> USE DEF OwnInv, TypeOK, Ownership, LockOwner, PCs, Calls, Holding, Queued,
            Goto, Return, Throw, Granted, word, owned, life, event, ghosts
<1> USE AwareLockAssumption DEF AwareLockAssumption
<1>1. CASE SetOwner(t)
  BY <1>1 DEF SetOwner
<1>2. CASE EpilogStart(t)
  <2>1. CASE eventAlloc
    BY <1>2, <2>1 DEF EpilogStart
  <2>2. CASE ~eventAlloc
    <3>1. TypeOK'
      <4>1. precious' \in BOOLEAN
        BY <1>2, <2>2, Zenon DEF EpilogStart
      <4>2. pc' \in [Thread -> PCs] /\ transient' \in Int
        BY <1>2, <2>2 DEF EpilogStart
      <4> QED BY <1>2, <4>1, <4>2 DEF EpilogStart
    <3>2. Ownership'
      BY <1>2, <2>2 DEF EpilogStart
    <3> QED BY <3>1, <3>2
  <2> QED BY <2>1, <2>2
<1>3. CASE EpilogOutOfMemory(t)
  BY <1>3 DEF EpilogOutOfMemory
<1>4. CASE PublishEvent(t)
  BY <1>4 DEF PublishEvent
<1>5. CASE ForwardSignal(t)
  BY <1>5 DEF ForwardSignal
<1>6. CASE WaitSignalled(t)
  <2>1. waited' \in [Thread -> Nat]
    BY <1>6 DEF WaitSignalled
  <2>2. TypeOK'
    BY <1>6, <2>1 DEF WaitSignalled
  <2>3. Ownership'
    BY <1>6 DEF WaitSignalled
  <2> QED BY <2>2, <2>3
<1>7. CASE WaitTimedOut(t)
  BY <1>7 DEF WaitTimedOut
<1>8. CASE WaitInterrupted(t)
  <2>1. eventSet' \in BOOLEAN
    BY <1>8, Zenon DEF WaitInterrupted
  <2>2. TypeOK'
    BY <1>8, <2>1 DEF WaitInterrupted
  <2>3. Ownership'
    BY <1>8 DEF WaitInterrupted
  <2> QED BY <2>2, <2>3
<1>9. CASE WokenTry(t)
  <2>1. CASE heldBit
    BY <1>9, <2>1 DEF WokenTry
  <2>2. CASE ~heldBit
    <3>1. TypeOK'
      <4>1. heldBit' \in BOOLEAN
        BY <1>9, <2>2, Zenon DEF WokenTry
      <4>2. pc' \in [Thread -> PCs] /\ heldWaiters' \in Int
        BY <1>9, <2>2 DEF WokenTry
      <4> QED BY <1>9, <2>2, <4>1, <4>2 DEF WokenTry
    <3>2. Ownership'
      BY <1>9, <2>2 DEF WokenTry
    <3> QED BY <3>1, <3>2
  <2> QED BY <2>1, <2>2
<1>10. CASE TimedOut(t)
  BY <1>10 DEF TimedOut
<1>11. CASE Interrupted(t)
  BY <1>11 DEF Interrupted
<1>12. CASE Resignal(t)
  BY <1>12 DEF Resignal
<1>13. CASE Leave(t)
  BY <1>13 DEF Leave
<1>14. CASE Release(t)
  <2>1. TypeOK'
    BY <1>14 DEF Release
  <2>2. \A u \in Thread : ~LockOwner(u)' /\ pc'[u] \notin Holding
    BY <1>14 DEF Release
  <2>3. Ownership'
    BY <1>14, <2>2 DEF Release
  <2> QED BY <2>1, <2>3
<1>15. CASE Signal(t)
  BY <1>15 DEF Signal
<1> QED BY <1>1, <1>2, <1>3, <1>4, <1>5, <1>6, <1>7, <1>8, <1>9, <1>10, <1>11,
           <1>12, <1>13, <1>14, <1>15

\* Every step of the lock, an idle one too, keeps types and ownership.
LEMMA OwnInvStep == OwnInv /\ [Next]_vars => OwnInv'
<1> SUFFICES ASSUME OwnInv, [Next]_vars PROVE OwnInv'
  OBVIOUS
<1>1. CASE Next
  BY <1>1, OwnInvEntry, OwnInvRest DEF Next, Step, Environment
<1>2. CASE UNCHANGED vars
  BY <1>2 DEF OwnInv, TypeOK, Ownership, LockOwner, vars, word, owned, life,
              event, ghosts
<1> QED BY <1>1, <1>2

\* In every reachable state the fields have their types and the lock bit, the
\* recorded owner, the recursion and the grants agree (AwareLock::Enter,
\* TryEnter, EnterEpilogHelper and LeaveHelper write them one at a time).
THEOREM OwnershipHolds == Spec => []OwnInv
<1>1. Init => OwnInv
  BY OwnInvInit
<1>2. OwnInv /\ [Next]_vars => OwnInv'
  BY OwnInvStep
<1> QED BY <1>1, <1>2, PTL DEF Spec

\* Type correctness: in particular m_Recursion never goes below zero.
THEOREM TypeCorrect == Spec => []TypeOK
<1>1. OwnInv => TypeOK
  BY DEF OwnInv
<1> QED BY <1>1, OwnershipHolds, PTL

\* Mutual exclusion of AwareLock, for any number of threads.
THEOREM MutualExclusionHolds == Spec => []MutualExclusion
<1>1. OwnInv => MutualExclusion
  BY AwareLockAssumption DEF AwareLockAssumption, OwnInv, TypeOK, Ownership,
     MutualExclusion, LockOwner
<1> QED BY <1>1, OwnershipHolds, PTL

-----------------------------------------------------------------------------
\* 1 when a thread at program point p belongs to the points Q.
At(p, Q) == IF p \in Q THEN 1 ELSE 0

\* When one thread moves, the number of threads at a set of program points
\* changes by what this thread contributes.
LEMMA CountMove ==
  ASSUME NEW Q, NEW f, f \in [Thread -> PCs], NEW t \in Thread, NEW p
  PROVE  LET S == {u \in Thread : f[u] \in Q}
             T == {u \in Thread : [f EXCEPT ![t] = p][u] \in Q}
         IN  /\ Cardinality(S) \in Nat
             /\ Cardinality(T) = Cardinality(S) + At(p, Q) - At(f[t], Q)
<1> DEFINE S == {u \in Thread : f[u] \in Q}
           T == {u \in Thread : [f EXCEPT ![t] = p][u] \in Q}
<1> SUFFICES /\ Cardinality(S) \in Nat
             /\ Cardinality(T) = Cardinality(S) + At(p, Q) - At(f[t], Q)
  OBVIOUS
<1>1. IsFiniteSet(S) /\ Cardinality(S) \in Nat
  <2>1. S \in SUBSET Thread
    OBVIOUS
  <2>2. IsFiniteSet(S)
    BY <2>1, FiniteThreads, FS_Subset DEF FiniteThreads
  <2> QED BY <2>2, FS_CardinalityType
<1>2. \A u \in Thread : u # t => ([f EXCEPT ![t] = p][u] \in Q <=> f[u] \in Q)
  OBVIOUS
<1>3. [f EXCEPT ![t] = p][t] \in Q <=> p \in Q
  OBVIOUS
<1>4. CASE p \in Q
  <2>1. T = S \cup {t}
    BY <1>2, <1>3, <1>4
  <2>2. Cardinality(T) = IF t \in S THEN Cardinality(S) ELSE Cardinality(S) + 1
    BY <1>1, <2>1, FS_AddElement
  <2>3. t \in S <=> f[t] \in Q
    OBVIOUS
  <2> HIDE DEF S, T
  <2> QED BY <1>1, <1>4, <2>2, <2>3 DEF At
<1>5. CASE p \notin Q
  <2>1. T = S \ {t}
    BY <1>2, <1>3, <1>5
  <2>2. Cardinality(T) = IF t \in S THEN Cardinality(S) - 1 ELSE Cardinality(S)
    BY <1>1, <2>1, FS_RemoveElement
  <2>3. t \in S <=> f[t] \in Q
    OBVIOUS
  <2> HIDE DEF S, T
  <2> QED BY <1>1, <1>5, <2>2, <2>3 DEF At
<1> QED BY <1>4, <1>5

\* Both counts of AwareLock move with the thread that takes a step.
LEMMA CountsMove ==
  ASSUME TypeOK, NEW t \in Thread, NEW p, pc' = [pc EXCEPT ![t] = p]
  PROVE  /\ Cardinality(Waiters) \in Nat /\ Cardinality(Pinned) \in Nat
         /\ Cardinality(Waiters') =
              Cardinality(Waiters) + At(p, Queued) - At(pc[t], Queued)
         /\ Cardinality(Pinned') =
              Cardinality(Pinned) + At(p, PinnedAt) - At(pc[t], PinnedAt)
<1>1. pc \in [Thread -> PCs]
  BY DEF TypeOK
<1>2. /\ Waiters' = {u \in Thread : [pc EXCEPT ![t] = p][u] \in Queued}
      /\ Pinned' = {u \in Thread : [pc EXCEPT ![t] = p][u] \in PinnedAt}
  BY DEF Waiters, Pinned, Queued, PinnedAt
<1>3. /\ Cardinality(Waiters) \in Nat
      /\ Cardinality(Waiters') =
           Cardinality(Waiters) + At(p, Queued) - At(pc[t], Queued)
  BY <1>1, <1>2, CountMove DEF Waiters
<1>4. /\ Cardinality(Pinned) \in Nat
      /\ Cardinality(Pinned') =
           Cardinality(Pinned) + At(p, PinnedAt) - At(pc[t], PinnedAt)
  BY <1>1, <1>2, CountMove DEF Pinned
<1> QED BY <1>3, <1>4

\* The two counters of AwareLock agree with the threads they count.
Counts == WaiterAccounting /\ Pinning

\* A new AwareLock counts nobody.
LEMMA CountsInit == Init => Counts
<1> SUFFICES ASSUME Init PROVE Counts
  OBVIOUS
<1>1. Waiters = {} /\ Pinned = {}
  BY DEF Init, Waiters, Pinned, Queued, PinnedAt
<1> QED BY <1>1, FS_EmptySet DEF Init, Counts, WaiterAccounting, Pinning

\* Every step moves one thread and adjusts the counters by its contribution.
LEMMA CountsStep == TypeOK /\ Counts /\ [Next]_vars => Counts'
<1> SUFFICES ASSUME TypeOK, Counts, [Next]_vars PROVE Counts'
  OBVIOUS
<1>1. CASE UNCHANGED vars
  BY <1>1 DEF vars, word, life, ghosts, Counts, WaiterAccounting, Pinning,
              Waiters, Pinned
<1>2. ASSUME NEW t \in Thread, Step(t) \/ Environment(t) \/ WaitSignalled(t)
      PROVE  Counts'
  <2>1. \A p, q : Goto(t, p, q) =>
           /\ Cardinality(Waiters') =
                Cardinality(Waiters) + At(q, Queued) - At(p, Queued)
           /\ Cardinality(Pinned') =
                Cardinality(Pinned) + At(q, PinnedAt) - At(p, PinnedAt)
    BY CountsMove DEF Goto
  <2>2. Cardinality(Waiters) \in Nat /\ Cardinality(Pinned) \in Nat
    BY CountMove DEF TypeOK, Waiters, Pinned
  <2>3. UNCHANGED pc => Waiters' = Waiters /\ Pinned' = Pinned
    BY DEF Waiters, Pinned
  <2>4. /\ heldWaiters \in Int /\ transient \in Int /\ phantom \in Nat
        /\ heldWaiters = Cardinality(Waiters) + phantom
        /\ transient >= Cardinality(Pinned)
    BY DEF TypeOK, Counts, WaiterAccounting, Pinning
  <2>5. SUFFICES /\ heldWaiters' = Cardinality(Waiters') + phantom'
                 /\ transient' >= Cardinality(Pinned')
    BY DEF Counts, WaiterAccounting, Pinning
  <2> USE <2>1, <2>2, <2>3, <2>4
      DEF At, Queued, PinnedAt, Return, Throw, word, life, ghosts
  <2>6. CASE \E op \in EnterOps : BeginEnter(t, op)
    BY <2>6 DEF BeginEnter
  <2>7. CASE Enter(t)
    BY <2>7 DEF Enter, TakeFree, Recurse, CountAsWaiter
  <2>8. CASE SpinTry(t)
    BY <2>8 DEF SpinTry, TakeFree, Recurse
  <2>9. CASE SpinAbort(t)
    BY <2>9 DEF SpinAbort
  <2>10. CASE SpinAgain(t)
    BY <2>10 DEF SpinAgain
  <2>11. CASE SpinEnd(t)
    BY <2>11 DEF SpinEnd
  <2>12. CASE TryEnter(t)
    BY <2>12 DEF TryEnter, TakeFree, Recurse
  <2>13. CASE TryAbort(t)
    BY <2>13 DEF TryAbort
  <2>14. CASE WouldBlock(t)
    BY <2>14 DEF WouldBlock, CountAsWaiter
  <2>15. CASE SetOwner(t)
    BY <2>15 DEF SetOwner
  <2>16. CASE EpilogStart(t)
    BY <2>16 DEF EpilogStart
  <2>17. CASE EpilogOutOfMemory(t)
    BY <2>17 DEF EpilogOutOfMemory
  <2>18. CASE PublishEvent(t)
    BY <2>18 DEF PublishEvent
  <2>19. CASE ForwardSignal(t)
    BY <2>19 DEF ForwardSignal
  <2>20. CASE WaitSignalled(t)
    BY <2>20 DEF WaitSignalled
  <2>21. CASE WaitTimedOut(t)
    BY <2>21 DEF WaitTimedOut
  <2>22. CASE WaitInterrupted(t)
    BY <2>22 DEF WaitInterrupted
  <2>23. CASE WokenTry(t)
    BY <2>23 DEF WokenTry
  <2>24. CASE TimedOut(t)
    BY <2>24 DEF TimedOut
  <2>25. CASE Interrupted(t)
    BY <2>25 DEF Interrupted
  <2>26. CASE Resignal(t)
    BY <2>26 DEF Resignal
  <2>27. CASE Leave(t)
    BY <2>27 DEF Leave
  <2>28. CASE Release(t)
    BY <2>28 DEF Release
  <2>29. CASE Signal(t)
    BY <2>29 DEF Signal
  <2> QED BY <1>2, <2>6, <2>7, <2>8, <2>9, <2>10, <2>11, <2>12, <2>13,
         <2>14, <2>15, <2>16, <2>17, <2>18, <2>19, <2>20, <2>21, <2>22,
         <2>23, <2>24, <2>25, <2>26, <2>27, <2>28, <2>29 DEF Step,
         Environment
<1> QED BY <1>1, <1>2 DEF Next

\* The waiter part of m_MonitorHeld counts exactly the threads inside
\* EnterEpilogHelper (and the counts abandoned by an out-of-memory exception):
\* the assertions (state >> 1) != 0 never fail.
THEOREM WaiterAccountingHolds == Spec => []WaiterAccounting
<1>1. Init => Counts
  BY CountsInit
<1>2. TypeOK /\ Counts /\ [Next]_vars => Counts'
  BY CountsStep
<1>3. Counts => WaiterAccounting
  BY DEF Counts
<1> QED BY <1>1, <1>2, <1>3, TypeCorrect, PTL DEF Spec

\* SyncBlock::IsIDisposable is false whenever a thread spins or waits on the
\* lock in preemptive mode: the GC cannot free the block under it.
THEOREM PinnedWhileUsedHolds == Spec => []PinnedWhileUsed
<1>1. Init => Counts
  BY CountsInit
<1>2. TypeOK /\ Counts /\ [Next]_vars => Counts'
  BY CountsStep
<1>3. TypeOK /\ Counts => PinnedWhileUsed
  <2> SUFFICES ASSUME TypeOK, Counts, NEW t \in Thread, Preemptive(t)
               PROVE  transient # 0
    BY DEF PinnedWhileUsed, IsIDisposable
  <2>1. Pinned \in SUBSET Thread /\ t \in Pinned
    BY DEF Pinned, Preemptive
  <2>2. IsFiniteSet(Pinned) /\ Cardinality(Pinned) \in Nat
    BY <2>1, FiniteThreads, FS_Subset, FS_CardinalityType DEF FiniteThreads
  <2>3. Cardinality(Pinned) # 0
    BY <2>1, <2>2, FS_EmptySet
  <2> QED BY <2>2, <2>3 DEF Counts, Pinning, TypeOK
<1> QED BY <1>1, <1>2, <1>3, TypeCorrect, PTL DEF Spec

-----------------------------------------------------------------------------
\* Where a thread carries a wakeup.
Carrying == {"signal", "interrupted", "resignal", "allocSet", "woken"}

\* NoLostWakeup is inductive: the step that frees the lock with waiters starts a
\* wakeup, and every step that ends one form of it starts the next one.
LEMMA NoLostWakeupStep == TypeOK /\ NoLostWakeup /\ [Next]_vars => NoLostWakeup'
<1> SUFFICES ASSUME TypeOK, NoLostWakeup, [Next]_vars PROVE NoLostWakeup'
  OBVIOUS
<1>1. CASE UNCHANGED vars
  BY <1>1 DEF vars, word, event, NoLostWakeup, WakeupPending
<1>2. ASSUME NEW t \in Thread, Step(t) \/ Environment(t) \/ WaitSignalled(t)
      PROVE  NoLostWakeup'
  <2> DEFINE Carried == \E u \in Thread : pc[u] \in Carrying
  <2>1. \A p, q : Goto(t, p, q) =>
           /\ p \notin Carrying /\ Carried => Carried'
           /\ q \in Carrying => Carried'
    BY DEF Goto, TypeOK
  <2>2. UNCHANGED pc /\ Carried => Carried'
    OBVIOUS
  <2>3. heldWaiters \in Int /\ heldBit \in BOOLEAN /\ eventAlloc \in BOOLEAN
    BY DEF TypeOK
  <2>4. ~heldBit /\ heldWaiters > 0 => \/ eventSet
                                       \/ eventFlag /\ ~eventAlloc
                                       \/ Carried
    BY DEF NoLostWakeup, WakeupPending, Carrying
  <2>5. SUFFICES ~heldBit' /\ heldWaiters' > 0 => \/ eventSet'
                                                  \/ eventFlag' /\ ~eventAlloc'
                                                  \/ Carried'
    BY DEF NoLostWakeup, WakeupPending, Carrying
  <2> HIDE DEF Carried
  <2> USE <2>1, <2>2, <2>3, <2>4 DEF Carrying, WordIsZero, Return, Throw, word, event
  <2>6. CASE \E op \in EnterOps : BeginEnter(t, op)
    BY <2>6 DEF BeginEnter
  <2>7. CASE Enter(t)
    BY <2>7 DEF Enter, TakeFree, Recurse, CountAsWaiter
  <2>8. CASE SpinTry(t)
    BY <2>8 DEF SpinTry, TakeFree, Recurse
  <2>9. CASE SpinAbort(t)
    BY <2>9 DEF SpinAbort
  <2>10. CASE SpinAgain(t)
    BY <2>10 DEF SpinAgain
  <2>11. CASE SpinEnd(t)
    BY <2>11 DEF SpinEnd
  <2>12. CASE TryEnter(t)
    BY <2>12 DEF TryEnter, TakeFree, Recurse
  <2>13. CASE TryAbort(t)
    BY <2>13 DEF TryAbort
  <2>14. CASE WouldBlock(t)
    BY <2>14 DEF WouldBlock, CountAsWaiter
  <2>15. CASE SetOwner(t)
    BY <2>15 DEF SetOwner
  <2>16. CASE EpilogStart(t)
    BY <2>16 DEF EpilogStart
  <2>17. CASE EpilogOutOfMemory(t)
    BY <2>17 DEF EpilogOutOfMemory
  <2>18. CASE PublishEvent(t)
    BY <2>18 DEF PublishEvent
  <2>19. CASE ForwardSignal(t)
    BY <2>19 DEF ForwardSignal
  <2>20. CASE WaitSignalled(t)
    BY <2>20 DEF WaitSignalled
  <2>21. CASE WaitTimedOut(t)
    BY <2>21 DEF WaitTimedOut
  <2>22. CASE WaitInterrupted(t)
    BY <2>22 DEF WaitInterrupted
  <2>23. CASE WokenTry(t)
    BY <2>23 DEF WokenTry
  <2>24. CASE TimedOut(t)
    BY <2>24 DEF TimedOut
  <2>25. CASE Interrupted(t)
    BY <2>25 DEF Interrupted
  <2>26. CASE Resignal(t)
    BY <2>26 DEF Resignal
  <2>27. CASE Leave(t)
    BY <2>27 DEF Leave
  <2>28. CASE Release(t)
    BY <2>28 DEF Release
  <2>29. CASE Signal(t)
    BY <2>29 DEF Signal
  <2> QED BY <1>2, <2>6, <2>7, <2>8, <2>9, <2>10, <2>11, <2>12, <2>13,
         <2>14, <2>15, <2>16, <2>17, <2>18, <2>19, <2>20, <2>21, <2>22,
         <2>23, <2>24, <2>25, <2>26, <2>27, <2>28, <2>29 DEF Step,
         Environment
<1> QED BY <1>1, <1>2 DEF Next

\* A free monitor with waiters always has a wakeup under way: no order of
\* Leave, event creation, timeouts, interrupts and wakeups loses it.
THEOREM NoLostWakeupHolds == Spec => []NoLostWakeup
<1>1. Init => NoLostWakeup
  BY DEF Init, NoLostWakeup
<1>2. TypeOK /\ NoLostWakeup /\ [Next]_vars => NoLostWakeup'
  BY NoLostWakeupStep
<1> QED BY <1>1, <1>2, TypeCorrect, PTL DEF Spec
-----------------------------------------------------------------------------
(***************************************************************************)
(* AwareLock implements Monitor, for every number of threads: the monitor  *)
(* is taken by the compare-exchange that wins the lock bit and is free     *)
(* again with the one that clears it, whatever m_HoldingThread says in     *)
(* between.                                                                *)
(***************************************************************************)

\* There is one owner of the lock bit, and the refinement mapping names it.
LEMMA AbsOwnerIs ==
  ASSUME OwnInv
  PROVE  /\ \A t \in Thread : LockOwner(t) => absOwner = t
         /\ (\A t \in Thread : ~LockOwner(t)) => absOwner = NoThread
<1>1. \A t, u \in Thread : LockOwner(t) /\ LockOwner(u) => t = u
  BY AwareLockAssumption DEF AwareLockAssumption, OwnInv, TypeOK, Ownership,
     LockOwner
<1> QED BY <1>1, Zenon DEF absOwner

\* What the mapping shows of a state, in terms of the program's state.
AbsView ==
  /\ ~heldBit => absOwner = NoThread /\ absCount = 0
  /\ \A t \in Thread : pc[t] \in Holding => absOwner = t /\ absCount = 1
  /\ \A t \in Thread : holdingThread = t =>
       absOwner = t /\ absCount = recursion /\ recursion \in Nat \ {0}

\* What the fields of the lock say of the abstract monitor.
LEMMA AbsState == OwnInv => AbsView
<1> SUFFICES ASSUME OwnInv PROVE AbsView
  OBVIOUS
<1> USE AwareLockAssumption DEF AwareLockAssumption
<1>1. ASSUME ~heldBit PROVE absOwner = NoThread /\ absCount = 0
  BY <1>1, AbsOwnerIs DEF OwnInv, Ownership, absCount
<1>2. ASSUME NEW t \in Thread, pc[t] \in Holding
      PROVE  absOwner = t /\ absCount = 1
  BY <1>2, AbsOwnerIs DEF OwnInv, Ownership, LockOwner, absCount
<1>3. ASSUME NEW t \in Thread, holdingThread = t
      PROVE  absOwner = t /\ absCount = recursion /\ recursion \in Nat \ {0}
  BY <1>3, AbsOwnerIs DEF OwnInv, TypeOK, Ownership, LockOwner, absCount
<1> QED BY <1>1, <1>2, <1>3 DEF AbsView

\* A step that keeps the lock bit, m_HoldingThread and m_Recursion and moves
\* its thread neither into nor out of Holding is invisible to the monitor.
LEMMA Invisible ==
  ASSUME OwnInv, AbsView, AbsView', UNCHANGED <<heldBit, owned>>,
         \A u \in Thread : pc'[u] \in Holding <=> pc[u] \in Holding
  PROVE  UNCHANGED <<absOwner, absCount>>
<1>1. CASE ~heldBit
  BY <1>1 DEF AbsView
<1>2. CASE heldBit
  <2>1. PICK u \in Thread : holdingThread = u \/ pc[u] \in Holding
    BY <1>2 DEF OwnInv, Ownership, LockOwner
  <2> QED BY <2>1 DEF AbsView, owned
<1> QED BY <1>1, <1>2

\* Every step of AwareLock is a step of Monitor or invisible to it.
LEMMA StepRefines ==
  ASSUME OwnInv, OwnInv', AbsView, AbsView', [Next]_vars
  PROVE  [M!Next]_(M!mvars)
<1> USE DEF M!mvars
<1>1. CASE UNCHANGED vars
  BY <1>1, Invisible DEF vars, word
<1>2. ASSUME NEW t \in Thread, Step(t) \/ Environment(t) \/ WaitSignalled(t)
      PROVE  [M!Next]_(M!mvars)
  <2>1. \A p, q : Goto(t, p, q) /\ p \notin Holding /\ q \notin Holding
          => \A u \in Thread : pc'[u] \in Holding <=> pc[u] \in Holding
    BY DEF Goto, OwnInv, TypeOK
  <2>2. \A p, q : Goto(t, p, q) => pc[t] = p /\ pc'[t] = q
    BY DEF Goto, OwnInv, TypeOK
  \* The lock bit is won.
  <2>3. ASSUME NEW p, NEW q \in Holding, Goto(t, p, q), ~heldBit, heldBit'
        PROVE  M!Acquire(t)
    BY <2>2, <2>3 DEF AbsView, M!Acquire
  <2>4. ASSUME NEW p, TakeFree(t, p, "own") \/ TakeFree(t, p, "ownUnpin")
        PROVE  M!Acquire(t)
    BY <2>3, <2>4 DEF TakeFree, WordIsZero, Holding
  \* The owner enters again.
  <2>5. ASSUME NEW p, Recurse(t, p)
        PROVE  M!Reenter(t)
    BY <2>5 DEF Recurse, AbsView, M!Reenter
  \* A thread outside Holding moves to another such place.
  <2>6. ASSUME NEW p, NEW q, Goto(t, p, q), p \notin Holding, q \notin Holding,
               UNCHANGED <<heldBit, owned>>
        PROVE  UNCHANGED <<absOwner, absCount>>
    BY <2>1, <2>6, Invisible
  <2>7. ASSUME NEW p, CountAsWaiter(t, p), p \notin Holding
        PROVE  UNCHANGED <<absOwner, absCount>>
    BY <2>6, <2>7 DEF CountAsWaiter, Holding
  <2>8. M!Acquire(t) \/ M!Reenter(t) \/ M!Exit(t) => M!Next
    BY DEF M!Next
  <2> USE <2>6 DEF Holding, Return, Throw, word, owned
  <2>9. CASE \E op \in EnterOps : BeginEnter(t, op)
    BY <2>9 DEF BeginEnter
  <2>10. CASE Enter(t)
    BY <2>10, <2>4, <2>5, <2>7, <2>8 DEF Enter
  <2>11. CASE SpinTry(t)
    BY <2>11, <2>4, <2>5, <2>8 DEF SpinTry
  <2>12. CASE TryEnter(t)
    BY <2>12, <2>4, <2>5, <2>8 DEF TryEnter
  <2>13. CASE WokenTry(t)
    BY <2>13, <2>3, <2>8 DEF WokenTry
  <2>14. CASE SetOwner(t)
    BY <2>14, <2>2 DEF SetOwner, AbsView
  <2>15. CASE Leave(t)
    BY <2>15, <2>2, <2>8 DEF Leave, AbsView, M!Exit
  <2>16. CASE Release(t)
    BY <2>16, <2>2, <2>8 DEF Release, AbsView, M!Exit
  <2>17. CASE SpinAbort(t)
    BY <2>17 DEF SpinAbort
  <2>18. CASE SpinAgain(t)
    BY <2>18 DEF SpinAgain
  <2>19. CASE SpinEnd(t)
    BY <2>19 DEF SpinEnd
  <2>20. CASE TryAbort(t)
    BY <2>20 DEF TryAbort
  <2>21. CASE WouldBlock(t)
    BY <2>21, <2>7 DEF WouldBlock
  <2>22. CASE EpilogStart(t)
    BY <2>22 DEF EpilogStart
  <2>23. CASE EpilogOutOfMemory(t)
    BY <2>23 DEF EpilogOutOfMemory
  <2>24. CASE PublishEvent(t)
    BY <2>24 DEF PublishEvent
  <2>25. CASE ForwardSignal(t)
    BY <2>25 DEF ForwardSignal
  <2>26. CASE WaitSignalled(t)
    BY <2>26 DEF WaitSignalled
  <2>27. CASE WaitTimedOut(t)
    BY <2>27 DEF WaitTimedOut
  <2>28. CASE WaitInterrupted(t)
    BY <2>28 DEF WaitInterrupted
  <2>29. CASE TimedOut(t)
    BY <2>29 DEF TimedOut
  <2>30. CASE Interrupted(t)
    BY <2>30 DEF Interrupted
  <2>31. CASE Resignal(t)
    BY <2>31 DEF Resignal
  <2>32. CASE Signal(t)
    BY <2>32 DEF Signal
  <2> QED BY <1>2, <2>9, <2>10, <2>11, <2>12, <2>13, <2>14, <2>15, <2>16,
         <2>17, <2>18, <2>19, <2>20, <2>21, <2>22, <2>23, <2>24, <2>25,
         <2>26, <2>27, <2>28, <2>29, <2>30, <2>31, <2>32 DEF Step,
         Environment
<1> QED BY <1>1, <1>2 DEF Next

\* AwareLock implements the abstract monitor: no interleaving of entering,
\* spinning, waiting, timing-out, interrupted and leaving threads shows the
\* clients anything but a re-entrant lock with one owner.
THEOREM AwareLockImplementsMonitor == Spec => ImplementsMonitor
<1>1. OwnInv /\ Init => M!Init
  BY AbsState DEF AbsView, Init, M!Init
<1>2. OwnInv /\ OwnInv' /\ AbsView /\ AbsView' /\ [Next]_vars => [M!Next]_(M!mvars)
  BY StepRefines
<1>3. OwnInv => AbsView
  BY AbsState
<1> QED BY <1>1, <1>2, <1>3, OwnershipHolds, PTL DEF Spec, ImplementsMonitor, M!Spec

-----------------------------------------------------------------------------
(* The header and the waits, in the run Monitors.                          *)

\* The header of MCMonitors behaves as ObjHeader says: a step of the other monitor
\* leaves its variables alone.
LEMMA HeaderPart == MCSpec => OH!Spec
<1>1. MCInit => OH!Init
  BY DEF MCInit
<1>2. [MCNext]_<<vars, ohVars, mwVars, part>> => [OH!Next]_(OH!vars)
  BY DEF MCNext, MayStop, ohVars, OH!vars
<1> QED BY <1>1, <1>2, PTL DEF MCSpec, OH!Spec

\* Nor does a step of the others touch the contended lock ...
LEMMA LockPart == MCSpec => Spec
<1>1. MCInit => Init
  BY DEF MCInit
<1>2. [MCNext]_<<vars, ohVars, mwVars, part>> => [Next]_vars
  BY DEF MCNext, MayStop
<1> QED BY <1>1, <1>2, PTL DEF MCSpec, Spec

\* ... or the waits.
LEMMA WaitPart == MCSpec => MW!Spec
<1>1. MCInit => MW!Init
  BY DEF MCInit
<1>2. [MCNext]_<<vars, ohVars, mwVars, part>> => [MW!Next]_(MW!vars)
  BY DEF MCNext, MayStop, mwVars, MW!vars, MW!monitors, MW!events, MW!bounds
<1> QED BY <1>1, <1>2, PTL DEF MCSpec, MW!Spec

\* The contended lock, the header word, the sync block, the waits and the calls of all
\* threads keep their types: m_Recursion and the level of a thin lock never leave their
\* ranges.
THEOREM MonitorTypesHold == MCSpec => []MonitorTypeOK
<1>1. OH!Spec => []OH!TypeOK
  BY HeaderAssumption, OH!HeaderTypes
<1>2. MW!Spec => []MW!TypeOK
  BY WaitAssumption, MW!WaitTypes
<1>3. TypeOK /\ OH!TypeOK /\ MW!TypeOK => MonitorTypeOK
  BY DEF MonitorTypeOK
<1> QED BY <1>1, <1>2, <1>3, TypeCorrect, LockPart, HeaderPart, WaitPart, PTL

\* GetSyncBlock and the lock paths that use its result: the GC never deletes a sync
\* block (GCDeleteSyncBlock) under a thread that has a pointer to it.
THEOREM NoUseAfterDeflationHolds == MCSpec => []NoUseAfterDeflation
<1>1. OH!Spec => []OH!NoUseAfterDeflation
  BY HeaderAssumption, OH!NoUseAfterDeflationHolds
<1> QED BY <1>1, HeaderPart, PTL DEF NoUseAfterDeflation

\* GetHashCodeEx: an object gives out one hash code, whether it is read from the
\* header word or from the sync block, and whoever computed it.
THEOREM HashStableHolds == MCSpec => []HashStable
<1>1. OH!Spec => []OH!HashStable
  BY HeaderAssumption, OH!HashStableHolds
<1> QED BY <1>1, HeaderPart, PTL DEF HashStable

\* GetSyncBlock: between the copy of the thin lock into the sync block and the store
\* of the index, nobody else changes the header word.
THEOREM HeaderFrozenHolds == MCSpec => HeaderFrozen
<1>1. OH!Spec => OH!HeaderFrozen
  BY HeaderAssumption, OH!HeaderFrozenHolds
<1> QED BY <1>1, HeaderPart, PTL DEF HeaderFrozen

\* EnterObjMonitor and LeaveObjMonitor implement the abstract monitor through
\* inflation and deflation: owner and count are those of Monitor.
THEOREM MonitorThroughInflation == MCSpec => HeaderImplementsMonitor
<1>1. OH!Spec => OH!ImplementsMonitor
  BY HeaderAssumption, OH!HeaderImplementsMonitor
<1> QED BY <1>1, HeaderPart, PTL DEF HeaderImplementsMonitor

\* SyncBlock::Pulse: a Wait that has been dequeued has its event set, or the pulsing
\* thread is about to set it, until it stops waiting.
THEOREM NoLostPulseHolds == MCSpec => []NoLostPulse
<1>1. MW!Spec => []MW!NoLostPulse
  BY WaitAssumption, MW!NoLostPulseHolds
<1> QED BY <1>1, WaitPart, PTL DEF NoLostPulse

\* ThreadQueue: the queue of a sync block holds only links of Wait calls that have not
\* been through Restore.
THEOREM NoDanglingLinkHolds == MCSpec => []NoDanglingLink
<1>1. MW!Spec => []MW!NoDanglingLink
  BY WaitAssumption, MW!NoDanglingLinkHolds
<1> QED BY <1>1, WaitPart, PTL DEF NoDanglingLink

\* Thread::DoAppropriateWait: a Wait whose event was signalled is no longer queued.
THEOREM RemovedBySignallerHolds == MCSpec => []RemovedBySignaller
<1>1. MW!Spec => []MW!RemovedBySignaller
  BY WaitAssumption, MW!RemovedBySignallerHolds
<1> QED BY <1>1, WaitPart, PTL DEF RemovedBySignaller

\* SyncBlock::Pulse: the link whose event the pulsing thread has yet to read is that of
\* a Wait that has not returned.
THEOREM PulsedLinkAliveHolds == MCSpec => []PulsedLinkAlive
<1>1. MW!Spec => []MW!PulsedLinkAlive
  BY WaitAssumption, MW!PulsedLinkAliveHolds
<1> QED BY <1>1, WaitPart, PTL DEF PulsedLinkAlive
==============================================================================
