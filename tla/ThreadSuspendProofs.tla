------------------------- MODULE ThreadSuspendProofs -------------------------
(***************************************************************************)
(* SuspendEE stops the world, for any number of threads, collectors and    *)
(* store buffers of any length.  The proof goes from the control of one    *)
(* thread (what is on its stack, in which mode and with which locks it     *)
(* runs) to the flags of the suspension and then to what the other threads *)
(* can do meanwhile.                                                       *)
(***************************************************************************)
EXTENDS ThreadSuspendProps, SequenceTheorems, TLAPS

-----------------------------------------------------------------------------
(* The stacks.  Their operators are never expanded after the first lemmas, *)
(* which lets the provers reason about them without sequences.             *)

Push(x, k) == <<x>> \o k
Top(s)     == Head(s)
Rest(s)    == Tail(s)

\* Where a thread is between operations.
Mgd == Push("managed", <<>>)
Ntv == Push("native", <<>>)
Uns == Push("unstarted", <<>>)

\* What follows SuspendEE, called from managed code, from native code and by a
\* collection.
CleanM      == Push("cleanUp", Mgd)
WorkM       == Push("work", CleanM)
CleanN      == Push("cleanUp", Ntv)
WorkN       == Push("work", CleanN)
Leaves      == Push("gcLeave", Mgd)
CleanG      == Push("cleanUp", Leaves)
Marks       == Push("gcMark", CleanG)
Collection  == Push("gcUpdate", Marks)
ThenCollect == Push("store1", Collection)

\* What follows the thread store lock of a thread that starts or ends, and the
\* rest of its end; what follows localCount.
UnlockM  == Push("unlockStore", Mgd)
Starting == Push("transfer", UnlockM)
UnlockU  == Push("unlockStore", Uns)
Ending   == Push("die", UnlockU)
LockEnd  == Push("lockStore", Ending)
ToEnd    == Push("store0", LockEnd)
Fixing   == Push("fixAlloc", ToEnd)
Asks     == Push("gcLock", Mgd)

\* The continuations of SuspendEE, RestartEE, LockThreadStore, EnablePreemptiveGC
\* and DisablePreemptiveGC, by the mode they are entered in.
Susp(m)         == IF m = "coop" THEN {WorkM} ELSE {WorkN, ThenCollect}
AfterRestart(m) == (IF m = "coop" THEN {Mgd, Leaves} ELSE {Ntv})
                     \cup {Push("retry", k) : k \in Susp(m)}
LockConts(m)    == {Push("locked", k) : k \in Susp(m)}
                     \cup (IF m = "coop" THEN {Starting} ELSE {Ending})
EnterConts      == LockConts("preemptive") \cup {Push("store1", k) : k \in LockConts("coop")}
DisableFree     == {Mgd, Asks, Fixing, Push("suspendEE", WorkM)}
DisableHeld     == {Collection} \cup LockConts("coop")
EnableConts     == {Ntv, LockEnd, Push("suspendEE", ThenCollect)}
                     \cup {Push("store1", k) : k \in DisableFree}
                     \cup {Push("untilGCComplete", k) : k \in DisableFree}
                     \cup {Push("abort?", Push("store1", k)) : k \in LockConts("coop")}

LockedSteps  == {"locked", "announce", "remember", "trapOn", "progressOn", "flush", "inspect",
                 "pass", "passed", "collide"}
RestartSteps == {"cleanUp", "progressOff", "trapOff", "forget", "wake", "unlockStore"}
StoreSteps   == {"abort?", "abortEvt?", "abortWait", "enterStore"}
Trapped      == {"trap?", "rareDisable", "again"}
Blocked      == {"store1", "untilGCComplete", "waitGC", "recoop"}
Enabling     == {"catch?", "rareEnable", "signal"}

\* The next step x, what follows it, the mode of the thread and whether it has
\* the lock of the thread store.
Row(x, k, m, h) ==
  /\ x \in CoopSteps \cup {"gcLeave"} => m = "coop" /\ h = "free"
  /\ x = "managed" => k = <<>>
  /\ x = "fixAlloc" => k = ToEnd
  /\ x = "gcCount" => k = Asks
  /\ x \in {"gcLock", "gcCheck", "gcLeave"} => k = Mgd
  /\ x \in {"native", "unstarted", "hasStarted"} => m = "preemptive" /\ h = "free"
  /\ x \in {"native", "unstarted"} => k = <<>>
  /\ x = "hasStarted" => k = Push("lockStore", Starting)
  /\ x \in Trapped => m = "coop" /\ k \in IF h = "free" THEN DisableFree ELSE DisableHeld
  /\ x \in Blocked => m = "preemptive" /\ k \in IF h = "free" THEN DisableFree ELSE DisableHeld
  /\ h = "held" => x \notin {"again", "untilGCComplete", "waitGC", "recoop"}
  /\ x \in Enabling => m = "preemptive" /\ h = "free" /\ k \in EnableConts
  /\ x = "store0" => m = "coop" /\ h = "free" /\ k \in EnableConts
  /\ x = "lockStore" => h = "free" /\ k \in LockConts(m)
  /\ x \in StoreSteps => m = "preemptive" /\ h = "free" /\ k \in EnterConts
  /\ x \in {"suspendEE", "retry"} => h = "free" /\ k \in Susp(m)
  /\ x = "nudge" => h = "free" /\ \E j \in Susp(m) : k = Push("lockStore", Push("locked", j))
  /\ x \in LockedSteps => h = "held" /\ k \in Susp(m)
  /\ x = "work" => h = "held" /\ k = IF m = "coop" THEN CleanM ELSE CleanN
  /\ x \in RestartSteps => h = "held"
  /\ x \in RestartSteps \ {"unlockStore"} => k \in AfterRestart(m)
  /\ x = "unlockStore" => k \in AfterRestart(m) \/ (m = "preemptive" /\ k = Uns)
  /\ x \in {"gcUpdate", "gcMark", "transfer"} => m = "coop" /\ h = "held"
  /\ x = "gcUpdate" => k = Marks
  /\ x = "gcMark" => k = CleanG
  /\ x = "transfer" => k = UnlockM
  /\ x = "die" => m = "preemptive" /\ h = "held" /\ k = UnlockU

Shape(s, m, h) == s \in Seq(Steps) /\ s # <<>> /\ Row(Top(s), Rest(s), m, h)

Mode(t) == IF OwnMode(t) THEN "coop" ELSE "preemptive"
Lock(t) == IF store = t THEN "held" ELSE "free"

\* Everybody is where its mode and its lock say.
StacksFit == \A t \in Thread : Shape(todo[t], Mode(t), Lock(t))

\* Stacks of threads that GetThreadList does not have.
IsNew(x, k) ==
  \/ x \in {"unstarted", "hasStarted", "transfer"}
  \/ x \in Trapped \cup Blocked \cup {"lockStore"} /\ k = Starting
  \/ x \in StoreSteps /\ k = Push("store1", Starting)
  \/ x \in Enabling \cup {"store0"} /\ k = Push("abort?", Push("store1", Starting))
  \/ x = "unlockStore" /\ k = Uns

NewUnlisted == \A t \in Thread : t \notin started => IsNew(Top(todo[t]), Rest(todo[t]))

-----------------------------------------------------------------------------
(* The flags of the suspension, by what its thread does.                   *)

InSuspension == {"flush", "inspect", "pass", "passed", "collide", "work", "gcUpdate", "gcMark",
                 "cleanUp", "progressOff"}

ToCollect(x, k) == x \in {"store1", "trap?", "rareDisable"} /\ k = Collection

\* GcInProgress, the trap, g_pSuspensionThread and WaitForGCEvent.
IsProgress(x, k) == x \in InSuspension \/ ToCollect(x, k)
IsTrap(x, k)     == x \in {"progressOn", "trapOff"} \/ IsProgress(x, k)
IsOwned(x, k)    == x \in {"trapOn", "forget"} \/ IsTrap(x, k)
IsReset(x, k)    == x \in {"remember", "wake"} \/ IsOwned(x, k)

FlagsFit ==
  /\ store = NoThread => trap = 0 /\ ~inProgress /\ suspension = NoThread /\ gcDone
  /\ \A s \in Thread : store = s =>
       /\ trap = IF IsTrap(Top(todo[s]), Rest(todo[s])) THEN 1 ELSE 0
       /\ inProgress <=> IsProgress(Top(todo[s]), Rest(todo[s]))
       /\ suspension = IF IsOwned(Top(todo[s]), Rest(todo[s])) THEN s ELSE NoThread
       /\ gcDone <=> ~IsReset(Top(todo[s]), Rest(todo[s]))

-----------------------------------------------------------------------------
(* The others.                                                             *)

\* The world is stopped for the thread with this stack.
IsStopped(x, k) ==
  \/ x \in {"work", "gcUpdate", "gcMark"} \/ ToCollect(x, k)
  \/ x \in {"cleanUp", "progressOff"} /\ Top(k) # "retry"

\* Steps from which a thread comes to managed code without a look at the trap.
Running == CoopSteps \cup {"gcLeave"}

\* Whoever still runs cooperatively once the store buffers are flushed is seen to
\* do so, and is counted or going to be looked at.
Rounded(s) ==
  \A u \in Thread \ {s} : Top(todo[u]) \in Running =>
    /\ Top(todo[s]) \in {"inspect", "pass", "passed"} => coop[u] /\ buffer[u] = <<>>
    /\ Top(todo[s]) = "inspect" => u \in scan \cup pending
    /\ Top(todo[s]) \in {"pass", "passed"} => u \in pending
    /\ ~IsStopped(Top(todo[s]), Rest(todo[s]))

WorldFits == \A s \in Thread : store = s => Rounded(s)

-----------------------------------------------------------------------------
(* The collection and the collisions.                                      *)

\* Stacks of the thread that has gc_lock.
InGC(x, k) ==
  \/ x \in {"gcCheck", "gcLeave", "gcUpdate", "gcMark"} \/ ToCollect(x, k)
  \/ x \in LockedSteps \cup {"suspendEE", "retry"} /\ k = ThenCollect
  \/ x = "nudge" /\ k = Push("lockStore", Push("locked", ThenCollect))
  \/ x \in StoreSteps \cup {"lockStore"} /\ k = Push("locked", ThenCollect)
  \/ x \in Enabling \cup {"store0"} /\ k = Push("suspendEE", ThenCollect)
  \/ x \in RestartSteps /\ k \in {Leaves, Push("retry", ThenCollect)}

OneCollects == \A t \in Thread : gcLock = t <=> InGC(Top(todo[t]), Rest(todo[t]))

\* Between update_collection_counts and the marking nobody gets gc_lock.
CountsFit ==
  /\ counted \ Served \subseteq Asking
  /\ (\A t \in Thread : Top(todo[t]) # "gcMark") => counted \subseteq Served

\* The event of a collision is in use only while a collection is on its way.
AbortFits ==
  /\ abortEvt = "idle" => abortSet
  /\ abortEvt = "used" => attempting # NoThread
  /\ \A t \in Thread : Top(todo[t]) = "abortWait" => abortEvt # "none"
  /\ \A t \in Thread : Top(todo[t]) = "collide" => attempting \notin {NoThread, t}

SuspendInv == StateOK /\ StacksFit /\ NewUnlisted /\ FlagsFit /\ WorldFits /\ OneCollects
              /\ CountsFit /\ AbortFits

-----------------------------------------------------------------------------
(* Lemmas about stacks.                                                    *)

\* s is a stack: x, and then k.
Is(s, x, k) == s \in Seq(Steps) /\ s # <<>> /\ Top(s) = x /\ Rest(s) = k

LEMMA PushFacts == \A x \in Steps, k \in Seq(Steps) : Is(Push(x, k), x, k)
BY DEF Push, Is, Top, Rest

\* The tuples of the specification as stacks.
LEMMA Pairs ==
  ASSUME NEW a \in Steps, NEW b \in Steps
  PROVE  <<a, b>> = <<a>> \o <<b>>
<1>1. <<a>> \in Seq(Steps) /\ <<b>> \in Seq(Steps) /\ <<a, b>> \in Seq(Steps)
  OBVIOUS
<1>2. <<a>> \o <<b>> \in Seq(Steps)
  BY <1>1
<1>3. Len(<<a>> \o <<b>>) = 2 /\ Len(<<a, b>>) = 2
  BY <1>1
<1>4. (<<a>> \o <<b>>)[1] = a
  BY <1>1
<1>5. (<<a>> \o <<b>>)[2] = b
  BY <1>1
<1>6. \A i \in 1..2 : (<<a>> \o <<b>>)[i] = (<<a, b>>)[i]
  BY <1>4, <1>5
<1> QED BY <1>1, <1>2, <1>3, <1>6, SeqEqual

LEMMA Triples ==
  ASSUME NEW a, NEW b, NEW c
  PROVE  <<a, b, c>> = <<a>> \o <<b, c>>
OBVIOUS

LEMMA PushTuples ==
  ASSUME NEW k \in Seq(Steps), NEW a \in Steps, NEW b \in Steps, NEW c \in Steps
  PROVE  /\ <<>> \o k = k /\ <<a>> \o k = Push(a, k)
         /\ <<a, b>> \o k = Push(a, Push(b, k))
         /\ <<a, b, c>> \o k = Push(a, Push(b, Push(c, k)))
<1>1. <<a>> \in Seq(Steps) /\ <<b>> \in Seq(Steps) /\ <<c>> \in Seq(Steps)
  OBVIOUS
<1>2. <<b, c>> \in Seq(Steps)
  OBVIOUS
<1>3. <<a, b>> \o k = <<a>> \o (<<b>> \o k)
  BY <1>1, Pairs, ConcatAssociative
<1>4. <<b, c>> \o k = <<b>> \o (<<c>> \o k)
  BY <1>1, Pairs, ConcatAssociative
<1>5. <<a, b, c>> \o k = <<a>> \o (<<b, c>> \o k)
  <2>1. <<a, b, c>> = <<a>> \o <<b, c>>
    BY Triples
  <2>2. (<<a>> \o <<b, c>>) \o k = <<a>> \o (<<b, c>> \o k)
    BY <1>1, <1>2, ConcatAssociative
  <2> QED BY <2>1, <2>2, Zenon
<1>6. <<>> \o k = k
  OBVIOUS
<1> QED BY <1>3, <1>4, <1>5, <1>6 DEF Push

\* The named stacks, from the last step to the first.
LEMMA Named ==
  /\ Is(Mgd, "managed", <<>>) /\ Is(Ntv, "native", <<>>) /\ Is(Uns, "unstarted", <<>>)
  /\ Is(CleanM, "cleanUp", Mgd) /\ Is(WorkM, "work", CleanM)
  /\ Is(CleanN, "cleanUp", Ntv) /\ Is(WorkN, "work", CleanN)
  /\ Is(Leaves, "gcLeave", Mgd) /\ Is(CleanG, "cleanUp", Leaves)
  /\ Is(Marks, "gcMark", CleanG) /\ Is(Collection, "gcUpdate", Marks)
  /\ Is(ThenCollect, "store1", Collection)
  /\ Is(UnlockM, "unlockStore", Mgd) /\ Is(Starting, "transfer", UnlockM)
  /\ Is(UnlockU, "unlockStore", Uns) /\ Is(Ending, "die", UnlockU)
  /\ Is(LockEnd, "lockStore", Ending) /\ Is(ToEnd, "store0", LockEnd)
  /\ Is(Fixing, "fixAlloc", ToEnd) /\ Is(Asks, "gcLock", Mgd)
<1>1. ASSUME NEW s \in Seq(Steps), NEW x \in Steps
      PROVE  Is(Push(x, s), x, s) /\ Push(x, s) \in Seq(Steps)
  BY PushFacts DEF Is
<1>2. <<>> \in Seq(Steps)
  OBVIOUS
<1> USE DEF Steps, CoopSteps
<1>3. /\ Is(Mgd, "managed", <<>>) /\ Is(Ntv, "native", <<>>) /\ Is(Uns, "unstarted", <<>>)
      /\ Mgd \in Seq(Steps) /\ Ntv \in Seq(Steps) /\ Uns \in Seq(Steps)
  BY <1>1, <1>2 DEF Mgd, Ntv, Uns
<1>4. Is(CleanM, "cleanUp", Mgd) /\ Is(WorkM, "work", CleanM)
  BY <1>1, <1>3 DEF CleanM, WorkM
<1>5. Is(CleanN, "cleanUp", Ntv) /\ Is(WorkN, "work", CleanN)
  BY <1>1, <1>3 DEF CleanN, WorkN
<1>6. Is(Leaves, "gcLeave", Mgd) /\ Is(CleanG, "cleanUp", Leaves) /\ Is(Marks, "gcMark", CleanG)
      /\ Is(Collection, "gcUpdate", Marks) /\ Is(ThenCollect, "store1", Collection)
  BY <1>1, <1>3 DEF Leaves, CleanG, Marks, Collection, ThenCollect
<1>7. /\ Is(UnlockM, "unlockStore", Mgd) /\ Is(Starting, "transfer", UnlockM)
      /\ Is(Asks, "gcLock", Mgd)
  BY <1>1, <1>3 DEF UnlockM, Starting, Asks
<1>8. /\ Is(UnlockU, "unlockStore", Uns) /\ Is(Ending, "die", UnlockU)
      /\ Is(LockEnd, "lockStore", Ending) /\ Is(ToEnd, "store0", LockEnd)
      /\ Is(Fixing, "fixAlloc", ToEnd)
  BY <1>1, <1>3 DEF UnlockU, Ending, LockEnd, ToEnd, Fixing
<1> QED BY <1>3, <1>4, <1>5, <1>6, <1>7, <1>8

-----------------------------------------------------------------------------
(* What a call returns to is a stack of the right mode and lock.           *)

LEMMA SuspShape ==
  ASSUME NEW m \in {"coop", "preemptive"}, NEW k \in Susp(m)
  PROVE  Shape(k, m, "held") /\ k \in Seq(Steps)
<1> USE Named DEF Is, Shape, Row, LockedSteps, RestartSteps, StoreSteps, Trapped, Blocked,
                  Enabling, CoopSteps
<1>1. CASE k = WorkM /\ m = "coop"
  BY <1>1
<1>2. CASE k = WorkN /\ m = "preemptive"
  BY <1>2
<1>3. CASE k = ThenCollect /\ m = "preemptive"
  BY <1>3 DEF DisableHeld
<1> QED BY <1>1, <1>2, <1>3 DEF Susp

LEMMA RestartShape ==
  ASSUME NEW m \in {"coop", "preemptive"}, NEW k \in AfterRestart(m)
  PROVE  Shape(k, m, "free") /\ k \in Seq(Steps)
<1>0. ASSUME NEW j \in Susp(m) PROVE Is(Push("retry", j), "retry", j)
  BY SuspShape, PushFacts DEF Steps
<1> USE Named DEF Is, Shape, Row, LockedSteps, RestartSteps, StoreSteps, Trapped, Blocked,
                  Enabling, CoopSteps
<1>1. CASE k \in {Mgd, Leaves} /\ m = "coop"
  BY <1>1
<1>2. CASE k = Ntv /\ m = "preemptive"
  BY <1>2
<1>3. CASE \E j \in Susp(m) : k = Push("retry", j)
  <2> PICK j \in Susp(m) : k = Push("retry", j)
    BY <1>3
  <2>1. Is(k, "retry", j)
    BY <1>0
  <2> QED BY <2>1
<1> QED BY <1>1, <1>2, <1>3 DEF AfterRestart

LEMMA UnsShape == Shape(Uns, "preemptive", "free") /\ Uns \in Seq(Steps)
BY Named DEF Is, Shape, Row, LockedSteps, RestartSteps, StoreSteps, Trapped, Blocked,
             Enabling, CoopSteps

LEMMA LockShape ==
  ASSUME NEW m \in {"coop", "preemptive"}, NEW k \in LockConts(m)
  PROVE  Shape(k, m, "held") /\ k \in Seq(Steps)
<1>0. ASSUME NEW j \in Susp(m) PROVE Is(Push("locked", j), "locked", j)
  BY SuspShape, PushFacts DEF Steps
<1> USE Named DEF Is, Shape, Row, LockedSteps, RestartSteps, StoreSteps, Trapped, Blocked,
                  Enabling, CoopSteps
<1>1. CASE k = Starting /\ m = "coop"
  BY <1>1
<1>2. CASE k = Ending /\ m = "preemptive"
  BY <1>2
<1>3. CASE \E j \in Susp(m) : k = Push("locked", j)
  <2> PICK j \in Susp(m) : k = Push("locked", j)
    BY <1>3
  <2>1. Is(k, "locked", j)
    BY <1>0
  <2> QED BY <2>1
<1> QED BY <1>1, <1>2, <1>3 DEF LockConts

LEMMA EnterShape ==
  ASSUME NEW k \in EnterConts
  PROVE  Shape(k, "preemptive", "held") /\ k \in Seq(Steps)
<1>1. CASE k \in LockConts("preemptive")
  BY <1>1, LockShape
<1>2. CASE \E j \in LockConts("coop") : k = Push("store1", j)
  <2> PICK j \in LockConts("coop") : k = Push("store1", j)
    BY <1>2
  <2>1. Is(k, "store1", j)
    BY LockShape, PushFacts DEF Steps
  <2> QED
    BY <2>1 DEF Is, Shape, Row, LockedSteps, RestartSteps, StoreSteps, Trapped, Blocked,
                Enabling, CoopSteps, DisableHeld
<1> QED BY <1>1, <1>2 DEF EnterConts

LEMMA DisableShape ==
  /\ \A k \in DisableFree : Shape(k, "coop", "free") /\ k \in Seq(Steps)
  /\ \A k \in DisableHeld : Shape(k, "coop", "held") /\ k \in Seq(Steps)
<1>1. WorkM \in Susp("coop") /\ WorkM \in Seq(Steps)
  BY Named DEF Susp, Is
<1>2. Is(Push("suspendEE", WorkM), "suspendEE", WorkM)
  BY <1>1, PushFacts DEF Steps
<1>3. Shape(Push("suspendEE", WorkM), "coop", "free")
  BY <1>1, <1>2 DEF Is, Shape, Row, LockedSteps, RestartSteps, StoreSteps, Trapped, Blocked,
                    Enabling, CoopSteps
<1>4. /\ Shape(Mgd, "coop", "free") /\ Shape(Asks, "coop", "free")
      /\ Shape(Fixing, "coop", "free") /\ Shape(Collection, "coop", "held")
  BY Named DEF Is, Shape, Row, LockedSteps, RestartSteps, StoreSteps, Trapped, Blocked,
               Enabling, CoopSteps
<1>5. \A k \in LockConts("coop") : Shape(k, "coop", "held")
  BY LockShape
<1>6. \A k \in DisableFree : Shape(k, "coop", "free")
  BY <1>3, <1>4 DEF DisableFree
<1>7. \A k \in DisableHeld : Shape(k, "coop", "held")
  BY <1>4, <1>5 DEF DisableHeld
<1> QED BY <1>6, <1>7 DEF Shape

LEMMA EnableShape ==
  ASSUME NEW k \in EnableConts
  PROVE  Shape(k, "preemptive", "free") /\ k \in Seq(Steps)
<1>1. ASSUME NEW x \in {"suspendEE", "store1", "untilGCComplete", "abort?"},
             NEW j \in Seq(Steps)
      PROVE  Is(Push(x, j), x, j)
  BY PushFacts DEF Steps
<1>2. CASE k = Ntv \/ k = LockEnd
  BY <1>2, Named DEF LockConts, Is, Shape, Row, LockedSteps, RestartSteps, StoreSteps,
     Trapped,
                     Blocked, Enabling, CoopSteps
<1>3. CASE k = Push("suspendEE", ThenCollect)
  <2>1. ThenCollect \in Susp("preemptive")
    BY DEF Susp
  <2>2. Is(k, "suspendEE", ThenCollect)
    BY <1>1, <1>3, <2>1, SuspShape
  <2> QED
    BY <2>1, <2>2 DEF Is, Shape, Row, LockedSteps, RestartSteps, StoreSteps, Trapped,
                      Blocked, Enabling, CoopSteps
<1>4. CASE \E j \in DisableFree : k = Push("store1", j) \/ k = Push("untilGCComplete", j)
  <2> PICK j \in DisableFree : k = Push("store1", j) \/ k = Push("untilGCComplete", j)
    BY <1>4
  <2>1. Is(k, "store1", j) \/ Is(k, "untilGCComplete", j)
    BY <1>1, DisableShape
  <2> QED
    BY <2>1 DEF Is, Shape, Row, LockedSteps, RestartSteps, StoreSteps, Trapped, Blocked,
                Enabling, CoopSteps
<1>5. CASE \E j \in LockConts("coop") : k = Push("abort?", Push("store1", j))
  <2> PICK j \in LockConts("coop") : k = Push("abort?", Push("store1", j))
    BY <1>5
  <2>1. Push("store1", j) \in EnterConts
    BY DEF EnterConts
  <2>2. Is(k, "abort?", Push("store1", j))
    BY <1>1, <2>1, EnterShape
  <2> QED
    BY <2>1, <2>2 DEF Is, Shape, Row, LockedSteps, RestartSteps, StoreSteps, Trapped,
       Blocked,
                      Enabling, CoopSteps
<1> QED BY <1>2, <1>3, <1>4, <1>5 DEF EnableConts
-----------------------------------------------------------------------------
(* The modes of the threads and their store buffers.                       *)

ModesOK ==
  /\ coop \in [Thread -> BOOLEAN] /\ buffer \in [Thread -> Seq(BOOLEAN)]
  /\ \A u \in Thread : Len(buffer[u]) <= BufferSize

\* Only t's word and buffer change.
OthersKeepModes(t) ==
  \A u \in Thread \ {t} : coop'[u] = coop[u] /\ buffer'[u] = buffer[u]

LEMMA OthersKeepOwnMode ==
  ASSUME NEW t \in Thread, OthersKeepModes(t)
  PROVE  \A u \in Thread \ {t} : OwnMode(u)' = OwnMode(u)
BY DEF OthersKeepModes, OwnMode

LEMMA OwnModeType ==
  ASSUME ModesOK, NEW t \in Thread
  PROVE  OwnMode(t) \in BOOLEAN
<1>1. CASE buffer[t] = <<>>
  BY <1>1, Zenon DEF OwnMode, ModesOK
<1>2. CASE buffer[t] # <<>>
  <2>1. buffer[t] \in Seq(BOOLEAN) /\ Len(buffer[t]) \in 1..Len(buffer[t])
    BY <1>2 DEF ModesOK
  <2>2. OwnMode(t) = buffer[t][Len(buffer[t])]
    BY <1>2, Zenon DEF OwnMode, Last
  <2>3. buffer[t][Len(buffer[t])] \in BOOLEAN
    BY <2>1, ElementOfSeq, Zenon
  <2> QED BY <2>2, <2>3, Zenon
<1> QED BY <1>1, <1>2, Zenon

LEMMA StoreMode ==
  ASSUME ModesOK, NEW t \in Thread, NEW b \in BOOLEAN, Store(t, b)
  PROVE  ModesOK' /\ OwnMode(t)' = b /\ OthersKeepModes(t)
<1>1. buffer[t] \in Seq(BOOLEAN) /\ Len(buffer[t]) < BufferSize /\ Len(buffer[t]) \in Nat
  BY DEF ModesOK, Store
<1>2. /\ Append(buffer[t], b) \in Seq(BOOLEAN)
      /\ Len(Append(buffer[t], b)) = Len(buffer[t]) + 1
      /\ Append(buffer[t], b)[Len(buffer[t]) + 1] = b
  BY <1>1, AppendProperties
<1>3. buffer' = [buffer EXCEPT ![t] = Append(buffer[t], b)] /\ coop' = coop
  BY DEF Store
<1>4. buffer'[t] = Append(buffer[t], b) /\ \A u \in Thread \ {t} : buffer'[u] = buffer[u]
  BY <1>3 DEF ModesOK
<1>5. buffer'[t] # <<>>
  BY <1>1, <1>2, <1>4
<1>6. OwnMode(t)' = b
  BY <1>2, <1>4, <1>5 DEF OwnMode, Last
<1>7. ModesOK'
  BY <1>1, <1>2, <1>3, <1>4, ThreadSuspendAssumption DEF ModesOK, ThreadSuspendAssumption
<1> QED BY <1>3, <1>4, <1>6, <1>7 DEF OthersKeepModes

LEMMA DrainedMode ==
  ASSUME ModesOK, NEW t \in Thread, Drained(t)
  PROVE  ModesOK' /\ OwnMode(t)' = OwnMode(t) /\ OthersKeepModes(t)
<1>1. OwnMode(t) \in BOOLEAN
  BY OwnModeType
<1>2. /\ coop' = [coop EXCEPT ![t] = OwnMode(t)]
      /\ buffer' = [buffer EXCEPT ![t] = <<>>]
  BY DEF Drained
<1>3. /\ coop'[t] = OwnMode(t) /\ buffer'[t] = <<>>
      /\ \A u \in Thread \ {t} : coop'[u] = coop[u] /\ buffer'[u] = buffer[u]
  BY <1>2 DEF ModesOK
<1>4. coop' \in [Thread -> BOOLEAN]
  BY <1>1, <1>2 DEF ModesOK
<1>5. buffer' \in [Thread -> Seq(BOOLEAN)] /\ \A u \in Thread : Len(buffer'[u]) <= BufferSize
  BY <1>2, <1>3, ThreadSuspendAssumption DEF ModesOK, ThreadSuspendAssumption
<1>6. OwnMode(t)' = OwnMode(t)
  BY <1>3 DEF OwnMode
<1> QED BY <1>3, <1>4, <1>5, <1>6 DEF ModesOK, OthersKeepModes

LEMMA DrainMode ==
  ASSUME ModesOK, NEW t \in Thread, Drain(t)
  PROVE  ModesOK' /\ OwnMode(t)' = OwnMode(t) /\ OthersKeepModes(t)
<1>1. buffer[t] \in Seq(BOOLEAN) /\ buffer[t] # <<>> /\ Len(buffer[t]) \in Nat
  BY DEF ModesOK, Drain
<1>2. /\ Head(buffer[t]) \in BOOLEAN /\ Tail(buffer[t]) \in Seq(BOOLEAN)
      /\ Len(Tail(buffer[t])) = Len(buffer[t]) - 1
      /\ \A i \in 1..Len(Tail(buffer[t])) : Tail(buffer[t])[i] = buffer[t][i + 1]
  BY <1>1, HeadTailProperties
<1>3. /\ coop' = [coop EXCEPT ![t] = Head(buffer[t])]
      /\ buffer' = [buffer EXCEPT ![t] = Tail(buffer[t])]
  BY DEF Drain
<1>4. /\ coop'[t] = Head(buffer[t]) /\ buffer'[t] = Tail(buffer[t])
      /\ \A u \in Thread \ {t} : coop'[u] = coop[u] /\ buffer'[u] = buffer[u]
  BY <1>3 DEF ModesOK
<1>5. coop' \in [Thread -> BOOLEAN]
  BY <1>2, <1>3 DEF ModesOK
<1>6. buffer' \in [Thread -> Seq(BOOLEAN)] /\ \A u \in Thread : Len(buffer'[u]) <= BufferSize
  BY <1>1, <1>2, <1>3, <1>4, ThreadSuspendAssumption DEF ModesOK, ThreadSuspendAssumption
<1>7. OwnMode(t) = buffer[t][Len(buffer[t])]
  BY <1>1 DEF OwnMode, Last
<1>8. OwnMode(t)' = buffer[t][Len(buffer[t])]
  <2>1. CASE Tail(buffer[t]) = <<>>
    <3>0. Len(Tail(buffer[t])) = 0
      BY <2>1, EmptySeq
    <3>1. Len(buffer[t]) = 1
      BY <1>1, <1>2, <3>0
    <3>2. buffer'[t] = <<>> /\ coop'[t] = Head(buffer[t])
      BY <1>4, <2>1
    <3>3. OwnMode(t)' = Head(buffer[t])
      BY <3>2, Zenon DEF OwnMode
    <3>4. Head(buffer[t]) = buffer[t][1]
      BY <1>1, HeadTailProperties
    <3> QED BY <3>1, <3>3, <3>4
  <2>2. CASE Tail(buffer[t]) # <<>>
    BY <1>1, <1>2, <1>4, <2>2 DEF OwnMode, Last
  <2> QED BY <2>1, <2>2
<1> QED BY <1>4, <1>5, <1>6, <1>7, <1>8 DEF ModesOK, OthersKeepModes

\* FlushProcessWriteBuffers shows every mode to everybody.
LEMMA FlushMode ==
  ASSUME ModesOK, coop' = [u \in Thread |-> OwnMode(u)], buffer' = [u \in Thread |-> <<>>]
  PROVE  /\ ModesOK'
         /\ \A u \in Thread : OwnMode(u)' = OwnMode(u) /\ coop'[u] = OwnMode(u)
                              /\ buffer'[u] = <<>>
<1>1. \A u \in Thread : OwnMode(u) \in BOOLEAN
  BY OwnModeType
<1>2. \A u \in Thread : coop'[u] = OwnMode(u) /\ buffer'[u] = <<>>
  OBVIOUS
<1>3. coop' \in [Thread -> BOOLEAN]
  BY <1>1
<1>4. buffer' \in [Thread -> Seq(BOOLEAN)] /\ \A u \in Thread : Len(buffer'[u]) <= BufferSize
  BY ThreadSuspendAssumption DEF ThreadSuspendAssumption
<1>5. \A u \in Thread : OwnMode(u)' = OwnMode(u)
  BY <1>2 DEF OwnMode
<1> QED BY <1>2, <1>3, <1>4, <1>5 DEF ModesOK
-----------------------------------------------------------------------------
(* Frames: a step of t that leaves alone what a part of the invariant is   *)
(* about keeps that part.                                                  *)

\* The stack of t becomes r; the others keep theirs.
Moved(t, r) ==
  /\ todo' \in [Thread -> Seq(Steps)] /\ r # <<>> /\ todo'[t] = r
  /\ \A u \in Thread \ {t} : todo'[u] = todo[u]

LEMMA FrameStacks ==
  ASSUME StacksFit, NEW t \in Thread, NEW r, Moved(t, r),
         \A u \in Thread \ {t} : OwnMode(u)' = OwnMode(u) /\ (store' = u <=> store = u),
         Shape(r, Mode(t)', Lock(t)')
  PROVE  StacksFit'
<1>1. ASSUME NEW u \in Thread \ {t} PROVE Mode(u)' = Mode(u) /\ Lock(u)' = Lock(u)
  BY DEF Mode, Lock
<1>2. ASSUME NEW u \in Thread \ {t} PROVE Shape(todo'[u], Mode(u)', Lock(u)')
  BY <1>1 DEF Moved, StacksFit
<1> QED BY <1>2, Zenon DEF StacksFit, Moved

LEMMA FrameNew ==
  ASSUME NewUnlisted, NEW t \in Thread, NEW r, Moved(t, r),
         \A u \in Thread \ {t} : u \in started' <=> u \in started,
         t \notin started' => IsNew(Top(r), Rest(r))
  PROVE  NewUnlisted'
BY Zenon DEF NewUnlisted, Moved

SameFlags(x, k, y, j) ==
  /\ IsTrap(x, k) <=> IsTrap(y, j)
  /\ IsProgress(x, k) <=> IsProgress(y, j)
  /\ IsOwned(x, k) <=> IsOwned(y, j)
  /\ IsReset(x, k) <=> IsReset(y, j)

LEMMA FrameFlags ==
  ASSUME FlagsFit, NEW t \in Thread, NEW r, Moved(t, r), UNCHANGED <<flags, store>>,
         store = t => SameFlags(Top(todo[t]), Rest(todo[t]), Top(r), Rest(r))
  PROVE  FlagsFit'
<1>1. /\ trap' = trap /\ inProgress' = inProgress /\ suspension' = suspension
      /\ gcDone' = gcDone /\ store' = store
  BY DEF flags
<1>2. CASE store = t
  BY <1>1, <1>2 DEF FlagsFit, Moved, SameFlags
<1>3. CASE store # t
  BY <1>1, <1>3 DEF FlagsFit, Moved
<1> QED BY <1>2, <1>3

\* Whoever looks at the trap while a suspension is in progress does not go on.
LEMMA FrameWorld ==
  ASSUME FlagsFit, WorldFits, NEW t \in Thread, NEW r, Moved(t, r), OthersKeepModes(t),
         UNCHANGED <<store, pending, scan>>,
         store = t => /\ Top(r) \notin {"inspect", "pass", "passed"}
                      /\ IsStopped(Top(r), Rest(r)) => IsStopped(Top(todo[t]), Rest(todo[t])),
         Top(r) \in Running =>
            \/ /\ Top(todo[t]) \in Running
               /\ coop[t] /\ buffer[t] = <<>> => coop'[t] /\ buffer'[t] = <<>>
            \/ ~inProgress \/ store = t
  PROVE  WorldFits'
<1> SUFFICES ASSUME NEW s \in Thread, store = s,
                    NEW u \in Thread \ {s}, Top(todo'[u]) \in Running
             PROVE  /\ Top(todo'[s]) \in {"inspect", "pass", "passed"} =>
                         coop'[u] /\ buffer'[u] = <<>>
                    /\ Top(todo'[s]) = "inspect" => u \in scan \cup pending
                    /\ Top(todo'[s]) \in {"pass", "passed"} => u \in pending
                    /\ ~IsStopped(Top(todo'[s]), Rest(todo'[s]))
  BY DEF WorldFits, Rounded
<1>1. Top(todo[u]) \in Running =>
        /\ Top(todo[s]) \in {"inspect", "pass", "passed"} => coop[u] /\ buffer[u] = <<>>
        /\ Top(todo[s]) = "inspect" => u \in scan \cup pending
        /\ Top(todo[s]) \in {"pass", "passed"} => u \in pending
        /\ ~IsStopped(Top(todo[s]), Rest(todo[s]))
  BY DEF WorldFits, Rounded
<1>2. CASE s = t
  BY <1>1, <1>2 DEF Moved
<1>3. CASE s # t /\ u # t
  BY <1>1, <1>3 DEF Moved, OthersKeepModes
<1>4. CASE s # t /\ u = t
  <2>1. inProgress <=> IsProgress(Top(todo[s]), Rest(todo[s]))
    BY DEF FlagsFit
  <2>2. CASE ~inProgress
    BY <1>4, <2>1, <2>2 DEF Moved, IsProgress, InSuspension, IsStopped
  <2>3. CASE Top(todo[t]) \in Running /\ (coop[t] /\ buffer[t] = <<>> => coop'[t] /\ buffer'[t] = <<>>)
    BY <1>1, <1>4, <2>3 DEF Moved
  <2> QED BY <1>4, <2>2, <2>3 DEF Moved
<1> QED BY <1>2, <1>3, <1>4

LEMMA FrameGC ==
  ASSUME OneCollects, NEW t \in Thread, NEW r, Moved(t, r), gcLock' = gcLock,
         InGC(Top(todo[t]), Rest(todo[t])) <=> InGC(Top(r), Rest(r))
  PROVE  OneCollects'
BY DEF OneCollects, Moved

LEMMA FrameCounts ==
  ASSUME CountsFit, NEW t \in Thread, NEW r, Moved(t, r), UNCHANGED <<counted, Served>>,
         Top(todo[t]) # "gcMark",
         Contains(todo[t], "gcLock") => Contains(r, "gcLock")
  PROVE  CountsFit'
<1>1. Asking \subseteq Asking'
  BY DEF Asking, Moved
<1>2. (\A u \in Thread : Top(todo'[u]) # "gcMark") => \A u \in Thread : Top(todo[u]) # "gcMark"
  BY DEF Moved
<1> QED BY <1>1, <1>2 DEF CountsFit

LEMMA FrameAbort ==
  ASSUME AbortFits, NEW t \in Thread, NEW r, Moved(t, r), UNCHANGED abortVs,
         Top(r) = "abortWait" => abortEvt # "none",
         Top(r) = "collide" => attempting \notin {NoThread, t}
  PROVE  AbortFits'
<1>1. abortEvt' = abortEvt /\ abortSet' = abortSet /\ attempting' = attempting
  BY DEF abortVs
<1> QED BY <1>1 DEF AbortFits, Moved

-----------------------------------------------------------------------------
(* What the next step leaves of the stack.                                 *)

LEMMA ContainsPush ==
  ASSUME NEW p \in Seq(Steps), NEW k \in Seq(Steps), NEW e, Contains(k, e)
  PROVE  Contains(p \o k, e)
<1>1. PICK i \in 1..Len(k) : k[i] = e
  BY DEF Contains
<1>2. Len(p) + i \in 1..Len(p \o k)
  OBVIOUS
<1>3. (p \o k)[Len(p) + i] = e
  BY <1>1
<1> QED BY <1>2, <1>3 DEF Contains

LEMMA ContainsTail ==
  ASSUME NEW s \in Seq(Steps), s # <<>>, NEW e, Contains(s, e), Head(s) # e
  PROVE  Contains(Tail(s), e)
<1>1. PICK i \in 1..Len(s) : s[i] = e
  BY DEF Contains
<1>2. Head(s) = s[1] /\ Len(Tail(s)) = Len(s) - 1
      /\ \A j \in 1..Len(Tail(s)) : Tail(s)[j] = s[j + 1]
  BY HeadTailProperties
<1>3. i # 1
  BY <1>1, <1>2
<1>4. i - 1 \in 1..Len(Tail(s)) /\ Tail(s)[i - 1] = e
  BY <1>1, <1>2, <1>3
<1> QED BY <1>4 DEF Contains

\* The stack of t is x and then k.
StackOf(t, x, k) ==
  /\ x \in Steps /\ k \in Seq(Steps) /\ Top(todo[t]) = x /\ Rest(todo[t]) = k
  /\ Row(x, k, Mode(t), Lock(t))

LEMMA Stacks ==
  ASSUME StateOK, StacksFit, NEW t \in Thread, NEW x, At(t, x)
  PROVE  StackOf(t, x, Rest(todo[t]))
<1>1. todo[t] \in Seq(Steps) /\ todo[t] # <<>>
  BY DEF StateOK
<1>2. Top(todo[t]) \in Steps /\ Rest(todo[t]) \in Seq(Steps)
  BY <1>1, HeadTailProperties DEF Top, Rest
<1> QED BY <1>2 DEF StacksFit, Shape, At, StackOf, Top

\* A step that puts p in front of the rest.
LEMMA Pushes ==
  ASSUME StateOK, NEW t \in Thread, NEW p \in Seq(Steps), Then(t, p)
  PROVE  /\ p \o Rest(todo[t]) # <<>> => Moved(t, p \o Rest(todo[t]))
         /\ Top(todo[t]) # "gcLock" /\ Contains(todo[t], "gcLock") =>
              Contains(p \o Rest(todo[t]), "gcLock")
<1>1. todo \in [Thread -> Seq(Steps)] /\ todo[t] \in Seq(Steps) /\ todo[t] # <<>>
  BY DEF StateOK
<1>2. Rest(todo[t]) \in Seq(Steps)
  BY <1>1, HeadTailProperties DEF Top, Rest
<1>3. p \o Rest(todo[t]) \in Seq(Steps)
  BY <1>2
<1>4. todo' = [todo EXCEPT ![t] = p \o Rest(todo[t])]
  BY DEF Then, Rest
<1>5. todo' \in [Thread -> Seq(Steps)] /\ todo'[t] = p \o Rest(todo[t])
      /\ \A u \in Thread \ {t} : todo'[u] = todo[u]
  BY <1>1, <1>3, <1>4
<1>6. ASSUME Top(todo[t]) # "gcLock", Contains(todo[t], "gcLock")
      PROVE  Contains(p \o Rest(todo[t]), "gcLock")
  BY <1>1, <1>2, <1>6, ContainsTail, ContainsPush DEF Top, Rest
<1> QED BY <1>5, <1>6 DEF Moved

\* What t does next is r; who asks for a collection still asks.
Goes(t, r) ==
  /\ Moved(t, r) /\ r \in Seq(Steps)
  /\ Top(todo[t]) # "gcLock" /\ Contains(todo[t], "gcLock") => Contains(r, "gcLock")

LEMMA ThenNone ==
  ASSUME StateOK, NEW t \in Thread, NEW k \in Seq(Steps), k = Rest(todo[t]), k # <<>>,
         Then(t, <<>>)
  PROVE  Goes(t, k)
<1>1. <<>> \o k = k /\ <<>> \in Seq(Steps)
  OBVIOUS
<1> QED BY <1>1, Pushes DEF Goes

LEMMA ThenOne ==
  ASSUME StateOK, NEW t \in Thread, NEW k \in Seq(Steps), k = Rest(todo[t]),
         NEW a \in Steps, Then(t, <<a>>)
  PROVE  Goes(t, Push(a, k)) /\ Is(Push(a, k), a, k)
<1>1. Is(Push(a, k), a, k) /\ <<a>> \o k = Push(a, k)
  BY PushFacts DEF Push
<1>2. <<a>> \in Seq(Steps)
  OBVIOUS
<1> QED BY <1>1, <1>2, Pushes DEF Goes, Is

LEMMA ThenTwo ==
  ASSUME StateOK, NEW t \in Thread, NEW k \in Seq(Steps), k = Rest(todo[t]),
         NEW a \in Steps, NEW b \in Steps, Then(t, <<a, b>>) \/ Then(t, <<a>> \o <<b>>)
  PROVE  /\ Goes(t, Push(a, Push(b, k))) /\ Is(Push(a, Push(b, k)), a, Push(b, k))
         /\ Is(Push(b, k), b, k)
<1>1. <<a, b>> \o k = Push(a, Push(b, k)) /\ <<a, b>> = <<a>> \o <<b>>
  BY PushTuples, Pairs
<1>2. Is(Push(b, k), b, k) /\ Push(b, k) \in Seq(Steps)
  BY PushFacts DEF Is
<1>3. Is(Push(a, Push(b, k)), a, Push(b, k))
  BY <1>2, PushFacts
<1>4. <<a, b>> \in Seq(Steps)
  OBVIOUS
<1> QED BY <1>1, <1>2, <1>3, <1>4, Pushes DEF Goes, Is

LEMMA ThenThree ==
  ASSUME StateOK, NEW t \in Thread, NEW k \in Seq(Steps), k = Rest(todo[t]),
         NEW a \in Steps, NEW b \in Steps, NEW c \in Steps,
         Then(t, <<a, b, c>>) \/ Then(t, <<a>> \o <<b>> \o <<c>>) \/ Then(t, <<a>> \o <<b, c>>)
           \/ Then(t, (<<a>> \o <<b>>) \o <<c>>)
  PROVE  /\ Goes(t, Push(a, Push(b, Push(c, k))))
         /\ Is(Push(a, Push(b, Push(c, k))), a, Push(b, Push(c, k)))
         /\ Is(Push(b, Push(c, k)), b, Push(c, k)) /\ Is(Push(c, k), c, k)
<1>1. Is(Push(c, k), c, k) /\ Push(c, k) \in Seq(Steps)
  BY PushFacts DEF Is
<1>2. Is(Push(b, Push(c, k)), b, Push(c, k)) /\ Push(b, Push(c, k)) \in Seq(Steps)
  BY <1>1, PushFacts DEF Is
<1>3. Is(Push(a, Push(b, Push(c, k))), a, Push(b, Push(c, k)))
  BY <1>2, PushFacts
<1>4. <<a>> \in Seq(Steps) /\ <<b>> \in Seq(Steps) /\ <<c>> \in Seq(Steps)
  OBVIOUS
<1>5. <<b, c>> \in Seq(Steps)
  OBVIOUS
<1>6. <<a, b, c>> = <<a>> \o <<b, c>>
  BY Triples
<1>7. <<b, c>> = <<b>> \o <<c>>
  BY Pairs
<1>8. <<b, c>> \o k = <<b>> \o (<<c>> \o k)
  BY <1>4, <1>7, ConcatAssociative
<1>9. (<<a>> \o <<b, c>>) \o k = <<a>> \o (<<b, c>> \o k)
  BY <1>4, <1>5, ConcatAssociative
<1>10. <<a, b, c>> \o k = Push(a, Push(b, Push(c, k)))
  BY <1>6, <1>8, <1>9, Zenon DEF Push
<1>11. (<<a>> \o <<b>>) \o <<c>> = <<a>> \o (<<b>> \o <<c>>)
  BY <1>4, ConcatAssociative
<1>12. Then(t, <<a, b, c>>)
  BY <1>6, <1>7, <1>11, Zenon
<1>13. <<a, b, c>> \in Seq(Steps)
  OBVIOUS
<1> QED BY <1>1, <1>2, <1>3, <1>10, <1>12, <1>13, Pushes DEF Goes, Is

\* A thread between operations begins one.
LEMMA Calls ==
  ASSUME StateOK, NEW t \in Thread, NEW x \in Steps, NEW r \in Seq(Steps), r # <<>>,
         todo[t] = <<x>>, x # "gcLock", todo' = [todo EXCEPT ![t] = r]
  PROVE  Goes(t, r) /\ Top(todo[t]) = x /\ Rest(todo[t]) = <<>>
<1>1. todo \in [Thread -> Seq(Steps)]
  BY DEF StateOK
<1>2. Moved(t, r)
  BY <1>1 DEF Moved
<1>3. Top(todo[t]) = x /\ Rest(todo[t]) = <<>>
  BY DEF Top, Rest
<1>4. ~Contains(todo[t], "gcLock")
  <2>1. Len(todo[t]) = 1 /\ todo[t][1] = x
    OBVIOUS
  <2> QED BY <2>1 DEF Contains
<1> QED BY <1>2, <1>3, <1>4 DEF Goes
-----------------------------------------------------------------------------
(* Quiet steps: those that change the mode and the stack of their thread   *)
(* and nothing that the other threads see.                                 *)

\* r is of the same kind as x and then k.
Keeps(x, k, r, h) ==
  /\ IsNew(x, k) => IsNew(Top(r), Rest(r))
  /\ InGC(x, k) <=> InGC(Top(r), Rest(r))
  /\ h = "held" => /\ SameFlags(x, k, Top(r), Rest(r))
                   /\ Top(r) \notin {"inspect", "pass", "passed"}
                   /\ IsStopped(Top(r), Rest(r)) => IsStopped(x, k)

LEMMA FrameTypes ==
  ASSUME StateOK, NEW t \in Thread, NEW r, Moved(t, r), ModesOK',
         pending' \subseteq Thread, started' \subseteq Thread, trap' \in {0, 1},
         {inProgress', gcDone', rendezvous', abortSet'} \subseteq BOOLEAN,
         {suspension', store', attempting', gcLock'} \subseteq Thread \cup {NoThread},
         abortEvt' \in {"none", "idle", "used"},
         scan' \subseteq Thread, counted' \subseteq Thread, Served' \subseteq Thread
  PROVE  StateOK'
<1>1. /\ todo' \in [Thread -> Seq(Steps)] /\ \A u \in Thread : todo'[u] # <<>>
  BY DEF StateOK, Moved
<1>2. /\ coop' \in [Thread -> BOOLEAN]
      /\ buffer' \in [Thread -> Seq(BOOLEAN)]
      /\ \A u \in Thread : Len(buffer'[u]) <= BufferSize
  BY DEF ModesOK
<1> QED BY <1>1, <1>2, Zenon DEF StateOK

\* What TypeOK says of the variables that most steps leave alone.
LEMMA Types ==
  ASSUME SuspendInv
  PROVE  /\ pending \subseteq Thread /\ started \subseteq Thread /\ trap \in {0, 1}
         /\ inProgress \in BOOLEAN /\ gcDone \in BOOLEAN /\ rendezvous \in BOOLEAN
         /\ abortSet \in BOOLEAN
         /\ suspension \in Thread \cup {NoThread} /\ store \in Thread \cup {NoThread}
         /\ attempting \in Thread \cup {NoThread} /\ gcLock \in Thread \cup {NoThread}
         /\ abortEvt \in {"none", "idle", "used"}
         /\ scan \subseteq Thread /\ counted \subseteq Thread /\ Served \subseteq Thread
BY Zenon DEF SuspendInv, StateOK

\* A step of t that leaves the suspension alone.
LEMMA LocalStep ==
  ASSUME SuspendInv, NEW t \in Thread, NEW r, Moved(t, r), ModesOK', OthersKeepModes(t),
         UNCHANGED <<pending, flags, store, scan>>,
         started' \subseteq Thread, rendezvous' \in BOOLEAN,
         attempting' \in Thread \cup {NoThread}, abortEvt' \in {"none", "idle", "used"},
         abortSet' \in BOOLEAN, gcLock' \in Thread \cup {NoThread},
         counted' \subseteq Thread, Served' \subseteq Thread,
         Shape(r, Mode(t)', Lock(t)),
         store = t =>
            /\ SameFlags(Top(todo[t]), Rest(todo[t]), Top(r), Rest(r))
            /\ Top(r) \notin {"inspect", "pass", "passed"}
            /\ IsStopped(Top(r), Rest(r)) => IsStopped(Top(todo[t]), Rest(todo[t])),
         Top(r) \in Running =>
            \/ /\ Top(todo[t]) \in Running
               /\ coop[t] /\ buffer[t] = <<>> => coop'[t] /\ buffer'[t] = <<>>
            \/ ~inProgress \/ store = t,
         NewUnlisted', OneCollects', CountsFit', AbortFits'
  PROVE  SuspendInv'
<1>1. UNCHANGED <<pending, store, scan>> /\ UNCHANGED flags
  OBVIOUS
<1>2. /\ trap' = trap /\ inProgress' = inProgress /\ suspension' = suspension
      /\ gcDone' = gcDone
  BY <1>1 DEF flags
<1>3. StateOK'
  <2>1. {inProgress', gcDone', rendezvous', abortSet'} \subseteq BOOLEAN
    BY <1>2, Types, Zenon
  <2>2. {suspension', store', attempting', gcLock'} \subseteq Thread \cup {NoThread}
    BY <1>1, <1>2, Types
  <2>3. pending' \subseteq Thread /\ scan' \subseteq Thread /\ trap' \in {0, 1}
    BY <1>1, <1>2, Types
  <2> QED BY <2>1, <2>2, <2>3, FrameTypes DEF SuspendInv
<1>4. StacksFit'
  <2>1. \A u \in Thread \ {t} : OwnMode(u)' = OwnMode(u) /\ (store' = u <=> store = u)
    BY <1>1, OthersKeepOwnMode
  <2>2. Lock(t)' = Lock(t)
    BY <1>1 DEF Lock
  <2> QED BY <2>1, <2>2, FrameStacks DEF SuspendInv
<1>5. FlagsFit'
  BY <1>1, FrameFlags DEF SuspendInv
<1>6. WorldFits'
  BY <1>1, FrameWorld DEF SuspendInv
<1> QED BY <1>3, <1>4, <1>5, <1>6 DEF SuspendInv

LEMMA Quiet ==
  ASSUME SuspendInv, NEW t \in Thread, NEW r, Moved(t, r), ModesOK', OthersKeepModes(t),
         UNCHANGED <<pending, started, flags, store, abortVs, scan, gc>>,
         rendezvous' \in BOOLEAN,
         Shape(r, Mode(t)', Lock(t)), Keeps(Top(todo[t]), Rest(todo[t]), r, Lock(t)),
         Top(todo[t]) # "gcMark",
         Contains(todo[t], "gcLock") => Contains(r, "gcLock"),
         Top(r) \in Running =>
            \/ /\ Top(todo[t]) \in Running
               /\ coop[t] /\ buffer[t] = <<>> => coop'[t] /\ buffer'[t] = <<>>
            \/ ~inProgress \/ store = t,
         Top(r) = "abortWait" => abortEvt # "none",
         Top(r) = "collide" => attempting \notin {NoThread, t}
  PROVE  SuspendInv'
<1>1. /\ UNCHANGED <<pending, flags, store, scan>> /\ started' = started
      /\ UNCHANGED abortVs /\ UNCHANGED gc
  OBVIOUS
<1>2. /\ gcLock' = gcLock /\ counted' = counted /\ Served' = Served
      /\ attempting' = attempting /\ abortEvt' = abortEvt /\ abortSet' = abortSet
  BY <1>1 DEF gc, Served, abortVs
<1>3. store = t <=> Lock(t) = "held"
  BY DEF Lock
<1>4. NewUnlisted'
  <2>1. t \notin started' => IsNew(Top(r), Rest(r))
    BY <1>1 DEF SuspendInv, NewUnlisted, Keeps
  <2> QED BY <1>1, <2>1, FrameNew DEF SuspendInv
<1>5. OneCollects'
  BY <1>2, FrameGC DEF SuspendInv, Keeps
<1>6. CountsFit'
  BY <1>2, FrameCounts DEF SuspendInv
<1>7. AbortFits'
  BY <1>1, FrameAbort DEF SuspendInv
<1>8. store = t => /\ SameFlags(Top(todo[t]), Rest(todo[t]), Top(r), Rest(r))
                   /\ Top(r) \notin {"inspect", "pass", "passed"}
                   /\ IsStopped(Top(r), Rest(r)) => IsStopped(Top(todo[t]), Rest(todo[t]))
  BY <1>3 DEF Keeps
<1> QED BY <1>1, <1>2, <1>4, <1>5, <1>6, <1>7, <1>8, Types, LocalStep

-----------------------------------------------------------------------------
(* What the returns from the mode switches keep.                           *)

LEMMA Tops ==
  /\ Top(Mgd) = "managed" /\ Rest(Mgd) = <<>>
  /\ Top(Ntv) = "native" /\ Rest(Ntv) = <<>>
  /\ Top(Uns) = "unstarted" /\ Rest(Uns) = <<>>
  /\ Top(CleanM) = "cleanUp" /\ Rest(CleanM) = Mgd
  /\ Top(WorkM) = "work" /\ Rest(WorkM) = CleanM
  /\ Top(CleanN) = "cleanUp" /\ Rest(CleanN) = Ntv
  /\ Top(WorkN) = "work" /\ Rest(WorkN) = CleanN
  /\ Top(Leaves) = "gcLeave" /\ Rest(Leaves) = Mgd
  /\ Top(CleanG) = "cleanUp" /\ Rest(CleanG) = Leaves
  /\ Top(Marks) = "gcMark" /\ Rest(Marks) = CleanG
  /\ Top(Collection) = "gcUpdate" /\ Rest(Collection) = Marks
  /\ Top(ThenCollect) = "store1" /\ Rest(ThenCollect) = Collection
  /\ Top(UnlockM) = "unlockStore" /\ Rest(UnlockM) = Mgd
  /\ Top(Starting) = "transfer" /\ Rest(Starting) = UnlockM
  /\ Top(UnlockU) = "unlockStore" /\ Rest(UnlockU) = Uns
  /\ Top(Ending) = "die" /\ Rest(Ending) = UnlockU
  /\ Top(LockEnd) = "lockStore" /\ Rest(LockEnd) = Ending
  /\ Top(ToEnd) = "store0" /\ Rest(ToEnd) = LockEnd
  /\ Top(Fixing) = "fixAlloc" /\ Rest(Fixing) = ToEnd
  /\ Top(Asks) = "gcLock" /\ Rest(Asks) = Mgd
BY Named DEF Is

LEMMA Listed ==
  {Mgd, Ntv, Uns, CleanM, WorkM, CleanN, WorkN, Leaves, CleanG, Marks, Collection, ThenCollect,
   UnlockM, Starting, UnlockU, Ending, LockEnd, ToEnd, Fixing, Asks} \subseteq Seq(Steps) \ {<<>>}
BY Named DEF Is

LEMMA PushTop ==
  ASSUME NEW x \in Steps, NEW k \in Seq(Steps)
  PROVE  /\ Push(x, k) \in Seq(Steps) /\ Push(x, k) # <<>>
         /\ Top(Push(x, k)) = x /\ Rest(Push(x, k)) = k
BY PushFacts DEF Is

\* The stacks of two steps that other definitions name.
LEMMA PairTops ==
  /\ Top(Push("suspendEE", ThenCollect)) = "suspendEE"
  /\ Rest(Push("suspendEE", ThenCollect)) = ThenCollect
  /\ Top(Push("suspendEE", WorkM)) = "suspendEE" /\ Rest(Push("suspendEE", WorkM)) = WorkM
  /\ Top(Push("store1", Starting)) = "store1" /\ Rest(Push("store1", Starting)) = Starting
  /\ Top(Push("locked", ThenCollect)) = "locked"
  /\ Rest(Push("locked", ThenCollect)) = ThenCollect
  /\ Top(Push("locked", WorkM)) = "locked" /\ Rest(Push("locked", WorkM)) = WorkM
  /\ Top(Push("retry", ThenCollect)) = "retry"
  /\ Rest(Push("retry", ThenCollect)) = ThenCollect
  /\ {Push("suspendEE", ThenCollect), Push("suspendEE", WorkM), Push("store1", Starting),
      Push("locked", ThenCollect), Push("locked", WorkM), Push("retry", ThenCollect)}
       \subseteq Seq(Steps) \ {<<>>}
<1>1. ThenCollect \in Seq(Steps) /\ WorkM \in Seq(Steps) /\ Starting \in Seq(Steps)
  BY Listed
<1>2. {"suspendEE", "store1", "locked", "retry"} \subseteq Steps
  BY DEF Steps
<1> QED BY <1>1, <1>2, PushTop

LEMMA TripleTops ==
  /\ Top(Push("abort?", Push("store1", Starting))) = "abort?"
  /\ Rest(Push("abort?", Push("store1", Starting))) = Push("store1", Starting)
  /\ Top(Push("lockStore", Push("locked", ThenCollect))) = "lockStore"
  /\ Rest(Push("lockStore", Push("locked", ThenCollect))) = Push("locked", ThenCollect)
<1>1. Push("store1", Starting) \in Seq(Steps) /\ Push("locked", ThenCollect) \in Seq(Steps)
  BY PairTops
<1>2. {"abort?", "lockStore"} \subseteq Steps
  BY DEF Steps
<1> QED BY <1>1, <1>2, PushTop

LEMMA EnableReturns ==
  ASSUME NEW x \in Enabling, NEW k \in EnableConts
  PROVE  /\ Keeps(x, k, k, "free")
         /\ Top(k) \notin Running \cup {"abortWait", "collide"}
<1>1. {"store1", "untilGCComplete", "abort?"} \subseteq Steps
  BY DEF Steps
<1>2. ASSUME NEW j \in DisableFree PROVE j # Collection /\ j # Starting
  BY <1>2, Tops, PairTops DEF DisableFree
<1> USE Tops, PairTops, TripleTops
    DEF Keeps, Running, CoopSteps, IsNew, InGC, ToCollect, LockedSteps, RestartSteps,
        StoreSteps, Trapped, Blocked, Enabling
<1>4. CASE k = Ntv
  BY <1>4
<1>5. CASE k = LockEnd
  BY <1>5
<1>6. CASE k = Push("suspendEE", ThenCollect)
  BY <1>6
<1>7. CASE \E j \in DisableFree : k = Push("store1", j) \/ k = Push("untilGCComplete", j)
  <2> PICK j \in DisableFree : k = Push("store1", j) \/ k = Push("untilGCComplete", j)
    BY <1>7
  <2>1. j \in Seq(Steps)
    BY DisableShape
  <2>2. Top(k) \in {"store1", "untilGCComplete"} /\ Rest(k) = j
    BY <1>1, <2>1, PushTop
  <2> QED BY <1>2, <2>2
<1>8. CASE \E j \in LockConts("coop") : k = Push("abort?", Push("store1", j))
  <2> PICK j \in LockConts("coop") : k = Push("abort?", Push("store1", j))
    BY <1>8
  <2>1. j \in Seq(Steps)
    BY LockShape
  <2>2. /\ Push("store1", j) \in Seq(Steps) /\ Top(Push("store1", j)) = "store1"
        /\ Rest(Push("store1", j)) = j
    BY <1>1, <2>1, PushTop
  <2>3. Top(k) = "abort?" /\ Rest(k) = Push("store1", j)
    BY <1>1, <2>2, PushTop
  <2> QED BY <2>2, <2>3
<1> QED BY <1>4, <1>5, <1>6, <1>7, <1>8 DEF EnableConts

LEMMA DisableReturns ==
  /\ \A x \in Trapped \cup Blocked, k \in DisableFree :
       Keeps(x, k, k, "free") /\ Top(k) \notin {"abortWait", "collide"}
  /\ \A x \in {"store1", "trap?", "rareDisable"}, k \in DisableHeld :
       Keeps(x, k, k, "held") /\ Top(k) \notin {"abortWait", "collide"}
<1>1. DisableHeld = {Collection, Starting, Push("locked", WorkM)}
  BY DEF DisableHeld, LockConts, Susp
<1>2. ASSUME NEW k \in DisableFree
      PROVE  k # Collection /\ k # Starting /\ Top(k) \in {"managed", "gcLock", "fixAlloc", "suspendEE"}
             /\ (Top(k) = "suspendEE" => Rest(k) = WorkM)
  BY <1>2, Tops, PairTops DEF DisableFree
<1> USE Tops, PairTops, TripleTops
    DEF Keeps, Running, CoopSteps, IsNew, InGC, ToCollect, LockedSteps, RestartSteps,
        StoreSteps, Trapped, Blocked, Enabling
<1>3. ASSUME NEW x \in Trapped \cup Blocked, NEW k \in DisableFree
      PROVE  Keeps(x, k, k, "free") /\ Top(k) \notin {"abortWait", "collide"}
  <2>1. /\ k # Collection /\ k # Starting
        /\ Top(k) \in {"managed", "gcLock", "fixAlloc", "suspendEE"}
        /\ Top(k) = "suspendEE" => Rest(k) = WorkM
    BY <1>2
  <2>2. ~IsNew(x, k) /\ ~InGC(x, k)
    BY <2>1
  <2>3. ~InGC(Top(k), Rest(k))
    BY <2>1
  <2> QED BY <2>1, <2>2, <2>3
<1>4. ASSUME NEW x \in {"store1", "trap?", "rareDisable"}, NEW k \in DisableHeld
      PROVE  Keeps(x, k, k, "held") /\ Top(k) \notin {"abortWait", "collide"}
  <2> USE DEF SameFlags, IsTrap, IsProgress, IsOwned, IsReset, InSuspension, IsStopped
  <2>1. CASE k = Collection
    BY <2>1
  <2>2. CASE k = Starting
    BY <2>2
  <2>3. CASE k = Push("locked", WorkM)
    BY <2>3
  <2> QED BY <1>1, <2>1, <2>2, <2>3
<1> QED BY <1>3, <1>4
-----------------------------------------------------------------------------
(* The quiet steps of the mode switches.                                   *)

LEMMA GoesOn ==
  ASSUME SuspendInv, GoOn
  PROVE  /\ UNCHANGED <<pending, started, flags, store, abortVs, scan, gc>>
         /\ rendezvous' \in BOOLEAN
<1>1. rendezvous \in BOOLEAN
  BY Zenon DEF SuspendInv, StateOK
<1> QED BY <1>1, Zenon DEF GoOn

LEMMA SameModes ==
  ASSUME SuspendInv, NEW t \in Thread, UNCHANGED modes
  PROVE  /\ ModesOK' /\ OthersKeepModes(t) /\ Mode(t)' = Mode(t)
         /\ coop' = coop /\ buffer' = buffer
BY DEF SuspendInv, StateOK, ModesOK, OthersKeepModes, Mode, OwnMode, modes

LEMMA InvModes ==
  ASSUME SuspendInv
  PROVE  ModesOK /\ StateOK /\ StacksFit
BY DEF SuspendInv, StateOK, ModesOK

\* A quiet step to one that is not in managed code.
LEMMA QuietStep ==
  ASSUME SuspendInv, NEW t \in Thread, NEW x, NEW k, StackOf(t, x, k), NEW r, Goes(t, r),
         ModesOK', OthersKeepModes(t),
         UNCHANGED <<pending, started, flags, store, abortVs, scan, gc>>,
         rendezvous' \in BOOLEAN,
         Row(Top(r), Rest(r), Mode(t)', Lock(t)), Keeps(x, k, r, Lock(t)),
         x \notin {"gcLock", "gcMark"}, Top(r) \notin Running \cup {"abortWait", "collide"}
  PROVE  SuspendInv'
<1>1. Top(todo[t]) = x /\ Rest(todo[t]) = k
  BY DEF StackOf
<1>2. Moved(t, r) /\ (Contains(todo[t], "gcLock") => Contains(r, "gcLock"))
  BY <1>1 DEF Goes
<1>3. Shape(r, Mode(t)', Lock(t))
  BY DEF Shape, Goes, Moved
<1> QED BY <1>1, <1>2, <1>3, Quiet

LEMMA Locks == \A t \in Thread : Lock(t) \in {"held", "free"} /\ Mode(t) \in {"coop", "preemptive"}
BY DEF Lock, Mode

\* The next step of a mode switch stands for the same as the one before.
LEMMA SwitchKeeps ==
  ASSUME NEW h, NEW k, NEW x, NEW y, NEW r, Top(r) = y, Rest(r) = k,
         \/ x \in {"store1", "trap?", "rareDisable"} /\ y \in {"store1", "trap?", "rareDisable"}
         \/ h = "free" /\ x \in Trapped \cup Blocked /\ y \in Trapped \cup Blocked
            /\ k \in DisableFree
         \/ h = "free" /\ x \in Enabling \cup {"store0"} /\ y \in Enabling \cup {"store0"}
         \/ h = "free" /\ x \in StoreSteps /\ y \in StoreSteps
  PROVE  Keeps(x, k, r, h) /\ Top(r) \notin Running \cup {"collide"}
<1>1. k \in DisableFree => k # Collection
  BY Tops, PairTops DEF DisableFree
<1> QED
  BY <1>1 DEF Keeps, Running, CoopSteps, IsNew, InGC, ToCollect, LockedSteps, RestartSteps,
              StoreSteps, Trapped, Blocked, Enabling, SameFlags, IsTrap, IsProgress,
              IsOwned, IsReset,
              InSuspension, IsStopped

LEMMA Store1Inv ==
  ASSUME SuspendInv, NEW t \in Thread, Store1(t)
  PROVE  SuspendInv'
<1> DEFINE k == Rest(todo[t])
           r == Push("trap?", k)
<1>1. StackOf(t, "store1", k)
  BY Stacks, InvModes DEF Store1
<1>2. Goes(t, r) /\ Top(r) = "trap?" /\ Rest(r) = k
  BY <1>1, InvModes, ThenOne DEF Store1, StackOf, Is, Steps
<1>3. ModesOK' /\ OthersKeepModes(t) /\ Mode(t)' = "coop"
  BY StoreMode, InvModes DEF Store1, Mode
<1>4. UNCHANGED <<pending, started, flags, store, abortVs, scan, gc>> /\ rendezvous' \in BOOLEAN
  BY GoesOn DEF Store1
<1> HIDE DEF k, r
<1>5. Row("store1", k, Mode(t), Lock(t))
  BY <1>1 DEF StackOf
<1>6. Row("trap?", k, "coop", Lock(t))
  BY <1>5 DEF Row, Trapped, Blocked, CoopSteps, Enabling, StoreSteps, LockedSteps,
     RestartSteps
<1>7. Keeps("store1", k, r, Lock(t)) /\ Top(r) \notin Running \cup {"abortWait", "collide"}
  BY <1>2, SwitchKeeps DEF Running, CoopSteps
<1> QED BY <1>1, <1>2, <1>3, <1>4, <1>6, <1>7, QuietStep

LEMMA Store0Inv ==
  ASSUME SuspendInv, NEW t \in Thread, Store0(t)
  PROVE  SuspendInv'
<1> DEFINE k == Rest(todo[t])
           r == Push("catch?", k)
<1>1. StackOf(t, "store0", k)
  BY Stacks, InvModes DEF Store0
<1>2. Goes(t, r) /\ Top(r) = "catch?" /\ Rest(r) = k
  BY <1>1, InvModes, ThenOne DEF Store0, StackOf, Is, Steps
<1>3. ModesOK' /\ OthersKeepModes(t) /\ Mode(t)' = "preemptive"
  BY StoreMode, InvModes DEF Store0, Mode
<1>4. UNCHANGED <<pending, started, flags, store, abortVs, scan, gc>> /\ rendezvous' \in BOOLEAN
  BY GoesOn DEF Store0
<1> HIDE DEF k, r
<1>5. Row("store0", k, Mode(t), Lock(t))
  BY <1>1 DEF StackOf
<1>6. Row("catch?", k, "preemptive", Lock(t)) /\ Lock(t) = "free"
  BY <1>5 DEF Row, Trapped, Blocked, CoopSteps, Enabling, StoreSteps, LockedSteps,
     RestartSteps
<1>7. Keeps("store0", k, r, Lock(t)) /\ Top(r) \notin Running \cup {"abortWait", "collide"}
  BY <1>2, <1>6, SwitchKeeps DEF Running, CoopSteps, Enabling
<1> QED BY <1>1, <1>2, <1>3, <1>4, <1>6, <1>7, QuietStep
\* The step y comes after x, in the same mode.
LEMMA NextStep ==
  ASSUME SuspendInv, NEW t \in Thread, NEW x, NEW k, StackOf(t, x, k), NEW y \in Steps,
         Then(t, <<y>>), UNCHANGED modes, GoOn, Row(y, k, Mode(t), Lock(t)),
         \/ x \in {"store1", "trap?", "rareDisable"} /\ y \in {"store1", "trap?", "rareDisable"}
         \/ Lock(t) = "free" /\ x \in Trapped \cup Blocked /\ y \in Trapped \cup Blocked
            /\ k \in DisableFree
         \/ Lock(t) = "free" /\ x \in Enabling \cup {"store0"} /\ y \in Enabling \cup {"store0"}
         \/ Lock(t) = "free" /\ x \in StoreSteps /\ y \in StoreSteps,
         y = "abortWait" => abortEvt # "none"
  PROVE  SuspendInv'
<1> DEFINE r == Push(y, k)
<1>1. Goes(t, r) /\ Top(r) = y /\ Rest(r) = k
  BY InvModes, ThenOne DEF StackOf, Is
<1>2. ModesOK' /\ OthersKeepModes(t) /\ Mode(t)' = Mode(t)
  BY SameModes
<1>3. UNCHANGED <<pending, started, flags, store, abortVs, scan, gc>> /\ rendezvous' \in BOOLEAN
  BY GoesOn
<1> HIDE DEF r
<1>4. Keeps(x, k, r, Lock(t)) /\ Top(r) \notin Running \cup {"collide"}
  BY <1>1, SwitchKeeps
<1>5. x \notin {"gcLock", "gcMark"}
  BY DEF Trapped, Blocked, Enabling, StoreSteps
<1>6. Shape(r, Mode(t)', Lock(t))
  BY <1>1, <1>2 DEF Shape, Goes, Moved
<1>7. Top(todo[t]) = x /\ Rest(todo[t]) = k
  BY DEF StackOf
<1>8. Moved(t, r) /\ (Contains(todo[t], "gcLock") => Contains(r, "gcLock"))
  BY <1>1, <1>5, <1>7 DEF Goes
<1> QED BY <1>1, <1>2, <1>3, <1>4, <1>5, <1>6, <1>7, <1>8, Quiet

\* DisablePreemptiveGC returns.
LEMMA Enters ==
  ASSUME SuspendInv, NEW t \in Thread, NEW x \in Trapped, NEW k, StackOf(t, x, k),
         Then(t, <<>>), UNCHANGED modes, GoOn, ~inProgress \/ store = t
  PROVE  SuspendInv'
<1>1. /\ Row(x, k, Mode(t), Lock(t)) /\ Top(todo[t]) = x /\ Rest(todo[t]) = k /\ k \in Seq(Steps)
      /\ Lock(t) \in {"held", "free"} /\ x \in Trapped \cup Blocked
  BY Locks DEF StackOf
<1>2. Mode(t) = "coop" /\ (Lock(t) = "held" => x \in {"store1", "trap?", "rareDisable"})
      /\ IF Lock(t) = "free" THEN k \in DisableFree ELSE k \in DisableHeld
  BY <1>1 DEF Row, Trapped
<1>3. Shape(k, "coop", Lock(t)) /\ Keeps(x, k, k, Lock(t)) /\ Top(k) \notin {"abortWait", "collide"}
  BY <1>1, <1>2, DisableShape, DisableReturns
<1>4. k # <<>>
  BY <1>3 DEF Shape
<1>5. Goes(t, k)
  BY <1>1, <1>4, InvModes, ThenNone
<1>6. ModesOK' /\ OthersKeepModes(t) /\ Mode(t)' = Mode(t)
  BY SameModes
<1>7. UNCHANGED <<pending, started, flags, store, abortVs, scan, gc>> /\ rendezvous' \in BOOLEAN
  BY GoesOn
<1>8. x # "gcMark" /\ x # "gcLock"
  BY DEF Trapped
<1>9. Moved(t, k) /\ (Contains(todo[t], "gcLock") => Contains(k, "gcLock"))
  BY <1>1, <1>5, <1>8 DEF Goes
<1> QED BY <1>1, <1>2, <1>3, <1>6, <1>7, <1>8, <1>9, Quiet

\* EnablePreemptiveGC returns.
LEMMA Preemptive ==
  ASSUME SuspendInv, NEW t \in Thread, NEW x \in Enabling, NEW k, StackOf(t, x, k),
         Then(t, <<>>), ModesOK', OthersKeepModes(t), Mode(t)' = Mode(t),
         UNCHANGED <<pending, started, flags, store, abortVs, scan, gc>>,
         rendezvous' \in BOOLEAN
  PROVE  SuspendInv'
<1>1. /\ Row(x, k, Mode(t), Lock(t)) /\ Top(todo[t]) = x /\ Rest(todo[t]) = k /\ k \in Seq(Steps)
  BY DEF StackOf
<1>2. Mode(t) = "preemptive" /\ Lock(t) = "free" /\ k \in EnableConts
  BY <1>1 DEF Row
<1>3. Shape(k, "preemptive", "free") /\ Keeps(x, k, k, "free")
      /\ Top(k) \notin Running \cup {"abortWait", "collide"}
  BY <1>2, EnableShape, EnableReturns
<1>4. k # <<>>
  BY <1>3 DEF Shape
<1>5. Goes(t, k)
  BY <1>1, <1>4, InvModes, ThenNone
<1>6. x \notin {"gcLock", "gcMark"}
  BY DEF Enabling
<1> QED BY <1>2, <1>3, <1>5, <1>6, QuietStep DEF Shape

\* Whoever has to wait leaves cooperative mode for it.
LEMMA BacksOff ==
  ASSUME SuspendInv, NEW t \in Thread, NEW x \in {"rareDisable", "again"}, NEW k,
         StackOf(t, x, k), store # t, Then(t, Enable \o <<"untilGCComplete">>),
         UNCHANGED modes, GoOn
  PROVE  SuspendInv'
<1> DEFINE j == Push("untilGCComplete", k)
           r == Push("store0", j)
<1>1. /\ Row(x, k, Mode(t), Lock(t)) /\ k \in Seq(Steps) /\ Lock(t) = "free" /\ k = Rest(todo[t])
  BY DEF StackOf, Lock
<1>2. "store0" \in Steps /\ "untilGCComplete" \in Steps
  BY DEF Steps
<1>3. Goes(t, r) /\ Top(r) = "store0" /\ Rest(r) = j /\ Top(j) = "untilGCComplete"
  <2>1. Then(t, <<"store0">> \o <<"untilGCComplete">>)
    BY Zenon DEF Enable
  <2>2. Goes(t, r) /\ Is(r, "store0", j) /\ Is(j, "untilGCComplete", k)
    BY <1>1, <1>2, <2>1, InvModes, ThenTwo, Zenon
  <2> QED BY <2>2 DEF Is
<1>4. ModesOK' /\ OthersKeepModes(t) /\ Mode(t)' = Mode(t)
  BY SameModes
<1>5. UNCHANGED <<pending, started, flags, store, abortVs, scan, gc>> /\ rendezvous' \in BOOLEAN
  BY GoesOn
<1>6. k \in DisableFree /\ Mode(t) = "coop"
  BY <1>1 DEF Row, Trapped
<1>7. j \in EnableConts
  BY <1>6 DEF EnableConts
<1> HIDE DEF j, r
<1>8. Row("store0", j, "coop", "free")
  BY <1>7 DEF Row, Trapped, Blocked, CoopSteps, Enabling, StoreSteps, LockedSteps,
     RestartSteps
<1>9. k # Collection /\ k # Starting
  BY <1>6, Tops, PairTops DEF DisableFree
<1>10. j # Push("suspendEE", ThenCollect)
  BY <1>3, PairTops
<1>11. Keeps(x, k, r, "free") /\ Top(r) \notin Running \cup {"abortWait", "collide"}
  BY <1>3, <1>9, <1>10
     DEF Keeps, Running, CoopSteps, IsNew, InGC, ToCollect, LockedSteps, RestartSteps,
         StoreSteps, Trapped, Blocked, Enabling
<1> QED BY <1>1, <1>3, <1>4, <1>5, <1>6, <1>8, <1>11, QuietStep

LEMMA ModeSwitchInv ==
  ASSUME SuspendInv, NEW t \in Thread, ModeSwitch(t)
  PROVE  SuspendInv'
<1> DEFINE k == Rest(todo[t])
<1>1. \A x : At(t, x) => StackOf(t, x, k)
  BY Stacks, InvModes
<1>2. \A x : StackOf(t, x, k) => Row(x, k, Mode(t), Lock(t))
  BY DEF StackOf
<1>3. Lock(t) = IF store = t THEN "held" ELSE "free"
  BY DEF Lock
<1>4. {"rareDisable", "waitGC", "recoop", "again", "rareEnable", "signal"} \subseteq Steps
  BY DEF Steps
<1>5. store = t => (suspension = t \/ ~inProgress)
  BY DEF SuspendInv, FlagsFit, IsOwned, IsReset, IsTrap
<1>6. suspension = t => store = t
  BY ThreadSuspendAssumption DEF SuspendInv, StateOK, FlagsFit, ThreadSuspendAssumption
<1>7. trap = 0 => ~inProgress
  BY DEF SuspendInv, StateOK, FlagsFit, IsTrap
<1> HIDE DEF k
<1>8. CASE CheckTrap(t)
  <2>1. StackOf(t, "trap?", k) /\ GoOn /\ UNCHANGED modes
    BY <1>1, <1>8 DEF CheckTrap
  <2>2. CASE trap # 0
    <3>1. Then(t, <<"rareDisable">>)
      BY <1>8, <2>2 DEF CheckTrap
    <3>2. Row("rareDisable", k, Mode(t), Lock(t))
      BY <1>2, <2>1 DEF Row, Trapped, Blocked, CoopSteps, Enabling, StoreSteps, LockedSteps,
                        RestartSteps
    <3> QED BY <1>4, <2>1, <3>1, <3>2, NextStep
  <2>3. CASE trap = 0
    <3>1. Then(t, <<>>)
      BY <1>8, <2>3 DEF CheckTrap
    <3> QED BY <1>7, <2>1, <2>3, <3>1, Enters DEF Trapped
  <2> QED BY <2>2, <2>3
<1>9. CASE RareDisable(t)
  <2>1. StackOf(t, "rareDisable", k) /\ GoOn /\ UNCHANGED modes
    BY <1>1, <1>9 DEF RareDisable
  <2>2. CASE MustWait(t) /\ store # t
    <3>1. Then(t, Enable \o <<"untilGCComplete">>)
      BY <1>9, <2>2 DEF RareDisable
    <3> QED BY <2>1, <2>2, <3>1, BacksOff
  <2>3. CASE ~(MustWait(t) /\ store # t)
    <3>1. Then(t, <<>>)
      BY <1>9, <2>3 DEF RareDisable
    <3>2. ~inProgress \/ store = t
      BY <1>6, <2>3 DEF MustWait
    <3> QED BY <2>1, <3>1, <3>2, Enters DEF Trapped
  <2> QED BY <2>2, <2>3
<1>10. CASE Again(t)
  <2>1. StackOf(t, "again", k) /\ GoOn /\ UNCHANGED modes
    BY <1>1, <1>10 DEF Again
  <2>2. CASE MustWait(t)
    <3>1. Then(t, Enable \o <<"untilGCComplete">>)
      BY <1>10, <2>2 DEF Again
    <3>2. store # t
      BY <1>5, <2>2 DEF MustWait
    <3> QED BY <2>1, <3>1, <3>2, BacksOff
  <2>3. CASE ~MustWait(t)
    <3>1. Then(t, <<>>)
      BY <1>10, <2>3 DEF Again
    <3>2. ~inProgress \/ store = t
      BY <1>6, <2>3 DEF MustWait
    <3> QED BY <2>1, <3>1, <3>2, Enters DEF Trapped
  <2> QED BY <2>2, <2>3
<1>11. ASSUME NEW x \in {"untilGCComplete", "waitGC"}, NEW y \in {"waitGC", "recoop"},
              At(t, x), Then(t, <<y>>), GoOn, UNCHANGED modes
       PROVE  SuspendInv'
  <2>1. StackOf(t, x, k)
    BY <1>1, <1>11
  <2>2. Row(y, k, Mode(t), Lock(t)) /\ Lock(t) = "free" /\ k \in DisableFree
    BY <1>2, <1>3, <2>1 DEF Row, Trapped, Blocked, CoopSteps, Enabling, StoreSteps,
                            LockedSteps, RestartSteps
  <2> QED BY <1>4, <1>11, <2>1, <2>2, NextStep DEF Blocked
<1>12. CASE UntilGCComplete(t) \/ WaitGC(t)
  BY <1>11, <1>12 DEF UntilGCComplete, WaitGC
<1>13. CASE Recoop(t)
  <2> DEFINE r == Push("again", k)
  <2>1. StackOf(t, "recoop", k) /\ Then(t, <<"again">>)
    BY <1>1, <1>13 DEF Recoop
  <2>2. Goes(t, r) /\ Top(r) = "again" /\ Rest(r) = k
    BY <1>4, <2>1, InvModes, ThenOne DEF StackOf, Is
  <2>3. ModesOK' /\ OthersKeepModes(t)
    BY <1>13, InvModes, ThreadSuspendAssumption
       DEF Recoop, ModesOK, OthersKeepModes, ThreadSuspendAssumption
  <2>4. Mode(t)' = "coop"
    BY <1>13, InvModes DEF Recoop, ModesOK, Mode, OwnMode
  <2>5. UNCHANGED <<pending, started, flags, store, abortVs, scan, gc>> /\ rendezvous' \in BOOLEAN
    BY <1>13, GoesOn DEF Recoop
  <2> HIDE DEF r
  <2>6. Row("again", k, "coop", Lock(t)) /\ Lock(t) = "free" /\ k \in DisableFree
    BY <1>2, <1>3, <2>1 DEF Row, Trapped, Blocked, CoopSteps, Enabling, StoreSteps,
                            LockedSteps, RestartSteps
  <2>7. Keeps("recoop", k, r, Lock(t)) /\ Top(r) \notin Running \cup {"abortWait", "collide"}
    BY <2>2, <2>6, SwitchKeeps DEF Running, CoopSteps, Trapped, Blocked
  <2> QED BY <2>1, <2>2, <2>3, <2>4, <2>5, <2>6, <2>7, QuietStep
<1>14. CASE Catch(t)
  <2>1. StackOf(t, "catch?", k) /\ GoOn /\ UNCHANGED modes
    BY <1>1, <1>14 DEF Catch
  <2>2. CASE t \in pending
    <3>1. Then(t, <<"rareEnable">>)
      BY <1>14, <2>2 DEF Catch
    <3>2. Row("rareEnable", k, Mode(t), Lock(t)) /\ Lock(t) = "free"
      BY <1>2, <2>1 DEF Row, Trapped, Blocked, CoopSteps, Enabling, StoreSteps, LockedSteps,
                        RestartSteps
    <3> QED BY <1>4, <2>1, <3>1, <3>2, NextStep DEF Enabling
  <2>3. CASE t \notin pending
    <3>1. Then(t, <<>>)
      BY <1>14, <2>3 DEF Catch
    <3> QED BY <2>1, <3>1, Preemptive, SameModes, GoesOn DEF Enabling
  <2> QED BY <2>2, <2>3
<1>15. CASE RareEnable(t)
  <2> DEFINE r == Push("signal", k)
  <2>1. StackOf(t, "rareEnable", k)
    BY <1>1, <1>15 DEF RareEnable
  <2>2. Row("rareEnable", k, Mode(t), Lock(t)) /\ Lock(t) = "free"
    BY <1>2, <2>1 DEF Row, Enabling
  <2>3. Then(t, <<"signal">>)
    BY <1>3, <1>15, <2>2 DEF RareEnable
  <2>4. Goes(t, r) /\ Top(r) = "signal" /\ Rest(r) = k
    BY <1>4, <2>1, <2>3, InvModes, ThenOne DEF StackOf, Is
  <2>5. ModesOK' /\ OthersKeepModes(t) /\ Mode(t)' = Mode(t)
    BY <1>15, DrainedMode, InvModes DEF RareEnable, Mode
  <2>6. UNCHANGED <<pending, started, flags, store, abortVs, scan, gc>> /\ rendezvous' \in BOOLEAN
    BY <1>15, GoesOn DEF RareEnable
  <2> HIDE DEF r
  <2>7. Row("signal", k, Mode(t), Lock(t))
    BY <2>2 DEF Row, Trapped, Blocked, CoopSteps, Enabling, StoreSteps, LockedSteps,
       RestartSteps
  <2>8. Keeps("rareEnable", k, r, Lock(t)) /\ Top(r) \notin Running \cup {"abortWait", "collide"}
    BY <2>2, <2>4, SwitchKeeps DEF Running, CoopSteps, Enabling
  <2> QED BY <2>1, <2>4, <2>5, <2>6, <2>7, <2>8, QuietStep
<1>16. CASE Signal(t)
  <2>1. StackOf(t, "signal", k) /\ UNCHANGED modes /\ Then(t, <<>>)
    BY <1>1, <1>16 DEF Signal
  <2>2. UNCHANGED <<pending, started, flags, store, abortVs, scan, gc>>
    BY <1>16, Zenon DEF Signal
  <2>3. rendezvous' \in BOOLEAN
    BY <1>16 DEF Signal
  <2> QED BY <2>1, <2>2, <2>3, Preemptive, SameModes DEF Enabling
<1> QED
  BY <1>8, <1>9, <1>10, <1>12, <1>13, <1>14, <1>15, <1>16, Store1Inv,
     Store0Inv DEF ModeSwitch
-----------------------------------------------------------------------------
(* The thread store lock.                                                  *)

\* A change of the lock's holder.
LEMMA StoreChanges ==
  ASSUME SuspendInv, NEW t \in Thread, NEW x, NEW k, StackOf(t, x, k), NEW r, Goes(t, r),
         x \notin {"gcLock", "gcMark"}, Drained(t),
         UNCHANGED <<pending, started, flags, rendezvous, abortVs, scan, gc>>,
         \/ store = NoThread /\ store' = t
         \/ store = t /\ store' = NoThread,
         Row(Top(r), Rest(r), Mode(t), Lock(t)'),
         IsNew(x, k) => IsNew(Top(r), Rest(r)),
         InGC(x, k) <=> InGC(Top(r), Rest(r)),
         store = t => ~IsReset(x, k),
         store' = t => ~IsReset(Top(r), Rest(r)) /\ ~IsStopped(Top(r), Rest(r)),
         Top(r) \notin {"abortWait", "collide", "inspect", "pass", "passed"}
  PROVE  SuspendInv'
<1>1. /\ Top(todo[t]) = x /\ Rest(todo[t]) = k /\ Moved(t, r)
      /\ Contains(todo[t], "gcLock") => Contains(r, "gcLock")
  BY DEF StackOf, Goes
<1>2. /\ UNCHANGED <<pending, started, rendezvous, scan>> /\ UNCHANGED flags
      /\ UNCHANGED abortVs /\ UNCHANGED gc
  OBVIOUS
<1>3. /\ trap' = trap /\ inProgress' = inProgress /\ suspension' = suspension
      /\ gcDone' = gcDone /\ attempting' = attempting /\ abortEvt' = abortEvt
      /\ abortSet' = abortSet /\ gcLock' = gcLock /\ counted' = counted /\ Served' = Served
  BY <1>2 DEF flags, abortVs, gc, Served
<1>4. ModesOK' /\ OthersKeepModes(t) /\ Mode(t)' = Mode(t)
  BY DrainedMode, InvModes DEF Mode
<1>5. \A u \in Thread \ {t} : OwnMode(u)' = OwnMode(u) /\ (store' = u <=> store = u)
  BY <1>4, OthersKeepOwnMode, ThreadSuspendAssumption DEF ThreadSuspendAssumption
<1>6. StateOK'
  <2>1. store' \in Thread \cup {NoThread}
    OBVIOUS
  <2> QED BY <1>1, <1>2, <1>3, <1>4, <2>1, Types, InvModes, FrameTypes
<1>7. StacksFit'
  <2>1. Shape(r, Mode(t)', Lock(t)')
    BY <1>1, <1>4 DEF Shape, Goes, Moved
  <2> QED BY <1>1, <1>5, <2>1, InvModes, FrameStacks
<1>8. NewUnlisted'
  <2>1. t \notin started' => IsNew(Top(r), Rest(r))
    BY <1>1, <1>2 DEF SuspendInv, NewUnlisted
  <2> QED BY <1>1, <1>2, <2>1, FrameNew DEF SuspendInv
<1>9. FlagsFit'
  <2>1. trap = 0 /\ ~inProgress /\ suspension = NoThread /\ gcDone
    BY <1>1, Types DEF SuspendInv, FlagsFit, IsOwned, IsReset, IsTrap
  <2>2. store' = t => todo'[t] = r
    BY <1>1 DEF Moved
  <2> QED BY <1>3, <2>1, <2>2, ThreadSuspendAssumption
          DEF FlagsFit, IsOwned, IsReset, IsTrap, ThreadSuspendAssumption
<1>10. WorldFits'
  <2>1. \A s \in Thread : store' = s => s = t /\ todo'[s] = r
    BY <1>1, ThreadSuspendAssumption DEF Moved, ThreadSuspendAssumption
  <2> QED BY <2>1 DEF WorldFits, Rounded
<1>11. OneCollects'
  BY <1>1, <1>3, FrameGC DEF SuspendInv
<1>12. CountsFit'
  BY <1>1, <1>3, FrameCounts DEF SuspendInv
<1>13. AbortFits'
  BY <1>1, <1>2, FrameAbort DEF SuspendInv
<1> QED BY <1>6, <1>7, <1>8, <1>9, <1>10, <1>11, <1>12, <1>13 DEF SuspendInv

\* The stacks behind the lock and behind its release.
LEMMA EnterReturns ==
  ASSUME NEW k \in EnterConts
  PROVE  /\ ~IsReset(Top(k), Rest(k)) /\ ~IsStopped(Top(k), Rest(k))
         /\ IsNew("enterStore", k) => IsNew(Top(k), Rest(k))
         /\ InGC("enterStore", k) <=> InGC(Top(k), Rest(k))
         /\ Top(k) \notin {"abortWait", "collide", "inspect", "pass", "passed"}
<1> USE Tops, PairTops
    DEF IsNew, InGC, ToCollect, LockedSteps, RestartSteps, StoreSteps, Trapped, Blocked,
        Enabling, IsTrap, IsProgress, IsOwned, IsReset, InSuspension, IsStopped
<1>1. /\ {"locked", "store1"} \subseteq Steps /\ WorkN \in Seq(Steps)
      /\ Starting \in Seq(Steps) /\ Push("locked", WorkM) \in Seq(Steps)
  BY Listed DEF Steps
<1>2. CASE k = Push("locked", WorkN)
  <2>1. Top(k) = "locked" /\ Rest(k) = WorkN
    BY <1>1, <1>2, PushTop
  <2> QED BY <1>2, <2>1
<1>3. CASE k = Push("locked", ThenCollect)
  BY <1>3
<1>4. CASE k = Ending
  BY <1>4
<1>5. CASE k = Push("store1", Starting)
  BY <1>5
<1>6. CASE k = Push("store1", Push("locked", WorkM))
  <2>1. Top(k) = "store1" /\ Rest(k) = Push("locked", WorkM)
    BY <1>1, <1>6, PushTop
  <2> QED BY <1>6, <2>1
<1>7. EnterConts = {Push("locked", WorkN), Push("locked", ThenCollect), Ending,
                    Push("store1", Starting), Push("store1", Push("locked", WorkM))}
  BY DEF EnterConts, LockConts, Susp
<1> QED BY <1>2, <1>3, <1>4, <1>5, <1>6, <1>7

LEMMA UnlockReturns ==
  ASSUME NEW m \in {"coop", "preemptive"},
         NEW k, k \in AfterRestart(m) \/ (m = "preemptive" /\ k = Uns)
  PROVE  /\ Shape(k, m, "free") /\ k \in Seq(Steps)
         /\ IsNew("unlockStore", k) => IsNew(Top(k), Rest(k))
         /\ InGC("unlockStore", k) <=> InGC(Top(k), Rest(k))
         /\ Top(k) \notin {"abortWait", "collide", "inspect", "pass", "passed"}
<1>1. Shape(k, m, "free") /\ k \in Seq(Steps)
  BY RestartShape, UnsShape
<1>2. "retry" \in Steps /\ WorkM \in Seq(Steps) /\ WorkN \in Seq(Steps)
  BY Listed DEF Steps
<1>3. /\ Top(Push("retry", WorkM)) = "retry" /\ Rest(Push("retry", WorkM)) = WorkM
      /\ Top(Push("retry", WorkN)) = "retry" /\ Rest(Push("retry", WorkN)) = WorkN
  BY <1>2, PushTop
<1>4. k \in {Mgd, Leaves, Ntv, Uns, Push("retry", WorkM), Push("retry", WorkN),
             Push("retry", ThenCollect)}
  BY DEF AfterRestart, Susp
<1> USE <1>3, Tops, PairTops
    DEF IsNew, InGC, ToCollect, LockedSteps, RestartSteps, StoreSteps, Trapped, Blocked,
        Enabling
<1>5. CASE k \in {Mgd, Ntv, Uns}
  BY <1>1, <1>5
<1>6. CASE k \in {Leaves, Push("retry", ThenCollect)}
  BY <1>1, <1>6
<1>7. CASE k \in {Push("retry", WorkM), Push("retry", WorkN)}
  BY <1>1, <1>7
<1> QED BY <1>1, <1>4, <1>5, <1>6, <1>7

LEMMA EnterStoreInv ==
  ASSUME SuspendInv, NEW t \in Thread, EnterStore(t)
  PROVE  SuspendInv'
<1> DEFINE k == Rest(todo[t])
<1>1. StackOf(t, "enterStore", k)
  BY Stacks, InvModes DEF EnterStore
<1>2. /\ Mode(t) = "preemptive" /\ k \in EnterConts /\ k \in Seq(Steps)
  BY <1>1 DEF StackOf, Row, StoreSteps
<1>3. Shape(k, "preemptive", "held")
  BY <1>2, EnterShape
<1>4. Goes(t, k)
  BY <1>2, <1>3, InvModes, ThenNone DEF Shape, EnterStore
<1>5. Drained(t) /\ UNCHANGED <<pending, started, flags, rendezvous, abortVs, scan, gc>>
      /\ store = NoThread /\ store' = t
  BY DEF EnterStore
<1>6. Lock(t)' = "held" /\ t # NoThread
  BY <1>5, ThreadSuspendAssumption DEF Lock, ThreadSuspendAssumption
<1> HIDE DEF k
<1>7. Row(Top(k), Rest(k), Mode(t), Lock(t)')
  BY <1>2, <1>3, <1>6 DEF Shape
<1> QED BY <1>1, <1>2, <1>4, <1>5, <1>6, <1>7, EnterReturns, StoreChanges

LEMMA UnlockStoreInv ==
  ASSUME SuspendInv, NEW t \in Thread, UnlockStore(t)
  PROVE  SuspendInv'
<1> DEFINE k == Rest(todo[t])
<1>1. StackOf(t, "unlockStore", k)
  BY Stacks, InvModes DEF UnlockStore
<1>2. /\ Lock(t) = "held" /\ k \in Seq(Steps) /\ Mode(t) \in {"coop", "preemptive"}
      /\ k \in AfterRestart(Mode(t)) \/ (Mode(t) = "preemptive" /\ k = Uns)
  BY <1>1, Locks DEF StackOf, Row, RestartSteps
<1>3. Shape(k, Mode(t), "free")
  BY <1>2, UnlockReturns
<1>4. Goes(t, k)
  BY <1>2, <1>3, InvModes, ThenNone DEF Shape, UnlockStore
<1>5. Drained(t) /\ UNCHANGED <<pending, started, flags, rendezvous, abortVs, scan, gc>>
      /\ store = t /\ store' = NoThread
  BY <1>2 DEF UnlockStore, Lock
<1>6. Lock(t)' = "free" /\ t # NoThread
  BY <1>5, ThreadSuspendAssumption DEF Lock, ThreadSuspendAssumption
<1>7. ~IsReset("unlockStore", k)
  BY DEF IsOwned, IsReset, IsTrap, IsProgress, InSuspension, ToCollect
<1> HIDE DEF k
<1>8. Row(Top(k), Rest(k), Mode(t), Lock(t)')
  BY <1>3, <1>6 DEF Shape
<1> QED BY <1>1, <1>2, <1>4, <1>5, <1>6, <1>7, <1>8, UnlockReturns, StoreChanges
\* A collection locks the thread store in preemptive mode; whoever else is in
\* cooperative mode leaves it for the wait.
LEMMA LockStoreInv ==
  ASSUME SuspendInv, NEW t \in Thread, LockStore(t)
  PROVE  SuspendInv'
<1> DEFINE k == Rest(todo[t])
           j == Push("store1", k)
           i == Push("abort?", j)
           r == Push("store0", i)
           q == Push("abort?", k)
<1>1. StackOf(t, "lockStore", k) /\ k \in Seq(Steps)
  BY Stacks, InvModes DEF LockStore, StackOf
<1>2. Row("lockStore", k, Mode(t), Lock(t)) /\ Lock(t) = "free" /\ k \in LockConts(Mode(t))
  BY <1>1 DEF StackOf, Row
<1>3. UNCHANGED <<pending, started, flags, store, abortVs, scan, gc>> /\ rendezvous' \in BOOLEAN
      /\ ModesOK' /\ OthersKeepModes(t) /\ Mode(t)' = Mode(t)
  BY GoesOn, SameModes DEF LockStore
<1>4. {"store0", "abort?", "store1"} \subseteq Steps
  BY DEF Steps
<1>5. ForGC(t) <=> InGC("lockStore", k)
  BY <1>1 DEF SuspendInv, OneCollects, StackOf, ForGC
<1>6. CASE Mode(t) = "coop"
  <2>1. k \in {Starting, Push("locked", WorkM)} /\ OwnMode(t)
    BY <1>2, <1>6 DEF LockConts, Susp, Mode
  <2>2. k # Push("locked", ThenCollect)
    BY <2>1, Tops, PairTops
  <2>3. ~ForGC(t)
    BY <1>5, <2>2 DEF InGC, ToCollect, LockedSteps, StoreSteps, Enabling, RestartSteps
  <2>4. Then(t, Enable \o <<"abort?">> \o Disable)
    BY <2>1, <2>3 DEF LockStore
  <2>5. Then(t, (<<"store0">> \o <<"abort?">>) \o <<"store1">>)
    BY <2>4, Zenon DEF Enable, Disable
  <2>6. Goes(t, r) /\ Is(r, "store0", i) /\ Is(i, "abort?", j) /\ Is(j, "store1", k)
    BY <1>1, <1>4, <2>5, InvModes, ThenThree, Zenon
  <2>7. Top(r) = "store0" /\ Rest(r) = i /\ Top(i) = "abort?" /\ Rest(i) = j
    BY <2>6 DEF Is
  <2>8. i \in EnableConts
    BY <1>2, <1>6 DEF EnableConts
  <2>9. k = Starting => i = Push("abort?", Push("store1", Starting))
    OBVIOUS
  <2> HIDE DEF i, j, k, r
  <2>10. Row(Top(r), Rest(r), Mode(t)', Lock(t))
    BY <1>2, <1>3, <1>6, <2>7, <2>8
       DEF Row, Trapped, Blocked, CoopSteps, Enabling, StoreSteps, LockedSteps, RestartSteps
  <2>11. i # Push("suspendEE", ThenCollect)
    BY <2>7, PairTops
  <2>12. Keeps("lockStore", k, r, Lock(t)) /\ Top(r) \notin Running \cup {"abortWait", "collide"}
    BY <1>2, <2>2, <2>7, <2>9, <2>11
       DEF Keeps, Running, CoopSteps, IsNew, InGC, ToCollect, LockedSteps, RestartSteps,
           StoreSteps, Trapped, Blocked, Enabling
  <2> QED BY <1>1, <1>3, <2>6, <2>10, <2>12, QuietStep
<1>7. CASE Mode(t) = "preemptive"
  <2>1. k \in EnterConts /\ ~OwnMode(t)
    BY <1>2, <1>7 DEF EnterConts, Mode
  <2>2. Then(t, <<"abort?">>)
    BY <2>1 DEF LockStore
  <2>3. Goes(t, q) /\ Is(q, "abort?", k)
    BY <1>1, <1>4, <2>2, InvModes, ThenOne
  <2>4. Top(q) = "abort?" /\ Rest(q) = k
    BY <2>3 DEF Is
  <2>5. k # Starting
    <3>1. k \in {Ending, Push("locked", WorkN), Push("locked", ThenCollect)}
      BY <1>2, <1>7 DEF LockConts, Susp
    <3>2. Top(Push("locked", WorkN)) = "locked"
      BY Listed, PushTop DEF Steps
    <3> QED BY <3>1, <3>2, Tops, PairTops
  <2> HIDE DEF k, q
  <2>6. Row(Top(q), Rest(q), Mode(t)', Lock(t))
    BY <1>2, <1>3, <1>7, <2>1, <2>4
       DEF Row, Trapped, Blocked, CoopSteps, Enabling, StoreSteps, LockedSteps, RestartSteps
  <2>7. Keeps("lockStore", k, q, Lock(t)) /\ Top(q) \notin Running \cup {"abortWait", "collide"}
    BY <1>2, <2>4, <2>5
       DEF Keeps, Running, CoopSteps, IsNew, InGC, ToCollect, LockedSteps, RestartSteps,
           StoreSteps, Trapped, Blocked, Enabling
  <2> QED BY <1>1, <1>3, <2>3, <2>6, <2>7, QuietStep
<1> QED BY <1>6, <1>7, Locks

LEMMA StoreLockInv ==
  ASSUME SuspendInv, NEW t \in Thread, StoreLock(t)
  PROVE  SuspendInv'
<1> DEFINE k == Rest(todo[t])
<1>1. \A x : At(t, x) => StackOf(t, x, k)
  BY Stacks, InvModes
<1> HIDE DEF k
<1>2. StoreSteps \subseteq Steps
  BY DEF StoreSteps, Steps
<1>3. ASSUME NEW x \in StoreSteps, NEW y \in StoreSteps, At(t, x), Then(t, <<y>>), GoOn,
             UNCHANGED modes, y = "abortWait" => abortEvt # "none"
      PROVE  SuspendInv'
  <2>1. StackOf(t, x, k)
    BY <1>1, <1>3
  <2>2. Row(x, k, Mode(t), Lock(t))
    BY <2>1 DEF StackOf
  <2>3. Row(y, k, Mode(t), Lock(t)) /\ Lock(t) = "free"
    BY <2>2 DEF Row, Trapped, Blocked, CoopSteps, Enabling, StoreSteps, LockedSteps,
       RestartSteps
  <2> QED BY <1>2, <1>3, <2>1, <2>3, NextStep
<1>4. CASE CheckAbort(t)
  BY <1>3, <1>4 DEF CheckAbort, StoreSteps
<1>5. CASE ReadAbortEvt(t)
  BY <1>3, <1>5 DEF ReadAbortEvt, StoreSteps
<1>6. CASE AbortWait(t)
  BY <1>3, <1>6 DEF AbortWait, StoreSteps
<1> QED
  BY <1>4, <1>5, <1>6, LockStoreInv, EnterStoreInv, UnlockStoreInv DEF StoreLock

-----------------------------------------------------------------------------
(* Steps of the thread that suspends.                                      *)

\* What the steps of the holder of the thread store lock have in common.
LEMMA HolderStep ==
  ASSUME SuspendInv, NEW t \in Thread, NEW x, NEW k, StackOf(t, x, k), NEW r, Goes(t, r),
         x \notin {"gcLock", "gcMark"}, store = t, ModesOK',
         \A u \in Thread : OwnMode(u)' = OwnMode(u),
         UNCHANGED <<started, store, gc>>,
         pending' \subseteq Thread, scan' \subseteq Thread,
         inProgress' \in BOOLEAN, gcDone' \in BOOLEAN, rendezvous' \in BOOLEAN,
         attempting' \in Thread \cup {NoThread}, abortEvt' \in {"none", "idle", "used"},
         abortSet' \in BOOLEAN, AbortFits',
         Row(Top(r), Rest(r), Mode(t), "held"),
         ~IsNew(x, k), InGC(x, k) <=> InGC(Top(r), Rest(r)),
         trap' = IF IsTrap(Top(r), Rest(r)) THEN 1 ELSE 0,
         inProgress' <=> IsProgress(Top(r), Rest(r)),
         suspension' = IF IsOwned(Top(r), Rest(r)) THEN t ELSE NoThread,
         gcDone' <=> ~IsReset(Top(r), Rest(r)),
         Rounded(t)'
  PROVE  SuspendInv'
<1>1. /\ Top(todo[t]) = x /\ Rest(todo[t]) = k /\ Moved(t, r) /\ todo'[t] = r
      /\ Contains(todo[t], "gcLock") => Contains(r, "gcLock")
  BY DEF StackOf, Goes, Moved
<1>2. started' = started /\ store' = store /\ gcLock' = gcLock /\ counted' = counted
      /\ Served' = Served
  BY DEF gc, Served
<1>3. t # NoThread
  BY ThreadSuspendAssumption DEF ThreadSuspendAssumption
<1>4. StateOK'
  <2>1. trap' \in {0, 1} /\ suspension' \in Thread \cup {NoThread}
    OBVIOUS
  <2>2. {inProgress', gcDone', rendezvous', abortSet'} \subseteq BOOLEAN
    BY Zenon
  <2>3. {suspension', store', attempting', gcLock'} \subseteq Thread \cup {NoThread}
    BY <1>2, <2>1, Types
  <2>4. started' \subseteq Thread /\ counted' \subseteq Thread /\ Served' \subseteq Thread
    BY <1>2, Types
  <2> QED BY <1>1, <2>1, <2>2, <2>3, <2>4, InvModes, FrameTypes
<1>5. StacksFit'
  <2>1. Mode(t)' = Mode(t) /\ Lock(t)' = "held"
    BY <1>2 DEF Mode, Lock
  <2>2. Shape(r, Mode(t)', Lock(t)')
    BY <2>1 DEF Shape, Goes, Moved
  <2>3. \A u \in Thread \ {t} : OwnMode(u)' = OwnMode(u) /\ (store' = u <=> store = u)
    BY <1>2
  <2> QED BY <1>1, <2>2, <2>3, InvModes, FrameStacks
<1>6. NewUnlisted'
  <2>1. t \in started'
    BY <1>1, <1>2 DEF SuspendInv, NewUnlisted
  <2> QED BY <1>1, <1>2, <2>1, FrameNew DEF SuspendInv
<1>7. FlagsFit'
  BY <1>1, <1>2, <1>3 DEF FlagsFit
<1>8. WorldFits'
  BY <1>2 DEF WorldFits
<1>9. OneCollects'
  BY <1>1, <1>2, FrameGC DEF SuspendInv
<1>10. CountsFit'
  BY <1>1, <1>2, FrameCounts DEF SuspendInv
<1> QED BY <1>4, <1>5, <1>6, <1>7, <1>8, <1>9, <1>10 DEF SuspendInv
\* A step of SuspendEE or RestartEE to the next one, with the same to follow.
LEMMA HolderKinds ==
  ASSUME NEW t \in Thread, NEW x, NEW y, NEW k, StackOf(t, x, k),
         \/ x \in LockedSteps /\ y \in LockedSteps
         \/ x \in RestartSteps \ {"unlockStore"} /\ y \in RestartSteps
  PROVE  /\ Row(y, k, Mode(t), "held") /\ store = t /\ ~IsNew(x, k)
         /\ InGC(x, k) <=> InGC(y, k)
         /\ x \in RestartSteps => k \in AfterRestart(Mode(t))
         /\ x \in LockedSteps => k \in Susp(Mode(t))
         /\ x \notin {"gcLock", "gcMark"} /\ k # Collection
<1>1. Row(x, k, Mode(t), Lock(t))
  BY DEF StackOf
<1>2. Lock(t) = "held" /\ store = t
  BY <1>1 DEF Row, RestartSteps, LockedSteps, Lock
<1>3. Row(y, k, Mode(t), "held")
  BY <1>1, <1>2 DEF Row, Trapped, Blocked, CoopSteps, Enabling, StoreSteps, LockedSteps,
                    RestartSteps
<1>4. /\ x \in RestartSteps => k \in AfterRestart(Mode(t))
      /\ x \in LockedSteps => k \in Susp(Mode(t))
      /\ x \notin {"gcLock", "gcMark"}
  BY <1>1 DEF Row, RestartSteps, LockedSteps
<1>5. k # Collection /\ k # Uns
  <2>1. CASE x \in LockedSteps
    BY <1>4, <2>1, Tops DEF Susp
  <2>2. CASE x \in RestartSteps
    <3>1. "retry" \in Steps
      BY DEF Steps
    <3>2. ASSUME NEW j \in Susp(Mode(t)) PROVE Top(Push("retry", j)) = "retry"
      BY <3>1, SuspShape, PushTop, Locks
    <3> QED BY <1>4, <2>2, <3>2, Tops DEF AfterRestart
  <2> QED BY <2>1, <2>2
<1>6. ~IsNew(x, k)
  BY <1>5 DEF IsNew, LockedSteps, RestartSteps, StoreSteps, Trapped, Blocked, Enabling
<1>7. InGC(x, k) <=> InGC(y, k)
  BY <1>5 DEF InGC, ToCollect, LockedSteps, RestartSteps, StoreSteps, Enabling
<1> QED BY <1>2, <1>3, <1>4, <1>5, <1>6, <1>7

\* SuspendEE and RestartEE as far as the flags.
LEMMA HolderNext ==
  ASSUME SuspendInv, NEW t \in Thread, NEW x, NEW y \in Steps, NEW k, StackOf(t, x, k),
         \/ x \in LockedSteps /\ y \in LockedSteps \ {"inspect", "pass", "passed", "collide"}
         \/ x \in RestartSteps \ {"unlockStore"} /\ y \in RestartSteps
            /\ (IsStopped(y, k) => IsStopped(x, k)),
         Then(t, <<y>>), ModesOK', OthersKeepModes(t), Mode(t)' = Mode(t),
         UNCHANGED <<started, store, gc, rendezvous, scan>>, pending' \subseteq Thread,
         inProgress' \in BOOLEAN, gcDone' \in BOOLEAN,
         attempting' \in Thread \cup {NoThread}, abortEvt' \in {"none", "idle", "used"},
         abortSet' \in BOOLEAN, UNCHANGED abortVs \/ AbortFits',
         trap' = IF IsTrap(y, k) THEN 1 ELSE 0, inProgress' <=> IsProgress(y, k),
         suspension' = IF IsOwned(y, k) THEN t ELSE NoThread,
         gcDone' <=> ~IsReset(y, k)
  PROVE  SuspendInv'
<1> DEFINE r == Push(y, k)
<1>1. k \in Seq(Steps) /\ Top(todo[t]) = x /\ Rest(todo[t]) = k
  BY DEF StackOf
<1>2. Goes(t, r) /\ Top(r) = y /\ Rest(r) = k
  BY <1>1, InvModes, ThenOne DEF Is
<1> HIDE DEF r
<1>3. /\ Row(y, k, Mode(t), "held") /\ store = t /\ ~IsNew(x, k)
      /\ InGC(x, k) <=> InGC(y, k)
      /\ x \notin {"gcLock", "gcMark"} /\ k # Collection
  BY HolderKinds
<1>4. \A u \in Thread : OwnMode(u)' = OwnMode(u)
  <2>1. OwnMode(t)' = OwnMode(t)
    <3>1. OwnMode(t) \in BOOLEAN /\ OwnMode(t)' \in BOOLEAN
      <4>1. OwnMode(t) \in BOOLEAN
        BY InvModes, OwnModeType
      <4>2. (ModesOK => OwnMode(t) \in BOOLEAN)'
        BY OwnModeType, PTL
      <4> QED BY <4>1, <4>2
    <3> QED BY <3>1 DEF Mode
  <2> QED BY <2>1, OthersKeepOwnMode
<1>5. AbortFits'
  <2>1. y \notin {"abortWait", "collide"}
    BY DEF LockedSteps, RestartSteps
  <2> QED BY <1>2, <2>1, FrameAbort DEF SuspendInv, Goes
<1>6. Rounded(t)'
  <2>1. todo'[t] = r /\ \A u \in Thread \ {t} : todo'[u] = todo[u]
    BY <1>2 DEF Goes, Moved
  <2>2. y \notin {"inspect", "pass", "passed"}
    BY DEF LockedSteps, RestartSteps
  <2>3. IsStopped(y, k) => IsStopped(x, k)
    BY <1>3 DEF IsStopped, ToCollect, LockedSteps
  <2>4. ASSUME NEW u \in Thread \ {t}, Top(todo[u]) \in Running PROVE ~IsStopped(x, k)
    BY <1>1, <1>3, <2>4 DEF SuspendInv, WorldFits, Rounded
  <2> QED BY <1>2, <2>1, <2>2, <2>3, <2>4 DEF Rounded
<1>7. rendezvous' \in BOOLEAN /\ scan' \subseteq Thread /\ UNCHANGED <<started, store, gc>>
  BY Types
<1> QED BY <1>2, <1>3, <1>4, <1>5, <1>6, <1>7, HolderStep
\* The flags while t, with this stack, has the thread store lock.
LEMMA HolderFlags ==
  ASSUME SuspendInv, NEW t \in Thread, NEW x, NEW k, StackOf(t, x, k), store = t
  PROVE  /\ trap = IF IsTrap(x, k) THEN 1 ELSE 0
         /\ inProgress <=> IsProgress(x, k)
         /\ suspension = IF IsOwned(x, k) THEN t ELSE NoThread
         /\ gcDone <=> ~IsReset(x, k)
         /\ Rounded(t)
         /\ Top(todo[t]) = x /\ Rest(todo[t]) = k /\ t # NoThread
BY ThreadSuspendAssumption
   DEF SuspendInv, FlagsFit, WorldFits, StackOf, ThreadSuspendAssumption

LEMMA SuspendFlagsInv ==
  ASSUME SuspendInv, NEW t \in Thread,
         Locked(t) \/ Announce(t) \/ Remember(t) \/ TrapOn(t) \/ ProgressOn(t)
  PROVE  SuspendInv'
<1> DEFINE k == Rest(todo[t])
<1>1. \A x : At(t, x) => StackOf(t, x, k)
  BY Stacks, InvModes
<1>2. /\ ModesOK /\ t # NoThread
      /\ {"announce", "remember", "trapOn", "progressOn", "flush", "locked"} \subseteq Steps
      /\ {"announce", "remember", "trapOn", "progressOn", "flush", "locked"}
           \subseteq LockedSteps \ {"inspect", "pass", "passed", "collide"}
  BY InvModes, ThreadSuspendAssumption DEF Steps, LockedSteps, ThreadSuspendAssumption
<1> HIDE DEF k
<1>3. ASSUME NEW x \in {"locked", "announce", "remember", "trapOn", "progressOn"}, StackOf(t, x, k)
      PROVE  /\ store = t /\ k # Collection
             /\ trap = IF IsTrap(x, k) THEN 1 ELSE 0
             /\ inProgress <=> IsProgress(x, k)
             /\ suspension = IF IsOwned(x, k) THEN t ELSE NoThread
             /\ gcDone <=> ~IsReset(x, k)
  BY <1>2, <1>3, HolderKinds, HolderFlags
<1> USE DEF IsOwned, IsReset, IsTrap, IsProgress, InSuspension, ToCollect
<1>4. CASE Locked(t)
  <2>1. StackOf(t, "locked", k) /\ Then(t, <<"announce">>)
    BY <1>1, <1>4 DEF Locked
  <2>2. ModesOK' /\ OthersKeepModes(t) /\ Mode(t)' = Mode(t)
    BY <1>4, SameModes DEF Locked
  <2>3. /\ UNCHANGED <<started, store, gc, rendezvous, scan>> /\ pending' = pending
        /\ UNCHANGED flags
    BY <1>4 DEF Locked
  <2>4. /\ trap' = trap /\ inProgress' = inProgress /\ suspension' = suspension
        /\ gcDone' = gcDone
    BY <2>3 DEF flags
  <2>5. /\ attempting' \in Thread \cup {NoThread} /\ abortEvt' \in {"none", "idle", "used"}
    BY <1>4, Types DEF Locked, abortVs
  <2>6. abortSet' \in BOOLEAN
    BY <1>4, Types, Zenon DEF Locked, abortVs
  <2>7. UNCHANGED abortVs \/ AbortFits'
    <3>1. CASE ForGC(t)
      <4>1. /\ attempting' = NoThread
            /\ abortEvt' = IF abortEvt = "none" THEN "none" ELSE "idle"
            /\ abortSet' = (abortEvt # "none" \/ abortSet)
        BY <1>4, <3>1 DEF Locked
      <4>2. Goes(t, Push("announce", k)) /\ Top(Push("announce", k)) = "announce"
        BY <1>2, <2>1, InvModes, ThenOne DEF StackOf, Is
      <4>3. todo'[t] = Push("announce", k) /\ \A u \in Thread \ {t} : todo'[u] = todo[u]
        BY <4>2 DEF Goes, Moved
      <4>4. \A u \in Thread : Top(todo'[u]) = "abortWait" => abortEvt # "none"
        BY <4>2, <4>3 DEF SuspendInv, AbortFits
      <4>5. \A u \in Thread \ {t} : Top(todo[u]) # "collide"
        <5>1. SUFFICES ASSUME NEW u \in Thread \ {t}, Top(todo[u]) = "collide" PROVE store = u
          BY <1>3, <2>1
        <5>2. Row(Top(todo[u]), Rest(todo[u]), Mode(u), Lock(u))
          BY InvModes DEF StacksFit, Shape
        <5> QED BY <5>1, <5>2 DEF Row, LockedSteps, Lock
      <4> QED BY <4>1, <4>2, <4>3, <4>4, <4>5 DEF AbortFits
    <3>2. CASE ~ForGC(t)
      BY <1>4, <3>2 DEF Locked
    <3> QED BY <3>1, <3>2
  <2>8. pending' \subseteq Thread /\ inProgress' \in BOOLEAN /\ gcDone' \in BOOLEAN
    BY <2>3, <2>4, Types
  <2>9. /\ trap' = IF IsTrap("announce", k) THEN 1 ELSE 0
        /\ inProgress' <=> IsProgress("announce", k)
        /\ suspension' = IF IsOwned("announce", k) THEN t ELSE NoThread
        /\ gcDone' <=> ~IsReset("announce", k)
    BY <1>3, <2>1, <2>4
  <2> QED BY <1>2, <2>1, <2>2, <2>3, <2>5, <2>6, <2>7, <2>8, <2>9, HolderNext
<1>5. CASE Announce(t)
  <2>1. StackOf(t, "announce", k) /\ Then(t, <<"remember">>)
    BY <1>1, <1>5 DEF Announce
  <2>2. ModesOK' /\ OthersKeepModes(t) /\ Mode(t)' = Mode(t)
    BY <1>5, SameModes DEF Announce
  <2>3. /\ UNCHANGED <<started, store, gc, rendezvous, scan>> /\ pending' = pending
        /\ UNCHANGED abortVs /\ trap' = trap /\ inProgress' = inProgress
        /\ gcDone' = FALSE /\ suspension' = suspension
    BY <1>5 DEF Announce
  <2>4. /\ attempting' = attempting /\ abortEvt' = abortEvt /\ abortSet' = abortSet
    BY <2>3 DEF abortVs
  <2>5. /\ trap' = IF IsTrap("remember", k) THEN 1 ELSE 0
        /\ inProgress' <=> IsProgress("remember", k)
        /\ suspension' = IF IsOwned("remember", k) THEN t ELSE NoThread
        /\ gcDone' <=> ~IsReset("remember", k)
    BY <1>2, <1>3, <2>1, <2>3
  <2> QED BY <1>2, <2>1, <2>2, <2>3, <2>4, <2>5, Types, HolderNext
<1>6. CASE TrapOn(t)
  <2>1. StackOf(t, "trapOn", k) /\ Then(t, <<"progressOn">>)
    BY <1>1, <1>6 DEF TrapOn
  <2>2. ModesOK' /\ OthersKeepModes(t) /\ Mode(t)' = Mode(t)
    BY <1>2, <1>6, DrainedMode DEF TrapOn, Mode
  <2>3. /\ UNCHANGED <<started, store, gc, rendezvous, scan>> /\ pending' = pending
        /\ UNCHANGED abortVs /\ trap' = trap + 1 /\ inProgress' = inProgress
        /\ gcDone' = gcDone /\ suspension' = suspension
    BY <1>6 DEF TrapOn
  <2>4. /\ attempting' = attempting /\ abortEvt' = abortEvt /\ abortSet' = abortSet
    BY <2>3 DEF abortVs
  <2>5. /\ trap' = IF IsTrap("progressOn", k) THEN 1 ELSE 0
        /\ inProgress' <=> IsProgress("progressOn", k)
        /\ suspension' = IF IsOwned("progressOn", k) THEN t ELSE NoThread
        /\ gcDone' <=> ~IsReset("progressOn", k)
    BY <1>3, <2>1, <2>3
  <2> QED BY <1>2, <2>1, <2>2, <2>3, <2>4, <2>5, Types, HolderNext
<1>7. CASE ProgressOn(t)
  <2>1. StackOf(t, "progressOn", k) /\ Then(t, <<"flush">>)
    BY <1>1, <1>7 DEF ProgressOn
  <2>2. ModesOK' /\ OthersKeepModes(t) /\ Mode(t)' = Mode(t)
    BY <1>2, <1>7, DrainedMode DEF ProgressOn, Mode
  <2>3. /\ UNCHANGED <<started, store, gc, rendezvous, scan>> /\ pending' = pending
        /\ UNCHANGED abortVs /\ trap' = trap /\ inProgress' = TRUE
        /\ gcDone' = gcDone /\ suspension' = suspension
    BY <1>7 DEF ProgressOn
  <2>4. /\ attempting' = attempting /\ abortEvt' = abortEvt /\ abortSet' = abortSet
    BY <2>3 DEF abortVs
  <2>5. /\ trap' = IF IsTrap("flush", k) THEN 1 ELSE 0
        /\ inProgress' <=> IsProgress("flush", k)
        /\ suspension' = IF IsOwned("flush", k) THEN t ELSE NoThread
        /\ gcDone' <=> ~IsReset("flush", k)
    BY <1>3, <2>1, <2>3
  <2> QED BY <1>2, <2>1, <2>2, <2>3, <2>4, <2>5, Types, HolderNext
<1>8. CASE Remember(t)
  <2>1. StackOf(t, "remember", k) /\ Then(t, <<"trapOn">>)
    BY <1>1, <1>8 DEF Remember
  <2>2. ModesOK' /\ OthersKeepModes(t) /\ Mode(t)' = Mode(t)
    BY <1>8, SameModes DEF Remember
  <2>3. /\ UNCHANGED <<started, store, gc, rendezvous, scan>> /\ pending' = pending
        /\ UNCHANGED abortVs /\ trap' = trap /\ inProgress' = inProgress
        /\ gcDone' = gcDone /\ suspension' = t
    BY <1>8 DEF Remember
  <2>4. /\ attempting' = attempting /\ abortEvt' = abortEvt /\ abortSet' = abortSet
    BY <2>3 DEF abortVs
  <2>5. /\ trap' = IF IsTrap("trapOn", k) THEN 1 ELSE 0
        /\ inProgress' <=> IsProgress("trapOn", k)
        /\ suspension' = IF IsOwned("trapOn", k) THEN t ELSE NoThread
        /\ gcDone' <=> ~IsReset("trapOn", k)
    BY <1>2, <1>3, <2>1, <2>3
  <2> QED BY <1>2, <2>1, <2>2, <2>3, <2>4, <2>5, Types, HolderNext
<1> QED BY <1>4, <1>5, <1>6, <1>7, <1>8

LEMMA RestartingInv ==
  ASSUME SuspendInv, NEW t \in Thread, Restarting(t)
  PROVE  SuspendInv'
<1> DEFINE k == Rest(todo[t])
<1>1. \A x : At(t, x) => StackOf(t, x, k)
  BY Stacks, InvModes
<1>2. ModesOK /\ t # NoThread /\ RestartSteps \subseteq Steps
  BY InvModes, ThreadSuspendAssumption DEF RestartSteps, Steps, ThreadSuspendAssumption
<1> HIDE DEF k
<1>3. ASSUME NEW x \in RestartSteps \ {"unlockStore"}, StackOf(t, x, k)
      PROVE  /\ store = t /\ k # Collection
             /\ trap = IF IsTrap(x, k) THEN 1 ELSE 0
             /\ inProgress <=> IsProgress(x, k)
             /\ suspension = IF IsOwned(x, k) THEN t ELSE NoThread
             /\ gcDone <=> ~IsReset(x, k)
  BY <1>2, <1>3, HolderKinds, HolderFlags
<1> USE DEF IsOwned, IsReset, IsTrap, IsProgress, InSuspension, ToCollect, IsStopped, RestartSteps
<1>4. CASE CleanUp(t)
  <2>1. StackOf(t, "cleanUp", k) /\ Then(t, <<"progressOff">>)
    BY <1>1, <1>4 DEF CleanUp
  <2>2. ModesOK' /\ OthersKeepModes(t) /\ Mode(t)' = Mode(t)
    BY <1>4, SameModes DEF CleanUp
  <2>3. /\ UNCHANGED <<started, store, gc, rendezvous, scan>> /\ pending' = pending \ started
        /\ UNCHANGED abortVs /\ UNCHANGED flags
    BY <1>4 DEF CleanUp
  <2>4. /\ attempting' = attempting /\ abortEvt' = abortEvt /\ abortSet' = abortSet
        /\ trap' = trap /\ inProgress' = inProgress /\ gcDone' = gcDone
        /\ suspension' = suspension
    BY <2>3 DEF abortVs, flags
  <2>5. /\ trap' = IF IsTrap("progressOff", k) THEN 1 ELSE 0
        /\ inProgress' <=> IsProgress("progressOff", k)
        /\ suspension' = IF IsOwned("progressOff", k) THEN t ELSE NoThread
        /\ gcDone' <=> ~IsReset("progressOff", k)
    BY <1>3, <2>1, <2>4
  <2>6. IsStopped("progressOff", k) => IsStopped("cleanUp", k)
    OBVIOUS
  <2>7. pending' \subseteq Thread
    BY <2>3, Types
  <2> QED BY <1>2, <2>1, <2>2, <2>3, <2>4, <2>5, <2>6, <2>7, Types, HolderNext
<1>5. CASE ProgressOff(t)
  <2>1. StackOf(t, "progressOff", k) /\ Then(t, <<"trapOff">>)
    BY <1>1, <1>5 DEF ProgressOff
  <2>2. ModesOK' /\ OthersKeepModes(t) /\ Mode(t)' = Mode(t)
    BY <1>5, SameModes DEF ProgressOff
  <2>3. /\ UNCHANGED <<started, store, gc, rendezvous, scan>> /\ pending' = pending
        /\ UNCHANGED abortVs /\ trap' = trap /\ inProgress' = FALSE
        /\ gcDone' = gcDone /\ suspension' = suspension
    BY <1>5 DEF ProgressOff
  <2>4. /\ attempting' = attempting /\ abortEvt' = abortEvt /\ abortSet' = abortSet
    BY <2>3 DEF abortVs
  <2>5. /\ trap' = IF IsTrap("trapOff", k) THEN 1 ELSE 0
        /\ inProgress' <=> IsProgress("trapOff", k)
        /\ suspension' = IF IsOwned("trapOff", k) THEN t ELSE NoThread
        /\ gcDone' <=> ~IsReset("trapOff", k)
    BY <1>3, <2>1, <2>3
  <2>6. ~IsStopped("trapOff", k)
    OBVIOUS
  <2> QED BY <1>2, <2>1, <2>2, <2>3, <2>4, <2>5, <2>6, Types, HolderNext
<1>6. CASE TrapOff(t)
  <2>1. StackOf(t, "trapOff", k) /\ Then(t, <<"forget">>)
    BY <1>1, <1>6 DEF TrapOff
  <2>2. ModesOK' /\ OthersKeepModes(t) /\ Mode(t)' = Mode(t)
    BY <1>2, <1>6, DrainedMode DEF TrapOff, Mode
  <2>3. /\ UNCHANGED <<started, store, gc, rendezvous, scan>> /\ pending' = pending
        /\ UNCHANGED abortVs /\ trap' = trap - 1 /\ inProgress' = inProgress
        /\ gcDone' = gcDone /\ suspension' = suspension
    BY <1>6 DEF TrapOff
  <2>4. /\ attempting' = attempting /\ abortEvt' = abortEvt /\ abortSet' = abortSet
    BY <2>3 DEF abortVs
  <2>5. /\ trap' = IF IsTrap("forget", k) THEN 1 ELSE 0
        /\ inProgress' <=> IsProgress("forget", k)
        /\ suspension' = IF IsOwned("forget", k) THEN t ELSE NoThread
        /\ gcDone' <=> ~IsReset("forget", k)
    BY <1>3, <2>1, <2>3
  <2>6. ~IsStopped("forget", k)
    OBVIOUS
  <2> QED BY <1>2, <2>1, <2>2, <2>3, <2>4, <2>5, <2>6, Types, HolderNext
<1>7. CASE Wake(t)
  <2>1. StackOf(t, "wake", k) /\ Then(t, <<"unlockStore">>)
    BY <1>1, <1>7 DEF Wake
  <2>2. ModesOK' /\ OthersKeepModes(t) /\ Mode(t)' = Mode(t)
    BY <1>7, SameModes DEF Wake
  <2>3. /\ UNCHANGED <<started, store, gc, rendezvous, scan>> /\ pending' = pending
        /\ UNCHANGED abortVs /\ trap' = trap /\ inProgress' = inProgress
        /\ gcDone' = TRUE /\ suspension' = suspension
    BY <1>7 DEF Wake
  <2>4. /\ attempting' = attempting /\ abortEvt' = abortEvt /\ abortSet' = abortSet
    BY <2>3 DEF abortVs
  <2>5. /\ trap' = IF IsTrap("unlockStore", k) THEN 1 ELSE 0
        /\ inProgress' <=> IsProgress("unlockStore", k)
        /\ suspension' = IF IsOwned("unlockStore", k) THEN t ELSE NoThread
        /\ gcDone' <=> ~IsReset("unlockStore", k)
    BY <1>3, <2>1, <2>3
  <2>6. ~IsStopped("unlockStore", k)
    OBVIOUS
  <2> QED BY <1>2, <2>1, <2>2, <2>3, <2>4, <2>5, <2>6, Types, HolderNext
<1>8. CASE Forget(t)
  <2>1. StackOf(t, "forget", k) /\ Then(t, <<"wake">>)
    BY <1>1, <1>8 DEF Forget
  <2>2. ModesOK' /\ OthersKeepModes(t) /\ Mode(t)' = Mode(t)
    BY <1>8, SameModes DEF Forget
  <2>3. /\ UNCHANGED <<started, store, gc, rendezvous, scan>> /\ pending' = pending
        /\ UNCHANGED abortVs /\ trap' = trap /\ inProgress' = inProgress
        /\ gcDone' = gcDone /\ suspension' = NoThread
    BY <1>8 DEF Forget
  <2>4. /\ attempting' = attempting /\ abortEvt' = abortEvt /\ abortSet' = abortSet
    BY <2>3 DEF abortVs
  <2>5. /\ trap' = IF IsTrap("wake", k) THEN 1 ELSE 0
        /\ inProgress' <=> IsProgress("wake", k)
        /\ suspension' = IF IsOwned("wake", k) THEN t ELSE NoThread
        /\ gcDone' <=> ~IsReset("wake", k)
    BY <1>3, <2>1, <2>3
  <2>6. ~IsStopped("wake", k)
    OBVIOUS
  <2> QED BY <1>2, <2>1, <2>2, <2>3, <2>4, <2>5, <2>6, Types, HolderNext
<1> QED BY <1>4, <1>5, <1>6, <1>7, <1>8 DEF Restarting
-----------------------------------------------------------------------------
(* SuspendRuntime.                                                         *)

\* A step of SuspendRuntime: what is left to prove is where it leaves the others.
LEMMA PassStep ==
  ASSUME SuspendInv, NEW t \in Thread, NEW x, NEW y, NEW k, StackOf(t, x, k),
         x \in {"flush", "inspect", "pass", "passed"}, y \in {"inspect", "pass", "passed", "collide"},
         NEW r, Goes(t, r), Top(r) = y, Rest(r) = k,
         ModesOK', \A u \in Thread : OwnMode(u)' = OwnMode(u),
         UNCHANGED <<started, flags, store, abortVs, gc>>,
         y = "collide" => attempting \notin {NoThread, t},
         pending' \subseteq Thread, scan' \subseteq Thread, rendezvous' \in BOOLEAN,
         \A u \in Thread \ {t} : Top(todo[u]) \in Running =>
            /\ y # "collide" => coop'[u] /\ buffer'[u] = <<>>
            /\ y = "inspect" => u \in scan' \cup pending'
            /\ y \in {"pass", "passed"} => u \in pending'
  PROVE  SuspendInv'
<1>1. x \in LockedSteps /\ y \in LockedSteps
  BY DEF LockedSteps
<1>2. /\ Row(y, k, Mode(t), "held") /\ store = t /\ ~IsNew(x, k)
      /\ InGC(x, k) <=> InGC(y, k)
      /\ x \notin {"gcLock", "gcMark"} /\ k # Collection
  BY <1>1, HolderKinds
<1>3. /\ trap = IF IsTrap(x, k) THEN 1 ELSE 0
      /\ inProgress <=> IsProgress(x, k)
      /\ suspension = IF IsOwned(x, k) THEN t ELSE NoThread
      /\ gcDone <=> ~IsReset(x, k)
  BY <1>2, HolderFlags
<1>4. UNCHANGED <<started, store, gc>> /\ UNCHANGED flags /\ UNCHANGED abortVs
  OBVIOUS
<1>5. /\ attempting' = attempting /\ abortEvt' = abortEvt /\ abortSet' = abortSet
      /\ trap' = trap /\ inProgress' = inProgress /\ gcDone' = gcDone
      /\ suspension' = suspension
  BY <1>4 DEF abortVs, flags
<1>6. /\ trap' = IF IsTrap(y, k) THEN 1 ELSE 0
      /\ inProgress' <=> IsProgress(y, k)
      /\ suspension' = IF IsOwned(y, k) THEN t ELSE NoThread
      /\ gcDone' <=> ~IsReset(y, k)
  BY <1>3, <1>5 DEF IsTrap, IsProgress, IsOwned, IsReset, InSuspension
<1>7. AbortFits'
  BY <1>4, FrameAbort DEF SuspendInv, Goes
<1>8. Rounded(t)'
  <2>1. todo'[t] = r /\ \A u \in Thread \ {t} : todo'[u] = todo[u]
    BY DEF Goes, Moved
  <2>2. ~IsStopped(y, k)
    BY DEF IsStopped, ToCollect
  <2> QED BY <2>1, <2>2 DEF Rounded
<1> QED BY <1>2, <1>4, <1>5, <1>6, <1>7, <1>8, Types, HolderStep

\* A thread that runs cooperatively says so, and is in the list.
LEMMA RunningModes ==
  ASSUME SuspendInv, NEW u \in Thread, Top(todo[u]) \in Running
  PROVE  OwnMode(u) /\ u \in started
<1>1. Row(Top(todo[u]), Rest(todo[u]), Mode(u), Lock(u))
  BY InvModes DEF StacksFit, Shape
<1>2. Mode(u) = "coop"
  BY <1>1 DEF Row, Running
<1>3. OwnMode(u)
  BY <1>2 DEF Mode
<1>4. ~IsNew(Top(todo[u]), Rest(todo[u]))
  BY DEF IsNew, Running, CoopSteps, Trapped, Blocked, StoreSteps, Enabling
<1> QED BY <1>3, <1>4 DEF SuspendInv, NewUnlisted

LEMMA FlushInv ==
  ASSUME SuspendInv, NEW t \in Thread, Flush(t)
  PROVE  SuspendInv'
<1> DEFINE k == Rest(todo[t])
           r == Push("inspect", k)
<1>1. StackOf(t, "flush", k)
  BY Stacks, InvModes DEF Flush
<1>2. Goes(t, r) /\ Top(r) = "inspect" /\ Rest(r) = k
  BY <1>1, InvModes, ThenOne DEF Flush, StackOf, Is, Steps
<1>3. /\ ModesOK'
      /\ \A u \in Thread : /\ OwnMode(u)' = OwnMode(u) /\ coop'[u] = OwnMode(u)
                           /\ buffer'[u] = <<>>
  BY InvModes, FlushMode DEF Flush
<1>4. UNCHANGED <<started, flags, store, abortVs, gc>> /\ pending' = pending
      /\ rendezvous' = rendezvous /\ scan' = started
  BY DEF Flush
<1>5. \A u \in Thread \ {t} : Top(todo[u]) \in Running =>
         coop'[u] /\ buffer'[u] = <<>> /\ u \in scan' \cup pending'
  BY <1>3, <1>4, RunningModes
<1> HIDE DEF k, r
<1> QED BY <1>1, <1>2, <1>3, <1>4, <1>5, Types, PassStep

\* What t knows of the others after the flush.
LEMMA Known ==
  ASSUME SuspendInv, NEW t \in Thread, NEW x \in {"inspect", "pass", "passed"}, NEW k,
         StackOf(t, x, k)
  PROVE  /\ store = t
         /\ \A u \in Thread \ {t} : Top(todo[u]) \in Running =>
               /\ coop[u] /\ buffer[u] = <<>>
               /\ x = "inspect" => u \in scan \cup pending
               /\ x \in {"pass", "passed"} => u \in pending
<1>1. store = t
  <2>1. Row(x, k, Mode(t), Lock(t))
    BY DEF StackOf
  <2> QED BY <2>1 DEF Row, LockedSteps, Lock
<1>2. Rounded(t) /\ Top(todo[t]) = x
  BY <1>1, HolderFlags
<1> QED BY <1>1, <1>2 DEF Rounded

\* The step that looks at one thread.
LEMMA Stays ==
  ASSUME SuspendInv, NEW t \in Thread, NEW x, NEW k, StackOf(t, x, k), UNCHANGED todo
  PROVE  Goes(t, todo[t]) /\ Top(todo[t]) = x /\ Rest(todo[t]) = k
BY InvModes DEF StackOf, Goes, Moved, StateOK

LEMMA InspectInv ==
  ASSUME SuspendInv, NEW t \in Thread, Inspect(t)
  PROVE  SuspendInv'
<1> DEFINE k == Rest(todo[t])
           r == Push("pass", k)
<1>1. StackOf(t, "inspect", k)
  BY Stacks, InvModes DEF Inspect
<1>2. ModesOK' /\ OthersKeepModes(t) /\ coop' = coop /\ buffer' = buffer
  BY SameModes DEF Inspect
<1>3. \A u \in Thread : OwnMode(u)' = OwnMode(u)
  BY <1>2 DEF OwnMode
<1>4. UNCHANGED <<started, flags, store, abortVs, gc>> /\ rendezvous' = rendezvous
  BY DEF Inspect
<1> HIDE DEF k
<1>5. CASE \E u \in scan :
             /\ pending' = IF u # t /\ coop[u] THEN pending \cup {u} ELSE pending \ {u}
             /\ scan' = scan \ {u}
             /\ UNCHANGED todo
  <2>1. PICK v \in scan :
             /\ pending' = IF v # t /\ coop[v] THEN pending \cup {v} ELSE pending \ {v}
             /\ scan' = scan \ {v}
             /\ UNCHANGED todo
    BY <1>5
  <2>2. Goes(t, todo[t]) /\ Top(todo[t]) = "inspect" /\ Rest(todo[t]) = k
    BY <1>1, <2>1, Stays
  <2>3. \A u \in Thread \ {t} : Top(todo[u]) \in Running =>
           coop'[u] /\ buffer'[u] = <<>> /\ u \in scan' \cup pending'
    BY <1>1, <1>2, <2>1, Known
  <2>4. pending' \subseteq Thread /\ scan' \subseteq Thread
    BY <2>1, Types
  <2> QED BY <1>1, <1>2, <1>3, <1>4, <2>2, <2>3, <2>4, Types, PassStep
<1>6. CASE scan = {} /\ scan' = pending /\ Then(t, <<"pass">>) /\ UNCHANGED pending
  <2>1. Goes(t, r) /\ Top(r) = "pass" /\ Rest(r) = k
    BY <1>1, <1>6, InvModes, ThenOne DEF StackOf, Is, Steps
  <2>2. \A u \in Thread \ {t} : Top(todo[u]) \in Running =>
           coop'[u] /\ buffer'[u] = <<>> /\ u \in pending'
    BY <1>1, <1>2, <1>6, Known
  <2>3. pending' \subseteq Thread /\ scan' \subseteq Thread
    BY <1>6, Types
  <2> HIDE DEF r
  <2> QED BY <1>1, <1>2, <1>3, <1>4, <2>1, <2>2, <2>3, Types, PassStep
<1> QED BY <1>5, <1>6 DEF Inspect

LEMMA PassInv ==
  ASSUME SuspendInv, NEW t \in Thread, Pass(t)
  PROVE  SuspendInv'
<1> DEFINE k == Rest(todo[t])
           r == Push("passed", k)
<1>1. StackOf(t, "pass", k)
  BY Stacks, InvModes DEF Pass
<1>2. ModesOK' /\ OthersKeepModes(t) /\ coop' = coop /\ buffer' = buffer
  BY SameModes DEF Pass
<1>3. \A u \in Thread : OwnMode(u)' = OwnMode(u)
  BY <1>2 DEF OwnMode
<1>4. UNCHANGED <<started, flags, store, abortVs, gc>> /\ rendezvous' = rendezvous
  BY DEF Pass
<1> HIDE DEF k
<1>5. CASE \E u \in scan :
             /\ pending' = IF coop[u] THEN pending ELSE pending \ {u}
             /\ scan' = scan \ {u}
             /\ UNCHANGED todo
  <2>1. PICK v \in scan :
             /\ pending' = IF coop[v] THEN pending ELSE pending \ {v}
             /\ scan' = scan \ {v}
             /\ UNCHANGED todo
    BY <1>5
  <2>2. Goes(t, todo[t]) /\ Top(todo[t]) = "pass" /\ Rest(todo[t]) = k
    BY <1>1, <2>1, Stays
  <2>3. \A u \in Thread \ {t} : Top(todo[u]) \in Running =>
           coop'[u] /\ buffer'[u] = <<>> /\ u \in pending'
    BY <1>1, <1>2, <2>1, Known
  <2>4. pending' \subseteq Thread /\ scan' \subseteq Thread
    BY <2>1, Types
  <2> QED BY <1>1, <1>2, <1>3, <1>4, <2>2, <2>3, <2>4, Types, PassStep
<1>6. CASE scan = {} /\ Then(t, <<"passed">>) /\ UNCHANGED <<pending, scan>>
  <2>1. Goes(t, r) /\ Top(r) = "passed" /\ Rest(r) = k
    BY <1>1, <1>6, InvModes, ThenOne DEF StackOf, Is, Steps
  <2>2. \A u \in Thread \ {t} : Top(todo[u]) \in Running =>
           coop'[u] /\ buffer'[u] = <<>> /\ u \in pending'
    BY <1>1, <1>2, <1>6, Known
  <2>3. pending' \subseteq Thread /\ scan' \subseteq Thread
    BY <1>6, Types
  <2> HIDE DEF r
  <2> QED BY <1>1, <1>2, <1>3, <1>4, <2>1, <2>2, <2>3, Types, PassStep
<1> QED BY <1>5, <1>6 DEF Pass

LEMMA AnotherPassInv ==
  ASSUME SuspendInv, NEW t \in Thread, WaitRendezvous(t) \/ GiveUp(t)
  PROVE  SuspendInv'
<1> DEFINE k == Rest(todo[t])
<1>1. StackOf(t, "passed", k)
  BY Stacks, InvModes DEF WaitRendezvous, GiveUp
<1>2. ModesOK' /\ OthersKeepModes(t) /\ coop' = coop /\ buffer' = buffer
  BY SameModes DEF WaitRendezvous, GiveUp
<1>3. \A u \in Thread : OwnMode(u)' = OwnMode(u)
  BY <1>2 DEF OwnMode
<1>4. UNCHANGED <<started, flags, store, abortVs, gc>> /\ pending' = pending
  BY DEF WaitRendezvous, GiveUp, GoOn
<1>5. \A u \in Thread \ {t} : Top(todo[u]) \in Running =>
         coop'[u] /\ buffer'[u] = <<>> /\ u \in pending'
  BY <1>1, <1>2, <1>4, Known
<1> HIDE DEF k
<1>6. CASE WaitRendezvous(t)
  <2> DEFINE r == Push("pass", k)
  <2>1. Goes(t, r) /\ Top(r) = "pass" /\ Rest(r) = k
    BY <1>1, <1>6, InvModes, ThenOne DEF WaitRendezvous, StackOf, Is, Steps
  <2>2. rendezvous' \in BOOLEAN /\ scan' \subseteq Thread /\ pending' \subseteq Thread
    BY <1>4, <1>6, Types DEF WaitRendezvous
  <2> HIDE DEF r
  <2> QED BY <1>1, <1>2, <1>3, <1>4, <1>5, <2>1, <2>2, PassStep
<1>7. CASE GiveUp(t)
  <2> DEFINE r == Push("collide", k)
  <2>1. Goes(t, r) /\ Top(r) = "collide" /\ Rest(r) = k
    BY <1>1, <1>7, InvModes, ThenOne DEF GiveUp, StackOf, Is, Steps
  <2>2. rendezvous' \in BOOLEAN /\ scan' \subseteq Thread /\ pending' \subseteq Thread
    BY <1>4, <1>7, Types DEF GiveUp, GoOn
  <2>3. attempting \notin {NoThread, t}
    BY <1>7 DEF GiveUp, Collided
  <2> HIDE DEF r
  <2> QED BY <1>1, <1>2, <1>3, <1>4, <1>5, <2>1, <2>2, <2>3, PassStep
<1> QED BY <1>6, <1>7
\* SuspendRuntime returns: nobody else runs cooperatively.
LEMMA RendezvousedInv ==
  ASSUME SuspendInv, NEW t \in Thread, Rendezvoused(t)
  PROVE  SuspendInv'
<1> DEFINE k == Rest(todo[t])
<1>1. StackOf(t, "passed", k)
  BY Stacks, InvModes DEF Rendezvoused
<1>2. ModesOK' /\ OthersKeepModes(t) /\ coop' = coop /\ buffer' = buffer
  BY SameModes DEF Rendezvoused
<1>3. \A u \in Thread : OwnMode(u)' = OwnMode(u)
  BY <1>2 DEF OwnMode
<1>4. /\ UNCHANGED <<started, store, gc>> /\ UNCHANGED flags /\ UNCHANGED abortVs
      /\ pending' = {} /\ scan' = scan /\ rendezvous' = FALSE /\ pending = {}
  BY DEF Rendezvoused
<1>5. /\ attempting' = attempting /\ abortEvt' = abortEvt /\ abortSet' = abortSet
      /\ trap' = trap /\ inProgress' = inProgress /\ gcDone' = gcDone
      /\ suspension' = suspension
  BY <1>4 DEF abortVs, flags
<1>6. /\ store = t /\ ~IsNew("passed", k) /\ k \in Susp(Mode(t))
  BY <1>1, HolderKinds DEF LockedSteps
<1>7. Shape(k, Mode(t), "held") /\ k \in Seq(Steps)
  BY <1>6, SuspShape, Locks
<1>8. Goes(t, k)
  BY <1>7, InvModes, ThenNone DEF Rendezvoused, Shape
<1>9. /\ trap = IF IsTrap("passed", k) THEN 1 ELSE 0
      /\ inProgress <=> IsProgress("passed", k)
      /\ suspension = IF IsOwned("passed", k) THEN t ELSE NoThread
      /\ gcDone <=> ~IsReset("passed", k)
  BY <1>1, <1>6, HolderFlags
<1>10. \A u \in Thread \ {t} : Top(todo[u]) \notin Running
  BY <1>1, <1>4, Known
<1> HIDE DEF k
<1>11. k \in {WorkM, WorkN, ThenCollect}
  BY <1>6 DEF Susp
<1>12. Top(k) \in {"work", "store1"} /\ (Top(k) = "store1" <=> k = ThenCollect)
       /\ (Top(k) = "store1" => Rest(k) = Collection)
  BY <1>11, Tops
<1>13. IsProgress(Top(k), Rest(k))
  BY <1>12 DEF IsProgress, InSuspension, ToCollect
<1>14. InGC("passed", k) <=> InGC(Top(k), Rest(k))
  BY <1>12 DEF InGC, ToCollect, LockedSteps, RestartSteps, StoreSteps, Enabling
<1>15. /\ trap' = IF IsTrap(Top(k), Rest(k)) THEN 1 ELSE 0
       /\ inProgress' <=> IsProgress(Top(k), Rest(k))
       /\ suspension' = IF IsOwned(Top(k), Rest(k)) THEN t ELSE NoThread
       /\ gcDone' <=> ~IsReset(Top(k), Rest(k))
  BY <1>5, <1>9, <1>13 DEF IsTrap, IsOwned, IsReset, IsProgress, InSuspension
<1>16. AbortFits'
  BY <1>4, <1>8, <1>12, FrameAbort DEF SuspendInv, Goes
<1>17. Rounded(t)'
  <2>1. \A u \in Thread \ {t} : todo'[u] = todo[u]
    BY <1>8 DEF Goes, Moved
  <2> QED BY <1>10, <2>1 DEF Rounded
<1>18. pending' \subseteq Thread /\ rendezvous' \in BOOLEAN /\ Row(Top(k), Rest(k), Mode(t), "held")
  BY <1>4, <1>7 DEF Shape
<1> QED BY <1>1, <1>2, <1>3, <1>4, <1>5, <1>6, <1>8, <1>14, <1>15, <1>16, <1>17, <1>18,
           Types,
           HolderStep

\* SuspendEE gives way to a collection.
LEMMA CollideInv ==
  ASSUME SuspendInv, NEW t \in Thread, Collide(t)
  PROVE  SuspendInv'
<1> DEFINE k == Rest(todo[t])
           j == Push("retry", k)
           r == Push("cleanUp", j)
<1>1. StackOf(t, "collide", k) /\ k \in Seq(Steps)
  BY Stacks, InvModes DEF Collide, StackOf
<1>2. ModesOK' /\ OthersKeepModes(t) /\ coop' = coop /\ buffer' = buffer
  BY SameModes DEF Collide
<1>3. \A u \in Thread : OwnMode(u)' = OwnMode(u)
  BY <1>2 DEF OwnMode
<1>4. /\ UNCHANGED <<started, store, gc>> /\ UNCHANGED flags /\ attempting' = attempting
      /\ pending' = pending /\ scan' = scan /\ rendezvous' = rendezvous
      /\ \/ abortEvt' = "used" /\ abortSet' = FALSE
         \/ abortEvt = "none" /\ abortEvt' = abortEvt /\ abortSet' = abortSet
  BY DEF Collide
<1>5. /\ trap' = trap /\ inProgress' = inProgress /\ gcDone' = gcDone
      /\ suspension' = suspension
  BY <1>4 DEF flags
<1>6. /\ store = t /\ ~IsNew("collide", k) /\ k \in Susp(Mode(t))
  BY <1>1, HolderKinds DEF LockedSteps
<1>7. "cleanUp" \in Steps /\ "retry" \in Steps
  BY DEF Steps
<1>8. Goes(t, r) /\ Is(r, "cleanUp", j) /\ Is(j, "retry", k)
  BY <1>1, <1>7, InvModes, ThenTwo DEF Collide
<1>9. Top(r) = "cleanUp" /\ Rest(r) = j /\ Top(j) = "retry" /\ Rest(j) = k
  BY <1>8 DEF Is
<1>10. /\ trap = IF IsTrap("collide", k) THEN 1 ELSE 0
       /\ inProgress <=> IsProgress("collide", k)
       /\ suspension = IF IsOwned("collide", k) THEN t ELSE NoThread
       /\ gcDone <=> ~IsReset("collide", k)
  BY <1>1, <1>6, HolderFlags
<1>11. j \in AfterRestart(Mode(t))
  BY <1>6 DEF AfterRestart
<1>12. k = ThenCollect <=> j = Push("retry", ThenCollect)
  BY <1>9, PairTops
<1>13. attempting # NoThread /\ attempting # t
  BY <1>1 DEF SuspendInv, AbortFits, StackOf
<1> HIDE DEF j, k, r
<1>14. Row("cleanUp", j, Mode(t), "held")
  BY <1>11 DEF Row, Trapped, Blocked, CoopSteps, Enabling, StoreSteps, LockedSteps,
     RestartSteps
<1>15. InGC("collide", k) <=> InGC("cleanUp", j)
  <2>1. j # Leaves
    BY <1>9, Tops
  <2> QED BY <1>12, <2>1 DEF InGC, ToCollect, LockedSteps, RestartSteps, StoreSteps,
             Enabling
<1>16. /\ trap' = IF IsTrap("cleanUp", j) THEN 1 ELSE 0
       /\ inProgress' <=> IsProgress("cleanUp", j)
       /\ suspension' = IF IsOwned("cleanUp", j) THEN t ELSE NoThread
       /\ gcDone' <=> ~IsReset("cleanUp", j)
  BY <1>5, <1>10 DEF IsTrap, IsOwned, IsReset, IsProgress, InSuspension
<1>17. todo'[t] = r /\ \A u \in Thread \ {t} : todo'[u] = todo[u]
  BY <1>8 DEF Goes, Moved
<1>18. AbortFits'
  BY <1>4, <1>9, <1>13, <1>17 DEF SuspendInv, AbortFits
<1>19. Rounded(t)'
  <2>1. ~IsStopped("cleanUp", j)
    BY <1>9 DEF IsStopped, ToCollect
  <2> QED BY <1>9, <1>17, <2>1 DEF Rounded
<1>20. abortEvt' \in {"none", "idle", "used"}
  BY <1>4
<1>21. abortSet' \in BOOLEAN
  BY <1>4, Types, Zenon
<1> QED BY <1>1, <1>2, <1>3, <1>4, <1>5, <1>6, <1>8, <1>9, <1>14, <1>15, <1>16, <1>18,
           <1>19,
           <1>20, <1>21, Types, HolderStep
\* SuspendEE begins: a collection says so first.
LEMMA SuspendEEInv ==
  ASSUME SuspendInv, NEW t \in Thread, SuspendEE(t)
  PROVE  SuspendInv'
<1> DEFINE k == Rest(todo[t])
           j == Push("locked", k)
           i == Push("lockStore", j)
           r == IF ForGC(t) THEN Push("nudge", i) ELSE i
<1>1. StackOf(t, "suspendEE", k) /\ k \in Seq(Steps) /\ Top(todo[t]) = "suspendEE"
      /\ Rest(todo[t]) = k
  BY Stacks, InvModes DEF SuspendEE, StackOf
<1>2. Row("suspendEE", k, Mode(t), Lock(t)) /\ Lock(t) = "free" /\ k \in Susp(Mode(t))
      /\ store # t
  BY <1>1 DEF StackOf, Row, Lock
<1>3. ModesOK' /\ OthersKeepModes(t) /\ Mode(t)' = Mode(t)
  BY SameModes DEF SuspendEE
<1>4. /\ UNCHANGED <<pending, flags, store, scan>> /\ UNCHANGED gc /\ started' = started
      /\ rendezvous' = rendezvous /\ abortEvt' = abortEvt /\ abortSet' = abortSet
      /\ attempting' = IF ForGC(t) THEN t ELSE attempting
  BY DEF SuspendEE
<1>5. gcLock' = gcLock /\ counted' = counted /\ Served' = Served
  BY <1>4 DEF gc, Served
<1>6. {"nudge", "lockStore", "locked"} \subseteq Steps
  BY DEF Steps
<1>7. ForGC(t) <=> k = ThenCollect
  <2>1. ForGC(t) <=> InGC("suspendEE", k)
    BY <1>1 DEF SuspendInv, OneCollects, ForGC
  <2> QED BY <2>1 DEF InGC, ToCollect, StoreSteps, Enabling, RestartSteps, LockedSteps
<1>8. Is(i, "lockStore", j) /\ Is(j, "locked", k) /\ i \in Seq(Steps)
  BY <1>1, <1>6, PushFacts DEF Is
<1>9. Goes(t, r) /\ (ForGC(t) => Is(r, "nudge", i))
  <2>1. CASE ForGC(t)
    <3>1. Then(t, <<"nudge">> \o <<"lockStore", "locked">>)
      BY <2>1, Zenon DEF SuspendEE
    <3>2. Goes(t, Push("nudge", i)) /\ Is(Push("nudge", i), "nudge", i)
      BY <1>1, <1>6, <3>1, InvModes, ThenThree, Zenon
    <3> QED BY <2>1, <3>2
  <2>2. CASE ~ForGC(t)
    <3>1. Then(t, <<>> \o <<"lockStore", "locked">>)
      BY <2>2, Zenon DEF SuspendEE
    <3>2. <<>> \o <<"lockStore", "locked">> = <<"lockStore", "locked">>
      OBVIOUS
    <3>3. Then(t, <<"lockStore", "locked">>)
      BY <3>1, <3>2, Zenon
    <3>4. Goes(t, i)
      BY <1>1, <1>6, <3>3, InvModes, ThenTwo, Zenon
    <3> QED BY <2>2, <3>4
  <2> QED BY <2>1, <2>2
<1>10. /\ Top(i) = "lockStore" /\ Rest(i) = j /\ Top(j) = "locked" /\ Rest(j) = k
       /\ ForGC(t) => Top(r) = "nudge" /\ Rest(r) = i
       /\ ~ForGC(t) => r = i
  BY <1>8, <1>9 DEF Is
<1>11. j \in LockConts(Mode(t)) /\ \E q \in Susp(Mode(t)) : i = Push("lockStore", Push("locked", q))
  BY <1>2 DEF LockConts
<1>12. k = ThenCollect => j = Push("locked", ThenCollect)
                          /\ i = Push("lockStore", Push("locked", ThenCollect))
  OBVIOUS
<1> HIDE DEF i, j, k, r
<1>13. k # ThenCollect => j # Push("locked", ThenCollect)
  BY <1>10, PairTops
<1>14. Row(Top(r), Rest(r), Mode(t), "free")
  BY <1>10, <1>11
     DEF Row, Trapped, Blocked, CoopSteps, Enabling, StoreSteps, LockedSteps, RestartSteps
<1>15. Shape(r, Mode(t)', Lock(t)) /\ Moved(t, r)
  BY <1>2, <1>3, <1>9, <1>14 DEF Shape, Goes, Moved
<1>16. /\ InGC("suspendEE", k) <=> InGC(Top(r), Rest(r))
       /\ Top(r) \notin Running \cup {"abortWait", "collide"}
       /\ ~IsNew("suspendEE", k)
  BY <1>7, <1>10, <1>12, <1>13
     DEF Running, CoopSteps, IsNew, InGC, ToCollect, LockedSteps, RestartSteps,
         StoreSteps, Trapped, Blocked, Enabling
<1>17. NewUnlisted'
  <2>1. t \in started'
    BY <1>1, <1>4, <1>16 DEF SuspendInv, NewUnlisted
  <2> QED BY <1>4, <1>15, <2>1, FrameNew DEF SuspendInv
<1>18. OneCollects'
  BY <1>1, <1>5, <1>15, <1>16, FrameGC DEF SuspendInv
<1>19. CountsFit'
  <2>1. Contains(todo[t], "gcLock") => Contains(r, "gcLock")
    BY <1>1, <1>9 DEF Goes
  <2> QED BY <1>1, <1>5, <1>15, <2>1, FrameCounts DEF SuspendInv
<1>20. AbortFits'
  <2>1. todo'[t] = r /\ (\A u \in Thread \ {t} : todo'[u] = todo[u]) /\ t # NoThread
    BY <1>15, ThreadSuspendAssumption DEF Moved, ThreadSuspendAssumption
  <2> QED BY <1>4, <1>16, <2>1 DEF SuspendInv, AbortFits
<1>21. attempting' \in Thread \cup {NoThread}
  BY <1>4, Types
<1> QED BY <1>2, <1>3, <1>4, <1>5, <1>15, <1>16, <1>17, <1>18, <1>19, <1>20, <1>21, Types,
           LocalStep

LEMMA NudgeInv ==
  ASSUME SuspendInv, NEW t \in Thread, Nudge(t)
  PROVE  SuspendInv'
<1> DEFINE k == Rest(todo[t])
<1>1. StackOf(t, "nudge", k)
  BY Stacks, InvModes DEF Nudge
<1>2. Row("nudge", k, Mode(t), Lock(t)) /\ Lock(t) = "free"
      /\ \E j \in Susp(Mode(t)) : k = Push("lockStore", Push("locked", j))
  BY <1>1 DEF StackOf, Row
<1>3. PICK j \in Susp(Mode(t)) : k = Push("lockStore", Push("locked", j))
  BY <1>2
<1>4. j \in Seq(Steps) /\ "locked" \in Steps /\ "lockStore" \in Steps
  BY SuspShape, Locks DEF Steps
<1>5. Push("locked", j) \in Seq(Steps) /\ Push("locked", j) \in LockConts(Mode(t))
  BY <1>4, PushTop DEF LockConts
<1>6. k \in Seq(Steps) /\ k # <<>> /\ Top(k) = "lockStore" /\ Rest(k) = Push("locked", j)
  BY <1>3, <1>4, <1>5, PushTop
<1>7. Goes(t, k)
  BY <1>6, InvModes, ThenNone DEF Nudge
<1>8. ModesOK' /\ OthersKeepModes(t) /\ Mode(t)' = Mode(t)
  BY SameModes DEF Nudge
<1>9. UNCHANGED <<pending, started, flags, store, abortVs, scan, gc>> /\ rendezvous' \in BOOLEAN
  BY DEF Nudge
<1> HIDE DEF k
<1>10. Row(Top(k), Rest(k), Mode(t)', Lock(t))
  BY <1>2, <1>5, <1>6, <1>8
     DEF Row, Trapped, Blocked, CoopSteps, Enabling, StoreSteps, LockedSteps, RestartSteps
<1>11. k = Push("lockStore", Push("locked", ThenCollect)) <=> Rest(k) = Push("locked", ThenCollect)
  BY <1>3, <1>6, TripleTops
<1>12. Keeps("nudge", k, k, Lock(t)) /\ Top(k) \notin Running \cup {"abortWait", "collide"}
  BY <1>2, <1>6, <1>11
     DEF Keeps, Running, CoopSteps, IsNew, InGC, ToCollect, LockedSteps, RestartSteps,
         StoreSteps, Trapped, Blocked, Enabling
<1> QED BY <1>1, <1>7, <1>8, <1>9, <1>10, <1>12, QuietStep

LEMMA RetryInv ==
  ASSUME SuspendInv, NEW t \in Thread, Retry(t)
  PROVE  SuspendInv'
<1> DEFINE k == Rest(todo[t])
           j == Push("suspendEE", k)
           i == Push("store1", j)
           r == Push("store0", i)
<1>1. StackOf(t, "retry", k) /\ k \in Seq(Steps)
  BY Stacks, InvModes DEF Retry, StackOf
<1>2. Row("retry", k, Mode(t), Lock(t)) /\ Lock(t) = "free" /\ k \in Susp(Mode(t))
  BY <1>1 DEF StackOf, Row
<1>3. UNCHANGED <<pending, started, flags, store, abortVs, scan, gc>> /\ rendezvous' \in BOOLEAN
      /\ ModesOK' /\ OthersKeepModes(t) /\ Mode(t)' = Mode(t)
  BY GoesOn, SameModes DEF Retry
<1>4. {"store0", "store1", "suspendEE"} \subseteq Steps
  BY DEF Steps
<1>5. CASE t \in pending /\ OwnMode(t)
  <2>1. Then(t, (<<"store0">> \o <<"store1">>) \o <<"suspendEE">>)
    BY <1>5, Zenon DEF Retry, Enable, Disable
  <2>2. Goes(t, r) /\ Is(r, "store0", i) /\ Is(i, "store1", j)
    BY <1>1, <1>4, <2>1, InvModes, ThenThree, Zenon
  <2>3. Top(r) = "store0" /\ Rest(r) = i /\ Top(i) = "store1"
    BY <2>2 DEF Is
  <2>4. Mode(t) = "coop" /\ k = WorkM
    BY <1>2, <1>5 DEF Mode, Susp
  <2>5. i \in EnableConts
    BY <2>4 DEF EnableConts, DisableFree
  <2> HIDE DEF i, j, k, r
  <2>6. Row(Top(r), Rest(r), Mode(t)', Lock(t))
    BY <1>2, <1>3, <2>3, <2>4, <2>5
       DEF Row, Trapped, Blocked, CoopSteps, Enabling, StoreSteps, LockedSteps, RestartSteps
  <2>7. i # Push("suspendEE", ThenCollect) /\ k # ThenCollect
    BY <2>3, <2>4, Tops, PairTops
  <2>8. Keeps("retry", k, r, Lock(t)) /\ Top(r) \notin Running \cup {"abortWait", "collide"}
    BY <1>2, <2>3, <2>7
       DEF Keeps, Running, CoopSteps, IsNew, InGC, ToCollect, LockedSteps, RestartSteps,
           StoreSteps, Trapped, Blocked, Enabling
  <2> QED BY <1>1, <1>3, <2>2, <2>6, <2>8, QuietStep
<1>6. CASE ~(t \in pending /\ OwnMode(t))
  <2>1. Then(t, <<>> \o <<"suspendEE">>)
    BY <1>6, Zenon DEF Retry
  <2>2. <<>> \o <<"suspendEE">> = <<"suspendEE">>
    OBVIOUS
  <2>3. Then(t, <<"suspendEE">>)
    BY <2>1, <2>2, Zenon
  <2>4. Goes(t, j) /\ Is(j, "suspendEE", k)
    BY <1>1, <1>4, <2>3, InvModes, ThenOne, Zenon
  <2>5. Top(j) = "suspendEE" /\ Rest(j) = k
    BY <2>4 DEF Is
  <2> HIDE DEF j, k
  <2>6. Row(Top(j), Rest(j), Mode(t)', Lock(t))
    BY <1>2, <1>3, <2>5
       DEF Row, Trapped, Blocked, CoopSteps, Enabling, StoreSteps, LockedSteps, RestartSteps
  <2>7. Keeps("retry", k, j, Lock(t)) /\ Top(j) \notin Running \cup {"abortWait", "collide"}
    BY <1>2, <2>5
       DEF Keeps, Running, CoopSteps, IsNew, InGC, ToCollect, LockedSteps, RestartSteps,
           StoreSteps, Trapped, Blocked, Enabling
  <2> QED BY <1>1, <1>3, <2>4, <2>6, <2>7, QuietStep
<1> QED BY <1>5, <1>6

LEMMA WorkInv ==
  ASSUME SuspendInv, NEW t \in Thread, Work(t)
  PROVE  SuspendInv'
<1> DEFINE k == Rest(todo[t])
<1>1. StackOf(t, "work", k)
  BY Stacks, InvModes DEF Work
<1>2. Row("work", k, Mode(t), Lock(t)) /\ Lock(t) = "held"
      /\ k = IF Mode(t) = "coop" THEN CleanM ELSE CleanN
  BY <1>1 DEF StackOf, Row
<1>3. UNCHANGED <<pending, started, flags, store, abortVs, scan, gc>> /\ rendezvous' \in BOOLEAN
      /\ ModesOK' /\ OthersKeepModes(t) /\ Mode(t)' = Mode(t)
  BY GoesOn, SameModes DEF Work
<1>4. k \in Seq(Steps) /\ k # <<>>
  BY <1>2, Listed
<1>5. Goes(t, k)
  BY <1>4, InvModes, ThenNone DEF Work
<1> HIDE DEF k
<1>6. Top(k) = "cleanUp" /\ Rest(k) = (IF Mode(t) = "coop" THEN Mgd ELSE Ntv)
  BY <1>2, Tops
<1>7. Rest(k) \in AfterRestart(Mode(t)) /\ Top(Rest(k)) # "retry" /\ Rest(k) # Leaves
      /\ Rest(k) # Push("retry", ThenCollect)
  BY <1>6, Tops, PairTops, Locks DEF AfterRestart
<1>8. Row(Top(k), Rest(k), Mode(t)', Lock(t))
  BY <1>2, <1>3, <1>6, <1>7
     DEF Row, Trapped, Blocked, CoopSteps, Enabling, StoreSteps, LockedSteps, RestartSteps
<1>9. Keeps("work", k, k, Lock(t)) /\ Top(k) \notin Running \cup {"abortWait", "collide"}
  BY <1>2, <1>6, <1>7
     DEF Keeps, Running, CoopSteps, IsNew, InGC, ToCollect, LockedSteps, RestartSteps,
         StoreSteps, Trapped, Blocked, Enabling, SameFlags, IsTrap, IsProgress, IsOwned, IsReset,
         InSuspension, IsStopped
<1> QED BY <1>1, <1>3, <1>5, <1>8, <1>9, QuietStep

LEMMA SuspendingInv ==
  ASSUME SuspendInv, NEW t \in Thread, Suspending(t)
  PROVE  SuspendInv'
BY SuspendEEInv, NudgeInv, SuspendFlagsInv, FlushInv, InspectInv, PassInv, RendezvousedInv,
   AnotherPassInv, CollideInv, RetryInv, WorkInv DEF Suspending
-----------------------------------------------------------------------------
(* The beginnings of operations, as stacks.                                *)

LEMMA Quads ==
  ASSUME NEW a, NEW b, NEW c, NEW d
  PROVE  <<a, b, c, d>> = <<a>> \o <<b, c, d>>
OBVIOUS

LEMMA Quints ==
  ASSUME NEW a, NEW b, NEW c, NEW d, NEW e
  PROVE  <<a, b, c, d, e>> = <<a>> \o <<b, c, d, e>>
OBVIOUS

LEMMA Ends == Mgd = <<"managed">> /\ Ntv = <<"native">> /\ Uns = <<"unstarted">>
BY DEF Mgd, Ntv, Uns, Push

LEMMA Literals ==
  /\ Disable \o <<"managed">> = Push("store1", Mgd)
  /\ Enable \o <<"native">> = Push("store0", Ntv)
  /\ Enable \o Disable \o <<"managed">> = Push("store0", Push("store1", Mgd))
  /\ SuspendAndRestart \o <<"managed">> = Push("suspendEE", WorkM)
  /\ SuspendAndRestart \o <<"native">> = Push("suspendEE", WorkN)
  /\ <<"hasStarted", "lockStore", "transfer", "unlockStore", "managed">>
       = Push("hasStarted", Push("lockStore", Starting))
  /\ Disable \o <<"fixAlloc">> \o Enable \o <<"lockStore", "die", "unlockStore", "unstarted">>
       = Push("store1", Fixing)
  /\ <<"gcCount", "gcLock", "managed">> = Push("gcCount", Asks)
<1>1. /\ Mgd \in Seq(Steps) /\ Ntv \in Seq(Steps) /\ Uns \in Seq(Steps)
      /\ Mgd = <<"managed">> /\ Ntv = <<"native">> /\ Uns = <<"unstarted">>
  BY Listed, Ends
<1>2. /\ <<"store0">> \in Seq(Steps) /\ <<"store1">> \in Seq(Steps) /\ <<"fixAlloc">> \in Seq(Steps)
      /\ {"suspendEE", "work", "cleanUp", "unlockStore", "gcLock", "gcCount", "die"} \subseteq Steps
  BY DEF Steps, CoopSteps
<1>3. Disable \o <<"managed">> = Push("store1", Mgd)
  BY <1>1, Zenon DEF Push, Disable
<1>4. Enable \o <<"native">> = Push("store0", Ntv)
  BY <1>1, Zenon DEF Push, Enable
<1>5. Enable \o Disable \o <<"managed">> = Push("store0", Push("store1", Mgd))
  <2>1. (<<"store0">> \o <<"store1">>) \o Mgd = <<"store0">> \o (<<"store1">> \o Mgd)
    BY <1>1, <1>2, ConcatAssociative
  <2> QED BY <1>1, <2>1, Zenon DEF Push, Enable, Disable
<1>6. ASSUME NEW k \in Seq(Steps)
      PROVE  SuspendAndRestart \o k = Push("suspendEE", Push("work", Push("cleanUp", k)))
  <2>1. <<"suspendEE", "work", "cleanUp">> = <<"suspendEE">> \o <<"work", "cleanUp">>
    BY Triples
  <2>2. <<"work", "cleanUp">> = <<"work">> \o <<"cleanUp">>
    BY <1>2, Pairs
  <2>3. <<"suspendEE">> \in Seq(Steps) /\ <<"work">> \in Seq(Steps)
        /\ <<"cleanUp">> \in Seq(Steps) /\ <<"work", "cleanUp">> \in Seq(Steps)
    BY <1>2
  <2>4. (<<"suspendEE">> \o <<"work", "cleanUp">>) \o k
          = <<"suspendEE">> \o (<<"work", "cleanUp">> \o k)
    BY <2>3, ConcatAssociative
  <2>5. (<<"work">> \o <<"cleanUp">>) \o k = <<"work">> \o (<<"cleanUp">> \o k)
    BY <2>3, ConcatAssociative
  <2> QED BY <2>1, <2>2, <2>4, <2>5, Zenon DEF SuspendAndRestart, Push
<1>7. /\ SuspendAndRestart \o <<"managed">> = Push("suspendEE", WorkM)
      /\ SuspendAndRestart \o <<"native">> = Push("suspendEE", WorkN)
  BY <1>1, <1>6, Zenon DEF WorkM, CleanM, WorkN, CleanN
<1>8. /\ <<"unlockStore", "managed">> = <<"unlockStore">> \o <<"managed">>
      /\ <<"unlockStore", "unstarted">> = <<"unlockStore">> \o <<"unstarted">>
      /\ <<"gcLock", "managed">> = <<"gcLock">> \o <<"managed">>
  BY Pairs DEF Steps, CoopSteps
<1>9. /\ UnlockM = <<"unlockStore", "managed">> /\ UnlockU = <<"unlockStore", "unstarted">>
      /\ Asks = <<"gcLock", "managed">>
  BY <1>1, <1>8, Zenon DEF UnlockM, UnlockU, Asks, Push
<1>10. <<"hasStarted", "lockStore", "transfer", "unlockStore", "managed">>
         = Push("hasStarted", Push("lockStore", Starting))
  <2>1. <<"transfer", "unlockStore", "managed">> = Starting
    BY <1>9, Triples, Zenon DEF Starting, Push
  <2>2. <<"lockStore", "transfer", "unlockStore", "managed">> = Push("lockStore", Starting)
    BY <2>1, Quads, Zenon DEF Push
  <2>3. <<"hasStarted", "lockStore", "transfer", "unlockStore", "managed">>
          = <<"hasStarted">> \o <<"lockStore", "transfer", "unlockStore", "managed">>
    BY Quints
  <2> QED BY <2>2, <2>3, Zenon DEF Push
<1>11. <<"gcCount", "gcLock", "managed">> = Push("gcCount", Asks)
  BY <1>9, Triples, Zenon DEF Push
<1>12. Disable \o <<"fixAlloc">> \o Enable \o <<"lockStore", "die", "unlockStore", "unstarted">>
         = Push("store1", Fixing)
  <2>1. <<"die", "unlockStore", "unstarted">> = Ending
    BY <1>9, Triples, Zenon DEF Ending, Push
  <2>2. <<"lockStore", "die", "unlockStore", "unstarted">> = LockEnd
    BY <2>1, Quads, Zenon DEF Push, LockEnd
  <2>3. LockEnd \in Seq(Steps) /\ <<"store1">> \o <<"fixAlloc">> \in Seq(Steps)
    BY <1>2, Listed
  <2>4. ((<<"store1">> \o <<"fixAlloc">>) \o <<"store0">>) \o LockEnd
          = (<<"store1">> \o <<"fixAlloc">>) \o (<<"store0">> \o LockEnd)
    BY <1>2, <2>3, ConcatAssociative
  <2>5. <<"store0">> \o LockEnd \in Seq(Steps)
    BY <1>2, <2>3
  <2>6. (<<"store1">> \o <<"fixAlloc">>) \o (<<"store0">> \o LockEnd)
          = <<"store1">> \o (<<"fixAlloc">> \o (<<"store0">> \o LockEnd))
    BY <1>2, <2>5, ConcatAssociative
  <2> QED BY <2>2, <2>4, <2>6, Zenon DEF Push, Fixing, ToEnd, Disable, Enable
<1> QED BY <1>3, <1>4, <1>5, <1>7, <1>10, <1>11, <1>12, Zenon

LEMMA CollectionLiteral ==
  /\ Enable \o <<"suspendEE">> \o Disable \o <<"gcUpdate", "gcMark", "cleanUp", "gcLeave">>
       \in Seq(Steps)
  /\ (Enable \o <<"suspendEE">> \o Disable \o <<"gcUpdate", "gcMark", "cleanUp", "gcLeave">>)
       \o Mgd = Push("store0", Push("suspendEE", ThenCollect))
<1>1. /\ <<"store0">> \in Seq(Steps) /\ <<"suspendEE">> \in Seq(Steps)
      /\ <<"store1">> \in Seq(Steps) /\ <<"gcUpdate">> \in Seq(Steps)
      /\ {"gcMark", "cleanUp", "gcLeave"} \subseteq Steps /\ Mgd \in Seq(Steps)
  BY Listed DEF Steps
<1>2. <<"gcUpdate", "gcMark", "cleanUp", "gcLeave">>
        = <<"gcUpdate">> \o <<"gcMark", "cleanUp", "gcLeave">>
  BY Quads
<1>3. <<"gcMark", "cleanUp", "gcLeave">> \in Seq(Steps)
  BY <1>1
<1>4. <<"gcMark", "cleanUp", "gcLeave">> \o Mgd = Marks
  <2>1. <<"gcMark", "cleanUp", "gcLeave">> = <<"gcMark">> \o <<"cleanUp", "gcLeave">>
    BY Triples
  <2>2. <<"cleanUp", "gcLeave">> = <<"cleanUp">> \o <<"gcLeave">>
    BY <1>1, Pairs
  <2>3. <<"gcMark">> \in Seq(Steps) /\ <<"cleanUp">> \in Seq(Steps)
        /\ <<"gcLeave">> \in Seq(Steps) /\ <<"cleanUp", "gcLeave">> \in Seq(Steps)
    BY <1>1
  <2>4. (<<"gcMark">> \o <<"cleanUp", "gcLeave">>) \o Mgd
          = <<"gcMark">> \o (<<"cleanUp", "gcLeave">> \o Mgd)
    BY <1>1, <2>3, ConcatAssociative
  <2>5. (<<"cleanUp">> \o <<"gcLeave">>) \o Mgd = <<"cleanUp">> \o (<<"gcLeave">> \o Mgd)
    BY <1>1, <2>3, ConcatAssociative
  <2> QED BY <2>1, <2>2, <2>4, <2>5, Zenon DEF Marks, CleanG, Leaves, Push
<1>5. (<<"gcUpdate">> \o <<"gcMark", "cleanUp", "gcLeave">>) \o Mgd
        = <<"gcUpdate">> \o (<<"gcMark", "cleanUp", "gcLeave">> \o Mgd)
  BY <1>1, <1>3, ConcatAssociative
<1> DEFINE four == <<"gcUpdate", "gcMark", "cleanUp", "gcLeave">>
           two  == <<"store0">> \o <<"suspendEE">>
<1>6. four \o Mgd = Collection
  BY <1>2, <1>4, <1>5, Zenon DEF Collection, Push
<1>7. four \in Seq(Steps)
  BY <1>1, <1>2, <1>3, ConcatProperties
<1>8. two \in Seq(Steps) /\ two \o <<"store1">> \in Seq(Steps)
  BY <1>1, ConcatProperties
<1>9. Collection \in Seq(Steps)
  BY Listed
<1> HIDE DEF four
<1>10. ((two \o <<"store1">>) \o four) \o Mgd = (two \o <<"store1">>) \o (four \o Mgd)
  BY <1>1, <1>7, <1>8, ConcatAssociative
<1>11. (two \o <<"store1">>) \o Collection = two \o (<<"store1">> \o Collection)
  BY <1>1, <1>8, <1>9, ConcatAssociative
<1>12. <<"store1">> \o Collection \in Seq(Steps)
  BY <1>1, <1>9, ConcatProperties
<1>13. two \o (<<"store1">> \o Collection) = <<"store0">> \o (<<"suspendEE">> \o (<<"store1">> \o Collection))
  BY <1>1, <1>12, ConcatAssociative
<1>14. (two \o <<"store1">>) \o four \in Seq(Steps)
  BY <1>7, <1>8, ConcatProperties
<1>15. ((two \o <<"store1">>) \o four) \o Mgd = Push("store0", Push("suspendEE", ThenCollect))
  BY <1>6, <1>10, <1>11, <1>13, Zenon DEF ThenCollect, Push
<1> QED BY <1>14, <1>15, Zenon DEF four, Enable, Disable
\* A step that leaves all of this alone.
core == <<modes, pending, started, flags, rendezvous, store, abortVs, scan, gc, todo>>

LEMMA Untouched ==
  ASSUME SuspendInv, UNCHANGED core
  PROVE  SuspendInv'
<1>1. /\ coop' = coop /\ buffer' = buffer /\ pending' = pending /\ started' = started
      /\ trap' = trap /\ inProgress' = inProgress /\ suspension' = suspension
      /\ gcDone' = gcDone /\ rendezvous' = rendezvous /\ store' = store
      /\ attempting' = attempting /\ abortEvt' = abortEvt /\ abortSet' = abortSet
      /\ scan' = scan /\ gcLock' = gcLock /\ counted' = counted /\ Served' = Served
      /\ todo' = todo
  BY DEF core, modes, flags, abortVs, gc, Served
<1>2. StateOK'
  BY <1>1 DEF SuspendInv, StateOK
<1>3. StacksFit' /\ NewUnlisted'
  BY <1>1 DEF SuspendInv, StacksFit, NewUnlisted, Mode, Lock, OwnMode
<1>4. FlagsFit' /\ WorldFits'
  BY <1>1 DEF SuspendInv, FlagsFit, WorldFits, Rounded
<1>5. OneCollects' /\ CountsFit' /\ AbortFits'
  BY <1>1 DEF SuspendInv, OneCollects, CountsFit, AbortFits, Asking
<1> QED BY <1>2, <1>3, <1>4, <1>5 DEF SuspendInv

\* Begins an operation.
LEMMA Begins ==
  ASSUME SuspendInv, NEW t \in Thread, NEW x \in {"managed", "native", "unstarted"},
         NEW y, NEW j, NEW r \in Seq(Steps), r # <<>>, Top(r) = y, Rest(r) = j,
         Enter(t, x, r),
         Row(y, j, IF x = "managed" THEN "coop" ELSE "preemptive", "free"),
         x = "unstarted" => IsNew(y, j), ~InGC(y, j),
         y \in Running => x = "managed", y \notin {"abortWait", "collide"}
  PROVE  SuspendInv'
<1>1. /\ todo[t] = <<x>> /\ todo' = [todo EXCEPT ![t] = r] /\ UNCHANGED modes
      /\ UNCHANGED <<pending, started, flags, store, abortVs, scan, gc>>
      /\ rendezvous' = rendezvous
  BY DEF Enter
<1>2. Goes(t, r) /\ Top(todo[t]) = x /\ Rest(todo[t]) = <<>>
  BY <1>1, InvModes, Calls DEF Steps, CoopSteps
<1>3. At(t, x)
  BY <1>2 DEF At, Top
<1>4. StackOf(t, x, <<>>)
  BY <1>2, <1>3, InvModes, Stacks
<1>5. Row(x, <<>>, Mode(t), Lock(t))
  BY <1>4 DEF StackOf
<1>6. Mode(t) = (IF x = "managed" THEN "coop" ELSE "preemptive") /\ Lock(t) = "free"
  BY <1>5 DEF Row, CoopSteps
<1>7. /\ UNCHANGED <<pending, started, flags, store, abortVs, scan, gc>> /\ rendezvous' \in BOOLEAN
      /\ ModesOK' /\ OthersKeepModes(t) /\ Mode(t)' = Mode(t) /\ coop' = coop /\ buffer' = buffer
  BY <1>1, Types, SameModes
<1>8. Keeps(x, <<>>, r, Lock(t))
  BY <1>6 DEF Keeps, IsNew, InGC, ToCollect, LockedSteps, RestartSteps, StoreSteps, Trapped,
              Blocked, Enabling
<1>9. Shape(r, Mode(t)', Lock(t)) /\ Moved(t, r)
  BY <1>2, <1>6, <1>7 DEF Shape, Goes, Moved
<1>10. Contains(todo[t], "gcLock") => Contains(r, "gcLock")
  BY <1>2 DEF Goes
<1>11. x = "managed" => x \in Running
  BY DEF Running, CoopSteps
<1> QED BY <1>2, <1>7, <1>8, <1>9, <1>10, <1>11, Quiet

LEMMA BeginInv ==
  ASSUME SuspendInv, NEW t \in Thread, Begin(t) \/ PulseGCMode(t)
  PROVE  SuspendInv'
<1>1. {"store1", "store0", "suspendEE", "hasStarted", "lockStore", "gcCount"} \subseteq Steps
  BY DEF Steps, CoopSteps
<1> USE DEF Running, CoopSteps, IsNew, InGC, ToCollect, LockedSteps, RestartSteps,
        StoreSteps,
            Trapped, Blocked, Enabling
<1>2. CASE ReturnToManaged(t)
  <2> DEFINE r == Push("store1", Mgd)
  <2>1. Enter(t, "native", r)
    BY <1>2, Literals, Zenon DEF ReturnToManaged, Call
  <2>2. r \in Seq(Steps) /\ r # <<>> /\ Top(r) = "store1" /\ Rest(r) = Mgd
    BY <1>1, Listed, PushTop
  <2>3. Row("store1", Mgd, "preemptive", "free")
    BY DEF Row, DisableFree
  <2>4. ~InGC("store1", Mgd)
    BY Tops
  <2> QED BY <2>1, <2>2, <2>3, <2>4, Begins
<1>3. CASE CallNative(t)
  <2> DEFINE r == Push("store0", Ntv)
  <2>1. Enter(t, "managed", r)
    BY <1>3, Literals, Zenon DEF CallNative, Call
  <2>2. r \in Seq(Steps) /\ r # <<>> /\ Top(r) = "store0" /\ Rest(r) = Ntv
    BY <1>1, Listed, PushTop
  <2>3. Row("store0", Ntv, "coop", "free")
    BY DEF Row, EnableConts
  <2>4. ~InGC("store0", Ntv)
    BY Tops, PairTops
  <2> QED BY <2>1, <2>2, <2>3, <2>4, Begins
<1>4. CASE PulseGCMode(t)
  <2> DEFINE j == Push("store1", Mgd)
             r == Push("store0", j)
  <2>1. Enter(t, "managed", r)
    BY <1>4, Literals, Zenon DEF PulseGCMode, Call
  <2>2. j \in Seq(Steps) /\ Top(j) = "store1"
    BY <1>1, Listed, PushTop
  <2>3. r \in Seq(Steps) /\ r # <<>> /\ Top(r) = "store0" /\ Rest(r) = j
    BY <1>1, <2>2, PushTop
  <2>4. Row("store0", j, "coop", "free")
    BY DEF Row, EnableConts, DisableFree
  <2>5. ~InGC("store0", j)
    BY <2>2, PairTops
  <2> QED BY <2>1, <2>3, <2>4, <2>5, Begins
<1>5. CASE SuspendOther(t)
  <2>1. CASE Enter(t, "managed", SuspendAndRestart \o <<"managed">>)
    <3> DEFINE r == Push("suspendEE", WorkM)
    <3>1. Enter(t, "managed", r)
      BY <2>1, Literals, Zenon
    <3>2. r \in Seq(Steps) /\ r # <<>> /\ Top(r) = "suspendEE" /\ Rest(r) = WorkM
      BY <1>1, Listed, PushTop
    <3>3. Row("suspendEE", WorkM, "coop", "free")
      BY DEF Row, Susp
    <3>4. ~InGC("suspendEE", WorkM)
      BY Tops
    <3> QED BY <3>1, <3>2, <3>3, <3>4, Begins
  <2>2. CASE Enter(t, "native", SuspendAndRestart \o <<"native">>)
    <3> DEFINE r == Push("suspendEE", WorkN)
    <3>1. Enter(t, "native", r)
      BY <2>2, Literals, Zenon
    <3>2. r \in Seq(Steps) /\ r # <<>> /\ Top(r) = "suspendEE" /\ Rest(r) = WorkN
      BY <1>1, Listed, PushTop
    <3>3. Row("suspendEE", WorkN, "preemptive", "free")
      BY DEF Row, Susp
    <3>4. ~InGC("suspendEE", WorkN)
      BY Tops
    <3> QED BY <3>1, <3>2, <3>3, <3>4, Begins
  <2> QED BY <1>5, <2>1, <2>2 DEF SuspendOther, Call
<1>6. CASE Start(t)
  <2> DEFINE j == Push("lockStore", Starting)
             r == Push("hasStarted", j)
  <2>1. Enter(t, "unstarted", r)
    BY <1>6, Literals, Zenon DEF Start, Call
  <2>2. j \in Seq(Steps)
    BY <1>1, Listed, PushTop
  <2>3. r \in Seq(Steps) /\ r # <<>> /\ Top(r) = "hasStarted" /\ Rest(r) = j
    BY <1>1, <2>2, PushTop
  <2>4. Row("hasStarted", j, "preemptive", "free")
    BY DEF Row
  <2>5. ~InGC("hasStarted", j) /\ IsNew("hasStarted", j)
    OBVIOUS
  <2> QED BY <2>1, <2>3, <2>4, <2>5, Begins
<1>7. CASE Terminate(t)
  <2> DEFINE r == Push("store1", Fixing)
  <2>1. Enter(t, "native", r)
    BY <1>7, Literals, Zenon DEF Terminate, Call
  <2>2. r \in Seq(Steps) /\ r # <<>> /\ Top(r) = "store1" /\ Rest(r) = Fixing
    BY <1>1, Listed, PushTop
  <2>3. Row("store1", Fixing, "preemptive", "free")
    BY DEF Row, DisableFree
  <2>4. ~InGC("store1", Fixing)
    BY Tops
  <2> QED BY <2>1, <2>2, <2>3, <2>4, Begins
<1>8. CASE Collect(t) \/ StartNoGCRegion(t)
  <2> DEFINE r == Push("gcCount", Asks)
  <2>1. Enter(t, "managed", r)
    BY <1>8, Literals, Zenon DEF Collect, StartNoGCRegion, RequestGC, Call
  <2>2. r \in Seq(Steps) /\ r # <<>> /\ Top(r) = "gcCount" /\ Rest(r) = Asks
    BY <1>1, Listed, PushTop
  <2>3. Row("gcCount", Asks, "coop", "free")
    BY DEF Row
  <2>4. ~InGC("gcCount", Asks)
    OBVIOUS
  <2> QED BY <2>1, <2>2, <2>3, <2>4, Begins
<1>9. CASE EndNoGCRegion(t)
  BY <1>9, Untouched DEF EndNoGCRegion, RegionOnly, core
<1> QED BY <1>2, <1>3, <1>4, <1>5, <1>6, <1>7, <1>8, <1>9 DEF Begin

\* The processor writes a store to memory.
LEMMA DrainInv ==
  ASSUME SuspendInv, NEW t \in Thread, Drain(t)
  PROVE  SuspendInv'
<1>1. ModesOK' /\ OwnMode(t)' = OwnMode(t) /\ OthersKeepModes(t)
  BY InvModes, DrainMode
<1>2. \A u \in Thread : OwnMode(u)' = OwnMode(u)
  BY <1>1, OthersKeepOwnMode
<1>3. /\ UNCHANGED <<pending, started, rendezvous, store, scan, todo>> /\ UNCHANGED flags
      /\ UNCHANGED abortVs /\ UNCHANGED gc /\ buffer[t] # <<>>
  BY DEF Drain
<1>4. /\ attempting' = attempting /\ abortEvt' = abortEvt /\ abortSet' = abortSet
      /\ trap' = trap /\ inProgress' = inProgress /\ gcDone' = gcDone
      /\ suspension' = suspension /\ gcLock' = gcLock /\ counted' = counted /\ Served' = Served
      /\ pending' = pending /\ started' = started /\ rendezvous' = rendezvous
      /\ store' = store /\ scan' = scan /\ todo' = todo
  BY <1>3 DEF abortVs, flags, gc, Served
<1>5. StateOK'
  <2>1. /\ coop' \in [Thread -> BOOLEAN]
        /\ buffer' \in [Thread -> Seq(BOOLEAN)]
        /\ \A u \in Thread : Len(buffer'[u]) <= BufferSize
    BY <1>1 DEF ModesOK
  <2> QED BY <1>4, <2>1, Zenon DEF SuspendInv, StateOK
<1>6. StacksFit'
  <2>1. \A u \in Thread : Mode(u)' = Mode(u) /\ Lock(u)' = Lock(u)
    BY <1>2, <1>4 DEF Mode, Lock
  <2> QED BY <1>4, <2>1 DEF SuspendInv, StacksFit
<1>7. NewUnlisted' /\ OneCollects' /\ AbortFits'
  BY <1>4 DEF SuspendInv, NewUnlisted, OneCollects, AbortFits
<1>8. FlagsFit'
  BY <1>4 DEF SuspendInv, FlagsFit
<1>9. CountsFit'
  BY <1>4 DEF SuspendInv, CountsFit, Asking
<1>10. WorldFits'
  BY <1>1, <1>3, <1>4 DEF SuspendInv, WorldFits, Rounded, OthersKeepModes
<1> QED BY <1>5, <1>6, <1>7, <1>8, <1>9, <1>10 DEF SuspendInv
-----------------------------------------------------------------------------
(* The start and the end of a thread.                                      *)

LEMMA LifetimeInv ==
  ASSUME SuspendInv, NEW t \in Thread, Lifetime(t)
  PROVE  SuspendInv'
<1> DEFINE k == Rest(todo[t])
<1>1. \A x : At(t, x) => StackOf(t, x, k)
  BY Stacks, InvModes
<1>2. \A x : StackOf(t, x, k) =>
         Row(x, k, Mode(t), Lock(t)) /\ Top(todo[t]) = x /\ Rest(todo[t]) = k
  BY DEF StackOf
<1>3. k = Rest(todo[t])
  OBVIOUS
<1> HIDE DEF k
<1>4. CASE HasStarted(t)
  <2>1. StackOf(t, "hasStarted", k)
    BY <1>1, <1>4 DEF HasStarted
  <2>2. k = Push("lockStore", Starting) /\ Lock(t) = "free"
    BY <1>2, <2>1 DEF Row
  <2>3. k \in Seq(Steps) /\ k # <<>> /\ Top(k) = "lockStore" /\ Rest(k) = Starting
    BY <2>2, Listed, PushTop DEF Steps
  <2>4. Goes(t, k)
    BY <1>3, <1>4, <2>3, InvModes, ThenNone DEF HasStarted
  <2>5. ModesOK' /\ OthersKeepModes(t) /\ Mode(t)' = "coop"
    BY <1>4, StoreMode, InvModes DEF HasStarted, Mode
  <2>6. UNCHANGED <<pending, started, flags, store, abortVs, scan, gc>> /\ rendezvous' \in BOOLEAN
    BY <1>4, GoesOn DEF HasStarted
  <2>7. Row(Top(k), Rest(k), "coop", "free")
    BY <2>3
       DEF Row, Trapped, Blocked, CoopSteps, Enabling, StoreSteps, LockedSteps,
           RestartSteps,
           LockConts
  <2>8. Keeps("hasStarted", k, k, "free") /\ Top(k) \notin Running \cup {"abortWait", "collide"}
    BY <2>3, Tops, PairTops
       DEF Keeps, Running, CoopSteps, IsNew, InGC, ToCollect, LockedSteps, RestartSteps,
           StoreSteps, Trapped, Blocked, Enabling
  <2> QED BY <2>1, <2>2, <2>4, <2>5, <2>6, <2>7, <2>8, QuietStep
<1>5. CASE FixAlloc(t)
  <2>1. StackOf(t, "fixAlloc", k)
    BY <1>1, <1>5 DEF FixAlloc
  <2>2. k = ToEnd /\ Lock(t) = "free" /\ Mode(t) = "coop"
    BY <1>2, <2>1 DEF Row, CoopSteps
  <2>3. k \in Seq(Steps) /\ k # <<>> /\ Top(k) = "store0" /\ Rest(k) = LockEnd
    BY <2>2, Listed, Tops
  <2>4. Goes(t, k)
    BY <1>3, <1>5, <2>3, InvModes, ThenNone DEF FixAlloc
  <2>5. /\ UNCHANGED <<pending, started, flags, store, abortVs, scan, gc>>
        /\ rendezvous' \in BOOLEAN /\ ModesOK' /\ OthersKeepModes(t) /\ Mode(t)' = Mode(t)
    BY <1>5, GoesOn, SameModes DEF FixAlloc
  <2>6. Row(Top(k), Rest(k), "coop", "free")
    BY <2>3
       DEF Row, Trapped, Blocked, CoopSteps, Enabling, StoreSteps, LockedSteps,
           RestartSteps,
           EnableConts
  <2>7. Keeps("fixAlloc", k, k, "free") /\ Top(k) \notin Running \cup {"abortWait", "collide"}
    BY <2>3, Tops, PairTops
       DEF Keeps, Running, CoopSteps, IsNew, InGC, ToCollect, LockedSteps, RestartSteps,
           StoreSteps, Trapped, Blocked, Enabling
  <2> QED BY <2>1, <2>2, <2>4, <2>5, <2>6, <2>7, QuietStep
<1>6. ASSUME Transfer(t) \/ Die(t) PROVE SuspendInv'
  <2>1. /\ StackOf(t, IF Transfer(t) THEN "transfer" ELSE "die", k)
        /\ Drained(t) /\ Then(t, <<>>)
        /\ UNCHANGED <<pending, flags, store, scan>> /\ rendezvous' = rendezvous
        /\ UNCHANGED abortVs /\ UNCHANGED gc
        /\ started' = IF Transfer(t) THEN started \cup {t} ELSE started \ {t}
    BY <1>1, <1>6 DEF Transfer, Die
  <2>2. /\ gcLock' = gcLock /\ counted' = counted /\ Served' = Served
        /\ attempting' = attempting /\ abortEvt' = abortEvt /\ abortSet' = abortSet
    BY <2>1 DEF gc, Served, abortVs
  <2>3. ModesOK' /\ OthersKeepModes(t) /\ Mode(t)' = Mode(t)
    BY <2>1, DrainedMode, InvModes DEF Mode
  <2>4. \E x \in {"transfer", "die"} :
          /\ StackOf(t, x, k) /\ Lock(t) = "held" /\ (x = "transfer" <=> Transfer(t))
          /\ k = (IF x = "transfer" THEN UnlockM ELSE UnlockU)
          /\ Mode(t) = (IF x = "transfer" THEN "coop" ELSE "preemptive")
    <3>1. CASE Transfer(t)
      BY <1>2, <2>1, <3>1 DEF Row
    <3>2. CASE ~Transfer(t)
      BY <1>2, <2>1, <3>2 DEF Row
    <3> QED BY <3>1, <3>2
  <2>5. PICK x \in {"transfer", "die"} :
          /\ StackOf(t, x, k) /\ Lock(t) = "held" /\ (x = "transfer" <=> Transfer(t))
          /\ k = (IF x = "transfer" THEN UnlockM ELSE UnlockU)
          /\ Mode(t) = (IF x = "transfer" THEN "coop" ELSE "preemptive")
    BY <2>4
  <2>6. /\ k \in Seq(Steps) /\ k # <<>> /\ Top(k) = "unlockStore"
        /\ Rest(k) = (IF x = "transfer" THEN Mgd ELSE Uns)
    BY <2>5, Listed, Tops
  <2>7. Goes(t, k) /\ Moved(t, k)
    BY <1>3, <2>1, <2>6, InvModes, ThenNone DEF Goes
  <2>8. Top(todo[t]) = x /\ Rest(todo[t]) = k
    BY <1>2, <2>5
  <2>9. Shape(k, Mode(t)', Lock(t))
    <3>1. Row("unlockStore", Rest(k), Mode(t), "held")
      BY <2>5, <2>6
         DEF Row, Trapped, Blocked, CoopSteps, Enabling, StoreSteps, LockedSteps,
             RestartSteps,
             AfterRestart
    <3> QED BY <2>3, <2>5, <2>6, <3>1 DEF Shape
  <2>10. /\ SameFlags(x, k, Top(k), Rest(k)) /\ ~IsStopped(Top(k), Rest(k))
         /\ Top(k) \notin Running \cup {"abortWait", "collide", "inspect", "pass", "passed"}
    BY <2>6 DEF Running, CoopSteps, SameFlags, IsTrap, IsProgress, IsOwned, IsReset, InSuspension,
                IsStopped, ToCollect
  <2>11. ~InGC(x, k) /\ ~InGC(Top(k), Rest(k))
    BY <2>6, Tops, PairTops
       DEF InGC, ToCollect, LockedSteps, RestartSteps, StoreSteps, Enabling
  <2>12. NewUnlisted'
    <3>1. t \notin started' => IsNew(Top(k), Rest(k))
      BY <2>1, <2>5, <2>6 DEF IsNew
    <3>2. \A u \in Thread \ {t} : u \in started' <=> u \in started
      BY <2>1
    <3> QED BY <2>7, <3>1, <3>2, FrameNew DEF SuspendInv
  <2>13. OneCollects'
    BY <2>2, <2>7, <2>8, <2>11, FrameGC DEF SuspendInv
  <2>14. CountsFit'
    <3>1. Contains(todo[t], "gcLock") => Contains(k, "gcLock")
      BY <2>7, <2>8 DEF Goes
    <3> QED BY <2>2, <2>7, <2>8, <3>1, FrameCounts DEF SuspendInv
  <2>15. AbortFits'
    BY <2>1, <2>7, <2>10, FrameAbort DEF SuspendInv
  <2>16. started' \subseteq Thread
    BY <2>1, Types
  <2> QED BY <2>1, <2>2, <2>3, <2>7, <2>8, <2>9, <2>10, <2>12, <2>13, <2>14, <2>15, <2>16,
             Types, LocalStep
<1> QED BY <1>4, <1>5, <1>6 DEF Lifetime

-----------------------------------------------------------------------------
(* The collection.                                                         *)

\* A step of a collection that changes gc_lock or the counts.
LEMMA GCStep ==
  ASSUME SuspendInv, NEW t \in Thread, NEW x, NEW k, StackOf(t, x, k), NEW r, Goes(t, r),
         ModesOK', OthersKeepModes(t), Mode(t)' = Mode(t),
         UNCHANGED <<pending, flags, store, scan>>, UNCHANGED abortVs,
         UNCHANGED <<started, rendezvous>>,
         gcLock' \in Thread \cup {NoThread}, counted' \subseteq Thread, Served' \subseteq Thread,
         Row(Top(r), Rest(r), Mode(t), Lock(t)),
         Lock(t) = "held" => /\ SameFlags(x, k, Top(r), Rest(r))
                             /\ Top(r) \notin {"inspect", "pass", "passed"}
                             /\ IsStopped(Top(r), Rest(r)) => IsStopped(x, k),
         Top(r) \in Running => /\ x \in Running
                               /\ coop[t] /\ buffer[t] = <<>> => coop'[t] /\ buffer'[t] = <<>>,
         ~IsNew(x, k), Top(r) \notin {"abortWait", "collide"},
         OneCollects', CountsFit'
  PROVE  SuspendInv'
<1>1. Top(todo[t]) = x /\ Rest(todo[t]) = k /\ Moved(t, r) /\ (store = t => Lock(t) = "held")
  BY DEF StackOf, Goes, Lock
<1>2. Shape(r, Mode(t)', Lock(t))
  BY DEF Shape, Goes, Moved
<1>3. attempting' = attempting /\ abortEvt' = abortEvt /\ abortSet' = abortSet
  BY DEF abortVs
<1>4. NewUnlisted'
  <2>1. t \in started'
    BY <1>1 DEF SuspendInv, NewUnlisted
  <2> QED BY <1>1, <2>1, FrameNew DEF SuspendInv
<1>5. AbortFits'
  BY <1>1, FrameAbort DEF SuspendInv
<1> QED BY <1>1, <1>2, <1>3, <1>4, <1>5, Types, LocalStep

\* Who asks still asks when t goes on, unless t gets gc_lock.
LEMMA StillAsking ==
  ASSUME NEW t \in Thread, NEW r, Goes(t, r), Top(todo[t]) # "gcLock"
  PROVE  Asking \subseteq Asking'
BY DEF Goes, Moved, Asking

\* Whoever has gc_lock is alone with it.
LEMMA AloneInGC ==
  ASSUME SuspendInv, NEW t \in Thread, gcLock = t \/ gcLock = NoThread,
         Top(todo[t]) # "gcMark"
  PROVE  /\ \A u \in Thread : Top(todo[u]) # "gcMark"
         /\ counted \subseteq Served
<1>1. \A u \in Thread : Top(todo[u]) = "gcMark" => gcLock = u
  BY DEF SuspendInv, OneCollects, InGC
<1>2. \A u \in Thread : Top(todo[u]) # "gcMark"
  BY <1>1, ThreadSuspendAssumption DEF ThreadSuspendAssumption
<1> QED BY <1>2 DEF SuspendInv, CountsFit

LEMMA GCCountInv ==
  ASSUME SuspendInv, NEW t \in Thread, GCCount(t)
  PROVE  SuspendInv'
<1> DEFINE k == Rest(todo[t])
<1>1. StackOf(t, "gcCount", k)
  BY Stacks, InvModes DEF GCCount
<1>2. k = Asks /\ Mode(t) = "coop" /\ Lock(t) = "free" /\ Top(todo[t]) = "gcCount"
  BY <1>1 DEF StackOf, Row, CoopSteps
<1>3. k \in Seq(Steps) /\ k # <<>> /\ Top(k) = "gcLock" /\ Rest(k) = Mgd
  BY <1>2, Listed, Tops
<1>4. Goes(t, k)
  BY <1>3, InvModes, ThenNone DEF GCCount
<1>5. ModesOK' /\ OthersKeepModes(t) /\ Mode(t)' = Mode(t) /\ coop' = coop /\ buffer' = buffer
  BY SameModes DEF GCCount
<1>6. /\ UNCHANGED <<pending, flags, store, scan>> /\ UNCHANGED abortVs
      /\ UNCHANGED <<started, rendezvous>> /\ gcLock' = gcLock
      /\ counted' = counted \ {t} /\ Served' = Served \ {t}
  BY DEF GCCount, Served
<1> HIDE DEF k
<1>7. Row(Top(k), Rest(k), Mode(t), Lock(t))
  BY <1>2, <1>3
     DEF Row, Trapped, Blocked, CoopSteps, Enabling, StoreSteps, LockedSteps, RestartSteps
<1>8. ~IsNew("gcCount", k) /\ ~InGC("gcCount", k) /\ ~InGC(Top(k), Rest(k))
      /\ "gcCount" \in Running
  BY <1>3 DEF IsNew, InGC, ToCollect, LockedSteps, RestartSteps, StoreSteps, Enabling,
     Trapped,
              Blocked, Running, CoopSteps
<1>9. OneCollects'
  BY <1>1, <1>4, <1>6, <1>8, FrameGC DEF SuspendInv, StackOf, Goes
<1>10. CountsFit'
  <2>1. Asking \subseteq Asking'
    BY <1>2, <1>4, StillAsking
  <2>2. (\A u \in Thread : Top(todo'[u]) # "gcMark") => \A u \in Thread : Top(todo[u]) # "gcMark"
    BY <1>2, <1>4 DEF Goes, Moved
  <2> QED BY <1>6, <2>1, <2>2 DEF SuspendInv, CountsFit
<1>11. gcLock' \in Thread \cup {NoThread} /\ counted' \subseteq Thread /\ Served' \subseteq Thread
  BY <1>6, Types
<1> QED BY <1>1, <1>2, <1>3, <1>4, <1>5, <1>6, <1>7, <1>8, <1>9, <1>10, <1>11, GCStep

LEMMA GCUpdateInv ==
  ASSUME SuspendInv, NEW t \in Thread, GCUpdate(t)
  PROVE  SuspendInv'
<1> DEFINE k == Rest(todo[t])
<1>1. StackOf(t, "gcUpdate", k)
  BY Stacks, InvModes DEF GCUpdate
<1>2. k = Marks /\ Mode(t) = "coop" /\ Lock(t) = "held" /\ Top(todo[t]) = "gcUpdate"
  BY <1>1 DEF StackOf, Row
<1>3. k \in Seq(Steps) /\ k # <<>> /\ Top(k) = "gcMark" /\ Rest(k) = CleanG
  BY <1>2, Listed, Tops
<1>4. Goes(t, k)
  BY <1>3, InvModes, ThenNone DEF GCUpdate
<1>5. ModesOK' /\ OthersKeepModes(t) /\ Mode(t)' = Mode(t) /\ coop' = coop /\ buffer' = buffer
  BY SameModes DEF GCUpdate
<1>6. /\ UNCHANGED <<pending, flags, store, scan>> /\ UNCHANGED abortVs
      /\ UNCHANGED <<started, rendezvous>> /\ gcLock' = gcLock
      /\ counted' = counted \cup Asking /\ Served' = Served
  BY DEF GCUpdate, Served
<1> HIDE DEF k
<1>7. Row(Top(k), Rest(k), Mode(t), Lock(t))
  BY <1>2, <1>3
     DEF Row, Trapped, Blocked, CoopSteps, Enabling, StoreSteps, LockedSteps, RestartSteps
<1>8. /\ ~IsNew("gcUpdate", k) /\ InGC("gcUpdate", k) /\ InGC(Top(k), Rest(k))
      /\ SameFlags("gcUpdate", k, Top(k), Rest(k)) /\ IsStopped("gcUpdate", k)
      /\ Top(k) \notin Running
  BY <1>3 DEF IsNew, InGC, StoreSteps, Enabling, Trapped, Blocked, Running, CoopSteps,
     SameFlags,
              IsTrap, IsProgress, IsOwned, IsReset, InSuspension, IsStopped
<1>9. OneCollects'
  BY <1>1, <1>4, <1>6, <1>8, FrameGC DEF SuspendInv, StackOf, Goes
<1>10. CountsFit'
  <2>1. Asking \subseteq Asking'
    BY <1>2, <1>4, StillAsking
  <2>2. Top(todo'[t]) = "gcMark"
    BY <1>3, <1>4 DEF Goes, Moved
  <2> QED BY <1>6, <2>1, <2>2 DEF SuspendInv, CountsFit
<1>11. gcLock' \in Thread \cup {NoThread} /\ counted' \subseteq Thread /\ Served' \subseteq Thread
  BY <1>6, Types DEF Asking
<1> QED BY <1>1, <1>2, <1>3, <1>4, <1>5, <1>6, <1>7, <1>8, <1>9, <1>10, <1>11, GCStep

LEMMA GCMarkInv ==
  ASSUME SuspendInv, NEW t \in Thread, GCMark(t)
  PROVE  SuspendInv'
<1> DEFINE k == Rest(todo[t])
<1>1. StackOf(t, "gcMark", k)
  BY Stacks, InvModes DEF GCMark
<1>2. k = CleanG /\ Mode(t) = "coop" /\ Lock(t) = "held" /\ Top(todo[t]) = "gcMark"
  BY <1>1 DEF StackOf, Row
<1>3. k \in Seq(Steps) /\ k # <<>> /\ Top(k) = "cleanUp" /\ Rest(k) = Leaves
  BY <1>2, Listed, Tops
<1>4. Goes(t, k)
  BY <1>3, InvModes, ThenNone DEF GCMark
<1>5. ModesOK' /\ OthersKeepModes(t) /\ Mode(t)' = Mode(t) /\ coop' = coop /\ buffer' = buffer
  BY SameModes DEF GCMark
<1>6. /\ UNCHANGED <<pending, flags, store, scan>> /\ UNCHANGED abortVs
      /\ UNCHANGED <<started, rendezvous>> /\ gcLock' = gcLock
      /\ counted' = counted /\ Served' = Served \cup Asking
  BY DEF GCMark, Served
<1> HIDE DEF k
<1>7. Row(Top(k), Rest(k), Mode(t), Lock(t))
  BY <1>2, <1>3
     DEF Row, Trapped, Blocked, CoopSteps, Enabling, StoreSteps, LockedSteps, RestartSteps,
         AfterRestart
<1>8. /\ ~IsNew("gcMark", k) /\ InGC("gcMark", k) /\ InGC(Top(k), Rest(k))
      /\ SameFlags("gcMark", k, Top(k), Rest(k)) /\ IsStopped("gcMark", k)
      /\ Top(k) \notin Running
  BY <1>3 DEF IsNew, InGC, StoreSteps, Enabling, Trapped, Blocked, Running, CoopSteps,
     SameFlags,
              IsTrap, IsProgress, IsOwned, IsReset, InSuspension, IsStopped, RestartSteps
<1>9. OneCollects'
  BY <1>1, <1>4, <1>6, <1>8, FrameGC DEF SuspendInv, StackOf, Goes
<1>10. CountsFit'
  BY <1>6 DEF SuspendInv, CountsFit
<1>11. gcLock' \in Thread \cup {NoThread} /\ counted' \subseteq Thread /\ Served' \subseteq Thread
  BY <1>6, Types DEF Asking
<1> QED BY <1>1, <1>2, <1>3, <1>4, <1>5, <1>6, <1>7, <1>8, <1>9, <1>10, <1>11, GCStep

LEMMA GCLeaveInv ==
  ASSUME SuspendInv, NEW t \in Thread, GCLeave(t)
  PROVE  SuspendInv'
<1> DEFINE k == Rest(todo[t])
<1>1. StackOf(t, "gcLeave", k)
  BY Stacks, InvModes DEF GCLeave
<1>2. k = Mgd /\ Mode(t) = "coop" /\ Lock(t) = "free" /\ Top(todo[t]) = "gcLeave"
  BY <1>1 DEF StackOf, Row
<1>3. k \in Seq(Steps) /\ k # <<>> /\ Top(k) = "managed" /\ Rest(k) = <<>>
  BY <1>2, Listed, Tops
<1>4. Goes(t, k)
  BY <1>3, InvModes, ThenNone DEF GCLeave
<1>5. ModesOK' /\ OthersKeepModes(t) /\ Mode(t)' = Mode(t) /\ coop' = coop /\ buffer' = buffer
  BY SameModes DEF GCLeave
<1>6. /\ UNCHANGED <<pending, flags, store, scan>> /\ UNCHANGED abortVs
      /\ UNCHANGED <<started, rendezvous>> /\ gcLock' = NoThread
      /\ counted' = counted \ {t} /\ Served' = Served \ {t}
  BY DEF GCLeave, Served
<1> HIDE DEF k
<1>7. Row(Top(k), Rest(k), Mode(t), Lock(t))
  BY <1>2, <1>3
     DEF Row, Trapped, Blocked, CoopSteps, Enabling, StoreSteps, LockedSteps, RestartSteps
<1>8. /\ ~IsNew("gcLeave", k) /\ InGC("gcLeave", k) /\ ~InGC(Top(k), Rest(k))
      /\ "gcLeave" \in Running
  BY <1>3 DEF IsNew, InGC, ToCollect, LockedSteps, RestartSteps, StoreSteps, Enabling,
     Trapped,
              Blocked, Running
<1>9. todo'[t] = k /\ \A u \in Thread \ {t} : todo'[u] = todo[u]
  BY <1>4 DEF Goes, Moved
<1>10. gcLock = t /\ \A u \in Thread : u # NoThread
  BY <1>1, <1>8, ThreadSuspendAssumption
     DEF SuspendInv, OneCollects, StackOf, ThreadSuspendAssumption
<1>11. OneCollects'
  BY <1>6, <1>8, <1>9, <1>10 DEF SuspendInv, OneCollects
<1>12. CountsFit'
  <2>1. counted \subseteq Served
    BY <1>2, <1>10, AloneInGC
  <2> QED BY <1>6, <2>1 DEF CountsFit
<1>13. gcLock' \in Thread \cup {NoThread} /\ counted' \subseteq Thread /\ Served' \subseteq Thread
  BY <1>6, Types
<1> QED BY <1>1, <1>2, <1>3, <1>4, <1>5, <1>6, <1>7, <1>8, <1>11, <1>12, <1>13, GCStep

LEMMA GCLockInv ==
  ASSUME SuspendInv, NEW t \in Thread, GCLock(t)
  PROVE  SuspendInv'
<1> DEFINE k == Rest(todo[t])
<1>1. StackOf(t, "gcLock", k)
  BY Stacks, InvModes DEF GCLock
<1>2. k = Mgd /\ Mode(t) = "coop" /\ Lock(t) = "free" /\ Top(todo[t]) = "gcLock"
  BY <1>1 DEF StackOf, Row, CoopSteps
<1>3. k \in Seq(Steps) /\ k = Rest(todo[t])
  BY <1>1 DEF StackOf
<1>4. /\ UNCHANGED <<pending, flags, store, scan>> /\ UNCHANGED abortVs
      /\ UNCHANGED <<started, rendezvous>> /\ counted' = counted /\ Served' = Served
      /\ marked' = marked /\ spared' = spared
  BY DEF GCLock, Served
<1>5. {"gcCheck", "store0", "store1", "gcLock"} \subseteq Steps
  BY DEF Steps, CoopSteps
<1>6. CASE gcLock = NoThread /\ gcLock' = t /\ Drained(t) /\ Then(t, <<"gcCheck">>)
  <2> DEFINE r == Push("gcCheck", k)
  <2>1. Goes(t, r) /\ Top(r) = "gcCheck" /\ Rest(r) = k
    BY <1>3, <1>5, <1>6, InvModes, ThenOne DEF Is
  <2> HIDE DEF k, r
  <2>2. ModesOK' /\ OthersKeepModes(t) /\ OwnMode(t)' = OwnMode(t)
    BY <1>6, InvModes, DrainedMode
  <2>3. Mode(t)' = Mode(t)
    BY <2>2 DEF Mode
  <2>4. coop[t] /\ buffer[t] = <<>> => coop'[t] /\ buffer'[t] = <<>>
    BY <1>6, InvModes DEF Drained, ModesOK, OwnMode
  <2>5. Row("gcCheck", k, Mode(t), Lock(t))
    BY <1>2 DEF Row, Trapped, Blocked, CoopSteps, Enabling, StoreSteps, LockedSteps,
       RestartSteps
  <2>6. ~IsNew("gcLock", k) /\ InGC("gcCheck", k) /\ "gcLock" \in Running
    BY DEF IsNew, InGC, StoreSteps, Enabling, Trapped, Blocked, Running, CoopSteps
  <2>7. todo'[t] = r /\ \A u \in Thread \ {t} : todo'[u] = todo[u]
    BY <2>1 DEF Goes, Moved
  <2>8. OneCollects'
    <3>1. \A u \in Thread : ~InGC(Top(todo[u]), Rest(todo[u]))
      BY <1>6, ThreadSuspendAssumption DEF SuspendInv, OneCollects, ThreadSuspendAssumption
    <3> QED BY <1>6, <2>1, <2>6, <2>7, <3>1 DEF OneCollects
  <2>9. CountsFit'
    <3>1. counted \subseteq Served
      BY <1>2, <1>6, AloneInGC
    <3> QED BY <1>4, <3>1 DEF CountsFit
  <2>10. gcLock' \in Thread \cup {NoThread} /\ counted' \subseteq Thread /\ Served' \subseteq Thread
    BY <1>4, <1>6, Types
  <2> QED BY <1>1, <1>2, <1>4, <2>1, <2>2, <2>3, <2>4, <2>5, <2>6, <2>8, <2>9, <2>10, GCStep
<1>7. CASE gcLock # NoThread /\ Then(t, Enable \o Disable \o <<"gcLock">>)
           /\ UNCHANGED <<modes, gcLock>>
  <2> DEFINE j == Push("store1", Asks)
             r == Push("store0", j)
  <2>1. Then(t, (<<"store0">> \o <<"store1">>) \o <<"gcLock">>)
    BY <1>7, Zenon DEF Enable, Disable
  <2>2. Push("gcLock", k) = Asks
    BY <1>2 DEF Asks
  <2>3. Goes(t, r) /\ Is(r, "store0", j) /\ Is(j, "store1", Asks)
    <3>1. "store0" \in Steps /\ "store1" \in Steps /\ "gcLock" \in Steps
      BY <1>5
    <3>2. /\ Goes(t, Push("store0", Push("store1", Push("gcLock", k))))
          /\ Is(Push("store0", Push("store1", Push("gcLock", k))), "store0",
                Push("store1", Push("gcLock", k)))
          /\ Is(Push("store1", Push("gcLock", k)), "store1", Push("gcLock", k))
      BY <1>3, <2>1, <3>1, InvModes, ThenThree, Zenon
    <3> QED BY <2>2, <3>2, Zenon
  <2>4. Contains(r, "gcLock")
    <3>1. Asks \in Seq(Steps) /\ Asks # <<>> /\ Head(Asks) = "gcLock"
      BY Named DEF Is, Top
    <3>2. Contains(Asks, "gcLock")
      <4>1. 1 \in 1..Len(Asks) /\ Asks[1] = "gcLock"
        BY <3>1
      <4> QED BY <4>1 DEF Contains
    <3>3. <<"store0">> \in Seq(Steps) /\ <<"store1">> \in Seq(Steps)
      BY <1>5
    <3>4. Contains(j, "gcLock") /\ j \in Seq(Steps)
      BY <2>3, <3>1, <3>2, <3>3, ContainsPush DEF Push, Is
    <3> QED BY <3>3, <3>4, ContainsPush DEF Push
  <2>5. ModesOK' /\ OthersKeepModes(t) /\ Mode(t)' = Mode(t)
    BY <1>7, SameModes
  <2>6. /\ UNCHANGED <<pending, started, flags, store, abortVs, scan, gc>>
        /\ rendezvous' \in BOOLEAN
    <3>1. rendezvous' \in BOOLEAN
      BY <1>4, Types, Zenon
    <3> QED BY <1>4, <1>7, <3>1 DEF gc
  <2>7. Top(r) = "store0" /\ Rest(r) = j /\ Top(j) = "store1" /\ Rest(j) = Asks
        /\ r \in Seq(Steps) /\ Moved(t, r)
    BY <2>3 DEF Is, Goes
  <2>8. j \in EnableConts
    BY DEF EnableConts, DisableFree
  <2> HIDE DEF k, j, r
  <2>9. Row("store0", j, "coop", "free")
    BY <2>8 DEF Row, Trapped, Blocked, CoopSteps, Enabling, StoreSteps, LockedSteps,
       RestartSteps
  <2>10. j # Push("suspendEE", ThenCollect)
    BY <2>7, PairTops
  <2>11. Keeps("gcLock", k, r, "free") /\ Top(r) \notin Running \cup {"abortWait", "collide"}
    BY <2>7, <2>10
       DEF Keeps, Running, CoopSteps, IsNew, InGC, ToCollect, LockedSteps, RestartSteps,
           StoreSteps, Trapped, Blocked, Enabling
  <2>12. Shape(r, Mode(t)', Lock(t))
    BY <1>2, <2>5, <2>7, <2>9 DEF Shape, Moved
  <2> QED BY <1>2, <1>3, <2>4, <2>5, <2>6, <2>7, <2>11, <2>12, Quiet
<1> QED BY <1>6, <1>7 DEF GCLock

LEMMA GCCheckInv ==
  ASSUME SuspendInv, NEW t \in Thread, GCCheck(t)
  PROVE  SuspendInv'
<1> DEFINE k == Rest(todo[t])
           run == Enable \o <<"suspendEE">> \o Disable
                    \o <<"gcUpdate", "gcMark", "cleanUp", "gcLeave">>
<1>1. StackOf(t, "gcCheck", k)
  BY Stacks, InvModes DEF GCCheck
<1>2. k = Mgd /\ Mode(t) = "coop" /\ Lock(t) = "free" /\ Top(todo[t]) = "gcCheck"
  BY <1>1 DEF StackOf, Row, CoopSteps
<1>3. k \in Seq(Steps) /\ k = Rest(todo[t])
  BY <1>1 DEF StackOf
<1>4. /\ UNCHANGED <<pending, started, flags, store, abortVs, scan, gc>>
      /\ rendezvous' \in BOOLEAN
  BY GoesOn DEF GCCheck
<1>5. ModesOK' /\ OthersKeepModes(t) /\ Mode(t)' = Mode(t) /\ coop' = coop /\ buffer' = buffer
  BY SameModes DEF GCCheck
<1>6. {"gcLeave", "store0", "suspendEE"} \subseteq Steps
  BY DEF Steps
<1>7. CASE t \in counted
  <2> DEFINE r == Push("gcLeave", k)
  <2>1. Then(t, <<"gcLeave">>)
    BY <1>7, Zenon DEF GCCheck
  <2>2. Goes(t, r) /\ Top(r) = "gcLeave" /\ Rest(r) = k
    BY <1>3, <1>6, <2>1, InvModes, ThenOne DEF Is
  <2> HIDE DEF k, r
  <2>3. Row("gcLeave", k, Mode(t), Lock(t))
    BY <1>2 DEF Row, Trapped, Blocked, CoopSteps, Enabling, StoreSteps, LockedSteps,
       RestartSteps
  <2>4. Keeps("gcCheck", k, r, "free") /\ "gcCheck" \in Running
    BY <2>2
       DEF Keeps, Running, CoopSteps, IsNew, InGC, ToCollect, LockedSteps, RestartSteps,
           StoreSteps, Trapped, Blocked, Enabling
  <2>5. Shape(r, Mode(t)', Lock(t)) /\ Moved(t, r)
    BY <1>5, <2>2, <2>3 DEF Shape, Goes, Moved
  <2>6. Contains(todo[t], "gcLock") => Contains(r, "gcLock")
    BY <1>2, <2>2 DEF Goes
  <2> QED BY <1>2, <1>3, <1>4, <1>5, <2>2, <2>4, <2>5, <2>6, Quiet
<1>8. CASE t \notin counted
  <2> DEFINE j == Push("suspendEE", ThenCollect)
             r == Push("store0", j)
  <2>1. Then(t, run)
    BY <1>8, Zenon DEF GCCheck
  <2>2. run \in Seq(Steps) /\ run \o k = r
    BY <1>2, CollectionLiteral, Zenon
  <2>3. j \in Seq(Steps)
    BY PairTops
  <2>4. r \in Seq(Steps) /\ r # <<>> /\ Top(r) = "store0" /\ Rest(r) = j
    BY <1>6, <2>3, PushTop
  <2> HIDE DEF run, r
  <2>5. Goes(t, r)
    BY <1>3, <2>1, <2>2, <2>4, InvModes, Pushes DEF Goes
  <2>6. j \in EnableConts
    BY DEF EnableConts
  <2> HIDE DEF k
  <2>7. Row("store0", j, Mode(t)', Lock(t))
    BY <1>2, <1>5, <2>6
       DEF Row, Trapped, Blocked, CoopSteps, Enabling, StoreSteps, LockedSteps, RestartSteps
  <2>8. Keeps("gcCheck", k, r, "free") /\ Top(r) \notin Running \cup {"abortWait", "collide"}
    BY <2>4
       DEF Keeps, Running, CoopSteps, IsNew, InGC, ToCollect, LockedSteps, RestartSteps,
           StoreSteps, Trapped, Blocked, Enabling
  <2> QED BY <1>1, <1>2, <1>4, <1>5, <2>4, <2>5, <2>7, <2>8, QuietStep
<1> QED BY <1>7, <1>8

LEMMA CollectingInv ==
  ASSUME SuspendInv, NEW t \in Thread, Collecting(t)
  PROVE  SuspendInv'
<1>1. CASE StartedNoGCRegion(t)
  BY <1>1, Untouched DEF StartedNoGCRegion, RegionOnly, core
<1> QED BY <1>1, GCCountInv, GCLockInv, GCCheckInv, GCUpdateInv, GCMarkInv, GCLeaveInv
        DEF Collecting

-----------------------------------------------------------------------------
(* The invariant.                                                          *)

LEMMA NextInv ==
  ASSUME SuspendInv, [Next]_vars
  PROVE  SuspendInv'
<1>1. CASE UNCHANGED vars
  BY <1>1, Untouched DEF vars, core
<1>2. ASSUME NEW t \in Thread, Moves(t) PROVE SuspendInv'
  BY <1>2, ModeSwitchInv, StoreLockInv, SuspendingInv, RestartingInv, CollectingInv,
     LifetimeInv, BeginInv, DrainInv DEF Moves, Step
<1> QED BY <1>1, <1>2 DEF Next

LEMMA InitInv ==
  ASSUME Init
  PROVE  SuspendInv
<1>1. StateOK
  <2>1. <<"unstarted">> \in Seq(Steps) /\ <<"native">> \in Seq(Steps)
    BY DEF Steps
  <2>2. <<>> \in Seq(BOOLEAN) /\ Len(<<>>) <= BufferSize
    BY ThreadSuspendAssumption DEF ThreadSuspendAssumption
  <2>3. todo \in [Thread -> Seq(Steps)] /\ \A t \in Thread : todo[t] # <<>>
    BY <2>1 DEF Init
  <2>4. {inProgress, gcDone, rendezvous, abortSet} \subseteq BOOLEAN
    BY Zenon DEF Init
  <2>5. buffer \in [Thread -> Seq(BOOLEAN)] /\ \A t \in Thread : Len(buffer[t]) <= BufferSize
    BY <2>2 DEF Init
  <2> QED BY <2>3, <2>4, <2>5, ThreadSuspendAssumption DEF Init, StateOK, Served,
             ThreadSuspendAssumption
<1>2. ASSUME NEW t \in Thread
      PROVE  /\ Mode(t) = "preemptive" /\ Lock(t) = "free"
             /\ todo[t] \in Seq(Steps) /\ todo[t] # <<>> /\ Rest(todo[t]) = <<>>
             /\ Top(todo[t]) \in {"unstarted", "native"}
             /\ t \notin started => Top(todo[t]) = "unstarted"
             /\ t # NoThread
  <2>1. Mode(t) = "preemptive" /\ Lock(t) = "free" /\ t # NoThread
    BY ThreadSuspendAssumption DEF Init, Mode, OwnMode, Lock, ThreadSuspendAssumption
  <2>2. todo[t] = IF t \in Mortals THEN Uns ELSE Ntv
    BY Ends DEF Init
  <2>3. t \notin started => t \in Mortals
    BY DEF Init
  <2> QED BY <2>1, <2>2, <2>3, Named DEF Is
<1>3. StacksFit
  <2>1. ASSUME NEW t \in Thread
        PROVE  Row(Top(todo[t]), Rest(todo[t]), "preemptive", "free")
    BY <1>2
       DEF Row, Trapped, Blocked, CoopSteps, Enabling, StoreSteps, LockedSteps, RestartSteps
  <2> QED BY <1>2, <2>1 DEF StacksFit, Shape
<1>4. NewUnlisted
  BY <1>2 DEF NewUnlisted, IsNew
<1>5. FlagsFit /\ WorldFits
  BY <1>2 DEF Init, FlagsFit, WorldFits
<1>6. OneCollects
  BY <1>2 DEF Init, OneCollects, InGC, ToCollect, LockedSteps, RestartSteps, StoreSteps,
     Enabling
<1>7. CountsFit /\ AbortFits
  BY <1>2 DEF Init, CountsFit, AbortFits, Served
<1> QED BY <1>1, <1>3, <1>4, <1>5, <1>6, <1>7 DEF SuspendInv

\* The invariant holds in every state of the specification: each thread is in the
\* mode and has the locks that its place in DisablePreemptiveGC, LockThreadStore,
\* SuspendEE and RestartEE calls for, the flags of the suspension are those of the
\* thread that holds the thread store, and whoever still runs managed code is
\* marked or about to be looked at.
THEOREM SuspendInvariant == Spec => []SuspendInv
<1>1. Init => SuspendInv
  BY InitInv
<1>2. SuspendInv /\ [Next]_vars => SuspendInv'
  BY NextInv
<1> QED BY <1>1, <1>2, PTL DEF Spec

\* No step but these touches the no-GC region.
LEMMA RegionKept ==
  ASSUME NEW t \in Thread, Moves(t)
  PROVE  \/ UNCHANGED noGC \/ GCUpdate(t) \/ GCMark(t)
         \/ StartNoGCRegion(t) \/ StartedNoGCRegion(t) \/ EndNoGCRegion(t)
<1>1. CASE ModeSwitch(t) \/ Drain(t) \/ PulseGCMode(t)
  BY <1>1 DEF ModeSwitch, Drain, PulseGCMode, Call, GoOn, Store1, CheckTrap, RareDisable,
              UntilGCComplete, WaitGC, Recoop, Again, Store0, Catch, RareEnable, Signal
<1>2. CASE StoreLock(t) \/ Lifetime(t)
  BY <1>2 DEF StoreLock, Lifetime, GoOn, LockStore, CheckAbort, ReadAbortEvt, AbortWait,
              EnterStore, UnlockStore, HasStarted, Transfer, FixAlloc, Die
<1>3. CASE Suspending(t)
  BY <1>3 DEF Suspending, GoOn, SuspendEE, Nudge, Locked, Announce, Remember, TrapOn,
              ProgressOn, Flush, Inspect, Pass, Rendezvoused, GiveUp, WaitRendezvous,
              Collide, Retry, Work
<1>4. CASE Restarting(t) \/ Collecting(t)
  BY <1>4 DEF Restarting, CleanUp, ProgressOff, TrapOff, Forget, Wake, Collecting, GoOn,
              GCCount, GCLock, GCCheck, GCLeave
<1>5. CASE Begin(t)
  BY <1>5 DEF Begin, Call, ReturnToManaged, CallNative, SuspendOther, Start, Terminate,
              Collect
<1> QED BY <1>1, <1>2, <1>3, <1>4, <1>5 DEF Moves, Step

\* The types of the state: no thread's stack of calls runs empty, no store buffer
\* overflows, g_TrapReturningThreads stays within 0 and 1, and a no-GC region is in
\* one of its states.
THEOREM SuspendTypes == Spec => []TypeOK
<1>1. Init => RegionOK
  <2>1. ASSUME Init PROVE noMemory \in BOOLEAN /\ proceed \in BOOLEAN
    BY <2>1, Zenon DEF Init
  <2> QED BY <2>1 DEF Init, RegionOK, Regions
<1>2. RegionOK /\ [Next]_vars => RegionOK'
  <2> SUFFICES ASSUME RegionOK, [Next]_vars PROVE RegionOK'
    OBVIOUS
  <2>1. ASSUME UNCHANGED noGC PROVE RegionOK'
    BY <2>1 DEF RegionOK, noGC
  <2>2. ASSUME NEW t \in Thread, GCUpdate(t) PROVE RegionOK'
    <3>1. noMemory' \in BOOLEAN /\ proceed' \in BOOLEAN
      BY <2>2, Zenon DEF GCUpdate, ShouldProceed, RegionOK
    <3> QED BY <2>2, <3>1 DEF GCUpdate, ShouldProceed, RegionOK, Regions
  <2>3. ASSUME NEW t \in Thread, GCMark(t) PROVE RegionOK'
    <3>1. noMemory' \in BOOLEAN /\ proceed' \in BOOLEAN
      BY <2>3, Zenon DEF GCMark, AllocateForNoGC, RegionOK
    <3> QED BY <2>3, <3>1 DEF GCMark, AllocateForNoGC, RegionOK, Regions
  <2>4. ASSUME NEW t \in Thread,
               StartNoGCRegion(t) \/ StartedNoGCRegion(t) \/ EndNoGCRegion(t)
        PROVE  RegionOK'
    <3>1. noMemory' \in BOOLEAN /\ proceed' \in BOOLEAN
      BY <2>4, Zenon DEF StartNoGCRegion, StartedNoGCRegion, EndNoGCRegion, RegionOnly,
                         RegionOK
    <3> QED BY <2>4, <3>1 DEF StartNoGCRegion, StartedNoGCRegion, EndNoGCRegion, RegionOnly,
                              RegionOK, Regions
  <2>5. CASE UNCHANGED vars
    BY <2>1, <2>5 DEF vars
  <2>6. ASSUME NEW t \in Thread, Moves(t) PROVE RegionOK'
    BY <2>1, <2>2, <2>3, <2>4, <2>6, RegionKept
  <2> QED BY <2>5, <2>6 DEF Next
<1>3. SuspendInv /\ RegionOK => TypeOK
  BY DEF SuspendInv, TypeOK
<1> QED BY <1>1, <1>2, <1>3, SuspendInvariant, PTL DEF Spec

LEMMA StopsTheWorld ==
  ASSUME SuspendInv
  PROVE  StopTheWorld
<1> SUFFICES ASSUME NEW s \in Thread, NEW t \in Thread, Stopped(s), t # s
             PROVE  ~InManaged(t)
  BY DEF StopTheWorld
<1> DEFINE x == Top(todo[s])
           k == Rest(todo[s])
<1>1. StackOf(s, x, k)
  BY Stacks, InvModes DEF At, Top
<1>2. x \in {"work", "gcMark", "cleanUp", "progressOff"}
  BY DEF Stopped, Top
<1>3. Row(x, k, Mode(s), Lock(s)) /\ k \in Seq(Steps)
  BY <1>1 DEF StackOf
<1> HIDE DEF x, k
<1>4. Lock(s) = "held" /\ (x \in {"cleanUp", "progressOff"} => k \in AfterRestart(Mode(s)))
  BY <1>2, <1>3 DEF Row, RestartSteps
<1>5. store = s
  BY <1>4 DEF Lock
<1>6. IsStopped(x, k)
  <2>1. ASSUME x \in {"cleanUp", "progressOff"}, Top(k) = "retry"
        PROVE  Contains(todo[s], "retry")
    <3>1. k # <<>>
      BY <1>4, <2>1, Locks, RestartShape DEF Shape
    <3>2. todo[s] \in Seq(Steps) /\ todo[s] # <<>>
      BY InvModes DEF StateOK
    <3>3. k = Tail(todo[s]) /\ Head(k) = "retry"
      BY <2>1 DEF k, Rest, Top
    <3>4. 2 \in 1..Len(todo[s]) /\ todo[s][2] = "retry"
      BY <1>3, <3>1, <3>2, <3>3
    <3> QED BY <3>4 DEF Contains
  <2>2. x = Head(todo[s])
    BY DEF x, Top
  <2> QED BY <1>2, <2>1, <2>2 DEF Stopped, IsStopped
<1>7. Top(todo[t]) \notin Running
  BY <1>5, <1>6 DEF SuspendInv, WorldFits, Rounded, x, k
<1> QED BY <1>7 DEF InManaged, Running, Top

\* Between the return of SuspendEE and the moment RestartEE lets the others go, no
\* other thread runs cooperatively: for any number of threads, whatever the store
\* buffers hid from SuspendRuntime, whichever suspensions collided before, and
\* whoever starts or ends meanwhile.
THEOREM StopTheWorldHolds == Spec => []StopTheWorld
BY SuspendInvariant, StopsTheWorld, PTL

\* A thread that runs managed code is one GetThreadList returns: HasStarted lists
\* it under the thread store lock first, and OnThreadTerminate leaves cooperative
\* mode before the thread is marked dead.
THEOREM ListedWhenManagedHolds == Spec => []ListedWhenManaged
<1>1. SuspendInv => ListedWhenManaged
  BY RunningModes DEF ListedWhenManaged, InManaged, Running, Top
<1> QED BY <1>1, SuspendInvariant, PTL

\* GarbageCollectGeneration gives a request up only when, since it was made, a
\* collection has marked the heap or memory for a no-GC region has been set up: the
\* counts change with the world stopped, and nobody gets gc_lock between the change
\* and the marking.
THEOREM RequestHonouredHolds == Spec => []RequestHonoured
<1>1. ASSUME SuspendInv, NEW t \in Thread, At(t, "gcCheck"), t \in counted
      PROVE  t \in Served
  <2>1. Top(todo[t]) = "gcCheck"
    BY <1>1 DEF At, Top
  <2>2. gcLock = t
    BY <1>1, <2>1 DEF SuspendInv, OneCollects, InGC
  <2> QED BY <1>1, <2>1, <2>2, AloneInGC
<1>2. SuspendInv => RequestHonoured
  BY <1>1 DEF RequestHonoured
<1> QED BY <1>2, SuspendInvariant, PTL

\* Whoever waits for WaitForGCEvent while it is reset waits for a suspension that
\* is under way and that holds the thread store lock: the event will be set.
THEOREM WaiterWillBeWokenHolds == Spec => []WaiterWillBeWoken
<1>1. SuspendInv => WaiterWillBeWoken
  <2> SUFFICES ASSUME SuspendInv, ~gcDone
               PROVE  /\ store # NoThread
                      /\ suspension = store \/ At(store, "remember") \/ At(store, "wake")
    BY DEF WaiterWillBeWoken
  <2>1. store \in Thread
    BY Types DEF SuspendInv, FlagsFit
  <2>2. IsReset(Top(todo[store]), Rest(todo[store]))
    BY <2>1 DEF SuspendInv, FlagsFit
  <2>3. IsOwned(Top(todo[store]), Rest(todo[store])) => suspension = store
    BY <2>1 DEF SuspendInv, FlagsFit
  <2>4. store # NoThread
    BY <2>1, ThreadSuspendAssumption DEF ThreadSuspendAssumption
  <2> QED BY <2>2, <2>3, <2>4 DEF IsReset, At, Top
<1> QED BY <1>1, SuspendInvariant, PTL

\* Whoever gave way to a collection in LockThreadStore and waits for the event of
\* the collision waits for a collection that is on its way to set it.
THEOREM AborterWillBeWokenHolds == Spec => []AborterWillBeWoken
<1>1. SuspendInv => AborterWillBeWoken
  <2> SUFFICES ASSUME SuspendInv, NEW t \in Thread, At(t, "abortWait"), ~abortSet
               PROVE  attempting # NoThread
    BY DEF AborterWillBeWoken
  <2>1. Top(todo[t]) = "abortWait"
    BY DEF At, Top
  <2>2. abortEvt # "none" /\ abortEvt # "idle"
    BY <2>1 DEF SuspendInv, AbortFits
  <2> QED BY <2>2, Types DEF SuspendInv, AbortFits
<1> QED BY <1>1, SuspendInvariant, PTL
==============================================================================
