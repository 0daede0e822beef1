-------------------------- MODULE ThreadPoolProofs ---------------------------
(***************************************************************************)
(* Proofs about the runtime's half of the thread pool, for every finite    *)
(* set of workers and every bound: the counts are what the threads do      *)
(* (CountsMatch), and no request is left without a worker (RequestServed)  *)
(* or without the gate thread (GateWatches).                               *)
(*                                                                         *)
(* The argument goes from the stack of one thread (Row) to how the number  *)
(* of threads in each group of steps changes when one stack is replaced    *)
(* (CountMove), and from there to the counts (Balances).  PoolInv adds who *)
(* keeps a request alive: a thread counted as working, or one that has yet *)
(* to look for work or to add a worker (Served); somebody who has yet to   *)
(* ask for the gate thread, or its status (Watched).                       *)
(*                                                                         *)
(* At the end, what WorkQueueProofs proves of the managed half and         *)
(* WorkStealingQueueProofs of the local queue, for the system that TLC     *)
(* checks in the run ThreadPool: each part there is next to others that    *)
(* never touch it.                                                         *)
(***************************************************************************)
EXTENDS MCThreadPool, FiniteSetTheorems, SequenceTheorems, TLAPS

-----------------------------------------------------------------------------
(* Stacks of steps.                                                        *)

Push(x, k) == <<x>> \o k
On(x)      == Push(x, << >>)

\* One of these steps is on the stack s.
Has(s, L) == \E i \in DOMAIN s : s[i] \in L

\* A stack with one more step is a stack with this next step.
LEMMA PushFacts ==
  ASSUME NEW x \in Steps, NEW k \in Seq(Steps)
  PROVE  /\ Push(x, k) \in Seq(Steps) /\ Push(x, k) # << >>
         /\ Head(Push(x, k)) = x /\ Tail(Push(x, k)) = k
BY DEF Push

\* A step is on a stack if it is the next one or one of the rest.
LEMMA StackHas ==
  ASSUME NEW s \in Seq(Steps), s # << >>, NEW L
  PROVE  Has(s, L) <=> Head(s) \in L \/ Has(Tail(s), L)
<1>1. ASSUME NEW i \in DOMAIN s, s[i] \in L
      PROVE  Head(s) \in L \/ Has(Tail(s), L)
  <2>1. CASE i = 1
    BY <1>1, <2>1
  <2>2. CASE i # 1
    <3>1. i - 1 \in DOMAIN Tail(s) /\ Tail(s)[i - 1] = s[i]
      BY <2>2
    <3> QED BY <1>1, <3>1 DEF Has
  <2> QED BY <2>1, <2>2
<1>2. Head(s) = s[1] /\ 1 \in DOMAIN s
  OBVIOUS
<1>3. ASSUME NEW i \in DOMAIN Tail(s), Tail(s)[i] \in L
      PROVE  Has(s, L)
  <2>1. i + 1 \in DOMAIN s /\ s[i + 1] = Tail(s)[i]
    OBVIOUS
  <2> QED BY <1>3, <2>1 DEF Has
<1> QED BY <1>1, <1>2, <1>3 DEF Has

\* The empty stack has no step on it.
LEMMA NothingOn ==
  /\ << >> \in Seq(Steps)
  /\ \A L : ~Has(<< >>, L)
BY DEF Has

\* What is on a stack with one more step.
LEMMA PushHas ==
  ASSUME NEW x \in Steps, NEW k \in Seq(Steps), NEW L
  PROVE  Has(Push(x, k), L) <=> x \in L \/ Has(k, L)
<1> DEFINE s == Push(x, k)
<1>1. s \in Seq(Steps) /\ s # << >> /\ Head(s) = x /\ Tail(s) = k
  BY PushFacts
<1> HIDE DEF s
<1>2. Has(s, L) <=> x \in L \/ Has(k, L)
  BY <1>1, StackHas
<1> QED BY <1>2 DEF s

\* What is on a stack with a single step.
LEMMA OnHas ==
  ASSUME NEW x \in Steps
  PROVE  \A L : Has(On(x), L) <=> x \in L
BY PushHas, NothingOn DEF On

\* The tuples of the specification as stacks.
LEMMA Tuples ==
  ASSUME NEW k \in Seq(Steps), NEW a \in Steps, NEW b \in Steps
  PROVE  /\ << >> \o k = k
         /\ <<a>> \o k = Push(a, k)
         /\ <<a, b>> \o k = Push(a, Push(b, k))
         /\ <<a>> = Push(a, << >>)
<1>1. <<a>> \in Seq(Steps) /\ <<b>> \in Seq(Steps) /\ <<a, b>> \in Seq(Steps)
  OBVIOUS
<1>2. <<a, b>> = <<a>> \o <<b>>
  <2>1. <<a>> \o <<b>> \in Seq(Steps) /\ Len(<<a>> \o <<b>>) = 2 /\ Len(<<a, b>>) = 2
    BY <1>1
  <2>2. (<<a>> \o <<b>>)[1] = a
    BY <1>1
  <2>3. (<<a>> \o <<b>>)[2] = b
    BY <1>1
  <2>4. \A i \in 1..2 : (<<a>> \o <<b>>)[i] = (<<a, b>>)[i]
    BY <2>2, <2>3
  <2> QED BY <1>1, <2>1, <2>4, SeqEqual
<1>3. <<a, b>> \o k = <<a>> \o (<<b>> \o k)
  BY <1>1, <1>2, ConcatAssociative
<1>4. << >> \o k = k /\ <<a>> \o << >> = <<a>>
  BY <1>1
<1> QED BY <1>3, <1>4 DEF Push

-----------------------------------------------------------------------------
(* What each thread may have ahead of it.                                  *)

Adding   == {"add", "unretire", "release", "create", "renege"}
Watching == {"watch", "stay", "needed", "quit"}
Alone    == {"work", "execute", "dispatch", "keep", "recalled", "retire", "retired",
             "leaveRetired", "sweep", "waiting", "leaveWaiting"}

\* What follows EnsureGateThreadRunning and MaybeAddWorkingWorker.
AfterGate(t) == IF t = Client THEN {<< >>}
                ELSE IF t = Gate THEN {} ELSE {On("dispatch"), On("recalled")}
AfterAdd(t) ==
  {Push("ensureGate", k) : k \in AfterGate(t)}
    \cup IF t = Client THEN {<< >>}
         ELSE IF t = Gate THEN {On("stay")}
         ELSE {On("keep"), On("retired"), On("waiting")}

\* The next step x of the thread t, and what follows it.
Row(t, x, k) ==
  /\ x \in Alone => t \in Worker /\ k = << >>
  /\ x \in Watching => t = Gate /\ k = << >>
  /\ x \in {"lower", "raise", "raised"} => t = Client /\ k = << >>
  /\ x = "adjust" => t \in Worker /\ k = On("keep")
  /\ x \in {"ensureGate", "createGate"} => k \in AfterGate(t)
  /\ x \in Adding => k \in AfterAdd(t)

Shape(t, s) == s \in Seq(Steps) /\ (s # << >> => Row(t, Head(s), Tail(s)))

Stacked == \A t \in Thread : Shape(t, todo[t])

\* A stack fits a thread if its next step and the rest do.
LEMMA ShapeOn ==
  ASSUME NEW t \in Thread, NEW x \in Steps, NEW k \in Seq(Steps), Row(t, x, k)
  PROVE  Shape(t, Push(x, k))
BY PushFacts DEF Shape

\* What follows EnsureGateThreadRunning fits, and has nothing of it left.
LEMMA GateReturns ==
  ASSUME NEW t \in Thread, NEW k \in AfterGate(t)
  PROVE  /\ Shape(t, k)
         /\ \A L : L \cap {"dispatch", "recalled"} = {} => ~Has(k, L)
<1> USE WorkerPoolAssumption DEF WorkerPoolAssumption
<1>1. CASE k = << >>
  BY <1>1, NothingOn DEF Shape
<1>2. CASE t \in Worker /\ k = On("dispatch")
  <2>1. Row(t, "dispatch", << >>)
    BY <1>2 DEF Row, Alone, Watching, Adding
  <2> QED BY <1>2, <2>1, ShapeOn, OnHas, NothingOn DEF On, Steps
<1>3. CASE t \in Worker /\ k = On("recalled")
  <2>1. Row(t, "recalled", << >>)
    BY <1>3 DEF Row, Alone, Watching, Adding
  <2> QED BY <1>3, <2>1, ShapeOn, OnHas, NothingOn DEF On, Steps
<1> QED BY <1>1, <1>2, <1>3 DEF AfterGate, Thread

\* What follows MaybeAddWorkingWorker fits, and has nothing of it left.
LEMMA AddReturns ==
  ASSUME NEW t \in Thread, NEW k \in AfterAdd(t)
  PROVE  /\ Shape(t, k)
         /\ \A L : L \subseteq Adding => ~Has(k, L)
         /\ ~Has(k, {"createGate", "quit"})
<1> USE WorkerPoolAssumption DEF WorkerPoolAssumption
<1>1. CASE k = << >>
  BY <1>1, NothingOn DEF Shape
<1>2. ASSUME NEW x \in {"keep", "retired", "waiting"}, t \in Worker, k = On(x)
      PROVE  Shape(t, k) /\ \A L : Has(k, L) <=> x \in L
  <2>1. Row(t, x, << >>)
    BY <1>2 DEF Row, Alone, Watching, Adding
  <2>2. x \in Steps /\ << >> \in Seq(Steps)
    BY DEF Steps
  <2>3. Shape(t, k)
    BY <1>2, <2>1, <2>2, ShapeOn DEF On
  <2> QED BY <1>2, <2>2, <2>3, OnHas
<1>3. ASSUME t = Gate, k = On("stay")
      PROVE  Shape(t, k) /\ \A L : Has(k, L) <=> "stay" \in L
  <2>1. Row(t, "stay", << >>)
    BY <1>3 DEF Row, Alone, Watching, Adding
  <2> QED BY <1>3, <2>1, ShapeOn, OnHas, NothingOn DEF On, Steps
<1>4. ASSUME NEW j \in AfterGate(t), k = Push("ensureGate", j)
      PROVE  Shape(t, k) /\ \A L : L \cap {"ensureGate", "dispatch", "recalled"} = {} => ~Has(k, L)
  <2>1. Row(t, "ensureGate", j)
    BY <1>4 DEF Row, Alone, Watching, Adding
  <2>2. j \in Seq(Steps)
    BY GateReturns DEF Shape
  <2>3. Shape(t, k)
    BY <1>4, <2>1, <2>2, ShapeOn DEF Steps
  <2> QED BY <1>4, <2>2, <2>3, PushHas, GateReturns DEF Steps
<1> QED BY <1>1, <1>2, <1>3, <1>4 DEF AfterAdd, Adding, Thread

-----------------------------------------------------------------------------
(* The invariant.                                                          *)

\* The bounds of the counters that TypeOK does not have.
Ranges == pending <= requested

\* The gate thread exists at most once: whoever is about to create it is alone,
\* and nobody is while the status says that it does not run.
GateFits ==
  /\ gateStatus = "notRunning" => todo[Gate] = << >>
  /\ \A t \in Thread : At(t, "createGate") =>
       /\ gateStatus # "notRunning" /\ todo[Gate] = << >>
       /\ \A u \in Thread : At(u, "createGate") => u = t

Reneged == \A t \in Thread : At(t, "renege") => failures > 0

Looking == {"add", "sweep", "retire", "recalled", "raised"}
Served ==
  pending > 0 /\ failures = 0 =>
    \/ counts.working > 0 \/ \E t \in Thread : Has(todo[t], Looking)
    \/ counts.maxWorking = 0 \/ leftRaised

\* Served stays true when the limit was 0, or was raised by a worker that left.
Keeps ==
  counts.maxWorking = 0 \/ leftRaised => counts'.maxWorking = 0 \/ leftRaised'

ToGate == {"ensureGate"}
Watched ==
  pending > 0 /\ failures = 0 =>
    \/ \E t \in Thread : Has(todo[t], ToGate)
    \/ gateStatus = "requested"
    \/ gateStatus = "waitingForRequest" /\ ~At(Gate, "quit")

PoolInv == TypeOK /\ Ranges /\ Stacked /\ GateFits /\ CountsMatch /\ Reneged /\ Served /\ Watched

-----------------------------------------------------------------------------
(* Counting.                                                               *)

Weight(s, L) == IF Has(s, L) THEN 1 ELSE 0
Having(f, L) == Cardinality({t \in Thread : Has(f[t], L)})

\* CountsMatch counts by Doing, the proofs by Having.
LEMMA DoingHas == \A L : Doing(L) = Having(todo, L)
BY DEF Doing, Having, Has

\* The threads can be counted.
LEMMA ThreadsFinite == IsFiniteSet(Thread)
<1>1. IsFiniteSet(Worker \cup {Client})
  BY FS_AddElement, WorkerPoolAssumption DEF WorkerPoolAssumption
<1>2. IsFiniteSet((Worker \cup {Client}) \cup {Gate})
  BY <1>1, FS_AddElement
<1>3. Thread = (Worker \cup {Client}) \cup {Gate}
  BY DEF Thread
<1> QED BY <1>2, <1>3

\* One stack is replaced by another.
LEMMA CountMove ==
  ASSUME NEW f \in [Thread -> Seq(Steps)], NEW t \in Thread, NEW s, NEW L,
         NEW g, g[t] = s, \A u \in Thread \ {t} : g[u] = f[u]
  PROVE  /\ Having(f, L) \in Nat /\ Having(f, L) >= Weight(f[t], L)
         /\ Having(g, L) = Having(f, L) + Weight(s, L) - Weight(f[t], L)
<1> DEFINE A == {u \in Thread : Has(f[u], L)}
           B == {u \in Thread : Has(g[u], L)}
<1>1. IsFiniteSet(A) /\ Cardinality(A) \in Nat
  <2>1. IsFiniteSet(A)
    BY ThreadsFinite, FS_Subset
  <2> QED BY <2>1, FS_CardinalityType
<1>2. IsFiniteSet(B) /\ Cardinality(B) \in Nat
  <2>1. IsFiniteSet(B)
    BY ThreadsFinite, FS_Subset
  <2> QED BY <2>1, FS_CardinalityType
<1>3. t \in A <=> Has(f[t], L)
  OBVIOUS
<1>4. t \in B <=> Has(s, L)
  OBVIOUS
<1>5. \A u \in Thread : u # t => g[u] = f[u]
  OBVIOUS
<1>6. A \ {t} = B \ {t}
  BY <1>5
<1> HIDE DEF A, B
<1>7. Cardinality(A \ {t}) \in Nat /\ Cardinality(A) = Cardinality(A \ {t}) + Weight(f[t], L)
  <2>1. IsFiniteSet(A \ {t}) /\ (t \in A => Cardinality(A \ {t}) = Cardinality(A) - 1)
    BY <1>1, FS_RemoveElement
  <2>2. Cardinality(A \ {t}) \in Nat
    BY <2>1, FS_CardinalityType
  <2>3. CASE t \in A
    BY <1>1, <1>3, <2>1, <2>2, <2>3 DEF Weight
  <2>4. CASE t \notin A
    <3>1. Cardinality(A \ {t}) = Cardinality(A)
      <4>1. A \ {t} = A
        BY <2>4
      <4> QED BY <4>1, Zenon
    <3> QED BY <1>1, <1>3, <2>2, <2>4, <3>1 DEF Weight
  <2> QED BY <2>3, <2>4
<1>8. Cardinality(B \ {t}) \in Nat /\ Cardinality(B) = Cardinality(B \ {t}) + Weight(s, L)
  <2>1. IsFiniteSet(B \ {t}) /\ (t \in B => Cardinality(B \ {t}) = Cardinality(B) - 1)
    BY <1>2, FS_RemoveElement
  <2>2. Cardinality(B \ {t}) \in Nat
    BY <2>1, FS_CardinalityType
  <2>3. CASE t \in B
    BY <1>2, <1>4, <2>1, <2>2, <2>3 DEF Weight
  <2>4. CASE t \notin B
    <3>1. Cardinality(B \ {t}) = Cardinality(B)
      <4>1. B \ {t} = B
        BY <2>4
      <4> QED BY <4>1, Zenon
    <3> QED BY <1>2, <1>4, <2>2, <2>4, <3>1 DEF Weight
  <2> QED BY <2>3, <2>4
<1>9. Cardinality(A \ {t}) = Cardinality(B \ {t})
  BY <1>6, Zenon
<1>10. Weight(s, L) \in {0, 1} /\ Weight(f[t], L) \in {0, 1}
  BY DEF Weight
<1>11. /\ Cardinality(A) \in Nat /\ Cardinality(A) >= Weight(f[t], L)
       /\ Cardinality(B) = Cardinality(A) + Weight(s, L) - Weight(f[t], L)
  BY <1>1, <1>2, <1>7, <1>8, <1>9, <1>10
<1> QED BY <1>11 DEF Having, A, B

\* The same for a step of the specification.
LEMMA StepMove ==
  ASSUME NEW t \in Thread, NEW s, NEW L, todo \in [Thread -> Seq(Steps)],
         todo'[t] = s, \A u \in Thread \ {t} : todo'[u] = todo[u]
  PROVE  /\ Having(todo, L) \in Nat /\ Having(todo, L) >= Weight(todo[t], L)
         /\ Having(todo', L) = Having(todo, L) + Weight(s, L) - Weight(todo[t], L)
BY CountMove

\* The groups of steps that CountsMatch counts.
Busy       == {"work", "execute", "dispatch", "keep"}
Asleep     == {"sweep", "waiting", "leaveWaiting"}
Off        == {"recalled", "retire", "retired", "leaveRetired"}
Unretiring == {"unretire"}
Releasing  == {"release"}
Creating   == {"create", "renege"}

\* What the counts are for these numbers of threads and semaphores.
Balanced(c, busy, asleep, off, unretiring, releasing, creating) ==
  /\ c.working = busy + releasing + unretiring + creating
  /\ c.active = c.working + asleep - releasing
  /\ c.retired = off - unretiring
  /\ c.working <= c.active

\* CountsMatch in terms of the groups.
LEMMA CountsAre ==
  CountsMatch <=> Balanced(counts, Having(todo, Busy), Having(todo, Asleep), Having(todo, Off),
                           retiredSem + Having(todo, Unretiring),
                           workerSem + Having(todo, Releasing), Having(todo, Creating))
BY DoingHas DEF CountsMatch, Balanced, Busy, Asleep, Off, Unretiring, Releasing, Creating

\* The same after a step.
LEMMA CountsAreNext ==
  CountsMatch' <=> Balanced(counts', Having(todo', Busy), Having(todo', Asleep),
                            Having(todo', Off), retiredSem' + Having(todo', Unretiring),
                            workerSem' + Having(todo', Releasing), Having(todo', Creating))
BY DEF CountsMatch, Doing, Having, Has, Balanced, Busy, Asleep, Off, Unretiring, Releasing,
       Creating

-----------------------------------------------------------------------------
(* One thread takes a step.                                                *)

\* What a thread at the step x has ahead of it, and what Goto makes of it.
LEMMA Goes ==
  ASSUME TypeOK, Stacked, NEW t \in Thread, NEW x, At(t, x)
  PROVE  /\ x \in Steps /\ Tail(todo[t]) \in Seq(Steps) /\ Row(t, x, Tail(todo[t]))
         /\ \A L : Has(todo[t], L) <=> x \in L \/ Has(Tail(todo[t]), L)
         /\ Goto(t, << >>) => todo' = [todo EXCEPT ![t] = Tail(todo[t])]
         /\ \A y \in Steps : Goto(t, <<y>>) => todo' = [todo EXCEPT ![t] = Push(y, Tail(todo[t]))]
         /\ \A y, z \in Steps :
              Goto(t, <<y, z>>) => todo' = [todo EXCEPT ![t] = Push(y, Push(z, Tail(todo[t])))]
<1>1. todo[t] \in Seq(Steps) /\ todo[t] # << >> /\ Head(todo[t]) = x /\ Shape(t, todo[t])
  BY DEF TypeOK, At, Stacked
<1>2. x \in Steps /\ Tail(todo[t]) \in Seq(Steps)
  BY <1>1
<1>3. Row(t, x, Tail(todo[t]))
  BY <1>1 DEF Shape
<1>4. \A L : Has(todo[t], L) <=> x \in L \/ Has(Tail(todo[t]), L)
  BY <1>1, StackHas
<1>5. todo \in [Thread -> Seq(Steps)]
  BY DEF TypeOK
<1>6. Goto(t, << >>) => todo' = [todo EXCEPT ![t] = Tail(todo[t])]
  <2>1. << >> \o Tail(todo[t]) = Tail(todo[t])
    BY <1>2
  <2> QED BY <2>1 DEF Goto
<1>7. \A y \in Steps : Goto(t, <<y>>) => todo' = [todo EXCEPT ![t] = Push(y, Tail(todo[t]))]
  BY DEF Goto, Push
<1>8. ASSUME NEW y \in Steps, NEW z \in Steps, Goto(t, <<y, z>>)
      PROVE  todo' = [todo EXCEPT ![t] = Push(y, Push(z, Tail(todo[t])))]
  <2>1. <<y, z>> \o Tail(todo[t]) = Push(y, Push(z, Tail(todo[t])))
    BY <1>2, Tuples
  <2> QED BY <1>8, <2>1 DEF Goto
<1> QED BY <1>2, <1>3, <1>4, <1>6, <1>7, <1>8

\* The new stack of one thread fits.
LEMMA MoveStacked ==
  ASSUME TypeOK, Stacked, NEW t \in Thread, NEW s, Shape(t, s), todo' = [todo EXCEPT ![t] = s]
  PROVE  Stacked' /\ todo' \in [Thread -> Seq(Steps)]
BY DEF TypeOK, Stacked, Shape

\* The counts and the semaphores move with the stack of t, which becomes s.
Balances(t, s) ==
  LET d(L) == Weight(s, L) - Weight(todo[t], L)
      unretiring == retiredSem' - retiredSem + d(Unretiring)
      releasing  == workerSem' - workerSem + d(Releasing)
  IN /\ counts'.working = counts.working + d(Busy) + releasing + unretiring + d(Creating)
     /\ counts'.active = counts.active + d(Busy) + unretiring + d(Creating) + d(Asleep)
     /\ counts'.retired = counts.retired + d(Off) - unretiring
     /\ counts'.working <= counts'.active

Counts == [maxWorking : Nat, active : Nat, working : Nat, retired : Nat]

\* The counts match after a step that moves them with the stack of one thread.
LEMMA MoveCounts ==
  ASSUME TypeOK, CountsMatch, NEW t \in Thread, NEW s, todo' = [todo EXCEPT ![t] = s],
         counts' \in Counts, workerSem' \in Nat, retiredSem' \in Nat, Balances(t, s)
  PROVE  CountsMatch'
<1> DEFINE old(L) == Having(todo, L)
           new(L) == Having(todo', L)
<1>1. ASSUME NEW L
      PROVE  old(L) \in Nat /\ new(L) = old(L) + Weight(s, L) - Weight(todo[t], L)
  <2>1. todo \in [Thread -> Seq(Steps)]
    BY DEF TypeOK
  <2>2. todo'[t] = s /\ \A u \in Thread \ {t} : todo'[u] = todo[u]
    BY <2>1
  <2>3. /\ Having(todo, L) \in Nat
        /\ Having(todo', L) = Having(todo, L) + Weight(s, L) - Weight(todo[t], L)
    BY <2>1, <2>2, StepMove
  <2> QED BY <2>3
<1>2. \A L : Weight(s, L) \in {0, 1} /\ Weight(todo[t], L) \in {0, 1}
  BY DEF Weight
<1>3. Balanced(counts, old(Busy), old(Asleep), old(Off), retiredSem + old(Unretiring),
               workerSem + old(Releasing), old(Creating))
  BY CountsAre
<1>4. workerSem \in Nat /\ retiredSem \in Nat
      /\ counts \in [maxWorking : Nat, active : Nat, working : Nat, retired : Nat]
  BY DEF TypeOK
<1> HIDE DEF old, new
<1>5. Balanced(counts', new(Busy), new(Asleep), new(Off), retiredSem' + new(Unretiring),
               workerSem' + new(Releasing), new(Creating))
  <2> DEFINE d(L) == Weight(s, L) - Weight(todo[t], L)
  <2>1. /\ new(Busy) = old(Busy) + d(Busy) /\ new(Asleep) = old(Asleep) + d(Asleep)
        /\ new(Off) = old(Off) + d(Off) /\ new(Unretiring) = old(Unretiring) + d(Unretiring)
        /\ new(Releasing) = old(Releasing) + d(Releasing)
        /\ new(Creating) = old(Creating) + d(Creating)
    BY <1>1, <1>2
  <2>2. \A L : d(L) \in Int /\ old(L) \in Nat
    BY <1>1, <1>2
  <2>3. /\ counts'.working = counts.working + d(Busy) + (workerSem' - workerSem + d(Releasing))
             + (retiredSem' - retiredSem + d(Unretiring)) + d(Creating)
        /\ counts'.active = counts.active + d(Busy) + (retiredSem' - retiredSem + d(Unretiring))
             + d(Creating) + d(Asleep)
        /\ counts'.retired = counts.retired + d(Off) - (retiredSem' - retiredSem + d(Unretiring))
        /\ counts'.working <= counts'.active
    BY DEF Balances
  <2> HIDE DEF d
  <2> QED BY <1>3, <1>4, <2>1, <2>2, <2>3 DEF Balanced, Counts
<1>6. CountsMatch' <=>
        Balanced(counts', new(Busy), new(Asleep), new(Off), retiredSem' + new(Unretiring),
                 workerSem' + new(Releasing), new(Creating))
  BY CountsAreNext DEF new
<1> QED BY <1>5, <1>6

\* The weight of a stack with one more step.
LEMMA Weights ==
  /\ \A L : Weight(<< >>, L) = 0
  /\ \A x \in Steps, k \in Seq(Steps) :
       \A L : Weight(Push(x, k), L) = IF x \in L THEN 1 ELSE Weight(k, L)
  /\ \A s, L : Weight(s, L) \in {0, 1}
<1>1. \A L : Weight(<< >>, L) = 0
  BY NothingOn DEF Weight
<1>2. ASSUME NEW x \in Steps, NEW k \in Seq(Steps), NEW L
      PROVE  Weight(Push(x, k), L) = IF x \in L THEN 1 ELSE Weight(k, L)
  BY PushHas DEF Weight
<1> QED BY <1>1, <1>2 DEF Weight

\* A thread that works, or a creation under way, is one that works for the counts.
LEMMA Counted ==
  ASSUME TypeOK, CountsMatch, NEW t \in Thread
  PROVE  /\ counts.working >= Weight(todo[t], Busy)
         /\ counts.working >= Weight(todo[t], Creating)
         /\ counts.working <= counts.active
<1> DEFINE n(L) == Having(todo, L)
<1>1. ASSUME NEW L
      PROVE  n(L) \in Nat /\ n(L) >= Weight(todo[t], L)
  BY CountMove DEF TypeOK
<1>2. Balanced(counts, n(Busy), n(Asleep), n(Off), retiredSem + n(Unretiring),
               workerSem + n(Releasing), n(Creating))
  BY CountsAre
<1>3. workerSem \in Nat /\ retiredSem \in Nat /\ counts \in Counts
  BY DEF TypeOK, Counts
<1>4. \A L : Weight(todo[t], L) \in {0, 1}
  BY Weights
<1> HIDE DEF n
<1> QED BY <1>1, <1>2, <1>3, <1>4 DEF Balanced, Counts

\* The rest of the types.
Plain == /\ limits \in [min : Nat, max : Nat]
         /\ gateStatus \in {"notRunning", "waitingForRequest", "requested"}
         /\ found \in [Worker -> BOOLEAN] /\ pending \in Nat
         /\ requested \in 0..MaxRequests /\ changes \in 0..MaxChanges
         /\ failures \in 0..MaxFailures /\ leftRaised \in BOOLEAN

\* The steps that leave the gate thread and its status alone.
LEMMA LocalStep ==
  ASSUME PoolInv, NEW t \in Thread, NEW s, todo' = [todo EXCEPT ![t] = s],
         t = Gate => todo[t] # << >>, Shape(t, s),
         s # << >> => Head(s) \notin {"createGate", "quit"},
         s # << >> /\ Head(s) = "renege" => failures' > 0,
         Plain', Ranges', UNCHANGED gateStatus, failures' >= failures,
         counts' \in Counts, workerSem' \in Nat, retiredSem' \in Nat, Balances(t, s),
         \/ counts'.working > 0 \/ pending' = 0 \/ failures' > 0 \/ counts'.maxWorking = 0
         \/ Has(s, Looking)
         \/ /\ pending' <= pending /\ counts'.working >= counts.working
            /\ ~Has(todo[t], Looking) /\ Keeps,
         Has(s, ToGate) \/ (pending' <= pending /\ ~Has(todo[t], ToGate))
  PROVE  PoolInv'
<1>1. TypeOK /\ Ranges /\ Stacked /\ GateFits /\ CountsMatch /\ Reneged /\ Served /\ Watched
  BY DEF PoolInv
<1>2. Stacked' /\ todo' \in [Thread -> Seq(Steps)]
  BY <1>1, MoveStacked
<1>3. todo'[t] = s /\ \A u \in Thread : u # t => todo'[u] = todo[u]
  BY <1>1 DEF TypeOK
<1>4. CountsMatch'
  BY <1>1, MoveCounts
<1>5. TypeOK'
  <2>1. pending' \in 0..MaxRequests
    BY WorkerPoolAssumption DEF Ranges, Plain, WorkerPoolAssumption
  <2> QED BY <1>2, <2>1 DEF TypeOK, Plain, Counts
<1>6. GateFits'
  <2>1. s # << >> => Head(s) # "createGate"
    OBVIOUS
  <2>2. \A u \in Thread : At(u, "createGate")' => At(u, "createGate") /\ u # t
    BY <1>3, <2>1 DEF At
  <2>3. Gate \in Thread
    BY DEF Thread
  <2>4. todo[Gate] = << >> => todo'[Gate] = << >>
    BY <1>3, <2>3
  <2> QED BY <1>1, <2>2, <2>4 DEF GateFits
<1>7. Reneged'
  <2>1. \A u \in Thread : At(u, "renege")' => At(u, "renege") \/ failures' > 0
    BY <1>3 DEF At
  <2> QED BY <1>1, <2>1 DEF Reneged, TypeOK, Plain
<1>8. pending' <= pending /\ pending' > 0 /\ failures' = 0 => pending > 0 /\ failures = 0
  BY <1>1 DEF TypeOK, Plain
<1>9. Served'
  <2>1. CASE Has(s, Looking)
    BY <1>3, <2>1 DEF Served
  <2>2. CASE counts'.working > 0 \/ pending' = 0 \/ failures' > 0 \/ counts'.maxWorking = 0
    BY <2>2 DEF Served
  <2>3. CASE /\ pending' <= pending /\ counts'.working >= counts.working
             /\ ~Has(todo[t], Looking) /\ Keeps
    <3>1. \A u \in Thread : Has(todo[u], Looking) => Has(todo'[u], Looking)
      BY <1>3, <2>3
    <3>2. counts.working > 0 => counts'.working > 0
      BY <1>1, <2>3 DEF TypeOK, Counts
    <3> QED BY <1>1, <1>8, <2>3, <3>1, <3>2 DEF Served, Keeps
  <2> QED BY <2>1, <2>2, <2>3
<1>10. Watched'
  <2>1. CASE Has(s, ToGate)
    BY <1>3, <2>1 DEF Watched
  <2>2. CASE pending' <= pending /\ ~Has(todo[t], ToGate)
    <3>1. \A u \in Thread : Has(todo[u], ToGate) => Has(todo'[u], ToGate)
      BY <1>3, <2>2
    <3>2. At(Gate, "quit")' => At(Gate, "quit")
      BY <1>3 DEF At, Thread
    <3> QED BY <1>1, <1>8, <2>2, <3>1, <3>2 DEF Watched
  <2> QED BY <2>1, <2>2
<1> QED BY <1>2, <1>4, <1>5, <1>6, <1>7, <1>9, <1>10 DEF PoolInv

-----------------------------------------------------------------------------
(* MaybeAddWorkingWorker.                                                  *)

\* The minimum and the maximum of two numbers.
LEMMA MinMax ==
  ASSUME NEW a \in Int, NEW b \in Int
  PROVE  /\ Min2(a, b) = IF a <= b THEN a ELSE b
         /\ Max2(a, b) = IF a <= b THEN b ELSE a
<1>1. \E m \in {a, b} : \A y \in {a, b} : m <= y
  OBVIOUS
<1>2. \E m \in {a, b} : \A y \in {a, b} : m >= y
  OBVIOUS
<1>3. Min({a, b}) \in {a, b} /\ \A y \in {a, b} : Min({a, b}) <= y
  BY <1>1 DEF Min
<1>4. Max({a, b}) \in {a, b} /\ \A y \in {a, b} : Max({a, b}) >= y
  BY <1>2 DEF Max
<1> QED BY <1>3, <1>4 DEF Min2, Max2

\* The worker that was added was asleep, or retired, or is new.
LEMMA OneMoreIs ==
  ASSUME NEW c \in Counts, c.working <= c.active
  PROVE  /\ OneMore(c) \in Counts /\ OneMore(c).maxWorking = c.maxWorking
         /\ c.working >= c.maxWorking => OneMore(c) = c
         /\ c.working < c.maxWorking =>
              /\ OneMore(c) # c /\ OneMore(c).working = c.working + 1
              /\ c.working < c.active => OneMore(c).active = c.active
                                         /\ OneMore(c).retired = c.retired
              /\ c.working = c.active => OneMore(c).active = c.active + 1
              /\ c.working = c.active /\ c.retired > 0 => OneMore(c).retired = c.retired - 1
              /\ c.working = c.active /\ c.retired = 0 => OneMore(c).retired = c.retired
<1> DEFINE working == Max2(c.working, Min2(c.working + 1, c.maxWorking))
           active  == Max2(c.active, working)
           retired == IF c.retired > active - c.active THEN c.retired - (active - c.active)
                                                       ELSE 0
<1>1. c.working \in Nat /\ c.active \in Nat /\ c.retired \in Nat /\ c.maxWorking \in Nat
  BY DEF Counts
<1>2. Min2(c.working + 1, c.maxWorking) = IF c.working < c.maxWorking THEN c.working + 1
                                                                       ELSE c.maxWorking
  BY <1>1, MinMax
<1>3. working = IF c.working < c.maxWorking THEN c.working + 1 ELSE c.working
  BY <1>1, <1>2, MinMax
<1>4. active = IF c.active < working THEN working ELSE c.active
  BY <1>1, <1>3, MinMax
<1>5. OneMore(c) = [c EXCEPT !.working = working, !.active = active, !.retired = retired]
  BY DEF OneMore
<1> HIDE DEF working, active
<1>6. retired \in Nat /\ working \in Nat /\ active \in Nat
  BY <1>1, <1>3, <1>4
<1>7. /\ OneMore(c) \in Counts /\ OneMore(c).maxWorking = c.maxWorking
      /\ OneMore(c).working = working /\ OneMore(c).active = active
      /\ OneMore(c).retired = retired
  BY <1>5, <1>6 DEF Counts
<1>8. c.working >= c.maxWorking => OneMore(c) = c
  <2>1. SUFFICES ASSUME c.working >= c.maxWorking PROVE OneMore(c) = c
    OBVIOUS
  <2>2. working = c.working /\ active = c.active /\ retired = c.retired
    BY <1>1, <1>3, <1>4, <2>1
  <2> QED BY <1>5, <2>2 DEF Counts
<1> QED BY <1>1, <1>3, <1>4, <1>7, <1>8

\* What a thread returns to when the worker is added, and what it may do instead.
LEMMA AddFacts ==
  ASSUME TypeOK, Stacked, NEW t \in Thread, NEW x \in Adding, At(t, x)
  PROVE  LET k == Tail(todo[t])
         IN  /\ k \in Seq(Steps) /\ Shape(t, k)
             /\ k # << >> => Head(k) \notin {"createGate", "quit", "renege"}
             /\ Weight(k, Unretiring) = 0 /\ Weight(k, Releasing) = 0 /\ Weight(k, Creating) = 0
             /\ Has(todo[t], ToGate) <=> Has(k, ToGate)
             /\ \A y \in Adding : Shape(t, Push(y, k)) /\ Head(Push(y, k)) = y
                                  /\ (Has(Push(y, k), ToGate) <=> Has(k, ToGate))
             /\ \A L : Weight(todo[t], L) = IF x \in L THEN 1 ELSE Weight(k, L)
<1> DEFINE k == Tail(todo[t])
<1>1. /\ x \in Steps /\ k \in Seq(Steps) /\ Row(t, x, k)
      /\ \A L : Has(todo[t], L) <=> x \in L \/ Has(k, L)
  BY Goes
<1> HIDE DEF k
<1>2. k \in AfterAdd(t)
  BY <1>1 DEF Row
<1>3. /\ Shape(t, k) /\ ~Has(k, {"createGate", "quit"})
      /\ \A L : L \subseteq Adding => ~Has(k, L)
  BY <1>2, AddReturns
<1>4. k # << >> => Head(k) \notin {"createGate", "quit", "renege"}
  <2>1. ~Has(k, {"renege"})
    BY <1>3 DEF Adding
  <2> QED BY <1>1, <1>3, <2>1, StackHas
<1>5. Unretiring \subseteq Adding /\ Releasing \subseteq Adding /\ Creating \subseteq Adding
  BY DEF Adding, Unretiring, Releasing, Creating
<1>6. Weight(k, Unretiring) = 0 /\ Weight(k, Releasing) = 0 /\ Weight(k, Creating) = 0
  BY <1>3, <1>5 DEF Weight
<1>7. ASSUME NEW y \in Adding
      PROVE  Shape(t, Push(y, k)) /\ Head(Push(y, k)) = y
             /\ (Has(Push(y, k), ToGate) <=> Has(k, ToGate))
  <2>1. y \in Steps /\ y \notin ToGate
    BY DEF Adding, Steps, ToGate
  <2>2. Row(t, y, k)
    BY <1>2 DEF Row, Adding, Alone, Watching
  <2> QED BY <1>1, <2>1, <2>2, ShapeOn, PushFacts, PushHas
<1>8. Has(todo[t], ToGate) <=> Has(k, ToGate)
  BY <1>1 DEF Adding, ToGate
<1>9. \A L : Weight(todo[t], L) = IF x \in L THEN 1 ELSE Weight(k, L)
  BY <1>1 DEF Weight
<1> QED BY <1>1, <1>3, <1>4, <1>6, <1>7, <1>8, <1>9 DEF k

\* How the weights of the groups of CountsMatch differ between two stacks.
Differ(s, r, busy, asleep, off, unretiring, releasing, creating) ==
  /\ Weight(s, Busy) = Weight(r, Busy) + busy
  /\ Weight(s, Asleep) = Weight(r, Asleep) + asleep
  /\ Weight(s, Off) = Weight(r, Off) + off
  /\ Weight(s, Unretiring) = Weight(r, Unretiring) + unretiring
  /\ Weight(s, Releasing) = Weight(r, Releasing) + releasing
  /\ Weight(s, Creating) = Weight(r, Creating) + creating
  /\ Weight(r, Busy) \in {0, 1} /\ Weight(r, Asleep) \in {0, 1} /\ Weight(r, Off) \in {0, 1}
  /\ Weight(r, Unretiring) \in {0, 1} /\ Weight(r, Releasing) \in {0, 1}
  /\ Weight(r, Creating) \in {0, 1}

\* From the step x of MaybeAddWorkingWorker and what follows it to y, or back.
LEMMA AddDiffers ==
  ASSUME TypeOK, Stacked, NEW t \in Thread, NEW x \in Adding, At(t, x)
  PROVE  LET k == Tail(todo[t])
             b(y, L) == IF y \in L THEN 1 ELSE 0
         IN  /\ Differ(k, todo[t], 0, 0, 0, -b(x, Unretiring), -b(x, Releasing), -b(x, Creating))
             /\ \A y \in Adding :
                  Differ(Push(y, k), todo[t], 0, 0, 0, b(y, Unretiring) - b(x, Unretiring),
                         b(y, Releasing) - b(x, Releasing), b(y, Creating) - b(x, Creating))
<1> DEFINE k == Tail(todo[t])
<1>1. /\ k \in Seq(Steps)
      /\ Weight(k, Unretiring) = 0 /\ Weight(k, Releasing) = 0 /\ Weight(k, Creating) = 0
      /\ \A L : Weight(todo[t], L) = IF x \in L THEN 1 ELSE Weight(k, L)
  BY AddFacts
<1> HIDE DEF k
<1>2. \A r, L : Weight(r, L) \in {0, 1}
  BY Weights
<1>3. ASSUME NEW y \in Adding
      PROVE  /\ \A L : Weight(Push(y, k), L) = IF y \in L THEN 1 ELSE Weight(k, L)
             /\ y \notin Busy /\ y \notin Asleep /\ y \notin Off
  BY <1>1, Weights DEF Adding, Busy, Asleep, Off, Steps
<1>4. x \notin Busy /\ x \notin Asleep /\ x \notin Off
  BY <1>3
<1> DEFINE b(y, L) == IF y \in L THEN 1 ELSE 0
<1>5. Differ(k, todo[t], 0, 0, 0, -b(x, Unretiring), -b(x, Releasing), -b(x, Creating))
  BY <1>1, <1>2, <1>4 DEF Differ
<1>6. ASSUME NEW y \in Adding
      PROVE  Differ(Push(y, k), todo[t], 0, 0, 0, b(y, Unretiring) - b(x, Unretiring),
                    b(y, Releasing) - b(x, Releasing), b(y, Creating) - b(x, Creating))
  <2>1. /\ Weight(Push(y, k), Busy) = Weight(k, Busy)
        /\ Weight(Push(y, k), Asleep) = Weight(k, Asleep)
        /\ Weight(Push(y, k), Off) = Weight(k, Off)
        /\ Weight(Push(y, k), Unretiring) = b(y, Unretiring)
        /\ Weight(Push(y, k), Releasing) = b(y, Releasing)
        /\ Weight(Push(y, k), Creating) = b(y, Creating)
    BY <1>1, <1>3
  <2>2. /\ Weight(todo[t], Busy) = Weight(k, Busy)
        /\ Weight(todo[t], Asleep) = Weight(k, Asleep)
        /\ Weight(todo[t], Off) = Weight(k, Off)
        /\ Weight(todo[t], Unretiring) = b(x, Unretiring)
        /\ Weight(todo[t], Releasing) = b(x, Releasing)
        /\ Weight(todo[t], Creating) = b(x, Creating)
    BY <1>1, <1>4
  <2>3. \A L : b(y, L) \in {0, 1} /\ b(x, L) \in {0, 1}
    OBVIOUS
  <2> HIDE DEF b
  <2> QED BY <1>2, <2>1, <2>2, <2>3 DEF Differ
<1> QED BY <1>5, <1>6 DEF k

\* MaybeAddWorkingWorker and what follows it preserve the invariant.
LEMMA AddMoves ==
  ASSUME PoolInv, NEW t \in Thread, NEW x \in Adding, At(t, x), NEW s,
         \/ s = Tail(todo[t])
         \/ \E y \in Adding : s = Push(y, Tail(todo[t])) /\ (y = "renege" => failures' > 0),
         todo' = [todo EXCEPT ![t] = s],
         Plain', Ranges', UNCHANGED gateStatus, failures' >= failures, pending' <= pending,
         counts' \in Counts, workerSem' \in Nat, retiredSem' \in Nat, Balances(t, s),
         counts'.working > 0 \/ failures' > 0 \/ counts'.maxWorking = 0
  PROVE  PoolInv'
<1>1. TypeOK /\ Stacked /\ todo[t] # << >>
  BY DEF PoolInv, At
<1> DEFINE k == Tail(todo[t])
<1>2. /\ k \in Seq(Steps) /\ Shape(t, k)
      /\ k # << >> => Head(k) \notin {"createGate", "quit", "renege"}
      /\ Has(todo[t], ToGate) <=> Has(k, ToGate)
      /\ \A y \in Adding : Shape(t, Push(y, k)) /\ Head(Push(y, k)) = y
                           /\ (Has(Push(y, k), ToGate) <=> Has(k, ToGate))
  BY <1>1, AddFacts
<1> HIDE DEF k
<1>3. /\ Shape(t, s) /\ (s # << >> => Head(s) \notin {"createGate", "quit"})
      /\ (s # << >> /\ Head(s) = "renege" => failures' > 0)
      /\ (Has(s, ToGate) <=> Has(todo[t], ToGate))
  <2>1. CASE s = k
    BY <1>2, <2>1
  <2>2. CASE \E y \in Adding : s = Push(y, k) /\ (y = "renege" => failures' > 0)
    BY <1>2, <2>2 DEF Adding
  <2> QED BY <2>1, <2>2 DEF k
<1>4. Has(s, ToGate) \/ (pending' <= pending /\ ~Has(todo[t], ToGate))
  BY <1>3
<1> QED BY <1>1, <1>3, <1>4, LocalStep

\* MaybeAddWorkingWorker preserves the invariant.
LEMMA MaybeAddInv ==
  ASSUME PoolInv, NEW t \in Thread, MaybeAddWorkingWorker(t)
  PROVE  PoolInv'
<1> DEFINE k == Tail(todo[t])
           new == OneMore(counts)
<1>1. TypeOK /\ Stacked /\ CountsMatch /\ counts \in Counts /\ Plain
  BY DEF PoolInv, TypeOK, Plain, Counts
<1>2. At(t, "add") /\ "add" \in Adding
  BY DEF MaybeAddWorkingWorker, Adding
<1>3. counts.working <= counts.active
  BY <1>1, Counted
<1>4. /\ new \in Counts /\ new.maxWorking = counts.maxWorking
      /\ counts.working >= counts.maxWorking => new = counts
      /\ counts.working < counts.maxWorking =>
              /\ new # counts /\ new.working = counts.working + 1
              /\ counts.working < counts.active => new.active = counts.active
                                                   /\ new.retired = counts.retired
              /\ counts.working = counts.active => new.active = counts.active + 1
              /\ counts.working = counts.active /\ counts.retired > 0
                   => new.retired = counts.retired - 1
              /\ counts.working = counts.active /\ counts.retired = 0
                   => new.retired = counts.retired
  BY <1>1, <1>3, OneMoreIs
<1>5. /\ counts' = new /\ UNCHANGED <<limits, workerSem, retiredSem, pending, gateStatus, found>>
      /\ UNCHANGED <<requested, changes, failures, leftRaised>>
      /\ Goto(t, IF new = counts THEN << >>
             ELSE IF new.retired < counts.retired THEN <<"unretire">>
             ELSE IF new.active > counts.active THEN <<"create">>
             ELSE <<"release">>)
  BY DEF MaybeAddWorkingWorker, bounds
<1> HIDE DEF new
<1>7. Plain' /\ Ranges' /\ todo[t] # << >> /\ workerSem' \in Nat /\ retiredSem' \in Nat /\ pending' <= pending
      /\ failures' >= failures /\ workerSem \in Nat /\ retiredSem \in Nat
  BY <1>1, <1>2, <1>5 DEF PoolInv, Ranges, Plain, TypeOK, At
<1>8. /\ Goto(t, << >>) => todo' = [todo EXCEPT ![t] = k]
      /\ \A y \in Steps : Goto(t, <<y>>) => todo' = [todo EXCEPT ![t] = Push(y, k)]
  BY <1>1, <1>2, Goes
<1>9. /\ Differ(k, todo[t], 0, 0, 0, 0, 0, 0)
      /\ Differ(Push("unretire", k), todo[t], 0, 0, 0, 1, 0, 0)
      /\ Differ(Push("create", k), todo[t], 0, 0, 0, 0, 0, 1)
      /\ Differ(Push("release", k), todo[t], 0, 0, 0, 0, 1, 0)
  BY <1>1, <1>2, AddDiffers DEF Adding, Unretiring, Releasing, Creating
<1> HIDE DEF k
<1>10. CASE new = counts
  <2>1. /\ todo' = [todo EXCEPT ![t] = k]
        /\ counts'.working > 0 \/ counts'.maxWorking = 0
    BY <1>1, <1>3, <1>4, <1>5, <1>8, <1>10 DEF Counts
  <2>2. Balances(t, k)
    BY <1>1, <1>3, <1>5, <1>7, <1>9, <1>10, SMT DEF Balances, Differ, Counts
  <2> QED BY <1>2, <1>4, <1>5, <1>7, <2>1, <2>2, AddMoves DEF k
<1>11. CASE counts.working < counts.maxWorking /\ counts.working < counts.active
  <2>1. todo' = [todo EXCEPT ![t] = Push("release", k)] /\ counts'.working > 0
    BY <1>1, <1>3, <1>4, <1>5, <1>8, <1>11 DEF Counts, Steps
  <2>2. Balances(t, Push("release", k))
    BY <1>1, <1>3, <1>4, <1>5, <1>7, <1>9, <1>11, SMT DEF Balances, Differ, Counts
  <2> QED BY <1>2, <1>4, <1>5, <1>7, <2>1, <2>2, AddMoves DEF Adding, k
<1>12. CASE counts.working < counts.maxWorking /\ counts.working = counts.active
            /\ counts.retired > 0
  <2>1. todo' = [todo EXCEPT ![t] = Push("unretire", k)] /\ counts'.working > 0
    BY <1>1, <1>3, <1>4, <1>5, <1>8, <1>12 DEF Counts, Steps
  <2>2. Balances(t, Push("unretire", k))
    BY <1>1, <1>3, <1>4, <1>5, <1>7, <1>9, <1>12, SMT DEF Balances, Differ, Counts
  <2> QED BY <1>2, <1>4, <1>5, <1>7, <2>1, <2>2, AddMoves DEF Adding, k
<1>13. CASE counts.working < counts.maxWorking /\ counts.working = counts.active
            /\ counts.retired = 0
  <2>1. todo' = [todo EXCEPT ![t] = Push("create", k)] /\ counts'.working > 0
    BY <1>1, <1>3, <1>4, <1>5, <1>8, <1>13 DEF Counts, Steps
  <2>2. Balances(t, Push("create", k))
    BY <1>1, <1>3, <1>4, <1>5, <1>7, <1>9, <1>13, SMT DEF Balances, Differ, Counts
  <2> QED BY <1>2, <1>4, <1>5, <1>7, <2>1, <2>2, AddMoves DEF Adding, k
<1> QED BY <1>1, <1>3, <1>4, <1>10, <1>11, <1>12, <1>13 DEF Counts

\* Whoever has to wake or to create a worker is counted as working.
LEMMA CountedMore ==
  ASSUME TypeOK, CountsMatch, Stacked, NEW t \in Thread, NEW x \in Adding \ {"add"}, At(t, x)
  PROVE  counts.working > 0
<1> DEFINE n(L) == Having(todo, L)
<1>1. ASSUME NEW L
      PROVE  n(L) \in Nat /\ n(L) >= Weight(todo[t], L)
  BY CountMove DEF TypeOK
<1>2. Balanced(counts, n(Busy), n(Asleep), n(Off), retiredSem + n(Unretiring),
               workerSem + n(Releasing), n(Creating))
  BY CountsAre
<1>3. workerSem \in Nat /\ retiredSem \in Nat /\ counts \in Counts
  BY DEF TypeOK, Counts
<1>4. \A L : x \in L => Weight(todo[t], L) = 1
  BY Goes DEF Weight
<1>5. x \in Unretiring \/ x \in Releasing \/ x \in Creating
  BY DEF Unretiring, Releasing, Creating, Adding
<1> HIDE DEF n
<1>6. n(Unretiring) >= 1 \/ n(Releasing) >= 1 \/ n(Creating) >= 1
  BY <1>1, <1>4, <1>5
<1> QED BY <1>1, <1>2, <1>3, <1>6 DEF Balanced, Counts

\* A release of RetiredWorkerSemaphore preserves the invariant.
LEMMA UnretireInv ==
  ASSUME PoolInv, NEW t \in Thread, Unretire(t)
  PROVE  PoolInv'
<1> DEFINE k == Tail(todo[t])
<1>1. TypeOK /\ Stacked /\ CountsMatch /\ counts \in Counts /\ Plain
  BY DEF PoolInv, TypeOK, Plain, Counts
<1>2. At(t, "unretire") /\ "unretire" \in Adding
  BY DEF Unretire, Adding
<1>4. todo' = [todo EXCEPT ![t] = k]
  BY <1>1, <1>2, Goes DEF Unretire
<1>5. Differ(k, todo[t], 0, 0, 0, -1, 0, 0)
  BY <1>1, <1>2, AddDiffers DEF Adding, Unretiring, Releasing, Creating
<1>6. counts.working <= counts.active
  BY <1>1, Counted
<1>7. Plain' /\ Ranges' /\ todo[t] # << >> /\ workerSem' \in Nat /\ retiredSem' \in Nat /\ pending' <= pending
      /\ failures' >= failures /\ workerSem \in Nat /\ retiredSem \in Nat /\ counts' \in Counts
      /\ UNCHANGED <<limits, gateStatus, requested>>
  BY <1>1, <1>2, <1>6 DEF Unretire, PoolInv, Ranges, Plain, TypeOK, At, Counts, bounds
<1> HIDE DEF k
<1>8. Balances(t, k)
  BY <1>1, <1>5, <1>6, <1>7, SMT DEF Unretire, Balances, Differ, Counts
<1>9. counts'.working > 0
  <2>1. counts.working > 0
    BY <1>1, <1>2, CountedMore
  <2> QED BY <2>1 DEF Unretire
<1> QED BY <1>2, <1>4, <1>7, <1>8, <1>9, AddMoves DEF k

\* A release of WorkerSemaphore preserves the invariant.
LEMMA ReleaseInv ==
  ASSUME PoolInv, NEW t \in Thread, Release(t)
  PROVE  PoolInv'
<1> DEFINE k == Tail(todo[t])
<1>1. TypeOK /\ Stacked /\ CountsMatch /\ counts \in Counts /\ Plain
  BY DEF PoolInv, TypeOK, Plain, Counts
<1>2. At(t, "release") /\ "release" \in Adding
  BY DEF Release, Adding
<1>4. todo' = [todo EXCEPT ![t] = k]
  BY <1>1, <1>2, Goes DEF Release
<1>5. Differ(k, todo[t], 0, 0, 0, 0, -1, 0)
  BY <1>1, <1>2, AddDiffers DEF Adding, Unretiring, Releasing, Creating
<1>6. counts.working <= counts.active
  BY <1>1, Counted
<1>7. Plain' /\ Ranges' /\ todo[t] # << >> /\ workerSem' \in Nat /\ retiredSem' \in Nat /\ pending' <= pending
      /\ failures' >= failures /\ workerSem \in Nat /\ retiredSem \in Nat /\ counts' \in Counts
      /\ UNCHANGED <<limits, gateStatus, requested>>
  BY <1>1, <1>2, <1>6 DEF Release, PoolInv, Ranges, Plain, TypeOK, At, Counts, bounds
<1> HIDE DEF k
<1>8. Balances(t, k)
  BY <1>1, <1>5, <1>6, <1>7, SMT DEF Release, Balances, Differ, Counts
<1>9. counts'.working > 0
  <2>1. counts.working > 0
    BY <1>1, <1>2, CountedMore
  <2> QED BY <2>1 DEF Release
<1> QED BY <1>2, <1>4, <1>7, <1>8, <1>9, AddMoves DEF k

\* Taking back the counts of a failed creation preserves the invariant.
LEMMA RenegeInv ==
  ASSUME PoolInv, NEW t \in Thread, Renege(t)
  PROVE  PoolInv'
<1> DEFINE k == Tail(todo[t])
<1>1. TypeOK /\ Stacked /\ CountsMatch /\ counts \in Counts /\ Plain
  BY DEF PoolInv, TypeOK, Plain, Counts
<1>2. At(t, "renege") /\ "renege" \in Adding
  BY DEF Renege, Adding
<1>4. todo' = [todo EXCEPT ![t] = k]
  BY <1>1, <1>2, Goes DEF Renege
<1>5. Differ(k, todo[t], 0, 0, 0, 0, 0, -1)
  BY <1>1, <1>2, AddDiffers DEF Adding, Unretiring, Releasing, Creating
<1>6. counts.working <= counts.active /\ counts.working > 0
  BY <1>1, <1>2, Counted, CountedMore
<1>7. Plain' /\ Ranges' /\ todo[t] # << >> /\ workerSem' \in Nat /\ retiredSem' \in Nat /\ pending' <= pending
      /\ failures' >= failures /\ workerSem \in Nat /\ retiredSem \in Nat /\ counts' \in Counts
      /\ UNCHANGED <<limits, gateStatus, requested>>
  <2>1. counts' = [counts EXCEPT !.working = @ - 1, !.active = @ - 1]
    BY DEF Renege
  <2>2. counts' \in Counts
    <3>1. counts.working - 1 \in Nat /\ counts.active - 1 \in Nat
      BY <1>1, <1>6 DEF Counts
    <3> QED BY <1>1, <2>1, <3>1 DEF Counts
  <2> QED BY <1>1, <1>2, <2>2 DEF Renege, PoolInv, Ranges, Plain, TypeOK, At, bounds
<1> HIDE DEF k
<1>8. Balances(t, k)
  BY <1>1, <1>5, <1>6, <1>7, SMT DEF Renege, Balances, Differ, Counts
<1>9. failures' > 0
  BY <1>2 DEF PoolInv, Reneged, Renege, bounds
<1> QED BY <1>2, <1>4, <1>7, <1>8, <1>9, AddMoves DEF k

-----------------------------------------------------------------------------
(* WorkerThreadStart.                                                      *)

\* The stack of a worker between two steps of its own: in the groups of the step y.
Becomes(w, s, y) ==
  LET b(L) == IF y \in L THEN 1 ELSE 0
  IN  /\ Shape(w, s) /\ (s # << >> => Head(s) \notin {"createGate", "quit", "renege"})
      /\ Weight(s, Busy) = b(Busy) /\ Weight(s, Asleep) = b(Asleep) /\ Weight(s, Off) = b(Off)
      /\ Weight(s, Unretiring) = 0 /\ Weight(s, Releasing) = 0 /\ Weight(s, Creating) = 0

\* How the counts move when a worker goes from the step x to the step y.
MovesFrom(x, y) ==
  LET d(L) == (IF y \in L THEN 1 ELSE 0) - (IF x \in L THEN 1 ELSE 0)
      unretiring == retiredSem' - retiredSem
  IN  /\ counts'.working = counts.working + d(Busy) + (workerSem' - workerSem) + unretiring
      /\ counts'.active = counts.active + d(Busy) + unretiring + d(Asleep)
      /\ counts'.retired = counts.retired + d(Off) - unretiring
      /\ counts'.working <= counts'.active

\* The stacks a worker may have, and their groups.
LEMMA WorkerStacks ==
  ASSUME NEW w \in Worker
  PROVE  /\ Becomes(w, << >>, "out")
         /\ \A y \in Alone : Becomes(w, On(y), y) /\ \A L : Has(On(y), L) <=> y \in L
         /\ \A y \in {"retired", "waiting"} :
              Becomes(w, Push("add", On(y)), y) /\ Has(Push("add", On(y)), Looking)
         /\ Becomes(w, Push("adjust", On("keep")), "keep")
<1>0. w \in Thread /\ w # Client /\ w # Gate
  BY WorkerPoolAssumption DEF Thread, WorkerPoolAssumption
<1>1. Becomes(w, << >>, "out")
  BY Weights, NothingOn DEF Becomes, Shape, Busy, Asleep, Off
<1>2. ASSUME NEW y \in Alone
      PROVE  /\ Becomes(w, On(y), y) /\ On(y) \in Seq(Steps)
             /\ \A L : Has(On(y), L) <=> y \in L
             /\ \A L : Weight(On(y), L) = IF y \in L THEN 1 ELSE 0
  <2>1. y \in Steps /\ << >> \in Seq(Steps)
    BY DEF Alone, Steps
  <2>2. Row(w, y, << >>)
    BY DEF Row, Alone, Watching, Adding
  <2>3. Shape(w, On(y))
    BY <1>0, <2>1, <2>2, ShapeOn DEF On
  <2>4. On(y) \in Seq(Steps) /\ Head(On(y)) = y
    BY <2>1, PushFacts DEF On
  <2>5. \A L : Has(On(y), L) <=> y \in L
    BY <2>1, OnHas
  <2>6. \A L : Weight(On(y), L) = IF y \in L THEN 1 ELSE 0
    BY <2>5 DEF Weight
  <2>7. y \notin Unretiring /\ y \notin Releasing /\ y \notin Creating
        /\ y \notin {"createGate", "quit", "renege"}
    BY DEF Alone, Unretiring, Releasing, Creating
  <2> QED BY <2>3, <2>4, <2>5, <2>6, <2>7 DEF Becomes
<1>3. ASSUME NEW x \in {"add", "adjust"}, NEW y \in {"retired", "waiting", "keep"},
             Row(w, x, On(y))
      PROVE  Becomes(w, Push(x, On(y)), y) /\ (x = "add" => Has(Push(x, On(y)), Looking))
  <2>1. x \in Steps /\ y \in Alone
    BY DEF Steps, Alone
  <2>2. /\ On(y) \in Seq(Steps)
        /\ \A L : Weight(On(y), L) = IF y \in L THEN 1 ELSE 0
    BY <1>2, <2>1
  <2>3. Shape(w, Push(x, On(y))) /\ Head(Push(x, On(y))) = x
    BY <1>0, <1>3, <2>1, <2>2, ShapeOn, PushFacts
  <2>4. \A L : Weight(Push(x, On(y)), L) = IF x \in L THEN 1 ELSE Weight(On(y), L)
    BY <2>1, <2>2, Weights
  <2>5. /\ x \notin Busy /\ x \notin Asleep /\ x \notin Off
        /\ x \notin Unretiring /\ x \notin Releasing /\ x \notin Creating
        /\ y \notin Unretiring /\ y \notin Releasing /\ y \notin Creating
    BY DEF Busy, Asleep, Off, Unretiring, Releasing, Creating
  <2>6. x = "add" => Has(Push(x, On(y)), Looking)
    BY <2>1, <2>2, PushHas DEF Looking
  <2> QED BY <2>2, <2>3, <2>4, <2>5, <2>6 DEF Becomes
<1>4. \A y \in {"retired", "waiting"} : Row(w, "add", On(y))
  BY <1>0 DEF Row, Adding, Alone, Watching, AfterAdd
<1>5. Row(w, "adjust", On("keep"))
  BY <1>0 DEF Row, Adding, Alone, Watching
<1> QED BY <1>1, <1>2, <1>3, <1>4, <1>5

\* A worker at a step of its own has nothing else ahead of it.
LEMMA WorkerGoes ==
  ASSUME TypeOK, Stacked, NEW w \in Thread, NEW x \in Alone, At(w, x)
  PROVE  /\ w \in Worker
         /\ \A L : Has(todo[w], L) <=> x \in L
         /\ \A L : Weight(todo[w], L) = IF x \in L THEN 1 ELSE 0
         /\ Goto(w, << >>) => todo' = [todo EXCEPT ![w] = << >>]
         /\ \A y \in Steps : Goto(w, <<y>>) => todo' = [todo EXCEPT ![w] = On(y)]
         /\ \A y, z \in Steps : Goto(w, <<y, z>>) => todo' = [todo EXCEPT ![w] = Push(y, On(z))]
<1>1. w \in Worker /\ Tail(todo[w]) = << >>
  BY Goes DEF Row
<1>2. \A L : Has(todo[w], L) <=> x \in L
  BY <1>1, Goes, NothingOn
<1> QED BY <1>1, <1>2, Goes DEF Weight, On

\* A worker goes from the step x to the step y, and the counts with it.
LEMMA WorkerMoves ==
  ASSUME PoolInv, NEW w \in Thread, NEW x \in Alone, At(w, x), NEW s, NEW y, Becomes(w, s, y),
         todo' = [todo EXCEPT ![w] = s], MovesFrom(x, y),
         Plain', UNCHANGED <<limits, gateStatus, requested, failures>>, pending' <= pending, Keeps,
         counts' \in Counts, workerSem' \in Nat, retiredSem' \in Nat,
         \/ counts'.working > 0 \/ pending' = 0 \/ Has(s, Looking)
         \/ counts'.working >= counts.working /\ x \notin Looking
  PROVE  PoolInv'
<1>1. TypeOK /\ Stacked /\ counts \in Counts /\ workerSem \in Nat /\ retiredSem \in Nat
      /\ todo[w] # << >> /\ failures \in Nat
  <2>1. TypeOK /\ Stacked
    BY DEF PoolInv
  <2>2. counts \in Counts /\ workerSem \in Nat /\ retiredSem \in Nat /\ failures \in 0..MaxFailures
    BY <2>1, Zenon DEF TypeOK, Counts
  <2>3. todo[w] # << >>
    BY DEF At
  <2>4. failures \in Nat
    BY <2>2
  <2> QED BY <2>1, <2>2, <2>3, <2>4, Zenon
<1>2. /\ \A L : Has(todo[w], L) <=> x \in L
      /\ \A L : Weight(todo[w], L) = IF x \in L THEN 1 ELSE 0
  BY <1>1, WorkerGoes
<1>3. ~Has(todo[w], ToGate) /\ x \notin Unretiring /\ x \notin Releasing /\ x \notin Creating
  BY <1>2 DEF ToGate, Alone, Unretiring, Releasing, Creating
<1>4. Balances(w, s)
  <2> DEFINE b(z, L) == IF z \in L THEN 1 ELSE 0
  <2>1. /\ Weight(s, Busy) = b(y, Busy) /\ Weight(s, Asleep) = b(y, Asleep)
        /\ Weight(s, Off) = b(y, Off)
        /\ Weight(s, Unretiring) = 0 /\ Weight(s, Releasing) = 0 /\ Weight(s, Creating) = 0
    BY DEF Becomes
  <2>2. /\ Weight(todo[w], Busy) = b(x, Busy) /\ Weight(todo[w], Asleep) = b(x, Asleep)
        /\ Weight(todo[w], Off) = b(x, Off) /\ Weight(todo[w], Unretiring) = 0
        /\ Weight(todo[w], Releasing) = 0 /\ Weight(todo[w], Creating) = 0
    BY <1>2, <1>3
  <2>3. /\ b(x, Busy) \in {0, 1} /\ b(x, Asleep) \in {0, 1} /\ b(x, Off) \in {0, 1}
        /\ b(y, Busy) \in {0, 1} /\ b(y, Asleep) \in {0, 1} /\ b(y, Off) \in {0, 1}
    OBVIOUS
  <2>4. /\ counts'.working = counts.working + (b(y, Busy) - b(x, Busy))
                                + (workerSem' - workerSem) + (retiredSem' - retiredSem)
        /\ counts'.active = counts.active + (b(y, Busy) - b(x, Busy))
                               + (retiredSem' - retiredSem) + (b(y, Asleep) - b(x, Asleep))
        /\ counts'.retired = counts.retired + (b(y, Off) - b(x, Off)) - (retiredSem' - retiredSem)
        /\ counts'.working <= counts'.active
    BY DEF MovesFrom
  <2> HIDE DEF b
  <2>5. counts'.working \in Nat /\ counts'.active \in Nat /\ counts'.retired \in Nat
        /\ counts.working \in Nat /\ counts.active \in Nat /\ counts.retired \in Nat
    BY <1>1 DEF Counts
  <2>6. /\ counts'.working = counts.working + (Weight(s, Busy) - Weight(todo[w], Busy))
             + (workerSem' - workerSem + (Weight(s, Releasing) - Weight(todo[w], Releasing)))
             + (retiredSem' - retiredSem + (Weight(s, Unretiring) - Weight(todo[w], Unretiring)))
             + (Weight(s, Creating) - Weight(todo[w], Creating))
    BY <1>1, <2>1, <2>2, <2>3, <2>4, <2>5
  <2>7. /\ counts'.active = counts.active + (Weight(s, Busy) - Weight(todo[w], Busy))
             + (retiredSem' - retiredSem + (Weight(s, Unretiring) - Weight(todo[w], Unretiring)))
             + (Weight(s, Creating) - Weight(todo[w], Creating))
             + (Weight(s, Asleep) - Weight(todo[w], Asleep))
    <3>1. /\ Weight(s, Busy) - Weight(todo[w], Busy) = b(y, Busy) - b(x, Busy)
          /\ Weight(s, Asleep) - Weight(todo[w], Asleep) = b(y, Asleep) - b(x, Asleep)
          /\ Weight(s, Unretiring) - Weight(todo[w], Unretiring) = 0
          /\ Weight(s, Creating) - Weight(todo[w], Creating) = 0
      BY <2>1, <2>2
    <3>2. b(y, Busy) - b(x, Busy) \in Int /\ b(y, Asleep) - b(x, Asleep) \in Int
      BY <2>3
    <3> QED BY <1>1, <2>4, <2>5, <3>1, <3>2
  <2>8. counts'.retired = counts.retired + (Weight(s, Off) - Weight(todo[w], Off))
             - (retiredSem' - retiredSem + (Weight(s, Unretiring) - Weight(todo[w], Unretiring)))
    BY <1>1, <2>1, <2>2, <2>3, <2>4, <2>5
  <2> QED BY <2>4, <2>6, <2>7, <2>8 DEF Balances
<1>5. Shape(w, s) /\ (s # << >> => Head(s) \notin {"createGate", "quit", "renege"})
  BY DEF Becomes
<1>6. \/ counts'.working > 0 \/ pending' = 0 \/ Has(s, Looking)
      \/ counts'.working >= counts.working /\ ~Has(todo[w], Looking)
  BY <1>2
<1>7. failures' >= failures /\ Ranges'
  BY <1>1 DEF PoolInv, Ranges, Plain, TypeOK
<1> QED BY <1>1, <1>3, <1>4, <1>5, <1>6, <1>7, LocalStep

\* The steps of WorkerThreadStart preserve the invariant.
LEMMA WorkerInv ==
  ASSUME PoolInv, NEW w \in Worker,
         \/ Work(w) \/ ExecuteWorkRequest(w) \/ DispatchReturns(w) \/ NotifyRequestComplete(w)
         \/ ShouldWorkerKeepRunning(w) \/ Recalled(w) \/ Retire(w) \/ WakeRetired(w)
         \/ RetiredTimeout(w) \/ LeaveRetired(w) \/ WaitForWork(w) \/ WakeWorker(w)
         \/ WaitTimeout(w) \/ LeaveWaiting(w)
  PROVE  PoolInv'
<1>0. Keeps
  <2>1. CASE LeaveWaiting(w)
    <3>1. leftRaised' = (leftRaised \/ (counts.maxWorking = 0 /\ counts'.maxWorking > 0))
      BY <2>1, Zenon DEF LeaveWaiting
    <3>2. /\ counts \in Counts /\ counts.maxWorking \in Nat /\ counts.active - 1 \in Int
          /\ limits.min \in Nat
      BY DEF PoolInv, TypeOK, Counts
    <3>3. Max2(limits.min, Min2(counts.active - 1, counts.maxWorking)) \in Nat
      BY <3>2, MinMax
    <3>4. counts'.maxWorking \in Nat
      BY <2>1, <3>2, <3>3 DEF LeaveWaiting, Counts
    <3>5. counts'.maxWorking = 0 \/ counts'.maxWorking > 0
      BY <3>4
    <3> QED BY <3>1, <3>5, Zenon DEF Keeps
  <2>2. CASE ~LeaveWaiting(w)
    <3>1. counts'.maxWorking = counts.maxWorking
      BY <2>2 DEF PoolInv, TypeOK, Work, ExecuteWorkRequest, DispatchReturns, NotifyRequestComplete,
                  ShouldWorkerKeepRunning, Recalled, Retire, WakeRetired, RetiredTimeout,
                  LeaveRetired, WaitForWork, WakeWorker, WaitTimeout
    <3>2. leftRaised' = leftRaised
      BY <2>2 DEF Work, ExecuteWorkRequest, DispatchReturns, NotifyRequestComplete,
                  ShouldWorkerKeepRunning, Recalled, Retire, WakeRetired, RetiredTimeout,
                  LeaveRetired, WaitForWork, WakeWorker, WaitTimeout, bounds
    <3> QED BY <3>1, <3>2 DEF Keeps
  <2> QED BY <2>1, <2>2
<1>1. /\ TypeOK /\ Stacked /\ CountsMatch /\ counts \in Counts /\ Plain /\ w \in Thread
      /\ workerSem \in Nat /\ retiredSem \in Nat /\ limits.min \in Nat
  BY DEF PoolInv, TypeOK, Plain, Counts, Thread
<1>2. ASSUME NEW x \in Alone, At(w, x)
      PROVE  x \in Busy => counts.working - 1 \in Nat /\ counts.active - 1 \in Nat
  <2>1. Weight(todo[w], Busy) = IF x \in Busy THEN 1 ELSE 0
    BY <1>1, <1>2, WorkerGoes
  <2>2. counts.working >= Weight(todo[w], Busy) /\ counts.working <= counts.active
    BY <1>1, Counted
  <2> QED BY <1>1, <2>1, <2>2 DEF Counts
<1>3. counts.working <= counts.active
  BY <1>1, Counted
<1>4. LET m == Max2(limits.min, Min2(counts.active - 1, counts.maxWorking))
      IN  counts.active # counts.working => counts.active - 1 \in Nat /\ m \in Nat
  BY <1>1, <1>3, MinMax DEF Counts
<1>5. CASE Work(w)
  <2>1. CASE counts.active > counts.maxWorking
    <3>1. At(w, "work") /\ "work" \in Alone
      BY <1>5 DEF Work, Alone
    <3>2. todo' = [todo EXCEPT ![w] = On("retire")]
      BY <1>5, <3>1, <1>1, WorkerGoes, <2>1 DEF Work, Steps
    <3>3. Becomes(w, On("retire"), "retire")
      BY <1>1, <3>1, WorkerGoes, WorkerStacks DEF Alone
    <3>8. counts.working - 1 \in Nat /\ counts.active - 1 \in Nat /\ counts.retired + 1 \in Nat
      BY <1>1, <1>2, <3>1 DEF Busy, Counts
    <3>9. counts' = [counts EXCEPT !.active = @ - 1, !.retired = @ + 1, !.working = @ - 1]
      BY <1>5, <2>1 DEF Work
    <3>10. /\ counts'.working = counts.working - 1 /\ counts'.active = counts.active - 1
           /\ counts'.retired = counts.retired + 1 /\ counts'.maxWorking = counts.maxWorking
      BY <1>1, <3>9 DEF Counts
    <3>4. counts' \in Counts
      BY <1>1, <3>8, <3>9 DEF Counts
    <3>5. Plain' /\ UNCHANGED <<limits, gateStatus, requested, failures>>
          /\ workerSem' \in Nat /\ retiredSem' \in Nat /\ pending' <= pending
      BY <1>1, <1>5 DEF Work, Plain, bounds
    <3>6. MovesFrom("work", "retire")
      BY <1>1, <1>3, <3>10, <1>5, <2>1 DEF Work, MovesFrom, Counts, Busy, Asleep, Off
    <3>7. \/ counts'.working > 0 \/ pending' = 0 \/ Has(On("retire"), Looking)
          \/ counts'.working >= counts.working /\ "work" \notin Looking
      BY <1>1, <3>1, WorkerGoes, WorkerStacks DEF Alone, Looking
    <3> QED BY <1>0, <1>1, <3>1, <3>2, <3>3, <3>4, <3>5, <3>6, <3>7, WorkerMoves
  <2>2. CASE ~(counts.active > counts.maxWorking) /\ ~found[w]
    <3>1. At(w, "work") /\ "work" \in Alone
      BY <1>5 DEF Work, Alone
    <3>2. todo' = [todo EXCEPT ![w] = On("sweep")]
      BY <1>5, <3>1, <1>1, WorkerGoes, <2>2 DEF Work, Steps
    <3>3. Becomes(w, On("sweep"), "sweep")
      BY <1>1, <3>1, WorkerGoes, WorkerStacks DEF Alone
    <3>4. counts' \in Counts
      BY <1>1, <1>2, <1>3, <1>4, <3>1, <1>5, <2>2 DEF Work, Counts, Busy
    <3>5. Plain' /\ UNCHANGED <<limits, gateStatus, requested, failures>>
          /\ workerSem' \in Nat /\ retiredSem' \in Nat /\ pending' <= pending
      BY <1>1, <1>5 DEF Work, Plain, bounds
    <3>6. MovesFrom("work", "sweep")
      BY <1>1, <1>2, <1>3, <1>4, <3>1, <1>5, <2>2 DEF Work, MovesFrom, Counts, Busy, Asleep, Off
    <3>7. \/ counts'.working > 0 \/ pending' = 0 \/ Has(On("sweep"), Looking)
          \/ counts'.working >= counts.working /\ "work" \notin Looking
      BY <1>1, <3>1, WorkerGoes, WorkerStacks DEF Alone, Looking
    <3> QED BY <1>0, <1>1, <3>1, <3>2, <3>3, <3>4, <3>5, <3>6, <3>7, WorkerMoves
  <2>3. CASE ~(counts.active > counts.maxWorking) /\ found[w]
    <3>1. At(w, "work") /\ "work" \in Alone
      BY <1>5 DEF Work, Alone
    <3>2. todo' = [todo EXCEPT ![w] = On("execute")]
      BY <1>5, <3>1, <1>1, WorkerGoes, <2>3 DEF Work, Steps
    <3>3. Becomes(w, On("execute"), "execute")
      BY <1>1, <3>1, WorkerGoes, WorkerStacks DEF Alone
    <3>4. counts' \in Counts
      BY <1>1, <1>2, <1>3, <1>4, <3>1, <1>5, <2>3 DEF Work, Counts, Busy
    <3>5. Plain' /\ UNCHANGED <<limits, gateStatus, requested, failures>>
          /\ workerSem' \in Nat /\ retiredSem' \in Nat /\ pending' <= pending
      BY <1>1, <1>5 DEF Work, Plain, bounds
    <3>6. MovesFrom("work", "execute")
      BY <1>1, <1>2, <1>3, <1>4, <3>1, <1>5, <2>3 DEF Work, MovesFrom, Counts, Busy, Asleep, Off
    <3>7. \/ counts'.working > 0 \/ pending' = 0 \/ Has(On("execute"), Looking)
          \/ counts'.working >= counts.working /\ "work" \notin Looking
      BY <1>1, <1>5, <2>3 DEF Work, Looking, Counts
    <3> QED BY <1>0, <1>1, <3>1, <3>2, <3>3, <3>4, <3>5, <3>6, <3>7, WorkerMoves
  <2> QED BY <1>5, <2>1, <2>2, <2>3
<1>6. CASE ExecuteWorkRequest(w)
  <2>1. CASE pending > 0
    <3>1. At(w, "execute") /\ "execute" \in Alone
      BY <1>6 DEF ExecuteWorkRequest, Alone
    <3>2. todo' = [todo EXCEPT ![w] = On("dispatch")]
      BY <1>6, <3>1, <1>1, WorkerGoes, <2>1 DEF ExecuteWorkRequest, Steps
    <3>3. Becomes(w, On("dispatch"), "dispatch")
      BY <1>1, <3>1, WorkerGoes, WorkerStacks DEF Alone
    <3>4. counts' \in Counts
      BY <1>1, <1>2, <1>3, <1>4, <3>1, <1>6, <2>1 DEF ExecuteWorkRequest, Counts, Busy
    <3>5. Plain' /\ UNCHANGED <<limits, gateStatus, requested, failures>>
          /\ workerSem' \in Nat /\ retiredSem' \in Nat /\ pending' <= pending
      BY <1>1, <1>6 DEF ExecuteWorkRequest, Plain, bounds
    <3>6. MovesFrom("execute", "dispatch")
      BY <1>1, <1>2, <1>3, <1>4, <3>1, <1>6, <2>1 DEF ExecuteWorkRequest, MovesFrom, Counts, Busy, Asleep, Off
    <3>7. \/ counts'.working > 0 \/ pending' = 0 \/ Has(On("dispatch"), Looking)
          \/ counts'.working >= counts.working /\ "execute" \notin Looking
      BY <1>1, <1>6, <2>1 DEF ExecuteWorkRequest, Looking, Counts
    <3> QED BY <1>0, <1>1, <3>1, <3>2, <3>3, <3>4, <3>5, <3>6, <3>7, WorkerMoves
  <2>2. CASE ~(pending > 0)
    <3>1. At(w, "execute") /\ "execute" \in Alone
      BY <1>6 DEF ExecuteWorkRequest, Alone
    <3>2. todo' = [todo EXCEPT ![w] = On("work")]
      BY <1>6, <3>1, <1>1, WorkerGoes, <2>2 DEF ExecuteWorkRequest, Steps
    <3>3. Becomes(w, On("work"), "work")
      BY <1>1, <3>1, WorkerGoes, WorkerStacks DEF Alone
    <3>4. counts' \in Counts
      BY <1>1, <1>2, <1>3, <1>4, <3>1, <1>6, <2>2 DEF ExecuteWorkRequest, Counts, Busy
    <3>5. Plain' /\ UNCHANGED <<limits, gateStatus, requested, failures>>
          /\ workerSem' \in Nat /\ retiredSem' \in Nat /\ pending' <= pending
      BY <1>1, <1>6 DEF ExecuteWorkRequest, Plain, bounds
    <3>6. MovesFrom("execute", "work")
      BY <1>1, <1>2, <1>3, <1>4, <3>1, <1>6, <2>2 DEF ExecuteWorkRequest, MovesFrom, Counts, Busy, Asleep, Off
    <3>7. \/ counts'.working > 0 \/ pending' = 0 \/ Has(On("work"), Looking)
          \/ counts'.working >= counts.working /\ "execute" \notin Looking
      BY <1>1, <1>6, <2>2 DEF ExecuteWorkRequest, Looking, Counts
    <3> QED BY <1>0, <1>1, <3>1, <3>2, <3>3, <3>4, <3>5, <3>6, <3>7, WorkerMoves
  <2> QED BY <1>6, <2>1, <2>2
<1>7. CASE DispatchReturns(w)
  <2>1. At(w, "dispatch") /\ "dispatch" \in Alone
    BY <1>7 DEF DispatchReturns, Alone
  <2>2. todo' = [todo EXCEPT ![w] = On("work")]
    BY <1>7, <2>1, <1>1, WorkerGoes DEF DispatchReturns, Steps
  <2>3. Becomes(w, On("work"), "work")
    BY <1>1, <2>1, WorkerGoes, WorkerStacks DEF Alone
  <2>4. counts' \in Counts
    BY <1>1, <1>2, <1>3, <1>4, <2>1, <1>7 DEF DispatchReturns, Counts, Busy
  <2>5. Plain' /\ UNCHANGED <<limits, gateStatus, requested, failures>>
        /\ workerSem' \in Nat /\ retiredSem' \in Nat /\ pending' <= pending
    BY <1>1, <1>7 DEF DispatchReturns, Plain, bounds
  <2>6. MovesFrom("dispatch", "work")
    BY <1>1, <1>2, <1>3, <1>4, <2>1, <1>7 DEF DispatchReturns, MovesFrom, Counts, Busy, Asleep, Off
  <2>7. \/ counts'.working > 0 \/ pending' = 0 \/ Has(On("work"), Looking)
        \/ counts'.working >= counts.working /\ "dispatch" \notin Looking
    BY <1>1, <1>7 DEF DispatchReturns, Looking, Counts
  <2> QED BY <1>0, <1>1, <2>1, <2>2, <2>3, <2>4, <2>5, <2>6, <2>7, WorkerMoves
<1>8. CASE NotifyRequestComplete(w)
  <2>1. CASE Goto(w, <<"keep">>)
    <3>1. At(w, "dispatch") /\ "dispatch" \in Alone
      BY <1>8 DEF NotifyRequestComplete, Alone
    <3>2. todo' = [todo EXCEPT ![w] = On("keep")]
      BY <1>8, <3>1, <1>1, WorkerGoes, <2>1 DEF NotifyRequestComplete, Steps
    <3>3. Becomes(w, On("keep"), "keep")
      BY <1>1, <3>1, WorkerGoes, WorkerStacks DEF Alone
    <3>4. counts' \in Counts
      BY <1>1, <1>2, <1>3, <1>4, <3>1, <1>8, <2>1 DEF NotifyRequestComplete, Counts, Busy
    <3>5. Plain' /\ UNCHANGED <<limits, gateStatus, requested, failures>>
          /\ workerSem' \in Nat /\ retiredSem' \in Nat /\ pending' <= pending
      BY <1>1, <1>8 DEF NotifyRequestComplete, Plain, bounds
    <3>6. MovesFrom("dispatch", "keep")
      BY <1>1, <1>2, <1>3, <1>4, <3>1, <1>8, <2>1 DEF NotifyRequestComplete, MovesFrom, Counts, Busy, Asleep, Off
    <3>7. \/ counts'.working > 0 \/ pending' = 0 \/ Has(On("keep"), Looking)
          \/ counts'.working >= counts.working /\ "dispatch" \notin Looking
      BY <1>1, <1>8, <2>1 DEF NotifyRequestComplete, Looking, Counts
    <3> QED BY <1>0, <1>1, <3>1, <3>2, <3>3, <3>4, <3>5, <3>6, <3>7, WorkerMoves
  <2>2. CASE Goto(w, <<"adjust", "keep">>)
    <3>1. At(w, "dispatch") /\ "dispatch" \in Alone
      BY <1>8 DEF NotifyRequestComplete, Alone
    <3>2. todo' = [todo EXCEPT ![w] = Push("adjust", On("keep"))]
      BY <1>8, <3>1, <1>1, WorkerGoes, <2>2 DEF NotifyRequestComplete, Steps
    <3>3. Becomes(w, Push("adjust", On("keep")), "keep")
      BY <1>1, <3>1, WorkerGoes, WorkerStacks DEF Alone
    <3>4. counts' \in Counts
      BY <1>1, <1>2, <1>3, <1>4, <3>1, <1>8, <2>2 DEF NotifyRequestComplete, Counts, Busy
    <3>5. Plain' /\ UNCHANGED <<limits, gateStatus, requested, failures>>
          /\ workerSem' \in Nat /\ retiredSem' \in Nat /\ pending' <= pending
      BY <1>1, <1>8 DEF NotifyRequestComplete, Plain, bounds
    <3>6. MovesFrom("dispatch", "keep")
      BY <1>1, <1>2, <1>3, <1>4, <3>1, <1>8, <2>2 DEF NotifyRequestComplete, MovesFrom, Counts, Busy, Asleep, Off
    <3>7. \/ counts'.working > 0 \/ pending' = 0 \/ Has(Push("adjust", On("keep")), Looking)
          \/ counts'.working >= counts.working /\ "dispatch" \notin Looking
      BY <1>1, <1>8, <2>2 DEF NotifyRequestComplete, Looking, Counts
    <3> QED BY <1>0, <1>1, <3>1, <3>2, <3>3, <3>4, <3>5, <3>6, <3>7, WorkerMoves
  <2> QED BY <1>8, <2>1, <2>2 DEF NotifyRequestComplete
<1>9. CASE ShouldWorkerKeepRunning(w)
  <2>1. CASE counts.active <= counts.maxWorking
    <3>1. At(w, "keep") /\ "keep" \in Alone
      BY <1>9 DEF ShouldWorkerKeepRunning, Alone
    <3>2. todo' = [todo EXCEPT ![w] = On("dispatch")]
      BY <1>9, <3>1, <1>1, WorkerGoes, <2>1 DEF ShouldWorkerKeepRunning, Steps
    <3>3. Becomes(w, On("dispatch"), "dispatch")
      BY <1>1, <3>1, WorkerGoes, WorkerStacks DEF Alone
    <3>4. counts' \in Counts
      BY <1>1, <1>2, <1>3, <1>4, <3>1, <1>9, <2>1 DEF ShouldWorkerKeepRunning, Counts, Busy
    <3>5. Plain' /\ UNCHANGED <<limits, gateStatus, requested, failures>>
          /\ workerSem' \in Nat /\ retiredSem' \in Nat /\ pending' <= pending
      BY <1>1, <1>9 DEF ShouldWorkerKeepRunning, Plain, bounds
    <3>6. MovesFrom("keep", "dispatch")
      BY <1>1, <1>2, <1>3, <1>4, <3>1, <1>9, <2>1 DEF ShouldWorkerKeepRunning, MovesFrom, Counts, Busy, Asleep, Off
    <3>7. \/ counts'.working > 0 \/ pending' = 0 \/ Has(On("dispatch"), Looking)
          \/ counts'.working >= counts.working /\ "keep" \notin Looking
      BY <1>1, <1>9, <2>1 DEF ShouldWorkerKeepRunning, Looking, Counts
    <3> QED BY <1>0, <1>1, <3>1, <3>2, <3>3, <3>4, <3>5, <3>6, <3>7, WorkerMoves
  <2>2. CASE ~(counts.active <= counts.maxWorking)
    <3>1. At(w, "keep") /\ "keep" \in Alone
      BY <1>9 DEF ShouldWorkerKeepRunning, Alone
    <3>2. todo' = [todo EXCEPT ![w] = On("recalled")]
      BY <1>9, <3>1, <1>1, WorkerGoes, <2>2 DEF ShouldWorkerKeepRunning, Steps
    <3>3. Becomes(w, On("recalled"), "recalled")
      BY <1>1, <3>1, WorkerGoes, WorkerStacks DEF Alone
    <3>8. counts.working - 1 \in Nat /\ counts.active - 1 \in Nat /\ counts.retired + 1 \in Nat
      BY <1>1, <1>2, <3>1 DEF Busy, Counts
    <3>9. counts' = [counts EXCEPT !.active = @ - 1, !.retired = @ + 1, !.working = @ - 1]
      BY <1>9, <2>2 DEF ShouldWorkerKeepRunning
    <3>10. /\ counts'.working = counts.working - 1 /\ counts'.active = counts.active - 1
           /\ counts'.retired = counts.retired + 1 /\ counts'.maxWorking = counts.maxWorking
      BY <1>1, <3>9 DEF Counts
    <3>4. counts' \in Counts
      BY <1>1, <3>8, <3>9 DEF Counts
    <3>5. Plain' /\ UNCHANGED <<limits, gateStatus, requested, failures>>
          /\ workerSem' \in Nat /\ retiredSem' \in Nat /\ pending' <= pending
      BY <1>1, <1>9 DEF ShouldWorkerKeepRunning, Plain, bounds
    <3>6. MovesFrom("keep", "recalled")
      BY <1>1, <1>3, <3>10, <1>9, <2>2 DEF ShouldWorkerKeepRunning, MovesFrom, Counts, Busy, Asleep, Off
    <3>7. \/ counts'.working > 0 \/ pending' = 0 \/ Has(On("recalled"), Looking)
          \/ counts'.working >= counts.working /\ "keep" \notin Looking
      BY <1>1, <3>1, WorkerGoes, WorkerStacks DEF Alone, Looking
    <3> QED BY <1>0, <1>1, <3>1, <3>2, <3>3, <3>4, <3>5, <3>6, <3>7, WorkerMoves
  <2> QED BY <1>9, <2>1, <2>2
<1>10. CASE Recalled(w)
  <2>1. At(w, "recalled") /\ "recalled" \in Alone
    BY <1>10 DEF Recalled, Alone
  <2>2. todo' = [todo EXCEPT ![w] = On("retire")]
    BY <1>10, <2>1, <1>1, WorkerGoes DEF Recalled, Steps
  <2>3. Becomes(w, On("retire"), "retire")
    BY <1>1, <2>1, WorkerGoes, WorkerStacks DEF Alone
  <2>4. counts' \in Counts
    BY <1>1, <1>2, <1>3, <1>4, <2>1, <1>10 DEF Recalled, Counts, Busy
  <2>5. Plain' /\ UNCHANGED <<limits, gateStatus, requested, failures>>
        /\ workerSem' \in Nat /\ retiredSem' \in Nat /\ pending' <= pending
    BY <1>1, <1>10 DEF Recalled, Plain, bounds
  <2>6. MovesFrom("recalled", "retire")
    BY <1>1, <1>2, <1>3, <1>4, <2>1, <1>10 DEF Recalled, MovesFrom, Counts, Busy, Asleep, Off
  <2>7. \/ counts'.working > 0 \/ pending' = 0 \/ Has(On("retire"), Looking)
        \/ counts'.working >= counts.working /\ "recalled" \notin Looking
    BY <1>1, <2>1, WorkerGoes, WorkerStacks DEF Alone, Looking
  <2> QED BY <1>0, <1>1, <2>1, <2>2, <2>3, <2>4, <2>5, <2>6, <2>7, WorkerMoves
<1>11. CASE Retire(w)
  <2>1. CASE pending > 0
    <3>1. At(w, "retire") /\ "retire" \in Alone
      BY <1>11 DEF Retire, Alone
    <3>2. todo' = [todo EXCEPT ![w] = Push("add", On("retired"))]
      BY <1>11, <3>1, <1>1, WorkerGoes, <2>1 DEF Retire, Steps
    <3>3. Becomes(w, Push("add", On("retired")), "retired")
      BY <1>1, <3>1, WorkerGoes, WorkerStacks DEF Alone
    <3>4. counts' \in Counts
      BY <1>1, <1>2, <1>3, <1>4, <3>1, <1>11, <2>1 DEF Retire, Counts, Busy
    <3>5. Plain' /\ UNCHANGED <<limits, gateStatus, requested, failures>>
          /\ workerSem' \in Nat /\ retiredSem' \in Nat /\ pending' <= pending
      BY <1>1, <1>11 DEF Retire, Plain, bounds
    <3>6. MovesFrom("retire", "retired")
      BY <1>1, <1>2, <1>3, <1>4, <3>1, <1>11, <2>1 DEF Retire, MovesFrom, Counts, Busy, Asleep, Off
    <3>7. \/ counts'.working > 0 \/ pending' = 0 \/ Has(Push("add", On("retired")), Looking)
          \/ counts'.working >= counts.working /\ "retire" \notin Looking
      BY <1>1, <3>1, WorkerGoes, WorkerStacks DEF Alone, Looking
    <3> QED BY <1>0, <1>1, <3>1, <3>2, <3>3, <3>4, <3>5, <3>6, <3>7, WorkerMoves
  <2>2. CASE ~(pending > 0)
    <3>1. At(w, "retire") /\ "retire" \in Alone
      BY <1>11 DEF Retire, Alone
    <3>2. todo' = [todo EXCEPT ![w] = On("retired")]
      BY <1>11, <3>1, <1>1, WorkerGoes, <2>2 DEF Retire, Steps
    <3>3. Becomes(w, On("retired"), "retired")
      BY <1>1, <3>1, WorkerGoes, WorkerStacks DEF Alone
    <3>4. counts' \in Counts
      BY <1>1, <1>2, <1>3, <1>4, <3>1, <1>11, <2>2 DEF Retire, Counts, Busy
    <3>5. Plain' /\ UNCHANGED <<limits, gateStatus, requested, failures>>
          /\ workerSem' \in Nat /\ retiredSem' \in Nat /\ pending' <= pending
      BY <1>1, <1>11 DEF Retire, Plain, bounds
    <3>6. MovesFrom("retire", "retired")
      BY <1>1, <1>2, <1>3, <1>4, <3>1, <1>11, <2>2 DEF Retire, MovesFrom, Counts, Busy, Asleep, Off
    <3>7. \/ counts'.working > 0 \/ pending' = 0 \/ Has(On("retired"), Looking)
          \/ counts'.working >= counts.working /\ "retire" \notin Looking
      BY <1>1, <1>11, <2>2 DEF Retire, Plain
    <3> QED BY <1>0, <1>1, <3>1, <3>2, <3>3, <3>4, <3>5, <3>6, <3>7, WorkerMoves
  <2> QED BY <1>11, <2>1, <2>2
<1>12. CASE WakeRetired(w)
  <2>1. At(w, "retired") /\ "retired" \in Alone
    BY <1>12 DEF WakeRetired, Alone
  <2>2. todo' = [todo EXCEPT ![w] = On("work")]
    BY <1>12, <2>1, <1>1, WorkerGoes DEF WakeRetired, Steps
  <2>3. Becomes(w, On("work"), "work")
    BY <1>1, <2>1, WorkerGoes, WorkerStacks DEF Alone
  <2>4. counts' \in Counts
    BY <1>1, <1>2, <1>3, <1>4, <2>1, <1>12 DEF WakeRetired, Counts, Busy
  <2>5. Plain' /\ UNCHANGED <<limits, gateStatus, requested, failures>>
        /\ workerSem' \in Nat /\ retiredSem' \in Nat /\ pending' <= pending
    BY <1>1, <1>12 DEF WakeRetired, Plain, bounds
  <2>6. MovesFrom("retired", "work")
    BY <1>1, <1>2, <1>3, <1>4, <2>1, <1>12 DEF WakeRetired, MovesFrom, Counts, Busy, Asleep, Off
  <2>7. \/ counts'.working > 0 \/ pending' = 0 \/ Has(On("work"), Looking)
        \/ counts'.working >= counts.working /\ "retired" \notin Looking
    BY <1>1, <1>12 DEF WakeRetired, Looking, Counts
  <2> QED BY <1>0, <1>1, <2>1, <2>2, <2>3, <2>4, <2>5, <2>6, <2>7, WorkerMoves
<1>13. CASE RetiredTimeout(w)
  <2>1. At(w, "retired") /\ "retired" \in Alone
    BY <1>13 DEF RetiredTimeout, Alone
  <2>2. todo' = [todo EXCEPT ![w] = On("leaveRetired")]
    BY <1>13, <2>1, <1>1, WorkerGoes DEF RetiredTimeout, Steps
  <2>3. Becomes(w, On("leaveRetired"), "leaveRetired")
    BY <1>1, <2>1, WorkerGoes, WorkerStacks DEF Alone
  <2>4. counts' \in Counts
    BY <1>1, <1>2, <1>3, <1>4, <2>1, <1>13 DEF RetiredTimeout, Counts, Busy
  <2>5. Plain' /\ UNCHANGED <<limits, gateStatus, requested, failures>>
        /\ workerSem' \in Nat /\ retiredSem' \in Nat /\ pending' <= pending
    BY <1>1, <1>13 DEF RetiredTimeout, Plain, bounds
  <2>6. MovesFrom("retired", "leaveRetired")
    BY <1>1, <1>2, <1>3, <1>4, <2>1, <1>13 DEF RetiredTimeout, MovesFrom, Counts, Busy, Asleep, Off
  <2>7. \/ counts'.working > 0 \/ pending' = 0 \/ Has(On("leaveRetired"), Looking)
        \/ counts'.working >= counts.working /\ "retired" \notin Looking
    BY <1>1, <1>13 DEF RetiredTimeout, Looking, Counts
  <2> QED BY <1>0, <1>1, <2>1, <2>2, <2>3, <2>4, <2>5, <2>6, <2>7, WorkerMoves
<1>14. CASE LeaveRetired(w)
  <2>1. CASE counts.retired = 0
    <3>1. At(w, "leaveRetired") /\ "leaveRetired" \in Alone
      BY <1>14 DEF LeaveRetired, Alone
    <3>2. todo' = [todo EXCEPT ![w] = On("retired")]
      BY <1>14, <3>1, <1>1, WorkerGoes, <2>1 DEF LeaveRetired, Steps
    <3>3. Becomes(w, On("retired"), "retired")
      BY <1>1, <3>1, WorkerGoes, WorkerStacks DEF Alone
    <3>4. counts' \in Counts
      BY <1>1, <1>2, <1>3, <1>4, <3>1, <1>14, <2>1 DEF LeaveRetired, Counts, Busy
    <3>5. Plain' /\ UNCHANGED <<limits, gateStatus, requested, failures>>
          /\ workerSem' \in Nat /\ retiredSem' \in Nat /\ pending' <= pending
      BY <1>1, <1>14 DEF LeaveRetired, Plain, bounds
    <3>6. MovesFrom("leaveRetired", "retired")
      BY <1>1, <1>2, <1>3, <1>4, <3>1, <1>14, <2>1 DEF LeaveRetired, MovesFrom, Counts, Busy, Asleep, Off
    <3>7. \/ counts'.working > 0 \/ pending' = 0 \/ Has(On("retired"), Looking)
          \/ counts'.working >= counts.working /\ "leaveRetired" \notin Looking
      BY <1>1, <1>14, <2>1 DEF LeaveRetired, Looking, Counts
    <3> QED BY <1>0, <1>1, <3>1, <3>2, <3>3, <3>4, <3>5, <3>6, <3>7, WorkerMoves
  <2>2. CASE counts.retired # 0
    <3>1. At(w, "leaveRetired") /\ "leaveRetired" \in Alone
      BY <1>14 DEF LeaveRetired, Alone
    <3>2. todo' = [todo EXCEPT ![w] = << >>]
      BY <1>14, <3>1, <1>1, WorkerGoes, <2>2 DEF LeaveRetired, Steps
    <3>3. Becomes(w, << >>, "out")
      BY <1>1, <3>1, WorkerGoes, WorkerStacks DEF Alone
    <3>4. counts' \in Counts
      BY <1>1, <1>2, <1>3, <1>4, <3>1, <1>14, <2>2 DEF LeaveRetired, Counts, Busy
    <3>5. Plain' /\ UNCHANGED <<limits, gateStatus, requested, failures>>
          /\ workerSem' \in Nat /\ retiredSem' \in Nat /\ pending' <= pending
      BY <1>1, <1>14 DEF LeaveRetired, Plain, bounds
    <3>6. MovesFrom("leaveRetired", "out")
      BY <1>1, <1>2, <1>3, <1>4, <3>1, <1>14, <2>2 DEF LeaveRetired, MovesFrom, Counts, Busy, Asleep, Off
    <3>7. \/ counts'.working > 0 \/ pending' = 0 \/ Has(<< >>, Looking)
          \/ counts'.working >= counts.working /\ "leaveRetired" \notin Looking
      BY <1>1, <1>14, <2>2 DEF LeaveRetired, Looking, Counts
    <3> QED BY <1>0, <1>1, <3>1, <3>2, <3>3, <3>4, <3>5, <3>6, <3>7, WorkerMoves
  <2> QED BY <1>14, <2>1, <2>2
<1>15. CASE WaitForWork(w)
  <2>1. CASE pending > 0
    <3>1. At(w, "sweep") /\ "sweep" \in Alone
      BY <1>15 DEF WaitForWork, Alone
    <3>2. todo' = [todo EXCEPT ![w] = Push("add", On("waiting"))]
      BY <1>15, <3>1, <1>1, WorkerGoes, <2>1 DEF WaitForWork, Steps
    <3>3. Becomes(w, Push("add", On("waiting")), "waiting")
      BY <1>1, <3>1, WorkerGoes, WorkerStacks DEF Alone
    <3>4. counts' \in Counts
      BY <1>1, <1>2, <1>3, <1>4, <3>1, <1>15, <2>1 DEF WaitForWork, Counts, Busy
    <3>5. Plain' /\ UNCHANGED <<limits, gateStatus, requested, failures>>
          /\ workerSem' \in Nat /\ retiredSem' \in Nat /\ pending' <= pending
      BY <1>1, <1>15 DEF WaitForWork, Plain, bounds
    <3>6. MovesFrom("sweep", "waiting")
      BY <1>1, <1>2, <1>3, <1>4, <3>1, <1>15, <2>1 DEF WaitForWork, MovesFrom, Counts, Busy, Asleep, Off
    <3>7. \/ counts'.working > 0 \/ pending' = 0 \/ Has(Push("add", On("waiting")), Looking)
          \/ counts'.working >= counts.working /\ "sweep" \notin Looking
      BY <1>1, <3>1, WorkerGoes, WorkerStacks DEF Alone, Looking
    <3> QED BY <1>0, <1>1, <3>1, <3>2, <3>3, <3>4, <3>5, <3>6, <3>7, WorkerMoves
  <2>2. CASE ~(pending > 0)
    <3>1. At(w, "sweep") /\ "sweep" \in Alone
      BY <1>15 DEF WaitForWork, Alone
    <3>2. todo' = [todo EXCEPT ![w] = On("waiting")]
      BY <1>15, <3>1, <1>1, WorkerGoes, <2>2 DEF WaitForWork, Steps
    <3>3. Becomes(w, On("waiting"), "waiting")
      BY <1>1, <3>1, WorkerGoes, WorkerStacks DEF Alone
    <3>4. counts' \in Counts
      BY <1>1, <1>2, <1>3, <1>4, <3>1, <1>15, <2>2 DEF WaitForWork, Counts, Busy
    <3>5. Plain' /\ UNCHANGED <<limits, gateStatus, requested, failures>>
          /\ workerSem' \in Nat /\ retiredSem' \in Nat /\ pending' <= pending
      BY <1>1, <1>15 DEF WaitForWork, Plain, bounds
    <3>6. MovesFrom("sweep", "waiting")
      BY <1>1, <1>2, <1>3, <1>4, <3>1, <1>15, <2>2 DEF WaitForWork, MovesFrom, Counts, Busy, Asleep, Off
    <3>7. \/ counts'.working > 0 \/ pending' = 0 \/ Has(On("waiting"), Looking)
          \/ counts'.working >= counts.working /\ "sweep" \notin Looking
      BY <1>1, <1>15, <2>2 DEF WaitForWork, Plain
    <3> QED BY <1>0, <1>1, <3>1, <3>2, <3>3, <3>4, <3>5, <3>6, <3>7, WorkerMoves
  <2> QED BY <1>15, <2>1, <2>2
<1>16. CASE WakeWorker(w)
  <2>1. At(w, "waiting") /\ "waiting" \in Alone
    BY <1>16 DEF WakeWorker, Alone
  <2>2. todo' = [todo EXCEPT ![w] = On("work")]
    BY <1>16, <2>1, <1>1, WorkerGoes DEF WakeWorker, Steps
  <2>3. Becomes(w, On("work"), "work")
    BY <1>1, <2>1, WorkerGoes, WorkerStacks DEF Alone
  <2>4. counts' \in Counts
    BY <1>1, <1>2, <1>3, <1>4, <2>1, <1>16 DEF WakeWorker, Counts, Busy
  <2>5. Plain' /\ UNCHANGED <<limits, gateStatus, requested, failures>>
        /\ workerSem' \in Nat /\ retiredSem' \in Nat /\ pending' <= pending
    BY <1>1, <1>16 DEF WakeWorker, Plain, bounds
  <2>6. MovesFrom("waiting", "work")
    BY <1>1, <1>2, <1>3, <1>4, <2>1, <1>16 DEF WakeWorker, MovesFrom, Counts, Busy, Asleep, Off
  <2>7. \/ counts'.working > 0 \/ pending' = 0 \/ Has(On("work"), Looking)
        \/ counts'.working >= counts.working /\ "waiting" \notin Looking
    BY <1>1, <1>16 DEF WakeWorker, Looking, Counts
  <2> QED BY <1>0, <1>1, <2>1, <2>2, <2>3, <2>4, <2>5, <2>6, <2>7, WorkerMoves
<1>17. CASE WaitTimeout(w)
  <2>1. At(w, "waiting") /\ "waiting" \in Alone
    BY <1>17 DEF WaitTimeout, Alone
  <2>2. todo' = [todo EXCEPT ![w] = On("leaveWaiting")]
    BY <1>17, <2>1, <1>1, WorkerGoes DEF WaitTimeout, Steps
  <2>3. Becomes(w, On("leaveWaiting"), "leaveWaiting")
    BY <1>1, <2>1, WorkerGoes, WorkerStacks DEF Alone
  <2>4. counts' \in Counts
    BY <1>1, <1>2, <1>3, <1>4, <2>1, <1>17 DEF WaitTimeout, Counts, Busy
  <2>5. Plain' /\ UNCHANGED <<limits, gateStatus, requested, failures>>
        /\ workerSem' \in Nat /\ retiredSem' \in Nat /\ pending' <= pending
    BY <1>1, <1>17 DEF WaitTimeout, Plain, bounds
  <2>6. MovesFrom("waiting", "leaveWaiting")
    BY <1>1, <1>2, <1>3, <1>4, <2>1, <1>17 DEF WaitTimeout, MovesFrom, Counts, Busy, Asleep, Off
  <2>7. \/ counts'.working > 0 \/ pending' = 0 \/ Has(On("leaveWaiting"), Looking)
        \/ counts'.working >= counts.working /\ "waiting" \notin Looking
    BY <1>1, <1>17 DEF WaitTimeout, Looking, Counts
  <2> QED BY <1>0, <1>1, <2>1, <2>2, <2>3, <2>4, <2>5, <2>6, <2>7, WorkerMoves
<1>18. CASE LeaveWaiting(w)
  <2>1. CASE counts.active = counts.working
    <3>1. At(w, "leaveWaiting") /\ "leaveWaiting" \in Alone
      BY <1>18 DEF LeaveWaiting, Alone
    <3>2. todo' = [todo EXCEPT ![w] = On("waiting")]
      BY <1>18, <3>1, <1>1, WorkerGoes, <2>1 DEF LeaveWaiting, Steps
    <3>3. Becomes(w, On("waiting"), "waiting")
      BY <1>1, <3>1, WorkerGoes, WorkerStacks DEF Alone
    <3>4. counts' \in Counts
      BY <1>1, <1>2, <1>3, <1>4, <3>1, <1>18, <2>1 DEF LeaveWaiting, Counts, Busy
    <3>5. Plain' /\ UNCHANGED <<limits, gateStatus, requested, failures>>
          /\ workerSem' \in Nat /\ retiredSem' \in Nat /\ pending' <= pending
      BY <1>1, <1>18 DEF LeaveWaiting, Plain, bounds
    <3>6. MovesFrom("leaveWaiting", "waiting")
      BY <1>1, <1>2, <1>3, <1>4, <3>1, <1>18, <2>1 DEF LeaveWaiting, MovesFrom, Counts, Busy, Asleep, Off
    <3>7. \/ counts'.working > 0 \/ pending' = 0 \/ Has(On("waiting"), Looking)
          \/ counts'.working >= counts.working /\ "leaveWaiting" \notin Looking
      BY <1>1, <1>18, <2>1 DEF LeaveWaiting, Looking, Counts
    <3> QED BY <1>0, <1>1, <3>1, <3>2, <3>3, <3>4, <3>5, <3>6, <3>7, WorkerMoves
  <2>2. CASE counts.active # counts.working
    <3>1. At(w, "leaveWaiting") /\ "leaveWaiting" \in Alone
      BY <1>18 DEF LeaveWaiting, Alone
    <3>2. todo' = [todo EXCEPT ![w] = << >>]
      BY <1>18, <3>1, <1>1, WorkerGoes, <2>2 DEF LeaveWaiting, Steps
    <3>3. Becomes(w, << >>, "out")
      BY <1>1, <3>1, WorkerGoes, WorkerStacks DEF Alone
    <3>8. LET m == Max2(limits.min, Min2(counts.active - 1, counts.maxWorking))
          IN  /\ counts' = [counts EXCEPT !.active = @ - 1, !.maxWorking = m]
              /\ m \in Nat /\ counts.active - 1 \in Nat
      BY <1>4, <1>18, <2>2 DEF LeaveWaiting
    <3>10. /\ counts'.working = counts.working /\ counts'.active = counts.active - 1
           /\ counts'.retired = counts.retired
      BY <1>1, <3>8 DEF Counts
    <3>4. counts' \in Counts
      BY <1>1, <3>8 DEF Counts
    <3>5. Plain' /\ UNCHANGED <<limits, gateStatus, requested, failures>>
          /\ workerSem' \in Nat /\ retiredSem' \in Nat /\ pending' <= pending
      BY <1>1, <1>18 DEF LeaveWaiting, Plain, bounds
    <3>6. MovesFrom("leaveWaiting", "out")
      BY <1>1, <1>3, <3>10, <1>18, <2>2 DEF LeaveWaiting, MovesFrom, Counts, Busy, Asleep, Off
    <3>7. \/ counts'.working > 0 \/ pending' = 0 \/ Has(<< >>, Looking)
          \/ counts'.working >= counts.working /\ "leaveWaiting" \notin Looking
      BY <1>1, <3>10 DEF Looking, Counts
    <3> QED BY <1>0, <1>1, <3>1, <3>2, <3>3, <3>4, <3>5, <3>6, <3>7, WorkerMoves
  <2> QED BY <1>18, <2>1, <2>2
<1> QED BY <1>5, <1>6, <1>7, <1>8, <1>9, <1>10, <1>11, <1>12, <1>13, <1>14, <1>15, <1>16, <1>17, <1>18

-----------------------------------------------------------------------------
(* Steps that leave NumWorking, NumActive and NumRetired alone.            *)

Groups == {Busy, Asleep, Off, Unretiring, Releasing, Creating}

\* The counts match the stack of t as before.
LEMMA SameCounts ==
  ASSUME NEW t, NEW s, TypeOK, CountsMatch, counts' \in Counts,
         counts'.working = counts.working, counts'.active = counts.active,
         counts'.retired = counts.retired, UNCHANGED <<workerSem, retiredSem>>,
         \A L \in Groups : Weight(s, L) = Weight(todo[t], L)
  PROVE  Balances(t, s)
<1>1. counts.working <= counts.active
  BY DEF CountsMatch
<1>2. \A r, L : Weight(r, L) \in {0, 1}
  BY Weights
<1>3. \A L \in Groups : Weight(s, L) - Weight(todo[t], L) = 0
  BY <1>2
<1>4. /\ Weight(s, Busy) - Weight(todo[t], Busy) = 0
      /\ Weight(s, Asleep) - Weight(todo[t], Asleep) = 0
      /\ Weight(s, Off) - Weight(todo[t], Off) = 0
      /\ Weight(s, Unretiring) - Weight(todo[t], Unretiring) = 0
      /\ Weight(s, Releasing) - Weight(todo[t], Releasing) = 0
      /\ Weight(s, Creating) - Weight(todo[t], Creating) = 0
  BY <1>3 DEF Groups
<1>5. counts \in Counts /\ workerSem \in Nat /\ retiredSem \in Nat
  BY DEF TypeOK, Counts
<1> QED BY <1>1, <1>4, <1>5 DEF Balances, Counts

\* Steps that CountsMatch does not count.
LEMMA Ungrouped ==
  ASSUME NEW L \in Groups
  PROVE  {"add", "adjust", "ensureGate", "createGate", "watch", "stay", "needed", "quit",
          "lower", "raise", "raised"} \cap L = {}
BY DEF Groups, Busy, Asleep, Off, Unretiring, Releasing, Creating

\* A step that changes no group preserves the invariant.
LEMMA QuietStep ==
  ASSUME PoolInv, NEW t \in Thread, NEW s, todo' = [todo EXCEPT ![t] = s],
         t = Gate => todo[t] # << >>, Shape(t, s),
         s # << >> => Head(s) \notin {"createGate", "quit", "renege"},
         \A L \in Groups : Has(s, L) <=> Has(todo[t], L),
         Plain', Ranges', UNCHANGED <<gateStatus, workerSem, retiredSem, failures>>,
         pending' = pending, counts' \in Counts, counts'.working = counts.working,
         counts'.active = counts.active, counts'.retired = counts.retired,
         Has(s, Looking) \/ Keeps,
         Has(s, Looking) \/ ~Has(todo[t], Looking) \/ pending' = 0,
         Has(s, ToGate) \/ ~Has(todo[t], ToGate)
  PROVE  PoolInv'
<1>1. /\ TypeOK /\ CountsMatch /\ counts \in Counts /\ workerSem \in Nat /\ retiredSem \in Nat
      /\ failures \in Nat /\ pending \in Nat
  BY DEF PoolInv, TypeOK, Counts
<1>2. \A L \in Groups : Weight(s, L) = Weight(todo[t], L)
  BY DEF Weight
<1>3. Balances(t, s)
  BY <1>1, <1>2, SameCounts
<1>4. failures' >= failures /\ workerSem' \in Nat /\ retiredSem' \in Nat /\ pending' <= pending
  BY <1>1
<1>5. counts'.working >= counts.working
  BY <1>1 DEF Counts
<1>6. /\ s # << >> => Head(s) \notin {"createGate", "quit"}
      /\ s # << >> /\ Head(s) = "renege" => failures' > 0
  OBVIOUS
<1>7. \/ pending' = 0 \/ Has(s, Looking)
      \/ /\ pending' <= pending /\ counts'.working >= counts.working
         /\ ~Has(todo[t], Looking) /\ Keeps
  BY <1>4, <1>5
<1>8. Has(s, ToGate) \/ (pending' <= pending /\ ~Has(todo[t], ToGate))
  BY <1>4
<1>9. UNCHANGED gateStatus
  OBVIOUS
<1> QED BY <1>3, <1>4, <1>6, <1>7, <1>8, <1>9, LocalStep

\* AdjustMaxWorkersActive preserves the invariant.
LEMMA AdjustInv ==
  ASSUME PoolInv, NEW w \in Worker, NEW n \in Proposals, AdjustMaxWorkersActive(w, n)
  PROVE  PoolInv'
<1>1. /\ TypeOK /\ Stacked /\ CountsMatch /\ counts \in Counts /\ Plain /\ Ranges
      /\ w \in Thread /\ w # Client /\ w # Gate
  BY WorkerPoolAssumption
  DEF PoolInv, TypeOK, Plain, Counts, Thread, WorkerPoolAssumption
<1>2. At(w, "adjust")
  BY DEF AdjustMaxWorkersActive
<1> DEFINE k == On("keep")
<1>3. /\ \A L : Has(todo[w], L) <=> "adjust" \in L \/ Has(k, L)
      /\ Goto(w, << >>) => todo' = [todo EXCEPT ![w] = k]
      /\ Goto(w, <<"add">>) => todo' = [todo EXCEPT ![w] = Push("add", k)]
  <2>1. Tail(todo[w]) = k
    BY <1>1, <1>2, Goes DEF Row
  <2>2. "add" \in Steps
    BY DEF Steps
  <2>3. /\ \A L : Has(todo[w], L) <=> "adjust" \in L \/ Has(Tail(todo[w]), L)
        /\ Goto(w, << >>) => todo' = [todo EXCEPT ![w] = Tail(todo[w])]
        /\ Goto(w, <<"add">>) => todo' = [todo EXCEPT ![w] = Push("add", Tail(todo[w]))]
    BY <1>1, <1>2, <2>2, Goes
  <2> HIDE DEF k
  <2> QED BY <2>1, <2>3
<1>4. /\ Shape(w, k) /\ Head(k) = "keep" /\ k \in Seq(Steps) /\ k # << >>
      /\ \A L : Has(k, L) <=> "keep" \in L
  <2>1. Becomes(w, k, "keep") /\ \A L : Has(k, L) <=> "keep" \in L
    BY WorkerStacks DEF Alone
  <2> QED BY <2>1, PushFacts, NothingOn DEF Becomes, On, Steps
<1>5. /\ Shape(w, Push("add", k)) /\ Head(Push("add", k)) = "add"
      /\ \A L : Has(Push("add", k), L) <=> "add" \in L \/ Has(k, L)
  <2>1. Row(w, "add", k)
    BY <1>1 DEF Row, Adding, Alone, Watching, AfterAdd
  <2> QED BY <1>1, <1>4, <2>1, ShapeOn, PushFacts, PushHas DEF Steps
<1> HIDE DEF k
<1>6. n \in Nat
  BY WorkerPoolAssumption DEF Proposals, WorkerPoolAssumption
<1>7. /\ counts' = [counts EXCEPT !.maxWorking = n] /\ counts.maxWorking \in Nat
      /\ leftRaised' = leftRaised
  BY <1>1 DEF AdjustMaxWorkersActive, Counts
<1>8. /\ counts' \in Counts /\ counts'.working = counts.working /\ counts'.maxWorking = n
      /\ counts'.active = counts.active /\ counts'.retired = counts.retired
  BY <1>1, <1>6, <1>7 DEF Counts
<1>9. /\ Plain' /\ Ranges' /\ UNCHANGED <<gateStatus, workerSem, retiredSem, failures>>
      /\ pending' = pending
  <2>1. changes' \in 0..MaxChanges
    BY <1>1, WorkerPoolAssumption DEF AdjustMaxWorkersActive, Plain, WorkerPoolAssumption
  <2> QED BY <1>1, <2>1 DEF AdjustMaxWorkersActive, Plain, Ranges, TypeOK
<1>10. ~Has(todo[w], Looking) /\ ~Has(todo[w], ToGate)
  BY <1>3, <1>4 DEF Looking, ToGate
<1>11. \A L \in Groups : "add" \notin L /\ "adjust" \notin L
  BY Ungrouped
<1>12. CASE n > counts.maxWorking
  <2>1. todo' = [todo EXCEPT ![w] = Push("add", k)]
    BY <1>3, <1>12 DEF AdjustMaxWorkersActive
  <2>2. \A L \in Groups : Has(Push("add", k), L) <=> Has(todo[w], L)
    BY <1>3, <1>5, <1>11
  <2>3. Has(Push("add", k), Looking)
    BY <1>5 DEF Looking
  <2> QED BY <1>1, <1>5, <1>8, <1>9, <1>10, <2>1, <2>2, <2>3, QuietStep
<1>13. CASE ~(n > counts.maxWorking)
  <2>1. todo' = [todo EXCEPT ![w] = k]
    BY <1>3, <1>13 DEF AdjustMaxWorkersActive
  <2>2. \A L \in Groups : Has(k, L) <=> Has(todo[w], L)
    BY <1>3, <1>11
  <2>3. Keeps
    BY <1>6, <1>7, <1>8, <1>13 DEF Keeps
  <2> QED BY <1>1, <1>4, <1>8, <1>9, <1>10, <2>1, <2>2, <2>3, QuietStep
<1> QED BY <1>12, <1>13

\* A stack is its next step and the rest.
LEMMA StackIs ==
  ASSUME NEW s \in Seq(Steps), s # << >>
  PROVE  s = Push(Head(s), Tail(s))
<1>1. Push(Head(s), Tail(s)) \in Seq(Steps) /\ Len(Push(Head(s), Tail(s))) = Len(s)
  BY DEF Push
<1>2. \A i \in 1..Len(s) : Push(Head(s), Tail(s))[i] = s[i]
  BY DEF Push
<1> QED BY <1>1, <1>2, SeqEqual

\* SetAppDomainRequestsActive preserves the invariant: whoever records a request
\* is about to add a worker and to ask for the gate thread.
LEMMA RequestInv ==
  ASSUME PoolInv, NEW t \in Thread, SetAppDomainRequestsActive(t)
  PROVE  PoolInv'
<1> DEFINE k == Push("ensureGate", todo[t])
           s == Push("add", k)
<1>1. /\ TypeOK /\ Stacked /\ CountsMatch /\ counts \in Counts /\ Plain /\ Ranges
      /\ todo[t] \in Seq(Steps)
  BY DEF PoolInv, TypeOK, Plain, Counts
<1>2. todo[t] \in AfterGate(t) /\ t # Gate
  <2>1. CASE t = Client /\ todo[t] = << >>
    BY <2>1, WorkerPoolAssumption DEF AfterGate, WorkerPoolAssumption
  <2>2. ASSUME NEW x \in {"dispatch", "recalled"}, At(t, x)
        PROVE  todo[t] \in AfterGate(t) /\ t # Gate
    <3>1. x \in Alone /\ todo[t] # << >> /\ Head(todo[t]) = x
      BY <2>2 DEF Alone, At
    <3>2. t \in Worker /\ Tail(todo[t]) = << >>
      BY <1>1, <2>2, <3>1, Goes DEF Row
    <3>3. todo[t] = On(x)
      BY <1>1, <3>1, <3>2, StackIs DEF On
    <3> QED BY <3>2, <3>3, WorkerPoolAssumption DEF AfterGate, WorkerPoolAssumption
  <2> QED BY <2>1, <2>2 DEF SetAppDomainRequestsActive
<1>3. k \in AfterAdd(t) /\ k \in Seq(Steps)
  BY <1>1, <1>2, PushFacts DEF AfterAdd, Steps
<1>4. /\ Row(t, "add", k) /\ "add" \in Steps /\ "ensureGate" \in Steps
  BY <1>3 DEF Row, Adding, Alone, Watching, Steps
<1>5. Shape(t, s) /\ s # << >> /\ Head(s) = "add"
  BY <1>3, <1>4, ShapeOn, PushFacts
<1>6. \A L : Has(s, L) <=> "add" \in L \/ "ensureGate" \in L \/ Has(todo[t], L)
  BY <1>1, <1>3, <1>4, PushHas
<1>7. todo' = [todo EXCEPT ![t] = s]
  <2>1. <<"add", "ensureGate">> \o todo[t] = s
    BY <1>1, <1>4, Tuples
  <2> QED BY <2>1 DEF SetAppDomainRequestsActive
<1> HIDE DEF s
<1>8. Has(s, Looking) /\ Has(s, ToGate)
  BY <1>6 DEF Looking, ToGate
<1>9. /\ Plain' /\ Ranges' /\ UNCHANGED <<gateStatus, counts, workerSem, retiredSem>>
      /\ failures' >= failures
      /\ workerSem' \in Nat /\ retiredSem' \in Nat /\ counts' \in Counts
  BY <1>1, WorkerPoolAssumption
  DEF SetAppDomainRequestsActive, Plain, Ranges, TypeOK, WorkerPoolAssumption
<1>10. Balances(t, s)
  <2>1. \A L \in Groups : Has(s, L) <=> Has(todo[t], L)
    BY <1>6, Ungrouped
  <2>2. \A L \in Groups : Weight(s, L) = Weight(todo[t], L)
    BY <2>1 DEF Weight
  <2> QED BY <1>1, <1>9, <2>2, SameCounts
<1> QED BY <1>2, <1>5, <1>7, <1>8, <1>9, <1>10, LocalStep

\* A creation that fails preserves the invariant.
LEMMA CreateFailsInv ==
  ASSUME PoolInv, NEW t \in Thread, CreateFails(t)
  PROVE  PoolInv'
<1> DEFINE k == Tail(todo[t])
<1>1. /\ TypeOK /\ Stacked /\ CountsMatch /\ counts \in Counts /\ Plain /\ Ranges
  BY DEF PoolInv, TypeOK, Plain, Counts
<1>2. At(t, "create") /\ "create" \in Adding /\ "renege" \in Adding /\ "renege" \in Steps
  BY DEF CreateFails, Adding, Steps
<1>3. todo' = [todo EXCEPT ![t] = Push("renege", k)]
  BY <1>1, <1>2, Goes DEF CreateFails
<1>4. /\ Plain' /\ Ranges' /\ UNCHANGED <<gateStatus, counts, workerSem, retiredSem>>
      /\ failures' > 0 /\ failures' >= failures /\ pending' <= pending
      /\ workerSem' \in Nat /\ retiredSem' \in Nat /\ counts' \in Counts
  BY <1>1, WorkerPoolAssumption DEF CreateFails, Plain, Ranges, TypeOK, WorkerPoolAssumption
<1>5. Differ(Push("renege", k), todo[t], 0, 0, 0, 0, 0, 0)
  BY <1>1, <1>2, AddDiffers DEF Unretiring, Releasing, Creating
<1>6. Balances(t, Push("renege", k))
  <2>1. \A L \in Groups : Weight(Push("renege", k), L) = Weight(todo[t], L)
    BY <1>5 DEF Differ, Groups
  <2> QED BY <1>1, <1>4, <2>1, SameCounts
<1> QED BY <1>2, <1>3, <1>4, <1>6, AddMoves

-----------------------------------------------------------------------------
(* SetMaxThreads and SetMinThreads.                                        *)

\* The stacks the client may have.
LEMMA ClientStacks ==
  /\ Client \in Thread /\ Client # Gate
  /\ Shape(Client, << >>)
  /\ \A y \in {"lower", "raise", "raised", "add"} :
       /\ Shape(Client, On(y)) /\ Head(On(y)) = y
       /\ \A L : Has(On(y), L) <=> y \in L
<1>1. Client \in Thread /\ Client # Gate /\ Client \notin Worker
  BY WorkerPoolAssumption DEF Thread, WorkerPoolAssumption
<1>2. ASSUME NEW y \in {"lower", "raise", "raised", "add"}
      PROVE  /\ Shape(Client, On(y)) /\ Head(On(y)) = y
             /\ \A L : Has(On(y), L) <=> y \in L
  <2>1. y \in Steps /\ << >> \in Seq(Steps)
    BY DEF Steps
  <2>2. Row(Client, y, << >>)
    BY <1>1 DEF Row, Alone, Watching, Adding, AfterAdd
  <2> QED BY <1>1, <2>1, <2>2, ShapeOn, PushFacts, OnHas DEF On
<1> QED BY <1>1, <1>2 DEF Shape

\* SetMaxThreads and SetMinThreads, which change a limit, preserve the invariant.
LEMMA SetLimitInv ==
  ASSUME PoolInv, NEW n, (n \in MaxThreads /\ SetMaxThreads(n)) \/ (n \in MinThreads /\ SetMinThreads(n))
  PROVE  PoolInv'
<1>1. /\ TypeOK /\ Stacked /\ CountsMatch /\ counts \in Counts /\ Plain /\ Ranges
      /\ todo \in [Thread -> Seq(Steps)]
  BY DEF PoolInv, TypeOK, Plain, Counts
<1>0. n \in Nat
  BY WorkerPoolAssumption DEF WorkerPoolAssumption
<1>2. PICK y \in {"lower", "raise"} : todo' = [todo EXCEPT ![Client] = On(y)]
  <2>1. <<"lower">> = On("lower") /\ <<"raise">> = On("raise")
    BY Tuples, NothingOn DEF On, Steps
  <2> QED BY <2>1 DEF SetMaxThreads, SetMinThreads
<1>3. /\ todo[Client] = << >> /\ changes < MaxChanges /\ changes' = changes + 1
      /\ limits' = [limits EXCEPT !.max = n] \/ limits' = [limits EXCEPT !.min = n]
      /\ UNCHANGED <<counts, workerSem, retiredSem, pending, gateStatus, found, requested>>
      /\ UNCHANGED <<failures, leftRaised>>
  BY DEF SetMaxThreads, SetMinThreads
<1>4. limits' \in [min : Nat, max : Nat]
  BY <1>0, <1>1, <1>3 DEF Plain
<1>5. /\ Plain' /\ Ranges' /\ UNCHANGED <<gateStatus, workerSem, retiredSem, failures>>
      /\ pending' = pending
  BY <1>1, <1>3, <1>4, WorkerPoolAssumption DEF Plain, Ranges, WorkerPoolAssumption
<1>6. /\ Client \in Thread /\ Client # Gate /\ \A L : ~Has(todo[Client], L)
      /\ Shape(Client, On(y)) /\ Head(On(y)) = y
      /\ \A L \in Groups : Has(On(y), L) <=> Has(todo[Client], L)
  BY <1>3, ClientStacks, NothingOn, Ungrouped
<1>7. /\ counts' \in Counts /\ counts'.working = counts.working
      /\ counts'.active = counts.active /\ counts'.retired = counts.retired /\ Keeps
  BY <1>1, <1>3 DEF Keeps
<1> QED BY <1>2, <1>5, <1>6, <1>7, QuietStep

\* A step of the client with nothing else ahead of it.
LEMMA ClientGoes ==
  ASSUME TypeOK, Stacked, NEW x \in {"lower", "raise", "raised"}, At(Client, x)
  PROVE  /\ \A L : Has(todo[Client], L) <=> x \in L
         /\ Goto(Client, << >>) => todo' = [todo EXCEPT ![Client] = << >>]
         /\ \A y \in Steps : Goto(Client, <<y>>) => todo' = [todo EXCEPT ![Client] = On(y)]
<1>1. Client \in Thread
  BY ClientStacks
<1>2. Tail(todo[Client]) = << >>
  BY <1>1, Goes DEF Row
<1>3. \A L : Has(todo[Client], L) <=> x \in L \/ Has(Tail(todo[Client]), L)
  BY <1>1, Goes
<1> QED BY <1>1, <1>2, <1>3, Goes, NothingOn DEF On

\* The limit follows a new maximum, which may lower it, or a new minimum, which may
\* raise it: the invariant is preserved.
LEMMA FollowInv ==
  ASSUME PoolInv, LowerLimit \/ RaiseLimit
  PROVE  PoolInv'
<1>1. /\ TypeOK /\ Stacked /\ CountsMatch /\ counts \in Counts /\ Plain /\ Ranges
      /\ Client \in Thread /\ Client # Gate /\ limits.min \in Nat /\ limits.max \in Nat
      /\ counts.maxWorking \in Nat
  BY ClientStacks DEF PoolInv, TypeOK, Plain, Counts
<1>2. PICK x \in {"lower", "raise"} : At(Client, x)
  BY DEF LowerLimit, RaiseLimit
<1>3. /\ ~Has(todo[Client], Looking) /\ ~Has(todo[Client], ToGate)
      /\ \A L \in Groups : ~Has(todo[Client], L)
  BY <1>1, <1>2, ClientGoes, Ungrouped DEF Looking, ToGate
<1>4. /\ UNCHANGED <<limits, workerSem, retiredSem, pending, gateStatus, found>>
      /\ UNCHANGED <<requested, changes, failures, leftRaised>>
  BY DEF LowerLimit, RaiseLimit, bounds
<1>5. /\ Plain' /\ Ranges' /\ UNCHANGED <<gateStatus, workerSem, retiredSem, failures>>
      /\ pending' = pending
  BY <1>1, <1>4 DEF Plain, Ranges
<1>6. PICK m \in Nat : counts' = [counts EXCEPT !.maxWorking = m]
  <2>1. /\ Min2(counts.maxWorking, limits.max) \in Nat
        /\ Max2(counts.maxWorking, limits.min) \in Nat
    BY <1>1, MinMax
  <2> QED BY <2>1 DEF LowerLimit, RaiseLimit
<1>7. /\ counts' \in Counts /\ counts'.working = counts.working /\ counts'.maxWorking = m
      /\ counts'.active = counts.active /\ counts'.retired = counts.retired
  BY <1>1, <1>6 DEF Counts
<1>8. CASE RaiseLimit /\ counts.maxWorking < limits.min
  <2>1. todo' = [todo EXCEPT ![Client] = On("raised")]
    BY <1>1, <1>2, <1>8, ClientGoes DEF RaiseLimit, Steps
  <2>2. /\ Shape(Client, On("raised")) /\ Head(On("raised")) = "raised"
        /\ \A L : Has(On("raised"), L) <=> "raised" \in L
    BY ClientStacks
  <2>3. /\ \A L \in Groups : Has(On("raised"), L) <=> Has(todo[Client], L)
        /\ Has(On("raised"), Looking)
    BY <1>3, <2>2, Ungrouped DEF Looking
  <2> QED BY <1>1, <1>3, <1>5, <1>7, <2>1, <2>2, <2>3, QuietStep
<1>9. CASE ~(RaiseLimit /\ counts.maxWorking < limits.min)
  <2>1. todo' = [todo EXCEPT ![Client] = << >>]
    BY <1>1, <1>2, <1>9, ClientGoes DEF LowerLimit, RaiseLimit
  <2>2. \A L \in Groups : Has(<< >>, L) <=> Has(todo[Client], L)
    BY <1>3, NothingOn
  <2>3. Shape(Client, << >>)
    BY ClientStacks
  <2>4. counts'.maxWorking <= counts.maxWorking
    <3>1. counts'.maxWorking = Min2(counts.maxWorking, limits.max)
          \/ (RaiseLimit /\ counts'.maxWorking = Max2(counts.maxWorking, limits.min))
      BY <1>1 DEF LowerLimit, RaiseLimit, Counts
    <3> QED BY <1>1, <1>9, <3>1, MinMax
  <2>5. Keeps
    BY <1>1, <1>4, <1>7, <2>4 DEF Keeps
  <2> QED BY <1>1, <1>3, <1>5, <1>7, <2>1, <2>2, <2>3, <2>5, QuietStep
<1> QED BY <1>8, <1>9

\* A new worker for a raised limit preserves the invariant.
LEMMA RaisedInv ==
  ASSUME PoolInv, LimitRaised
  PROVE  PoolInv'
<1>1. /\ TypeOK /\ Stacked /\ CountsMatch /\ counts \in Counts /\ Plain /\ Ranges
      /\ Client \in Thread /\ Client # Gate /\ pending \in Nat
  BY ClientStacks DEF PoolInv, TypeOK, Plain, Counts
<1>2. At(Client, "raised")
  BY DEF LimitRaised
<1>3. \A L : Has(todo[Client], L) <=> "raised" \in L
  BY <1>1, <1>2, ClientGoes
<1>4. /\ Goto(Client, << >>) => todo' = [todo EXCEPT ![Client] = << >>]
      /\ Goto(Client, <<"add">>) => todo' = [todo EXCEPT ![Client] = On("add")]
  BY <1>1, <1>2, ClientGoes DEF Steps
<1>5. /\ UNCHANGED <<counts, limits, workerSem, retiredSem, pending, gateStatus, found>>
      /\ UNCHANGED <<requested, changes, failures, leftRaised>>
  BY DEF LimitRaised, bounds
<1>6. /\ counts' \in Counts /\ counts'.working = counts.working
      /\ counts'.active = counts.active /\ counts'.retired = counts.retired /\ Keeps
  BY <1>1, <1>5 DEF Keeps
<1>7. /\ Plain' /\ Ranges' /\ UNCHANGED <<gateStatus, workerSem, retiredSem, failures>>
      /\ pending' = pending
  BY <1>1, <1>5 DEF Plain, Ranges
<1>8. /\ ~Has(todo[Client], ToGate)
      /\ \A L \in Groups : ~Has(todo[Client], L)
  BY <1>3, Ungrouped DEF ToGate
<1>9. CASE pending > 0
  <2>1. todo' = [todo EXCEPT ![Client] = On("add")]
    BY <1>4, <1>9 DEF LimitRaised
  <2>2. \A L \in Groups : Has(On("add"), L) <=> Has(todo[Client], L)
    BY <1>8, ClientStacks, Ungrouped
  <2>3. Shape(Client, On("add")) /\ Head(On("add")) = "add" /\ Has(On("add"), Looking)
    BY ClientStacks DEF Looking
  <2> QED BY <1>1, <1>6, <1>7, <1>8, <2>1, <2>2, <2>3, QuietStep
<1>10. CASE ~(pending > 0)
  <2>1. todo' = [todo EXCEPT ![Client] = << >>]
    BY <1>4, <1>10 DEF LimitRaised
  <2>2. \A L \in Groups : Has(<< >>, L) <=> Has(todo[Client], L)
    BY <1>8, NothingOn
  <2>3. Shape(Client, << >>)
    BY ClientStacks
  <2>4. pending' = 0
    BY <1>1, <1>7, <1>10
  <2> QED BY <1>1, <1>6, <1>7, <1>8, <2>1, <2>2, <2>3, <2>4, QuietStep
<1> QED BY <1>9, <1>10

-----------------------------------------------------------------------------
(* The gate thread.                                                        *)

\* The stacks the gate thread may have.
LEMMA GateStacks ==
  /\ Gate \in Thread
  /\ \A y \in Watching :
       /\ Shape(Gate, On(y)) /\ Head(On(y)) = y /\ On(y) # << >>
       /\ \A L : Has(On(y), L) <=> y \in L
  /\ Shape(Gate, Push("add", On("stay"))) /\ Head(Push("add", On("stay"))) = "add"
  /\ \A L : Has(Push("add", On("stay")), L) <=> "add" \in L \/ "stay" \in L
<1>1. Gate \in Thread /\ Client # Gate /\ Gate \notin Worker
  BY WorkerPoolAssumption DEF Thread, WorkerPoolAssumption
<1>2. ASSUME NEW y \in Watching
      PROVE  /\ Shape(Gate, On(y)) /\ Head(On(y)) = y /\ On(y) # << >> /\ On(y) \in Seq(Steps)
             /\ \A L : Has(On(y), L) <=> y \in L
  <2>1. y \in Steps /\ << >> \in Seq(Steps)
    BY DEF Steps, Watching
  <2>2. Row(Gate, y, << >>)
    BY <1>1 DEF Row, Alone, Watching, Adding
  <2> QED BY <1>1, <2>1, <2>2, ShapeOn, PushFacts, OnHas DEF On
<1>3. "stay" \in Watching /\ "add" \in Steps
  BY DEF Watching, Steps
<1>4. Row(Gate, "add", On("stay"))
  BY <1>1 DEF Row, Alone, Watching, Adding, AfterAdd
<1>5. /\ Shape(Gate, Push("add", On("stay"))) /\ Head(Push("add", On("stay"))) = "add"
      /\ \A L : Has(Push("add", On("stay")), L) <=> "add" \in L \/ Has(On("stay"), L)
  BY <1>1, <1>2, <1>3, <1>4, ShapeOn, PushFacts, PushHas
<1> QED BY <1>1, <1>2, <1>3, <1>5

\* The gate thread at a step of its own has nothing else ahead of it.
LEMMA GateGoes ==
  ASSUME TypeOK, Stacked, NEW x \in Watching, At(Gate, x)
  PROVE  /\ Tail(todo[Gate]) = << >> /\ todo[Gate] # << >>
         /\ \A L : Has(todo[Gate], L) <=> x \in L
         /\ Goto(Gate, << >>) => todo' = [todo EXCEPT ![Gate] = << >>]
         /\ \A y \in Steps : Goto(Gate, <<y>>) => todo' = [todo EXCEPT ![Gate] = On(y)]
         /\ \A y, z \in Steps : Goto(Gate, <<y, z>>) => todo' = [todo EXCEPT ![Gate] = Push(y, On(z))]
<1>0. Gate \in Thread
  BY GateStacks
<1>1. Tail(todo[Gate]) = << >> /\ todo[Gate] # << >>
  BY <1>0, Goes DEF Row, At
<1>2. \A L : Has(todo[Gate], L) <=> x \in L
  <2>1. \A L : Has(todo[Gate], L) <=> x \in L \/ Has(Tail(todo[Gate]), L)
    BY <1>0, Goes
  <2> QED BY <1>1, <2>1, NothingOn
<1> QED BY <1>0, <1>1, <1>2, Goes DEF On

\* The round of the gate thread, with or without starvation, preserves the invariant.
LEMMA WatchInv ==
  ASSUME PoolInv, GateThreadStart \/ NoDelay
  PROVE  PoolInv'
<1>1. /\ TypeOK /\ Stacked /\ CountsMatch /\ counts \in Counts /\ Plain /\ Ranges
      /\ Gate \in Thread
  BY GateStacks DEF PoolInv, TypeOK, Plain, Counts
<1>2. At(Gate, "watch") /\ "watch" \in Watching /\ "stay" \in Watching
      /\ "stay" \in Steps /\ "add" \in Steps
  BY DEF GateThreadStart, NoDelay, Watching, Steps
<1>3. /\ UNCHANGED <<limits, workerSem, retiredSem, pending, gateStatus, found>>
      /\ UNCHANGED <<requested, changes, failures, leftRaised>>
  BY DEF GateThreadStart, NoDelay, bounds
<1>4. /\ Plain' /\ Ranges' /\ UNCHANGED <<gateStatus, workerSem, retiredSem, failures>>
      /\ pending' = pending
  BY <1>1, <1>3 DEF Plain, Ranges
<1>5. /\ todo[Gate] # << >> /\ ~Has(todo[Gate], Looking) /\ ~Has(todo[Gate], ToGate)
      /\ \A L \in Groups : ~Has(todo[Gate], L)
  BY <1>1, <1>2, GateGoes, Ungrouped DEF Looking, ToGate
<1>6. /\ Shape(Gate, On("stay")) /\ Head(On("stay")) = "stay"
      /\ \A L \in Groups : Has(On("stay"), L) <=> Has(todo[Gate], L)
  BY <1>2, <1>5, GateStacks, Ungrouped
<1>7. /\ Shape(Gate, Push("add", On("stay"))) /\ Head(Push("add", On("stay"))) = "add"
      /\ \A L \in Groups : Has(Push("add", On("stay")), L) <=> Has(todo[Gate], L)
      /\ Has(Push("add", On("stay")), Looking)
  BY <1>2, <1>5, GateStacks, Ungrouped DEF Looking
<1>8. CASE todo' = [todo EXCEPT ![Gate] = On("stay")] /\ counts' = counts
  <2>1. /\ counts' \in Counts /\ counts'.working = counts.working
        /\ counts'.active = counts.active /\ counts'.retired = counts.retired /\ Keeps
    BY <1>1, <1>3, <1>8 DEF Keeps
  <2> QED BY <1>1, <1>4, <1>5, <1>6, <1>8, <2>1, QuietStep
<1>9. CASE /\ todo' = [todo EXCEPT ![Gate] = Push("add", On("stay"))]
           /\ counts' = [counts EXCEPT !.maxWorking = counts.active + 1]
  <2>0. counts.active + 1 \in Nat
    BY <1>1 DEF Counts
  <2>1. /\ counts' \in Counts /\ counts'.working = counts.working
        /\ counts'.active = counts.active /\ counts'.retired = counts.retired
    BY <1>1, <1>9, <2>0 DEF Counts
  <2> QED BY <1>1, <1>4, <1>5, <1>7, <1>9, <2>1, QuietStep
<1>10. /\ Goto(Gate, <<"stay">>) => todo' = [todo EXCEPT ![Gate] = On("stay")]
       /\ Goto(Gate, <<"add", "stay">>) => todo' = [todo EXCEPT ![Gate] = Push("add", On("stay"))]
  BY <1>1, <1>2, GateGoes
<1> QED BY <1>8, <1>9, <1>10 DEF GateThreadStart, NoDelay

\* Nobody's groups change.
LEMMA SameGroups ==
  ASSUME CountsMatch, UNCHANGED <<counts, workerSem, retiredSem>>,
         \A u \in Thread : \A L \in Groups : Has(todo'[u], L) <=> Has(todo[u], L)
  PROVE  CountsMatch'
<1>1. ASSUME NEW L \in Groups
      PROVE  Having(todo', L) = Having(todo, L)
  <2>1. {u \in Thread : Has(todo'[u], L)} = {u \in Thread : Has(todo[u], L)}
    OBVIOUS
  <2> QED BY <2>1, Zenon DEF Having
<1>2. /\ Busy \in Groups /\ Asleep \in Groups /\ Off \in Groups
      /\ Unretiring \in Groups /\ Releasing \in Groups /\ Creating \in Groups
  BY DEF Groups
<1>3. /\ Having(todo', Busy) = Having(todo, Busy) /\ Having(todo', Asleep) = Having(todo, Asleep)
      /\ Having(todo', Off) = Having(todo, Off)
      /\ Having(todo', Unretiring) = Having(todo, Unretiring)
      /\ Having(todo', Releasing) = Having(todo, Releasing)
      /\ Having(todo', Creating) = Having(todo, Creating)
  BY <1>1, <1>2
<1>4. counts' = counts /\ workerSem' = workerSem /\ retiredSem' = retiredSem
  OBVIOUS
<1>5. Balanced(counts, Having(todo, Busy), Having(todo, Asleep), Having(todo, Off),
               retiredSem + Having(todo, Unretiring), workerSem + Having(todo, Releasing),
               Having(todo, Creating))
  BY CountsAre
<1>6. Balanced(counts', Having(todo', Busy), Having(todo', Asleep), Having(todo', Off),
               retiredSem' + Having(todo', Unretiring), workerSem' + Having(todo', Releasing),
               Having(todo', Creating))
  BY <1>3, <1>4, <1>5
<1> QED BY <1>6, CountsAreNext

\* What a step for the gate thread leaves alone.
LEMMA GateSide ==
  ASSUME PoolInv, todo' \in [Thread -> Seq(Steps)],
         UNCHANGED <<counts, limits, workerSem, retiredSem, pending, found, requested, changes, leftRaised>>,
         gateStatus' \in {"notRunning", "waitingForRequest", "requested"},
         failures' \in 0..MaxFailures, failures' >= failures,
         \A u \in Thread :
           /\ Shape(u, todo'[u])
           /\ \A L \in Groups : Has(todo'[u], L) <=> Has(todo[u], L)
           /\ Has(todo[u], Looking) => Has(todo'[u], Looking)
           /\ At(u, "renege")' => At(u, "renege"),
         GateFits', Watched'
  PROVE  PoolInv'
<1>1. TypeOK /\ Ranges /\ Stacked /\ GateFits /\ CountsMatch /\ Reneged /\ Served /\ Watched
  BY DEF PoolInv
<1>2. TypeOK' /\ Ranges' /\ Stacked'
  BY <1>1 DEF TypeOK, Ranges, Stacked
<1>3. CountsMatch'
  BY <1>1, SameGroups
<1>4. Reneged'
  BY <1>1 DEF Reneged, TypeOK
<1>5. Served'
  BY <1>1 DEF Served, TypeOK
<1> QED BY <1>2, <1>3, <1>4, <1>5 DEF PoolInv

\* Whoever asks for the gate thread is not the gate thread.
LEMMA AskFacts ==
  ASSUME TypeOK, Stacked, NEW t \in Thread, NEW x \in {"ensureGate", "createGate"}, At(t, x)
  PROVE  LET k == Tail(todo[t]) IN
         /\ k \in Seq(Steps) /\ t # Gate
         /\ Shape(t, k) /\ (k # << >> => Head(k) \notin {"createGate", "quit", "renege"})
         /\ Shape(t, Push("createGate", k)) /\ Head(Push("createGate", k)) = "createGate"
         /\ \A L : Has(todo[t], L) <=> x \in L \/ Has(k, L)
         /\ \A L : Has(Push("createGate", k), L) <=> "createGate" \in L \/ Has(k, L)
         /\ Goto(t, << >>) => todo' = [todo EXCEPT ![t] = k]
         /\ Goto(t, <<"createGate">>) => todo' = [todo EXCEPT ![t] = Push("createGate", k)]
<1> DEFINE k == Tail(todo[t])
<1>1. /\ k \in Seq(Steps) /\ Row(t, x, k)
      /\ \A L : Has(todo[t], L) <=> x \in L \/ Has(k, L)
      /\ Goto(t, << >>) => todo' = [todo EXCEPT ![t] = k]
      /\ \A y \in Steps : Goto(t, <<y>>) => todo' = [todo EXCEPT ![t] = Push(y, k)]
  BY Goes
<1> HIDE DEF k
<1>2. k \in AfterGate(t)
  BY <1>1 DEF Row
<1>3. t # Gate
  BY <1>2, WorkerPoolAssumption DEF AfterGate, WorkerPoolAssumption
<1>4. Shape(t, k)
  BY <1>2, GateReturns
<1>5. k # << >> => Head(k) \in {"dispatch", "recalled"}
  <2>1. Head(On("dispatch")) = "dispatch" /\ Head(On("recalled")) = "recalled"
    BY PushFacts, NothingOn DEF On, Steps
  <2> QED BY <1>2, <2>1 DEF AfterGate
<1>6. "createGate" \in Steps /\ Row(t, "createGate", k)
  BY <1>2 DEF Steps, Row, Alone, Watching, Adding
<1>7. /\ Shape(t, Push("createGate", k)) /\ Head(Push("createGate", k)) = "createGate"
      /\ \A L : Has(Push("createGate", k), L) <=> "createGate" \in L \/ Has(k, L)
  BY <1>1, <1>6, ShapeOn, PushFacts, PushHas
<1>8. k # << >> => Head(k) \notin {"createGate", "quit", "renege"}
  BY <1>5
<1> QED BY <1>1, <1>3, <1>4, <1>6, <1>7, <1>8 DEF k

\* EnsureGateThreadRunning preserves the invariant.
LEMMA EnsureInv ==
  ASSUME PoolInv, NEW t \in Thread, EnsureGateThreadRunning(t)
  PROVE  PoolInv'
<1> DEFINE k == Tail(todo[t])
           s == IF gateStatus = "notRunning" THEN Push("createGate", k) ELSE k
<1>1. /\ TypeOK /\ Stacked /\ GateFits /\ todo \in [Thread -> Seq(Steps)] /\ Gate \in Thread
      /\ At(t, "ensureGate")
  BY GateStacks DEF PoolInv, TypeOK, EnsureGateThreadRunning
<1>2. /\ k \in Seq(Steps) /\ t # Gate
      /\ Shape(t, k) /\ (k # << >> => Head(k) \notin {"createGate", "quit", "renege"})
      /\ Shape(t, Push("createGate", k)) /\ Head(Push("createGate", k)) = "createGate"
      /\ \A L : Has(todo[t], L) <=> "ensureGate" \in L \/ Has(k, L)
      /\ \A L : Has(Push("createGate", k), L) <=> "createGate" \in L \/ Has(k, L)
      /\ Goto(t, << >>) => todo' = [todo EXCEPT ![t] = k]
      /\ Goto(t, <<"createGate">>) => todo' = [todo EXCEPT ![t] = Push("createGate", k)]
  BY <1>1, AskFacts
<1> HIDE DEF k
<1>3. /\ Shape(t, s) /\ s \in Seq(Steps)
      /\ s # << >> => Head(s) \notin {"quit", "renege"}
      /\ (s # << >> /\ Head(s) = "createGate") => gateStatus = "notRunning"
      /\ \A L \in Groups : Has(s, L) <=> Has(todo[t], L)
      /\ Has(todo[t], Looking) => Has(s, Looking)
  <2>1. CASE gateStatus = "notRunning"
    BY <1>2, <2>1, Ungrouped DEF Looking, Shape
  <2>2. CASE gateStatus # "notRunning"
    BY <1>2, <2>2, Ungrouped DEF Looking
  <2> QED BY <2>1, <2>2
<1>4. todo' = [todo EXCEPT ![t] = s]
  BY <1>2 DEF EnsureGateThreadRunning
<1> HIDE DEF s
<1>5. /\ todo' \in [Thread -> Seq(Steps)] /\ todo'[t] = s
      /\ \A u \in Thread : u # t => todo'[u] = todo[u]
  BY <1>1, <1>3, <1>4
<1>6. /\ UNCHANGED <<counts, limits, workerSem, retiredSem, pending, found, requested, changes, leftRaised>>
      /\ gateStatus' = "requested" /\ failures' = failures
      /\ failures \in 0..MaxFailures
  BY <1>1 DEF EnsureGateThreadRunning, bounds, TypeOK
<1>7. \A u \in Thread :
        /\ Shape(u, todo'[u])
        /\ \A L \in Groups : Has(todo'[u], L) <=> Has(todo[u], L)
        /\ Has(todo[u], Looking) => Has(todo'[u], Looking)
        /\ At(u, "renege")' => At(u, "renege")
  BY <1>1, <1>3, <1>5 DEF Stacked, At
<1>8. GateFits'
  <2>1. ~At(t, "createGate")
    BY <1>1 DEF At
  <2>2. \A u \in Thread : At(u, "createGate")' =>
          (At(u, "createGate") /\ u # t) \/ (u = t /\ gateStatus = "notRunning")
    BY <1>3, <1>5 DEF At
  <2>3. todo'[Gate] = todo[Gate]
    BY <1>1, <1>2, <1>5
  <2> QED BY <1>1, <1>6, <2>1, <2>2, <2>3 DEF GateFits
<1>9. Watched'
  BY <1>6 DEF Watched
<1> QED BY <1>5, <1>6, <1>7, <1>8, <1>9, GateSide

\* The creation of the gate thread preserves the invariant.
LEMMA CreateGateInv ==
  ASSUME PoolInv, NEW t \in Thread, CreateGateThread(t)
  PROVE  PoolInv'
<1> DEFINE k == Tail(todo[t])
           s == On("watch")
<1>1. /\ TypeOK /\ Stacked /\ GateFits /\ Watched /\ todo \in [Thread -> Seq(Steps)]
      /\ Gate \in Thread /\ At(t, "createGate")
  BY GateStacks DEF PoolInv, TypeOK, CreateGateThread
<1>2. /\ k \in Seq(Steps) /\ t # Gate
      /\ Shape(t, k) /\ (k # << >> => Head(k) \notin {"createGate", "quit", "renege"})
      /\ \A L : Has(todo[t], L) <=> "createGate" \in L \/ Has(k, L)
  BY <1>1, AskFacts
<1>3. /\ Shape(Gate, s) /\ Head(s) = "watch" /\ s # << >> /\ s \in Seq(Steps)
      /\ \A L : Has(s, L) <=> "watch" \in L
  BY GateStacks DEF Watching, Shape
<1>4. <<"watch">> = s
  BY Tuples, NothingOn DEF On, Steps
<1> HIDE DEF k, s
<1>5. /\ todo' \in [Thread -> Seq(Steps)] /\ todo'[t] = k /\ todo'[Gate] = s
      /\ \A u \in Thread : u # t /\ u # Gate => todo'[u] = todo[u]
  BY <1>1, <1>2, <1>3, <1>4 DEF CreateGateThread, k
<1>6. gateStatus # "notRunning" /\ todo[Gate] = << >>
      /\ \A u \in Thread : At(u, "createGate") => u = t
  BY <1>1 DEF GateFits
<1>7. /\ UNCHANGED <<counts, limits, workerSem, retiredSem, pending, found, requested, changes, leftRaised>>
      /\ gateStatus' = gateStatus /\ failures' = failures
      /\ failures \in 0..MaxFailures
      /\ gateStatus \in {"notRunning", "waitingForRequest", "requested"}
  BY <1>1 DEF CreateGateThread, bounds, TypeOK
<1>8. \A L : ~Has(todo[Gate], L)
  BY <1>6, NothingOn
<1>9. \A L \in Groups : "watch" \notin L /\ "createGate" \notin L
  BY Ungrouped
<1>10. ASSUME NEW u \in Thread
       PROVE  /\ Shape(u, todo'[u])
              /\ \A L \in Groups : Has(todo'[u], L) <=> Has(todo[u], L)
              /\ Has(todo[u], Looking) => Has(todo'[u], Looking)
              /\ At(u, "renege")' => At(u, "renege")
  <2>1. CASE u = t
    BY <1>2, <1>5, <1>9, <2>1 DEF At, Looking
  <2>2. CASE u = Gate
    BY <1>3, <1>5, <1>8, <1>9, <2>2 DEF At
  <2>3. CASE u # t /\ u # Gate
    BY <1>1, <1>5, <2>3 DEF At, Stacked
  <2> QED BY <2>1, <2>2, <2>3
<1>11. GateFits'
  <2>1. \A u \in Thread : ~At(u, "createGate")'
    BY <1>2, <1>3, <1>5, <1>6 DEF At
  <2> QED BY <1>6, <1>7, <2>1 DEF GateFits
<1>12. Watched'
  <2>1. ~At(Gate, "quit")'
    BY <1>3, <1>5 DEF At
  <2> QED BY <1>6, <1>7, <2>1 DEF Watched
<1> QED BY <1>5, <1>7, <1>10, <1>11, <1>12, GateSide

\* A failed creation of the gate thread preserves the invariant.
LEMMA CreateGateFailsInv ==
  ASSUME PoolInv, NEW t \in Thread, CreateGateFails(t)
  PROVE  PoolInv'
<1> DEFINE k == Tail(todo[t])
<1>1. /\ TypeOK /\ Stacked /\ GateFits /\ todo \in [Thread -> Seq(Steps)]
      /\ Gate \in Thread /\ At(t, "createGate")
  BY GateStacks DEF PoolInv, TypeOK, CreateGateFails
<1>2. /\ k \in Seq(Steps) /\ t # Gate
      /\ Shape(t, k) /\ (k # << >> => Head(k) \notin {"createGate", "quit", "renege"})
      /\ \A L : Has(todo[t], L) <=> "createGate" \in L \/ Has(k, L)
      /\ Goto(t, << >>) => todo' = [todo EXCEPT ![t] = k]
  BY <1>1, AskFacts
<1> HIDE DEF k
<1>3. /\ todo' \in [Thread -> Seq(Steps)] /\ todo'[t] = k
      /\ \A u \in Thread : u # t => todo'[u] = todo[u]
  BY <1>1, <1>2 DEF CreateGateFails
<1>4. todo[Gate] = << >> /\ \A u \in Thread : At(u, "createGate") => u = t
  BY <1>1 DEF GateFits
<1>5. /\ UNCHANGED <<counts, limits, workerSem, retiredSem, pending, found, requested, changes, leftRaised>>
      /\ gateStatus' = "notRunning"
      /\ failures' \in 0..MaxFailures /\ failures' >= failures /\ failures' > 0
  BY <1>1, WorkerPoolAssumption DEF CreateGateFails, TypeOK, WorkerPoolAssumption
<1>6. \A L \in Groups : "createGate" \notin L
  BY Ungrouped
<1>7. \A u \in Thread :
        /\ Shape(u, todo'[u])
        /\ \A L \in Groups : Has(todo'[u], L) <=> Has(todo[u], L)
        /\ Has(todo[u], Looking) => Has(todo'[u], Looking)
        /\ At(u, "renege")' => At(u, "renege")
  BY <1>1, <1>2, <1>3, <1>6 DEF Stacked, At, Looking
<1>8. GateFits'
  <2>1. \A u \in Thread : ~At(u, "createGate")'
    BY <1>2, <1>3, <1>4 DEF At
  <2>2. todo'[Gate] = << >>
    BY <1>1, <1>2, <1>3, <1>4
  <2> QED BY <2>1, <2>2 DEF GateFits
<1>9. Watched'
  BY <1>5 DEF Watched
<1> QED BY <1>3, <1>5, <1>7, <1>8, <1>9, GateSide

\* The gate thread takes a step of its own, from x to s, and nobody is about to create it.
LEMMA GateOwn ==
  ASSUME PoolInv, NEW x \in Watching, At(Gate, x), NEW s, todo' = [todo EXCEPT ![Gate] = s],
         s = << >> \/ \E y \in Watching : s = On(y),
         UNCHANGED <<counts, limits, workerSem, retiredSem, pending, found, bounds>>,
         gateStatus' \in {"notRunning", "waitingForRequest", "requested"},
         gateStatus' = "notRunning" => s = << >>, Watched'
  PROVE  PoolInv'
<1>1. /\ TypeOK /\ Stacked /\ GateFits /\ todo \in [Thread -> Seq(Steps)] /\ Gate \in Thread
  BY GateStacks DEF PoolInv, TypeOK
<1>2. todo[Gate] # << >> /\ \A L : Has(todo[Gate], L) <=> x \in L
  BY <1>1, GateGoes
<1>3. /\ Shape(Gate, s) /\ s \in Seq(Steps) /\ (s # << >> => Head(s) \in Watching)
      /\ \A L : L \cap Watching = {} => ~Has(s, L)
  <2>1. CASE s = << >>
    BY <2>1, NothingOn DEF Shape
  <2>2. CASE \E y \in Watching : s = On(y)
    BY <2>2, GateStacks DEF Shape
  <2> QED BY <2>1, <2>2
<1>4. /\ todo' \in [Thread -> Seq(Steps)] /\ todo'[Gate] = s
      /\ \A u \in Thread : u # Gate => todo'[u] = todo[u]
  BY <1>1, <1>3
<1>5. /\ UNCHANGED <<counts, limits, workerSem, retiredSem, pending, found, requested, changes, leftRaised>>
      /\ failures' \in 0..MaxFailures /\ failures' >= failures
  BY <1>1, WorkerPoolAssumption DEF TypeOK, bounds, WorkerPoolAssumption
<1>6. \A L \in Groups : L \cap Watching = {} /\ x \notin L
  BY Ungrouped DEF Watching
<1>7. ASSUME NEW u \in Thread
      PROVE  /\ Shape(u, todo'[u])
             /\ \A L \in Groups : Has(todo'[u], L) <=> Has(todo[u], L)
             /\ Has(todo[u], Looking) => Has(todo'[u], Looking)
             /\ At(u, "renege")' => At(u, "renege")
  <2>1. CASE u = Gate
    BY <1>2, <1>3, <1>4, <1>6, <2>1 DEF At, Looking, Watching
  <2>2. CASE u # Gate
    BY <1>1, <1>4, <2>2 DEF At, Stacked
  <2> QED BY <2>1, <2>2
<1>8. GateFits'
  <2>1. \A u \in Thread : ~At(u, "createGate")
    BY <1>1, <1>2 DEF GateFits
  <2>2. \A u \in Thread : ~At(u, "createGate")'
    BY <1>3, <1>4, <2>1 DEF At, Watching
  <2> QED BY <1>4, <2>2 DEF GateFits
<1> QED BY <1>4, <1>5, <1>7, <1>8, GateSide

\* The gate thread looks whether to stay, and may leave: the invariant is preserved,
\* since a request that came in meanwhile has changed the status.
LEMMA GateInv ==
  ASSUME PoolInv, ShouldGateThreadKeepRunning \/ GateNeeded \/ GateQuit
  PROVE  PoolInv'
<1>1. /\ TypeOK /\ Stacked /\ GateFits /\ Watched /\ todo \in [Thread -> Seq(Steps)]
      /\ Gate \in Thread /\ pending \in Nat
      /\ gateStatus \in {"notRunning", "waitingForRequest", "requested"}
  BY GateStacks DEF PoolInv, TypeOK
<1>2. ASSUME NEW x \in Watching, At(Gate, x)
      PROVE  /\ gateStatus # "notRunning" /\ ~Has(todo[Gate], ToGate)
             /\ Goto(Gate, << >>) => todo' = [todo EXCEPT ![Gate] = << >>]
             /\ \A y \in Watching : Goto(Gate, <<y>>) => todo' = [todo EXCEPT ![Gate] = On(y)]
  <2>1. Watching \subseteq Steps
    BY DEF Watching, Steps
  <2>2. todo[Gate] # << >> /\ ~Has(todo[Gate], ToGate)
    BY <1>1, <1>2, GateGoes DEF ToGate, Watching
  <2> QED BY <1>1, <1>2, <2>1, <2>2, GateGoes DEF GateFits
<1>3. ASSUME NEW y \in Watching, todo' = [todo EXCEPT ![Gate] = On(y)], y # "quit"
      PROVE  ~At(Gate, "quit")'
  <2>1. todo'[Gate] = On(y) /\ Head(On(y)) = y
    BY <1>1, <1>3, GateStacks
  <2> QED BY <1>3, <2>1 DEF At
<1>4. "watch" \in Watching /\ "stay" \in Watching /\ "needed" \in Watching /\ "quit" \in Watching
  BY DEF Watching
<1>5. CASE ShouldGateThreadKeepRunning
  <2>1. At(Gate, "stay") /\ gateStatus' = "waitingForRequest"
        /\ UNCHANGED <<counts, limits, workerSem, retiredSem, pending, found, bounds>>
    BY <1>5 DEF ShouldGateThreadKeepRunning
  <2>2. \E y \in {"needed", "watch"} : Goto(Gate, <<y>>)
    BY <1>5 DEF ShouldGateThreadKeepRunning
  <2>3. PICK y \in {"needed", "watch"} : todo' = [todo EXCEPT ![Gate] = On(y)]
    BY <1>2, <1>4, <2>1, <2>2
  <2>4. y \in Watching /\ ~At(Gate, "quit")'
    BY <1>3, <1>4, <2>3
  <2>5. Watched'
    BY <2>1, <2>4 DEF Watched
  <2> QED BY <1>4, <2>1, <2>3, <2>4, <2>5, GateOwn
<1>6. CASE GateNeeded
  <2>1. At(Gate, "needed") /\ gateStatus' = gateStatus /\ gateStatus # "notRunning"
        /\ UNCHANGED <<counts, limits, workerSem, retiredSem, pending, found, bounds>>
    BY <1>2, <1>4, <1>6 DEF GateNeeded
  <2>2. CASE pending > 0
    <3>1. todo' = [todo EXCEPT ![Gate] = On("watch")]
      BY <1>2, <1>4, <1>6, <2>1, <2>2 DEF GateNeeded
    <3>2. Watched'
      <4>1. ~At(Gate, "quit")'
        BY <1>3, <1>4, <3>1
      <4> QED BY <1>1, <2>1, <4>1 DEF Watched
    <3> QED BY <1>1, <1>4, <2>1, <3>1, <3>2, GateOwn
  <2>3. CASE ~(pending > 0)
    <3>1. todo' = [todo EXCEPT ![Gate] = On("quit")]
      BY <1>2, <1>4, <1>6, <2>1, <2>3 DEF GateNeeded
    <3>2. Watched'
      BY <2>1, <2>3 DEF Watched
    <3> QED BY <1>1, <1>4, <2>1, <3>1, <3>2, GateOwn
  <2> QED BY <2>2, <2>3
<1>7. CASE GateQuit
  <2>1. At(Gate, "quit") /\ gateStatus # "notRunning" /\ ~Has(todo[Gate], ToGate)
        /\ UNCHANGED <<counts, limits, workerSem, retiredSem, pending, found, bounds>>
    BY <1>2, <1>4, <1>7 DEF GateQuit
  <2>2. CASE gateStatus = "waitingForRequest"
    <3>1. gateStatus' = "notRunning" /\ todo' = [todo EXCEPT ![Gate] = << >>]
      BY <1>2, <1>4, <1>7, <2>1, <2>2 DEF GateQuit
    <3>2. Watched'
      <4>1. \A u \in Thread : Has(todo[u], ToGate) => Has(todo'[u], ToGate)
        BY <1>1, <2>1, <3>1
      <4>2. pending' = pending /\ failures' = failures
        BY <2>1 DEF bounds
      <4> QED BY <1>1, <2>1, <2>2, <4>1, <4>2 DEF Watched
    <3> QED BY <1>1, <1>4, <2>1, <3>1, <3>2, GateOwn
  <2>3. CASE gateStatus # "waitingForRequest"
    <3>1. gateStatus' = "requested" /\ todo' = [todo EXCEPT ![Gate] = On("watch")]
      BY <1>1, <1>2, <1>4, <1>7, <2>1, <2>3 DEF GateQuit
    <3>2. Watched'
      BY <3>1 DEF Watched
    <3> QED BY <1>1, <1>4, <2>1, <3>1, <3>2, GateOwn
  <2> QED BY <2>2, <2>3
<1> QED BY <1>5, <1>6, <1>7

-----------------------------------------------------------------------------
(* CreateWorkerThread: the creation becomes a thread that works.           *)

\* Only the stack of t differs.
Stacks == [Thread -> Seq(Steps)]
Moved(f, g, t) == \A u \in Thread \ {t} : g[u] = f[u]
Load(f, t, L) == Weight(f[t], L)

\* How many threads are in a group after one stack is replaced.
LEMMA CountMoved ==
  ASSUME NEW f, f \in Stacks, NEW g, NEW t \in Thread, Moved(f, g, t)
  PROVE  \A L : /\ Having(f, L) \in Nat /\ Load(f, t, L) \in {0, 1} /\ Load(g, t, L) \in {0, 1}
                /\ Having(g, L) = Having(f, L) + Load(g, t, L) - Load(f, t, L)
<1>1. ASSUME NEW L, NEW s, g[t] = s
      PROVE  /\ Having(f, L) \in Nat
             /\ Having(g, L) = Having(f, L) + Weight(s, L) - Weight(f[t], L)
  BY <1>1, CountMove DEF Moved, Stacks
<1> QED BY <1>1, Weights DEF Load

\* The same for the stacks of two threads.
LEMMA TwoMoves ==
  ASSUME NEW f, f \in Stacks, NEW g, g \in Stacks, NEW h, NEW t \in Thread, NEW w \in Thread,
         Moved(f, g, w), Moved(g, h, t)
  PROVE  \A L : /\ Having(f, L) \in Nat
                /\ Having(h, L) = Having(f, L) + Load(g, w, L) - Load(f, w, L)
                                    + (Load(h, t, L) - Load(g, t, L))
<1>1. \A L : /\ Having(f, L) \in Nat /\ Load(f, w, L) \in {0, 1} /\ Load(g, w, L) \in {0, 1}
             /\ Having(g, L) = Having(f, L) + Load(g, w, L) - Load(f, w, L)
  BY CountMoved
<1>2. \A L : /\ Having(g, L) \in Nat /\ Load(g, t, L) \in {0, 1} /\ Load(h, t, L) \in {0, 1}
             /\ Having(h, L) = Having(g, L) + Load(h, t, L) - Load(g, t, L)
  BY CountMoved
<1> QED BY <1>1, <1>2

\* The counts match after CreateWorkerThread.
LEMMA CreateCounts ==
  ASSUME TypeOK, Stacked, CountsMatch, NEW t \in Thread, NEW w \in Worker,
         CreateWorkerThread(t, w)
  PROVE  CountsMatch'
<1> DEFINE k == Tail(todo[t])
           g == [todo EXCEPT ![w] = On("work")]
           old(L) == Having(todo, L)
           new(L) == Having(todo', L)
<1>1. /\ At(t, "create") /\ todo[w] = << >> /\ todo \in [Thread -> Seq(Steps)] /\ w \in Thread
      /\ w # t /\ "create" \in Adding
  BY DEF CreateWorkerThread, TypeOK, At, Thread, Adding
<1>2. /\ On("work") \in Seq(Steps) /\ <<"work">> = On("work")
      /\ \A L : Has(On("work"), L) <=> "work" \in L
  <2>1. "work" \in Steps /\ << >> \in Seq(Steps)
    BY DEF Steps
  <2> QED BY <2>1, Tuples, PushFacts, OnHas DEF On
<1>3. Differ(k, todo[t], 0, 0, 0, 0, 0, -1)
  BY <1>1, AddDiffers DEF Adding, Unretiring, Releasing, Creating
<1>4. /\ g \in [Thread -> Seq(Steps)] /\ g[w] = On("work") /\ g[t] = todo[t]
      /\ \A u \in Thread \ {w} : g[u] = todo[u]
      /\ todo'[t] = k /\ \A u \in Thread \ {t} : todo'[u] = g[u]
  BY <1>1, <1>2 DEF CreateWorkerThread
<1> HIDE DEF g, k
<1>5. ASSUME NEW L
      PROVE  /\ old(L) \in Nat
             /\ new(L) = old(L) + (IF "work" \in L THEN 1 ELSE 0) + (Weight(k, L) - Weight(todo[t], L))
  <2>1. todo \in Stacks /\ g \in Stacks /\ w \in Thread /\ Moved(todo, g, w) /\ Moved(g, todo', t)
    BY <1>1, <1>4 DEF Moved, Stacks
  <2>2. /\ Having(todo, L) \in Nat
        /\ Having(todo', L) = Having(todo, L) + Load(g, w, L) - Load(todo, w, L)
                                + (Load(todo', t, L) - Load(g, t, L))
    BY <2>1, TwoMoves
  <2>3. /\ Load(g, w, L) = (IF "work" \in L THEN 1 ELSE 0) /\ Load(todo, w, L) = 0
        /\ Load(todo', t, L) = Weight(k, L) /\ Load(g, t, L) = Weight(todo[t], L)
    BY <1>1, <1>2, <1>4, Weights DEF Weight, Load
  <2>4. Weight(k, L) \in {0, 1} /\ Weight(todo[t], L) \in {0, 1}
    BY Weights
  <2> QED BY <2>1, <2>2, <2>3, <2>4
<1> HIDE DEF old, new
<1>6. /\ new(Busy) = old(Busy) + 1 /\ new(Asleep) = old(Asleep) /\ new(Off) = old(Off)
      /\ new(Unretiring) = old(Unretiring) /\ new(Releasing) = old(Releasing)
      /\ new(Creating) = old(Creating) - 1
      /\ old(Busy) \in Nat /\ old(Asleep) \in Nat /\ old(Off) \in Nat
      /\ old(Unretiring) \in Nat /\ old(Releasing) \in Nat /\ old(Creating) \in Nat
  <2>1. /\ "work" \in Busy /\ "work" \notin Asleep /\ "work" \notin Off
        /\ "work" \notin Unretiring /\ "work" \notin Releasing /\ "work" \notin Creating
    BY DEF Busy, Asleep, Off, Unretiring, Releasing, Creating
  <2> QED BY <1>3, <1>5, <2>1 DEF Differ
<1>7. Balanced(counts, old(Busy), old(Asleep), old(Off), retiredSem + old(Unretiring),
               workerSem + old(Releasing), old(Creating))
  BY CountsAre DEF old
<1>8. counts' = counts /\ workerSem' = workerSem /\ retiredSem' = retiredSem
      /\ counts \in Counts /\ workerSem \in Nat /\ retiredSem \in Nat
  BY DEF CreateWorkerThread, TypeOK, Counts
<1>9. Balanced(counts', new(Busy), new(Asleep), new(Off), retiredSem' + new(Unretiring),
               workerSem' + new(Releasing), new(Creating))
  BY <1>6, <1>7, <1>8 DEF Balanced, Counts
<1> QED BY <1>9, CountsAreNext DEF new

\* CreateWorkerThread preserves the invariant.
LEMMA CreateInv ==
  ASSUME PoolInv, NEW t \in Thread, NEW w \in Worker, CreateWorkerThread(t, w)
  PROVE  PoolInv'
<1> DEFINE k == Tail(todo[t])
           s == On("work")
<1>1. /\ TypeOK /\ Stacked /\ GateFits /\ CountsMatch /\ Reneged /\ Watched /\ Ranges
      /\ todo \in [Thread -> Seq(Steps)] /\ w \in Thread /\ w # Gate /\ Gate \in Thread
      /\ At(t, "create") /\ todo[w] = << >> /\ w # t /\ "create" \in Adding
  BY GateStacks, WorkerPoolAssumption
  DEF PoolInv, CreateWorkerThread, TypeOK, At, Thread, Adding, WorkerPoolAssumption
<1>2. /\ k \in Seq(Steps) /\ Shape(t, k)
      /\ k # << >> => Head(k) \notin {"createGate", "quit", "renege"}
      /\ Has(todo[t], ToGate) <=> Has(k, ToGate)
  BY <1>1, AddFacts
<1>3. /\ Shape(w, s) /\ Head(s) = "work" /\ s \in Seq(Steps) /\ <<"work">> = s
  <2>1. Becomes(w, s, "work")
    BY WorkerStacks DEF Alone
  <2>2. "work" \in Steps /\ << >> \in Seq(Steps)
    BY DEF Steps
  <2>3. <<"work">> = s
    BY <2>2, Tuples DEF On
  <2> QED BY <2>1, <2>2, <2>3, PushFacts DEF Becomes, On
<1> HIDE DEF k, s
<1>4. /\ todo' \in [Thread -> Seq(Steps)] /\ todo'[t] = k /\ todo'[w] = s
      /\ \A u \in Thread : u # t /\ u # w => todo'[u] = todo[u]
  BY <1>1, <1>2, <1>3 DEF CreateWorkerThread, k
<1>5. /\ UNCHANGED <<counts, limits, workerSem, retiredSem, pending, gateStatus>>
      /\ UNCHANGED <<requested, changes, failures, leftRaised>> /\ found' \in [Worker -> BOOLEAN]
  BY <1>1 DEF CreateWorkerThread, bounds, TypeOK
<1>6. TypeOK' /\ Ranges'
  BY <1>1, <1>4, <1>5 DEF TypeOK, Ranges
<1>7. Stacked'
  BY <1>1, <1>2, <1>3, <1>4 DEF Stacked
<1>8. CountsMatch'
  BY <1>1, CreateCounts
<1>9. \A u \in Thread : \A x \in {"createGate", "quit", "renege"} : At(u, x)' => At(u, x) /\ u # t
  BY <1>2, <1>3, <1>4 DEF At
<1>10. GateFits'
  <2>1. todo[Gate] = << >> => todo'[Gate] = << >>
    BY <1>1, <1>4 DEF At
  <2> QED BY <1>1, <1>5, <1>9, <2>1 DEF GateFits
<1>11. Reneged'
  BY <1>1, <1>5, <1>9 DEF Reneged
<1>12. Served'
  <2>1. counts.working > 0
    BY <1>1, CountedMore
  <2> QED BY <1>5, <2>1 DEF Served
<1>13. Watched'
  <2>1. \A u \in Thread : Has(todo[u], ToGate) => Has(todo'[u], ToGate)
    BY <1>1, <1>2, <1>4, NothingOn
  <2>2. At(Gate, "quit")' => At(Gate, "quit")
    BY <1>1, <1>9
  <2> QED BY <1>1, <1>5, <2>1, <2>2 DEF Watched
<1> QED BY <1>6, <1>7, <1>8, <1>10, <1>11, <1>12, <1>13 DEF PoolInv

-----------------------------------------------------------------------------
(* The invariant, and what follows from it.                                *)

\* The invariant holds initially.
LEMMA InitInv == Init => PoolInv
<1> SUFFICES ASSUME Init PROVE PoolInv
  OBVIOUS
<1>1. PICK lo \in MinThreads, hi \in MaxThreads :
        /\ 0 < lo /\ lo <= hi
        /\ limits = [min |-> lo, max |-> hi]
        /\ counts = [maxWorking |-> lo, active |-> 0, working |-> 0, retired |-> 0]
  BY DEF Init
<1>2. lo \in Nat /\ hi \in Nat
  BY WorkerPoolAssumption DEF WorkerPoolAssumption
<1>3. \A t \in Thread : todo[t] = << >>
  BY DEF Init
<1>4. TypeOK /\ Ranges
  <2>1. leftRaised \in BOOLEAN
    BY DEF Init
  <2>2. limits \in [min : Nat, max : Nat] /\ counts \in Counts
    BY <1>1, <1>2 DEF Counts
  <2>3. todo \in [Thread -> Seq(Steps)] /\ found \in [Worker -> BOOLEAN]
    BY NothingOn DEF Init
  <2>4. pending = 0 /\ requested = 0 /\ changes = 0 /\ failures = 0
        /\ workerSem = 0 /\ retiredSem = 0 /\ gateStatus = "notRunning"
    BY DEF Init
  <2> QED BY <2>1, <2>2, <2>3, <2>4, WorkerPoolAssumption
          DEF TypeOK, Ranges, Counts, WorkerPoolAssumption
<1>5. Stacked
  BY <1>3, NothingOn DEF Stacked, Shape
<1>6. GateFits /\ Reneged
  BY <1>3, GateStacks DEF GateFits, Reneged, At
<1>7. CountsMatch
  <2>1. ASSUME NEW L
        PROVE  Having(todo, L) = 0
    <3>1. {t \in Thread : Has(todo[t], L)} = {}
      BY <1>3, NothingOn
    <3>2. Having(todo, L) = Cardinality({})
      BY <3>1, Zenon DEF Having
    <3> QED BY <3>2, FS_EmptySet
  <2>2. workerSem = 0 /\ retiredSem = 0
    BY DEF Init
  <2>3. Balanced(counts, Having(todo, Busy), Having(todo, Asleep), Having(todo, Off),
                 retiredSem + Having(todo, Unretiring), workerSem + Having(todo, Releasing),
                 Having(todo, Creating))
    BY <1>1, <1>2, <2>1, <2>2 DEF Balanced
  <2> QED BY <2>3, CountsAre
<1>8. Served /\ Watched
  BY DEF Init, Served, Watched
<1> QED BY <1>4, <1>5, <1>6, <1>7, <1>8 DEF PoolInv

\* Every step preserves the invariant.
LEMMA NextInv ==
  ASSUME PoolInv, [Next]_vars
  PROVE  PoolInv'
<1>1. CASE UNCHANGED vars
  <2>1. /\ UNCHANGED <<counts, limits, workerSem, retiredSem, pending, gateStatus, todo, found>>
        /\ UNCHANGED <<requested, changes, failures, leftRaised>>
    BY <1>1 DEF vars, bounds
  <2> QED BY <2>1 DEF PoolInv, TypeOK, Ranges, Stacked, GateFits, CountsMatch, Doing, Reneged,
                      Served, Watched, At
<1>2. ASSUME NEW t \in Thread,
             SetAppDomainRequestsActive(t) \/ AddStep(t) \/ CreateFails(t) \/ CreateGateFails(t)
      PROVE  PoolInv'
  BY <1>2, RequestInv, MaybeAddInv, UnretireInv, ReleaseInv, RenegeInv, CreateInv, EnsureInv,
     CreateGateInv, CreateFailsInv, CreateGateFailsInv DEF AddStep
<1>3. ASSUME NEW w \in Worker,
             \/ WorkerStep(w) \/ NotifyRequestComplete(w)
             \/ RetiredTimeout(w) \/ WaitTimeout(w)
      PROVE  PoolInv'
  BY <1>3, WorkerInv, AdjustInv DEF WorkerStep
<1>4. CASE GateStep \/ NoDelay
  BY <1>4, WatchInv, GateInv DEF GateStep
<1>5. ASSUME NEW n \in MaxThreads, SetMaxThreads(n)
      PROVE  PoolInv'
  BY <1>5, SetLimitInv
<1>6. ASSUME NEW n \in MinThreads, SetMinThreads(n)
      PROVE  PoolInv'
  BY <1>6, SetLimitInv
<1>7. CASE LowerLimit \/ RaiseLimit \/ LimitRaised
  BY <1>7, FollowInv, RaisedInv
<1> QED BY <1>1, <1>2, <1>3, <1>4, <1>5, <1>6, <1>7 DEF Next

\* PoolInv is an invariant of the thread pool.
THEOREM PoolInvariant == Spec => []PoolInv
<1>1. PoolInv /\ [Next]_vars => PoolInv'
  BY NextInv
<1> QED BY <1>1, InitInv, PTL DEF Spec

\* The word with the four counts is what the threads do: each worker is counted once,
\* whatever time-outs, retirements, recalls and failed creations happen.
THEOREM CountsMatchHolds == Spec => []CountsMatch
<1>1. PoolInv => CountsMatch
  BY DEF PoolInv
<1> QED BY <1>1, PoolInvariant, PTL

\* A thread that is about to do nothing of Settled has none of it further down.
LEMMA SettledStacks ==
  ASSUME PoolInv, Settled, NEW t \in Thread
  PROVE  ~Has(todo[t], Looking) /\ ~Has(todo[t], ToGate)
<1>1. CASE todo[t] = << >>
  BY <1>1, NothingOn
<1>2. CASE todo[t] # << >>
  <2> DEFINE x == Head(todo[t])
             k == Tail(todo[t])
  <2>1. TypeOK /\ Stacked /\ At(t, x)
    BY <1>2 DEF PoolInv, At
  <2>2. /\ x \in Steps /\ Row(t, x, k)
        /\ \A L : Has(todo[t], L) <=> x \in L \/ Has(k, L)
    BY <2>1, Goes
  <2>3. x \notin {"add", "create", "renege", "unretire", "release", "sweep",
                  "recalled", "retire", "ensureGate", "createGate", "lower", "raise", "raised"}
    BY <1>2 DEF Settled
  <2> HIDE DEF x, k
  <2>4. x \notin Looking /\ x \notin ToGate
    BY <2>3 DEF Looking, ToGate
  <2>5. x \in Alone \/ x \in Watching \/ x = "adjust"
    BY <2>2, <2>3 DEF Steps, Alone, Watching
  <2>6. k = << >> \/ k = On("keep")
    BY <2>2, <2>5 DEF Row
  <2>7. ~Has(k, Looking) /\ ~Has(k, ToGate)
    BY <2>6, NothingOn, OnHas DEF Looking, ToGate, Steps
  <2> QED BY <2>2, <2>4, <2>7
<1> QED BY <1>1, <1>2

\* A recorded request has somebody at work, whatever workers went to sleep, retired or
\* exited while it came in.
THEOREM RequestServedHolds == Spec => []RequestServed
<1>1. PoolInv => RequestServed
  BY SettledStacks DEF RequestServed, PoolInv, Served
<1> QED BY <1>1, PoolInvariant, PTL

\* A recorded request has the gate thread running or being started.
THEOREM GateWatchesHolds == Spec => []GateWatches
<1>1. PoolInv => GateWatches
  BY SettledStacks DEF GateWatches, PoolInv, Watched
<1> QED BY <1>1, PoolInvariant, PTL

-----------------------------------------------------------------------------
(* The managed half, in the run ThreadPool.                                *)

\* The queue of MCThreadPool behaves as WorkQueue says: a step of another part leaves
\* its variables alone.
LEMMA QueuePart == MCSpec => WQ!Spec
<1>1. MCInit => WQ!Init
  BY DEF MCInit
<1>2. [MCNext]_<<vars, wqVars, wsVars, part>> => [WQ!Next]_(WQ!vars)
  BY DEF MCNext, wqVars, WQ!vars, WQ!queueVars, WQ!scanVars
<1> QED BY <1>1, <1>2, PTL DEF MCSpec, WQ!Spec

\* EnsureThreadRequested and MarkThreadRequestSatisfied: what the managed code counts
\* as requested is what the runtime has recorded, up to the calls under way.
THEOREM RequestsInSyncHolds == MCSpec => []RequestsInSync
<1>1. WQ!Spec => []WQ!RequestsInSync
  BY PoolAssumption, WQ!RequestsInSyncHolds DEF WQ!WorkQueueAssumption
<1> QED BY <1>1, QueuePart, PTL DEF RequestsInSync

\* Dispatch and Dequeue: with every worker back in the runtime and no request recorded,
\* no item is left in a queue that the next worker would look at.
THEOREM NothingStrandedHolds == MCSpec => []NothingStranded
<1>1. WQ!Spec => []WQ!NothingStranded
  BY PoolAssumption, WQ!NothingStrandedHolds DEF WQ!WorkQueueAssumption
<1> QED BY <1>1, QueuePart, PTL DEF NothingStranded

-----------------------------------------------------------------------------
(* The local queue, in the run ThreadPool.                                 *)

\* A behaviour runs one instance of the queue from its start, and leaves it alone when
\* it runs another part.
LEMMA OnePart == MCSpec /\ part = "One" => [](part = "One") /\ One!Spec
<1>1. MCInit /\ part = "One" => One!Init
  BY DEF MCInit
<1>2. part = "One" /\ [MCNext]_<<vars, wqVars, wsVars, part>> =>
        (part = "One")' /\ [One!Next]_(One!vars)
  BY DEF MCNext, wsVars, One!vars
<1> QED BY <1>1, <1>2, PTL DEF MCSpec, One!Spec

LEMMA TwoPart == MCSpec /\ ~(part = "One") => [](~(part = "One")) /\ Two!Spec
<1>1. MCInit /\ ~(part = "One") => Two!Init
  BY DEF MCInit
<1>2. ~(part = "One") /\ [MCNext]_<<vars, wqVars, wsVars, part>> =>
        ~(part = "One")' /\ [Two!Next]_(Two!vars)
  BY DEF MCNext, wsVars, Two!vars
<1> QED BY <1>1, <1>2, PTL DEF MCSpec, Two!Spec

\* The one thief, and the two that start at the largest index, cannot overflow the head.
LEMMA HeadsSafe ==
  /\ One!QueueAssumption /\ One!HeadSafe
  /\ Two!QueueAssumption /\ Two!HeadSafe
<1>1. One!SingleThief
  BY DEF One!SingleThief
<1>2. Two!FarStart
  BY DEF Two!FarStart
<1> QED BY <1>1, <1>2, PoolAssumption DEF One!HeadSafe, Two!HeadSafe

\* LocalPop, LocalFindAndPop and TrySteal: no item is handed out twice.
THEOREM TakenOnceHolds == MCSpec => []TakenOnce
<1>1. One!Spec => []One!TakenOnce
  BY HeadsSafe, One!TakenOnceHolds
<1>2. Two!Spec => []Two!TakenOnce
  BY HeadsSafe, Two!TakenOnceHolds
<1>3. /\ part = "One" /\ One!TakenOnce => TakenOnce
      /\ ~(part = "One") /\ Two!TakenOnce => TakenOnce
  BY DEF TakenOnce
<1> QED BY <1>1, <1>2, <1>3, OnePart, TwoPart, PTL

\* Between calls, what was pushed and not handed out can be reached from head and tail,
\* also after the indices were masked or the array has grown.
THEOREM NothingLostHolds == MCSpec => []NothingLost
<1>1. One!Spec => []One!NothingLost
  BY HeadsSafe, One!NothingLostHolds
<1>2. Two!Spec => []Two!NothingLost
  BY HeadsSafe, Two!NothingLostHolds
<1>3. /\ part = "One" /\ One!NothingLost => NothingLost
      /\ ~(part = "One") /\ Two!NothingLost => NothingLost
  BY DEF NothingLost
<1> QED BY <1>1, <1>2, <1>3, OnePart, TwoPart, PTL

\* LocalPop and CanSteal: what a call that reported the queue empty did not see has
\* been handed out.
THEOREM AbsentWasTakenHolds == MCSpec => []AbsentWasTaken
<1>1. One!Spec => []One!AbsentWasTaken
  BY HeadsSafe, One!AbsentWasTakenHolds
<1>2. Two!Spec => []Two!AbsentWasTaken
  BY HeadsSafe, Two!AbsentWasTakenHolds
<1>3. /\ part = "One" /\ One!AbsentWasTaken => AbsentWasTaken
      /\ ~(part = "One") /\ Two!AbsentWasTaken => AbsentWasTaken
  BY DEF AbsentWasTaken
<1> QED BY <1>1, <1>2, <1>3, OnePart, TwoPart, PTL

\* All parts of the pool keep their types.
THEOREM PoolTypesHold == MCSpec => []PoolTypeOK
<1>1. MCSpec => []TypeOK
  <2>1. MCInit => Init
    BY DEF MCInit
  <2>2. [MCNext]_<<vars, wqVars, wsVars, part>> => [Next]_vars
    BY DEF MCNext
  <2>3. PoolInv => TypeOK
    BY DEF PoolInv
  <2> QED BY <2>1, <2>2, <2>3, PoolInvariant, PTL DEF MCSpec, Spec
<1>2. WQ!Spec => []WQ!TypeOK
  BY PoolAssumption, WQ!QueueTypes DEF WQ!WorkQueueAssumption
<1>3. One!Spec => []One!TypeOK
  BY HeadsSafe, One!QueueTypes
<1>4. Two!Spec => []Two!TypeOK
  BY HeadsSafe, Two!QueueTypes
<1>5. /\ part = "One" /\ TypeOK /\ WQ!TypeOK /\ One!TypeOK => PoolTypeOK
      /\ ~(part = "One") /\ TypeOK /\ WQ!TypeOK /\ Two!TypeOK => PoolTypeOK
  BY DEF PoolTypeOK
<1> QED BY <1>1, <1>2, <1>3, <1>4, <1>5, QueuePart, OnePart, TwoPart, PTL
==============================================================================
