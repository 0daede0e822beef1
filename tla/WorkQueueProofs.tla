--------------------------- MODULE WorkQueueProofs ---------------------------
(***************************************************************************)
(* The managed half of the thread pool keeps its promises for any finite   *)
(* set of workers and any number of items and processors.  A worker that   *)
(* looks for work gives up only after it has seen a queue empty or has     *)
(* asked for another thread; the queues that have items are in the list it *)
(* scans; and the count of requests, which may keep a thread from asking,  *)
(* is that of the runtime.                                                 *)
(***************************************************************************)
EXTENDS WorkQueueProps, FiniteSetTheorems, SequenceTheorems, TLAPS

-----------------------------------------------------------------------------
(* Sequences.                                                              *)

\* The ends of a sequence.
LEMMA EndFacts ==
  ASSUME NEW S, NEW s \in Seq(S), s # << >>
  PROVE  /\ Head(s) \in S /\ Tail(s) \in Seq(S)
         /\ Last(s) \in S /\ Front(s) \in Seq(S)
<1>1. Len(s) \in Nat \ {0}
  BY EmptySeq
<1>2. Last(s) \in S
  BY <1>1, ElementOfSeq DEF Last
<1>3. Front(s) \in Seq(S)
  BY <1>1, SubSeqProperties DEF Front
<1> QED BY <1>1, <1>2, <1>3

\* What is in a sequence with one more element.
LEMMA AppendFacts ==
  ASSUME NEW S, NEW s \in Seq(S), NEW x \in S
  PROVE  /\ Append(s, x) \in Seq(S) /\ Append(s, x) # << >>
         /\ \A q : Contains(s, q) => Contains(Append(s, x), q)
         /\ Contains(Append(s, x), x)
<1>1. /\ Append(s, x) \in Seq(S) /\ Len(Append(s, x)) = Len(s) + 1
      /\ \A i \in 1..Len(s) : Append(s, x)[i] = s[i]
      /\ Append(s, x)[Len(s) + 1] = x /\ Len(s) \in Nat
  OBVIOUS
<1> QED BY <1>1 DEF Contains

\* Only the first element is not in the rest.
LEMMA TailFacts ==
  ASSUME NEW S, NEW s \in Seq(S), s # << >>, NEW q, Contains(s, q), q # Head(s)
  PROVE  Contains(Tail(s), q)
<1>1. PICK i \in 1..Len(s) : s[i] = q
  BY DEF Contains
<1>2. i # 1 /\ Len(s) \in Nat
  BY <1>1
<1>3. i - 1 \in 1..Len(Tail(s)) /\ Tail(s)[i - 1] = q
  BY <1>1, <1>2
<1> QED BY <1>3 DEF Contains

\* What is in one of two sequences is in both together.
LEMMA ConcatContains ==
  ASSUME NEW S, NEW s \in Seq(S), NEW r \in Seq(S), NEW q, Contains(s, q) \/ Contains(r, q)
  PROVE  Contains(s \o r, q)
<1>1. /\ Len(s) \in Nat /\ Len(r) \in Nat /\ Len(s \o r) = Len(s) + Len(r)
      /\ \A i \in 1..Len(s) : (s \o r)[i] = s[i]
      /\ \A i \in 1..Len(r) : (s \o r)[i + Len(s)] = r[i]
  OBVIOUS
<1>2. CASE Contains(s, q)
  BY <1>1, <1>2 DEF Contains
<1>3. CASE Contains(r, q)
  <2>1. PICK i \in 1..Len(r) : r[i] = q
    BY <1>3 DEF Contains
  <2>2. i + Len(s) \in 1..Len(s \o r) /\ (s \o r)[i + Len(s)] = q
    BY <1>1, <2>1
  <2> QED BY <2>2 DEF Contains
<1> QED BY <1>2, <1>3

\* What is in a part of a sequence.
LEMMA PartContains ==
  ASSUME NEW S, NEW s \in Seq(S), NEW m \in 1..(Len(s) + 1), NEW n \in (m - 1)..Len(s),
         NEW i \in m..n
  PROVE  Contains(SubSeq(s, m, n), s[i])
<1>1. Len(SubSeq(s, m, n)) = n - m + 1 /\ i - m + 1 \in 1..(n - m + 1)
  BY SubSeqProperties
<1>2. SubSeq(s, m, n)[i - m + 1] = s[i]
  BY <1>1, SubSeqProperties
<1> QED BY <1>1, <1>2 DEF Contains

\* WorkStealingQueueList.Remove drops nothing else.
LEMMA RemoveAtFacts ==
  ASSUME NEW S, NEW s \in Seq(S), NEW k \in DOMAIN s
  PROVE  /\ RemoveAt(s, k) \in Seq(S)
         /\ \A q : Contains(s, q) /\ q # s[k] => Contains(RemoveAt(s, k), q)
<1> DEFINE a == SubSeq(s, 1, k - 1)
           b == SubSeq(s, k + 1, Len(s))
<1>1. k \in 1..Len(s) /\ Len(s) \in Nat
  OBVIOUS
<1>2. a \in Seq(S) /\ b \in Seq(S)
  BY <1>1, SubSeqProperties
<1>3. ASSUME NEW q, Contains(s, q), q # s[k]
      PROVE  Contains(a, q) \/ Contains(b, q)
  <2>1. PICK i \in 1..Len(s) : s[i] = q
    BY <1>3 DEF Contains
  <2>2. CASE i < k
    <3>1. i \in 1..(k - 1) /\ k - 1 \in (1 - 1)..Len(s) /\ 1 \in 1..(Len(s) + 1)
      BY <1>1, <2>2
    <3> QED BY <2>1, <3>1, PartContains
  <2>3. CASE i > k
    <3>1. i \in (k + 1)..Len(s) /\ Len(s) \in (k + 1 - 1)..Len(s) /\ k + 1 \in 1..(Len(s) + 1)
      BY <1>1, <2>3
    <3> QED BY <2>1, <3>1, PartContains
  <2> QED BY <1>1, <1>3, <2>1, <2>2, <2>3
<1>4. RemoveAt(s, k) = a \o b
  BY DEF RemoveAt
<1> HIDE DEF a, b
<1>5. a \o b \in Seq(S)
  BY <1>2
<1> QED BY <1>2, <1>3, <1>4, <1>5, ConcatContains

\* The list of queues, round from any place, has every queue of it.
LEMMA RoundFacts ==
  ASSUME NEW S, NEW s \in Seq(S), NEW k \in DOMAIN s
  PROVE  /\ SubSeq(s, k, Len(s)) \o SubSeq(s, 1, k - 1) \in Seq(S)
         /\ \A q : Contains(s, q) => Contains(SubSeq(s, k, Len(s)) \o SubSeq(s, 1, k - 1), q)
<1> DEFINE a == SubSeq(s, 1, k - 1)
           b == SubSeq(s, k, Len(s))
<1>1. k \in 1..Len(s) /\ Len(s) \in Nat
  OBVIOUS
<1>2. a \in Seq(S) /\ b \in Seq(S)
  BY <1>1, SubSeqProperties
<1>3. ASSUME NEW q, Contains(s, q)
      PROVE  Contains(b, q) \/ Contains(a, q)
  <2>1. PICK i \in 1..Len(s) : s[i] = q
    BY <1>3 DEF Contains
  <2>2. CASE i < k
    <3>1. i \in 1..(k - 1) /\ k - 1 \in (1 - 1)..Len(s) /\ 1 \in 1..(Len(s) + 1)
      BY <1>1, <2>2
    <3> QED BY <2>1, <3>1, PartContains
  <2>3. CASE i >= k
    <3>1. i \in k..Len(s) /\ Len(s) \in (k - 1)..Len(s) /\ k \in 1..(Len(s) + 1)
      BY <1>1, <2>3
    <3> QED BY <2>1, <3>1, PartContains
  <2> QED BY <1>1, <2>1, <2>2, <2>3
<1> HIDE DEF a, b
<1>4. b \o a \in Seq(S)
  BY <1>2
<1>5. \A q : Contains(s, q) => Contains(b \o a, q)
  BY <1>2, <1>3, ConcatContains
<1> QED BY <1>4, <1>5 DEF a, b

-----------------------------------------------------------------------------
(* The invariant.                                                          *)

Asking == {"ensure", "request"}
Calls  == {"mark", "request"}
Seeks  == {"ensure", "locals", "loop", "pop", "dequeue"}

\* Where each thread may be, and what the finalizer thread cleans up.
Placed ==
  /\ pc[Client] \in Asking \cup {"idle"} /\ after[Client] = "idle"
  /\ pc[Finalizer] \in Asking \cup {"idle", "empty", "move"}
  /\ pc[Finalizer] \in Asking => after[Finalizer] = "empty"
  /\ pc[Finalizer] # "idle" => cleaning \in Worker /\ pc[cleaning] = "gone"
  /\ \A w \in Worker : pc[w] \notin {"empty", "move"} /\ after[w] \in {"idle", "execute"}

\* Whoever executes an item has one.
Held ==
  /\ pc[Finalizer] = "move" => hand[Finalizer] \in Item
  /\ \A w \in Worker :
       (\/ pc[w] \in {"execute", "announce", "activate"}
        \/ pc[w] \in Asking /\ after[w] = "execute") => hand[w] \in Item

\* A queue with items is in the list, and so is that of a worker in Dispatch.
Listed ==
  \A w \in Worker :
    pc[w] \notin {"idle", "mark", "locals"} \/ local[w] # << >> => Contains(queues, w)

\* A worker that scans the list has found its own queue empty.
Looked ==
  \A w \in Worker :
    /\ pc[w] \in {"pop", "list", "scan"} => observed[w] > 0
    /\ pc[w] \in {"dequeue", "list", "scan"} /\ observed[w] > 0 => local[w] = << >>

\* While the global queue has items a request is made, or somebody will look.
GlobalServed == workItems # << >> => requests > 0 \/ \E t \in Thread : pc[t] \in Seeks

\* The thread t will ask for a thread, or will look at the queue of q.
Alert(t, q) ==
  \/ pc[t] \in {"ensure", "locals", "loop", "announce", "activate", "pop"}
  \/ pc[t] \in {"dequeue", "list"} /\ observed[t] > 0
  \/ pc[t] = "scan" /\ (missed[t] \/ Contains(scan[t], q))
  \/ pc[t] = "none" /\ missed[t]

\* The same for local queues, while the hint says that they are worth a look.
LocalServed ==
  \A q \in Worker : wsqActive > 0 /\ local[q] # << >> =>
    requests > 0 \/ \E t \in Thread : Alert(t, q)

QueueInv ==
  TypeOK /\ Placed /\ Held /\ Listed /\ Looked /\ RequestsInSync /\ GlobalServed /\ LocalServed

-----------------------------------------------------------------------------
(* Counting the calls under way.                                           *)

Calling == Cardinality({t \in Thread : pc[t] \in Calls})

\* The threads can be counted.
LEMMA ThreadsFinite == IsFiniteSet(Thread)
<1>1. IsFiniteSet(Worker \cup {Client})
  BY FS_AddElement, WorkQueueAssumption DEF WorkQueueAssumption
<1>2. IsFiniteSet((Worker \cup {Client}) \cup {Finalizer})
  BY <1>1, FS_AddElement
<1>3. Thread = (Worker \cup {Client}) \cup {Finalizer}
  BY DEF Thread
<1> QED BY <1>2, <1>3

\* One thread goes from one place to another.
LEMMA CallsMove ==
  ASSUME NEW t \in Thread, \A u \in Thread \ {t} : pc'[u] = pc[u]
  PROVE  /\ Calling \in Nat /\ Calling' \in Nat
         /\ pc[t] \in Calls => Calling > 0
         /\ (pc[t] \in Calls <=> pc'[t] \in Calls) => Calling' = Calling
         /\ pc[t] \in Calls /\ pc'[t] \notin Calls => Calling' = Calling - 1
         /\ pc[t] \notin Calls /\ pc'[t] \in Calls => Calling' = Calling + 1
<1> DEFINE A == {u \in Thread : pc[u] \in Calls}
           B == {u \in Thread : pc'[u] \in Calls}
<1>1. IsFiniteSet(A) /\ IsFiniteSet(B)
  BY ThreadsFinite, FS_Subset
<1>2. Cardinality(A) \in Nat /\ Cardinality(B) \in Nat
  BY <1>1, FS_CardinalityType
<1>3. (t \in A <=> pc[t] \in Calls) /\ (t \in B <=> pc'[t] \in Calls)
  OBVIOUS
<1>4. A \ {t} = B \ {t}
  OBVIOUS
<1> HIDE DEF A, B
<1>5. IsFiniteSet(A \ {t}) /\ Cardinality(A \ {t}) \in Nat
      /\ Cardinality(A \ {t}) = IF t \in A THEN Cardinality(A) - 1 ELSE Cardinality(A)
  BY <1>1, FS_RemoveElement, FS_CardinalityType
<1>6. Cardinality(B \ {t}) = IF t \in B THEN Cardinality(B) - 1 ELSE Cardinality(B)
  BY <1>1, FS_RemoveElement
<1>7. Cardinality(A \ {t}) = Cardinality(B \ {t})
  BY <1>4, Zenon
<1>8. Calling = Cardinality(A) /\ Calling' = Cardinality(B)
  BY DEF Calling, A, B
<1> QED BY <1>2, <1>3, <1>5, <1>6, <1>7, <1>8

\* RequestsInSync, before and after a step.
LEMMA SyncIs ==
  /\ RequestsInSync <=> requests = pending + Calling
  /\ RequestsInSync' <=> requests' = pending' + Calling'
BY DEF RequestsInSync, Calling, Calls

-----------------------------------------------------------------------------
(* What one step leaves alone.                                             *)

\* Only the thread t moves.
Others(t) ==
  /\ \A u \in Thread \ {t} : pc'[u] = pc[u] /\ after'[u] = after[u] /\ hand'[u] = hand[u]
  /\ \A u \in Worker \ {t} :
       observed'[u] = observed[u] /\ scan'[u] = scan[u] /\ missed'[u] = missed[u]

\* Where the others are, in the steps of a worker.
LEMMA PlacedMove ==
  ASSUME Placed, NEW w \in Worker, Others(w), cleaning' = cleaning,
         pc[w] # "gone", pc'[w] \notin {"empty", "move"}, after'[w] \in {"idle", "execute"}
  PROVE  Placed'
BY WorkQueueAssumption DEF Placed, Others, Thread, WorkQueueAssumption

\* Requests still cover the global queue.
LEMMA GlobalMove ==
  ASSUME GlobalServed, NEW t \in Thread, Others(t),
         workItems' # << >> =>
           \/ requests' > 0 \/ pc'[t] \in Seeks
           \/ workItems # << >> /\ (requests > 0 => requests' > 0) /\ pc[t] \notin Seeks
  PROVE  GlobalServed'
<1> SUFFICES ASSUME workItems' # << >>
             PROVE  requests' > 0 \/ \E u \in Thread : pc'[u] \in Seeks
  BY DEF GlobalServed
<1>1. CASE requests' > 0 \/ pc'[t] \in Seeks
  BY <1>1
<1>2. CASE workItems # << >> /\ (requests > 0 => requests' > 0) /\ pc[t] \notin Seeks
  <2>1. CASE requests > 0
    BY <1>2, <2>1
  <2>2. CASE ~(requests > 0)
    <3>1. PICK u \in Thread : pc[u] \in Seeks
      BY <1>2, <2>2 DEF GlobalServed
    <3>2. pc'[u] = pc[u]
      BY <1>2, <3>1 DEF Others
    <3> QED BY <3>1, <3>2
  <2> QED BY <2>1, <2>2
<1> QED BY <1>1, <1>2

\* The thread t gives the alarm up only with a request, or with nothing to find.
Keeps(t, q) ==
  \/ requests' > 0 \/ Alert(t, q)'
  \/ (wsqActive > 0 /\ local[q] # << >> /\ (requests > 0 => requests' > 0) /\ ~Alert(t, q))

LEMMA LocalMove ==
  ASSUME LocalServed, Placed, NEW t \in Thread, Others(t),
         \A q \in Worker : wsqActive' > 0 /\ local'[q] # << >> => Keeps(t, q)
  PROVE  LocalServed'
<1> SUFFICES ASSUME NEW q \in Worker, wsqActive' > 0, local'[q] # << >>
             PROVE  requests' > 0 \/ \E u \in Thread : Alert(u, q)'
  BY DEF LocalServed
<1>1. CASE requests' > 0 \/ Alert(t, q)'
  BY <1>1
<1>2. CASE wsqActive > 0 /\ local[q] # << >> /\ (requests > 0 => requests' > 0) /\ ~Alert(t, q)
  <2>1. CASE requests > 0
    BY <1>2, <2>1
  <2>2. CASE ~(requests > 0)
    <3>1. PICK u \in Thread : Alert(u, q)
      BY <1>2, <2>2 DEF LocalServed
    <3>2. u \in Thread \ {t} /\ pc'[u] = pc[u]
      BY <1>2, <3>1 DEF Others
    <3>3. CASE u \in Worker
      <4>1. observed'[u] = observed[u] /\ scan'[u] = scan[u] /\ missed'[u] = missed[u]
        BY <3>2, <3>3 DEF Others
      <4>2. Alert(u, q)'
        BY <3>1, <3>2, <4>1 DEF Alert
      <4> QED BY <4>2
    <3>4. CASE u \notin Worker
      <4>1. pc[u] \in {"ensure", "request", "idle", "empty", "move"}
        BY <3>2, <3>4 DEF Placed, Thread, Asking
      <4>2. Alert(u, q)'
        BY <3>1, <3>2, <4>1 DEF Alert
      <4> QED BY <4>2
    <3> QED BY <3>3, <3>4
  <2> QED BY <2>1, <2>2
<1> QED BY <1>1, <1>2 DEF Keeps

-----------------------------------------------------------------------------
(* One lemma per action.                                                   *)

\* The quantum is over: the worker asks for another and returns.
LEMMA QuantumStep ==
  ASSUME QueueInv, NEW w \in Worker, QuantumExpired(w)
  PROVE  QueueInv'
<1> USE WorkQueueAssumption DEF WorkQueueAssumption, QueueInv, QuantumExpired
<1>1. w \in Thread
  BY DEF Thread
<1>2. Others(w) /\ pc[w] = "loop" /\ pc'[w] = "ensure" /\ after'[w] = "idle"
  BY <1>1 DEF TypeOK, Others, Goto, scanVars, EnsureThenGoto
<1>3. RequestsInSync'
  BY <1>1, <1>2, CallsMove, SyncIs DEF Others, Calls
<1>4. TypeOK'
  BY <1>1, <1>3 DEF TypeOK, Steps, Goto, scanVars, queueVars, EnsureThenGoto
<1>5. Placed'
  BY <1>1, <1>2, PlacedMove DEF Asking
<1>6. Held' /\ Listed' /\ Looked'
  BY <1>1, <1>2 DEF Held, Listed, Looked, Others, Thread, scanVars, queueVars, Asking
<1>7. GlobalServed'
  BY <1>1, <1>2, GlobalMove DEF Seeks, queueVars
<1>8. LocalServed'
  BY <1>1, <1>2, LocalMove DEF Keeps, Alert, queueVars, scanVars
<1> QED BY <1>3, <1>4, <1>5, <1>6, <1>7, <1>8

\* The hint is up already, or will be written.
LEMMA AnnounceStep ==
  ASSUME QueueInv, NEW w \in Worker, Announce(w)
  PROVE  QueueInv'
<1> USE WorkQueueAssumption DEF WorkQueueAssumption, QueueInv, Announce
<1>1. w \in Thread
  BY DEF Thread
<1>2. Others(w) /\ pc[w] = "announce"
      /\ (pc'[w] = "activate" \/ (pc'[w] = "ensure" /\ after'[w] = "execute"))
      /\ after'[w] \in {"idle", "execute"}
  BY <1>1 DEF TypeOK, Others, Goto, scanVars, EnsureThenGoto, Placed
<1>3. RequestsInSync'
  BY <1>1, <1>2, CallsMove, SyncIs DEF Others, Calls
<1>4. TypeOK'
  BY <1>1, <1>3 DEF TypeOK, Steps, Goto, scanVars, queueVars, EnsureThenGoto, Placed
<1>5. Placed'
  BY <1>1, <1>2, PlacedMove DEF Asking
<1>6. Held' /\ Listed' /\ Looked'
  BY <1>1, <1>2 DEF Held, Listed, Looked, Others, Thread, scanVars, queueVars, Asking
<1>7. GlobalServed'
  BY <1>1, <1>2, GlobalMove DEF Seeks, queueVars
<1>8. LocalServed'
  BY <1>1, <1>2, LocalMove DEF Keeps, Alert, queueVars, scanVars
<1> QED BY <1>3, <1>4, <1>5, <1>6, <1>7, <1>8

\* The hint goes up; the owner asks for a thread next.
LEMMA ActivateStep ==
  ASSUME QueueInv, NEW w \in Worker, Activate(w)
  PROVE  QueueInv'
<1> USE WorkQueueAssumption DEF WorkQueueAssumption, QueueInv, Activate, WsqNowActive
<1>1. w \in Thread
  BY DEF Thread
<1>2. Others(w) /\ pc[w] = "activate" /\ pc'[w] = "ensure" /\ after'[w] = "execute"
  BY <1>1 DEF TypeOK, Others, Goto, scanVars, EnsureThenGoto
<1>3. RequestsInSync'
  BY <1>1, <1>2, CallsMove, SyncIs DEF Others, Calls
<1>4. TypeOK'
  BY <1>1, <1>3 DEF TypeOK, Steps, Goto, scanVars, queueVars, EnsureThenGoto
<1>5. Placed'
  BY <1>1, <1>2, PlacedMove DEF Asking
<1>6. Held' /\ Listed' /\ Looked'
  BY <1>1, <1>2 DEF Held, Listed, Looked, Others, Thread, scanVars, queueVars, Asking
<1>7. GlobalServed'
  BY <1>1, <1>2, GlobalMove DEF Seeks, queueVars
<1>8. LocalServed'
  BY <1>1, <1>2, LocalMove DEF Keeps, Alert, queueVars, scanVars
<1> QED BY <1>3, <1>4, <1>5, <1>6, <1>7, <1>8

\* The runtime keeps the worker, or the worker asks for another.
LEMMA NotifyStep ==
  ASSUME QueueInv, NEW w \in Worker, NEW keep \in BOOLEAN, NotifyWorkItemComplete(w, keep)
  PROVE  QueueInv'
<1> USE WorkQueueAssumption DEF WorkQueueAssumption, QueueInv, NotifyWorkItemComplete
<1>1. w \in Thread
  BY DEF Thread
<1>2. Others(w) /\ pc[w] = "notify" /\ pc'[w] \in {"loop", "ensure"}
      /\ (pc'[w] = "ensure" => after'[w] = "idle") /\ after'[w] \in {"idle", "execute"}
  BY <1>1 DEF TypeOK, Others, Goto, scanVars, EnsureThenGoto, Placed
<1>3. RequestsInSync'
  BY <1>1, <1>2, CallsMove, SyncIs DEF Others, Calls
<1>4. TypeOK'
  BY <1>1, <1>3 DEF TypeOK, Steps, Goto, scanVars, queueVars, EnsureThenGoto, Placed
<1>5. Placed'
  BY <1>1, <1>2, PlacedMove DEF Asking
<1>6. Held' /\ Listed' /\ Looked'
  BY <1>1, <1>2 DEF Held, Listed, Looked, Others, Thread, scanVars, queueVars, Asking
<1>7. GlobalServed'
  BY <1>1, <1>2, GlobalMove DEF Seeks, queueVars
<1>8. LocalServed'
  BY <1>1, <1>2, LocalMove DEF Keeps, Alert, queueVars, scanVars
<1> QED BY <1>3, <1>4, <1>5, <1>6, <1>7, <1>8

\* A worker that missed a steal asks for another thread.
LEMMA NoWorkStep ==
  ASSUME QueueInv, NEW w \in Worker, NoWork(w)
  PROVE  QueueInv'
<1> USE WorkQueueAssumption DEF WorkQueueAssumption, QueueInv, NoWork
<1>1. w \in Thread
  BY DEF Thread
<1>2. Others(w) /\ pc[w] = "none" /\ pc'[w] = (IF missed[w] THEN "ensure" ELSE "idle")
      /\ (pc'[w] = "ensure" => after'[w] = "idle") /\ after'[w] \in {"idle", "execute"}
  BY <1>1 DEF TypeOK, Others, Goto, scanVars, EnsureThenGoto, Placed
<1>3. RequestsInSync'
  BY <1>1, <1>2, CallsMove, SyncIs DEF Others, Calls
<1>4. TypeOK'
  BY <1>1, <1>3 DEF TypeOK, Steps, Goto, scanVars, queueVars, EnsureThenGoto, Placed
<1>5. Placed'
  BY <1>1, <1>2, PlacedMove DEF Asking
<1>6. Held' /\ Listed' /\ Looked'
  BY <1>1, <1>2 DEF Held, Listed, Looked, Others, Thread, scanVars, queueVars, Asking
<1>7. GlobalServed'
  BY <1>1, <1>2, GlobalMove DEF Seeks, queueVars
<1>8. LocalServed'
  BY <1>1, <1>2, LocalMove DEF Keeps, Alert, queueVars, scanVars
<1> QED BY <1>3, <1>4, <1>5, <1>6, <1>7, <1>8

\* The runtime hands a request over; its count here is still up.
LEMMA TakeStep ==
  ASSUME QueueInv, NEW w \in Worker, TakeActiveRequest(w)
  PROVE  QueueInv'
<1> USE WorkQueueAssumption DEF WorkQueueAssumption, QueueInv, TakeActiveRequest
<1>1. w \in Thread
  BY DEF Thread
<1>2. Others(w) /\ pc[w] = "idle" /\ pc'[w] = "mark"
      /\ after'[w] \in {"idle", "execute"}
  BY <1>1 DEF TypeOK, Others, Goto, scanVars, Placed
<1>3. RequestsInSync'
  <2>1. \A u \in Thread \ {w} : pc'[u] = pc[u]
    BY <1>2 DEF Others
  <2>2. Calling \in Nat /\ Calling' = Calling + 1
    BY <1>1, <1>2, <2>1, CallsMove DEF Calls
  <2>3. requests = pending + Calling /\ pending \in Nat /\ requests \in Nat
    BY SyncIs DEF TypeOK
  <2>4. requests' = pending' + Calling'
    BY <2>2, <2>3
  <2> QED BY <2>4, SyncIs
<1>4. TypeOK'
  BY <1>1, <1>3 DEF TypeOK, Steps, Goto, scanVars, queueVars, Placed
<1>5. Placed'
  BY <1>1, <1>2, PlacedMove DEF Asking
<1>6. Held' /\ Listed' /\ Looked'
  BY <1>1, <1>2 DEF Held, Listed, Looked, Others, Thread, scanVars, queueVars, Asking
<1>7. GlobalServed'
  BY <1>1, <1>2, GlobalMove DEF Seeks, queueVars
<1>8. LocalServed'
  BY <1>1, <1>2, LocalMove DEF Keeps, Alert, queueVars, scanVars
<1> QED BY <1>3, <1>4, <1>5, <1>6, <1>7, <1>8

\* The count goes down, and the worker looks.
LEMMA MarkStep ==
  ASSUME QueueInv, NEW w \in Worker, MarkThreadRequestSatisfied(w)
  PROVE  QueueInv'
<1> USE WorkQueueAssumption DEF WorkQueueAssumption, QueueInv,
      MarkThreadRequestSatisfied
<1>1. w \in Thread
  BY DEF Thread
<1>2. Others(w) /\ pc[w] = "mark" /\ pc'[w] = "locals"
      /\ after'[w] \in {"idle", "execute"}
  BY <1>1 DEF TypeOK, Others, Goto, scanVars, Placed
<1>3. RequestsInSync'
  <2>1. \A u \in Thread \ {w} : pc'[u] = pc[u]
    BY <1>2 DEF Others
  <2>2. Calling \in Nat /\ Calling' = Calling - 1 /\ Calling > 0
    BY <1>1, <1>2, <2>1, CallsMove DEF Calls
  <2>3. requests = pending + Calling /\ pending \in Nat /\ requests \in Nat
    BY SyncIs DEF TypeOK
  <2>4. requests' = pending' + Calling'
    BY <2>2, <2>3
  <2> QED BY <2>4, SyncIs
<1>4. TypeOK'
  BY <1>1, <1>3 DEF TypeOK, Steps, Goto, scanVars, queueVars, Placed
<1>5. Placed'
  BY <1>1, <1>2, PlacedMove DEF Asking
<1>6. Held' /\ Listed' /\ Looked'
  BY <1>1, <1>2 DEF Held, Listed, Looked, Others, Thread, scanVars, queueVars, Asking
<1>7. GlobalServed'
  BY <1>1, <1>2, GlobalMove DEF Seeks, queueVars
<1>8. LocalServed'
  BY <1>1, <1>2, LocalMove DEF Keeps, Alert, queueVars, scanVars
<1> QED BY <1>3, <1>4, <1>5, <1>6, <1>7, <1>8

\* The worker enters its queue into the list.
LEMMA HasQueueStep ==
  ASSUME QueueInv, NEW w \in Worker, EnsureCurrentThreadHasQueue(w)
  PROVE  QueueInv'
<1> USE WorkQueueAssumption DEF WorkQueueAssumption, QueueInv,
      EnsureCurrentThreadHasQueue
<1>1. w \in Thread
  BY DEF Thread
<1>2. Others(w) /\ pc[w] = "locals" /\ pc'[w] = "loop"
      /\ after'[w] \in {"idle", "execute"}
  BY <1>1 DEF TypeOK, Others, Goto, scanVars, Placed
<1>3. RequestsInSync'
  BY <1>1, <1>2, CallsMove, SyncIs DEF Others, Calls
<1>4. queues' \in Seq(Worker) /\ \A q : q = w \/ Contains(queues, q) => Contains(queues', q)
  BY AppendFacts DEF TypeOK
<1>5. TypeOK'
  BY <1>1, <1>3, <1>4 DEF TypeOK, Steps, Goto, scanVars, queueVars, Placed
<1>6. Placed'
  BY <1>1, <1>2, PlacedMove DEF Asking
<1>7. Held' /\ Listed' /\ Looked'
  BY <1>1, <1>2, <1>4 DEF Held, Listed, Looked, Others, Thread, scanVars, queueVars,
     Asking
<1>8. GlobalServed'
  BY <1>1, <1>2, GlobalMove DEF Seeks, queueVars
<1>9. LocalServed'
  BY <1>1, <1>2, LocalMove DEF Keeps, Alert, queueVars, scanVars
<1> QED BY <1>3, <1>5, <1>6, <1>7, <1>8, <1>9

\* The item is run.
LEMMA ExecuteStep ==
  ASSUME QueueInv, NEW w \in Worker, ExecuteWorkItem(w)
  PROVE  QueueInv'
<1> USE WorkQueueAssumption DEF WorkQueueAssumption, QueueInv, ExecuteWorkItem
<1>1. w \in Thread
  BY DEF Thread
<1>2. Others(w) /\ pc[w] = "execute" /\ pc'[w] = "notify"
      /\ after'[w] \in {"idle", "execute"}
  BY <1>1 DEF TypeOK, Others, Goto, scanVars, Hold, None, Placed
<1>3. RequestsInSync'
  BY <1>1, <1>2, CallsMove, SyncIs DEF Others, Calls
<1>4. done' \subseteq Item
  BY <1>1, <1>2 DEF TypeOK, Held
<1>5. TypeOK'
  BY <1>1, <1>3, <1>4 DEF TypeOK, Steps, Goto, scanVars, queueVars, Hold, None, Placed
<1>6. Placed'
  BY <1>1, <1>2, PlacedMove DEF Asking
<1>7. Held' /\ Listed' /\ Looked'
  BY <1>1, <1>2 DEF Held, Listed, Looked, Others, Thread, scanVars, queueVars, Asking
<1>8. GlobalServed'
  BY <1>1, <1>2, GlobalMove DEF Seeks, queueVars
<1>9. LocalServed'
  BY <1>1, <1>2, LocalMove DEF Keeps, Alert, queueVars, scanVars
<1> QED BY <1>3, <1>5, <1>6, <1>7, <1>8, <1>9

\* With the hint down the worker skips the local queues, and nobody relies on them.
LEMMA ObserveStep ==
  ASSUME QueueInv, NEW w \in Worker, Observe(w)
  PROVE  QueueInv'
<1> USE WorkQueueAssumption DEF WorkQueueAssumption, QueueInv, Observe
<1>1. w \in Thread
  BY DEF Thread
<1>2. Others(w) /\ pc[w] = "loop"
      /\ pc'[w] = (IF wsqActive > 0 THEN "pop" ELSE "dequeue")
      /\ observed'[w] = wsqActive /\ after'[w] \in {"idle", "execute"} /\ wsqActive \in 0..2
  BY <1>1 DEF TypeOK, Others, Goto, scanVars, Placed, WsqNowActive
<1>3. RequestsInSync'
  BY <1>1, <1>2, CallsMove, SyncIs DEF Others, Calls
<1>4. TypeOK'
  BY <1>1, <1>3 DEF TypeOK, Steps, Goto, scanVars, queueVars, Placed, WsqNowActive
<1>5. Placed'
  BY <1>1, <1>2, PlacedMove DEF Asking
<1>6. Held' /\ Listed' /\ Looked'
  BY <1>1, <1>2 DEF Held, Listed, Looked, Others, Thread, scanVars, queueVars, Asking
<1>7. GlobalServed'
  BY <1>1, <1>2, GlobalMove DEF Seeks, queueVars
<1>8. LocalServed'
  BY <1>1, <1>2, LocalMove DEF Keeps, Alert, queueVars, scanVars
<1> QED BY <1>3, <1>4, <1>5, <1>6, <1>7, <1>8

\* The worker takes an item of its own queue, or has seen it empty.
LEMMA LocalPopStep ==
  ASSUME QueueInv, NEW w \in Worker, LocalPop(w)
  PROVE  QueueInv'
<1> USE WorkQueueAssumption DEF WorkQueueAssumption, QueueInv, LocalPop
<1>1. w \in Thread
  BY DEF Thread
<1>2. Others(w) /\ pc[w] = "pop" /\ after'[w] \in {"idle", "execute"}
      /\ pc'[w] = (IF local[w] # << >> THEN "ensure" ELSE "dequeue")
      /\ (pc'[w] = "ensure" => hand'[w] = Last(local[w]))
  BY <1>1 DEF TypeOK, Others, Goto, scanVars, Placed, Got, Hold, EnsureThenGoto
<1>3. RequestsInSync'
  BY <1>1, <1>2, CallsMove, SyncIs DEF Others, Calls
<1>4. local[w] \in Seq(Item)
      /\ (local[w] # << >> => Last(local[w]) \in Item /\ Front(local[w]) \in Seq(Item))
  BY EndFacts DEF TypeOK
<1>5. TypeOK'
  <2>1. local' \in [Worker -> Seq(Item)]
    BY <1>4 DEF TypeOK
  <2>2. hand' \in [Thread -> Item \cup {None}]
    BY <1>1, <1>4 DEF TypeOK, Got, Hold
  <2>3. pc' \in [Thread -> Steps] /\ after' \in [Thread -> {"idle", "execute", "empty"}]
    BY <1>1 DEF TypeOK, Steps, Goto, Got, EnsureThenGoto
  <2> QED BY <2>1, <2>2, <2>3 DEF TypeOK, scanVars
<1>6. Placed'
  BY <1>1, <1>2, PlacedMove DEF Asking
<1>7. Held' /\ Listed' /\ Looked'
  <2>1. \A q \in Worker : (q # w => local'[q] = local[q]) /\ (local[w] = << >> => local'[w] = << >>)
    BY DEF TypeOK
  <2>2. Held'
    BY <1>1, <1>2, <1>4 DEF Held, Others, Thread, Asking
  <2>3. Contains(queues, w)
    BY <1>2 DEF Listed
  <2>4. Listed' /\ Looked'
    BY <1>1, <1>2, <2>1, <2>3 DEF Listed, Looked, Others, Thread, scanVars
  <2> QED BY <2>2, <2>4
<1>8. GlobalServed'
  BY <1>1, <1>2, GlobalMove DEF Seeks, queueVars
<1>9. LocalServed'
  BY <1>1, <1>2, LocalMove DEF Keeps, Alert, queueVars, scanVars, TypeOK, Looked
<1> QED BY <1>3, <1>5, <1>6, <1>7, <1>8, <1>9

\* The worker takes an item of the global queue, or has seen it empty.
LEMMA TryDequeueStep ==
  ASSUME QueueInv, NEW w \in Worker, TryDequeue(w)
  PROVE  QueueInv'
<1> USE WorkQueueAssumption DEF WorkQueueAssumption, QueueInv, TryDequeue
<1>1. w \in Thread
  BY DEF Thread
<1>2. Others(w) /\ pc[w] = "dequeue" /\ after'[w] \in {"idle", "execute"}
      /\ pc'[w] = (IF workItems # << >> THEN "ensure" ELSE IF observed[w] > 0 THEN "list" ELSE "none")
      /\ (pc'[w] = "ensure" => hand'[w] = Head(workItems))
  BY <1>1 DEF TypeOK, Others, Goto, scanVars, Placed, Got, Hold, EnsureThenGoto
<1>3. RequestsInSync'
  BY <1>1, <1>2, CallsMove, SyncIs DEF Others, Calls
<1>4. workItems # << >> => Head(workItems) \in Item /\ Tail(workItems) \in Seq(Item)
  BY EndFacts DEF TypeOK
<1>5. TypeOK'
  <2>1. workItems' \in Seq(Item) /\ hand' \in [Thread -> Item \cup {None}]
    BY <1>1, <1>4 DEF TypeOK, Got, Hold
  <2>2. pc' \in [Thread -> Steps] /\ after' \in [Thread -> {"idle", "execute", "empty"}]
    BY <1>1 DEF TypeOK, Steps, Goto, Got, EnsureThenGoto
  <2> QED BY <2>1, <2>2 DEF TypeOK, scanVars
<1>6. Placed'
  BY <1>1, <1>2, PlacedMove DEF Asking
<1>7. Held' /\ Listed' /\ Looked'
  BY <1>1, <1>2, <1>4 DEF Held, Listed, Looked, Others, Thread, scanVars, queueVars,
     Asking
<1>8. GlobalServed'
  BY <1>1, <1>2, GlobalMove DEF Seeks, queueVars
<1>9. LocalServed'
  BY <1>1, <1>2, LocalMove DEF Keeps, Alert, queueVars, scanVars
<1> QED BY <1>3, <1>5, <1>6, <1>7, <1>8, <1>9

\* Every queue with items is in the list the worker scans.
LEMMA ReadQueuesStep ==
  ASSUME QueueInv, NEW w \in Worker, ReadQueues(w)
  PROVE  QueueInv'
<1> USE WorkQueueAssumption DEF WorkQueueAssumption, QueueInv, ReadQueues
<1>1. w \in Thread
  BY DEF Thread
<1>2. Others(w) /\ pc[w] = "list" /\ pc'[w] = "scan"
      /\ after'[w] \in {"idle", "execute"}
  BY <1>1 DEF TypeOK, Others, Goto, scanVars, Placed
<1>3. RequestsInSync'
  BY <1>1, <1>2, CallsMove, SyncIs DEF Others, Calls
<1>4. scan'[w] \in Seq(Worker) /\ \A q : Contains(queues, q) => Contains(scan'[w], q)
  <2>1. PICK k \in DOMAIN queues :
          scan' = [scan EXCEPT ![w] = SubSeq(queues, k, Len(queues)) \o SubSeq(queues, 1, k - 1)]
    OBVIOUS
  <2>2. scan'[w] = SubSeq(queues, k, Len(queues)) \o SubSeq(queues, 1, k - 1)
    BY <2>1 DEF TypeOK
  <2>3. queues \in Seq(Worker)
    BY DEF TypeOK
  <2>4. /\ SubSeq(queues, k, Len(queues)) \o SubSeq(queues, 1, k - 1) \in Seq(Worker)
        /\ \A q : Contains(queues, q)
             => Contains(SubSeq(queues, k, Len(queues)) \o SubSeq(queues, 1, k - 1), q)
    BY <2>3, RoundFacts
  <2> QED BY <2>2, <2>4
<1>5. TypeOK'
  BY <1>1, <1>3, <1>4 DEF TypeOK, Steps, Goto, scanVars, queueVars, Placed
<1>6. Placed'
  BY <1>1, <1>2, PlacedMove DEF Asking
<1>7. Held' /\ Listed' /\ Looked'
  BY <1>1, <1>2 DEF Held, Listed, Looked, Others, Thread, scanVars, queueVars, Asking
<1>8. GlobalServed'
  BY <1>1, <1>2, GlobalMove DEF Seeks, queueVars
<1>9. LocalServed'
  BY <1>1, <1>2, <1>4, LocalMove DEF Keeps, Alert, queueVars, scanVars, Listed
<1> QED BY <1>3, <1>5, <1>6, <1>7, <1>8, <1>9

\* A thief takes the oldest item of a queue.
LEMMA TryStealStep ==
  ASSUME QueueInv, NEW w \in Worker, TrySteal(w)
  PROVE  QueueInv'
<1> USE WorkQueueAssumption DEF WorkQueueAssumption, QueueInv, TrySteal
<1>1. w \in Thread
  BY DEF Thread
<1>2. Others(w) /\ pc[w] = "scan" /\ pc'[w] = "ensure" /\ after'[w] = "execute"
      /\ hand'[w] = Head(local[Head(scan[w])])
  BY <1>1 DEF TypeOK, Others, Goto, scanVars, Got, Hold, EnsureThenGoto
<1>3. RequestsInSync'
  BY <1>1, <1>2, CallsMove, SyncIs DEF Others, Calls
<1>4. Head(scan[w]) \in Worker /\ local[Head(scan[w])] # << >>
      /\ Head(local[Head(scan[w])]) \in Item /\ Tail(local[Head(scan[w])]) \in Seq(Item)
  BY EndFacts DEF TypeOK, CanSteal
<1>5. TypeOK'
  <2>1. local' \in [Worker -> Seq(Item)] /\ scan' \in [Worker -> Seq(Worker)]
    BY <1>4 DEF TypeOK
  <2>2. hand' \in [Thread -> Item \cup {None}]
    BY <1>1, <1>4 DEF TypeOK, Got, Hold
  <2>3. pc' \in [Thread -> Steps] /\ after' \in [Thread -> {"idle", "execute", "empty"}]
    BY <1>1 DEF TypeOK, Steps, Got, Goto, EnsureThenGoto
  <2> QED BY <2>1, <2>2, <2>3 DEF TypeOK
<1>6. Placed'
  BY <1>1, <1>2, PlacedMove DEF Asking
<1>7. Held' /\ Listed' /\ Looked'
  <2>1. \A q \in Worker : local'[q] # << >> => local[q] # << >>
    BY <1>4 DEF TypeOK
  <2>2. Held'
    BY <1>1, <1>2, <1>4 DEF Held, Others, Thread, Asking
  <2>3. Contains(queues, w)
    BY <1>2 DEF Listed
  <2>4. Listed' /\ Looked'
    BY <1>1, <1>2, <2>1, <2>3 DEF Listed, Looked, Others, Thread
  <2> QED BY <2>2, <2>4
<1>8. GlobalServed'
  BY <1>1, <1>2, GlobalMove DEF Seeks, queueVars
<1>9. LocalServed'
  BY <1>1, <1>2, LocalMove DEF Keeps, Alert, queueVars, scanVars
<1> QED BY <1>3, <1>5, <1>6, <1>7, <1>8, <1>9

\* A thief that misses an item remembers to ask.
LEMMA MissStealStep ==
  ASSUME QueueInv, NEW w \in Worker, MissSteal(w)
  PROVE  QueueInv'
<1> USE WorkQueueAssumption DEF WorkQueueAssumption, QueueInv, MissSteal
<1>1. w \in Thread
  BY DEF Thread
<1>2. Others(w) /\ pc[w] = "scan" /\ pc'[w] = "scan" /\ missed'[w] = TRUE
      /\ after'[w] \in {"idle", "execute"}
  BY <1>1 DEF TypeOK, Others, Goto, scanVars, Placed
<1>3. RequestsInSync'
  BY <1>1, <1>2, CallsMove, SyncIs DEF Others, Calls
<1>4. Tail(scan[w]) \in Seq(Worker)
  BY EndFacts DEF TypeOK
<1>5. TypeOK'
  BY <1>1, <1>3, <1>4 DEF TypeOK, Steps, Goto, scanVars, queueVars, Placed
<1>6. Placed'
  BY <1>1, <1>2, PlacedMove DEF Asking
<1>7. Held' /\ Listed' /\ Looked'
  BY <1>1, <1>2 DEF Held, Listed, Looked, Others, Thread, scanVars, queueVars, Asking
<1>8. GlobalServed'
  BY <1>1, <1>2, GlobalMove DEF Seeks, queueVars
<1>9. LocalServed'
  BY <1>1, <1>2, LocalMove DEF Keeps, Alert, queueVars, scanVars
<1> QED BY <1>3, <1>5, <1>6, <1>7, <1>8, <1>9

\* A queue that is skipped is empty, or the worker's own and looked at before.
LEMMA SkipEmptyStep ==
  ASSUME QueueInv, NEW w \in Worker, SkipEmpty(w)
  PROVE  QueueInv'
<1> USE WorkQueueAssumption DEF WorkQueueAssumption, QueueInv, SkipEmpty
<1>1. w \in Thread
  BY DEF Thread
<1>2. Others(w) /\ pc[w] = "scan" /\ pc'[w] = "scan"
      /\ after'[w] \in {"idle", "execute"} /\ scan'[w] = Tail(scan[w])
  BY <1>1 DEF TypeOK, Others, Goto, scanVars, Placed
<1>3. RequestsInSync'
  BY <1>1, <1>2, CallsMove, SyncIs DEF Others, Calls
<1>4. /\ Tail(scan[w]) \in Seq(Worker) /\ Head(scan[w]) \in Worker
      /\ \A q : Contains(scan[w], q) /\ q # Head(scan[w]) => Contains(scan'[w], q)
  BY <1>2, EndFacts, TailFacts DEF TypeOK
<1>5. local[Head(scan[w])] = << >>
  BY <1>2, <1>4 DEF CanSteal, Looked
<1>6. TypeOK'
  BY <1>1, <1>3, <1>4 DEF TypeOK, Steps, Goto, scanVars, queueVars, Placed
<1>7. Placed'
  BY <1>1, <1>2, PlacedMove DEF Asking
<1>8. Held' /\ Listed' /\ Looked'
  BY <1>1, <1>2 DEF Held, Listed, Looked, Others, Thread, scanVars, queueVars, Asking
<1>9. GlobalServed'
  BY <1>1, <1>2, GlobalMove DEF Seeks, queueVars
<1>10. LocalServed'
  BY <1>1, <1>2, <1>4, <1>5, LocalMove DEF Keeps, Alert, queueVars, scanVars
<1> QED BY <1>3, <1>6, <1>7, <1>8, <1>9, <1>10

\* The hint goes down; a worker that missed a steal still has to ask.
LEMMA LowerActiveStep ==
  ASSUME QueueInv, NEW w \in Worker, LowerActive(w)
  PROVE  QueueInv'
<1> USE WorkQueueAssumption DEF WorkQueueAssumption, QueueInv, LowerActive
<1>1. w \in Thread
  BY DEF Thread
<1>2. Others(w) /\ pc[w] = "scan" /\ pc'[w] = "none"
      /\ after'[w] \in {"idle", "execute"}
  BY <1>1 DEF TypeOK, Others, Goto, scanVars, Placed
<1>3. RequestsInSync'
  BY <1>1, <1>2, CallsMove, SyncIs DEF Others, Calls
<1>4. wsqActive' \in 0..2 /\ (wsqActive' > 0 => wsqActive > 0)
  BY <1>2 DEF TypeOK, Looked, WsqNowActive
<1>5. \A q : ~Contains(scan[w], q)
  BY DEF Contains
<1>6. TypeOK'
  BY <1>1, <1>3, <1>4 DEF TypeOK, Steps, Goto, scanVars, queueVars, Placed, WsqNowActive
<1>7. Placed'
  BY <1>1, <1>2, PlacedMove DEF Asking
<1>8. Held' /\ Listed' /\ Looked'
  BY <1>1, <1>2 DEF Held, Listed, Looked, Others, Thread, scanVars, queueVars, Asking
<1>9. GlobalServed'
  BY <1>1, <1>2, GlobalMove DEF Seeks, queueVars
<1>10. LocalServed'
  BY <1>1, <1>2, <1>4, <1>5, LocalMove DEF Keeps, Alert, queueVars, scanVars
<1> QED BY <1>3, <1>6, <1>7, <1>8, <1>9, <1>10

\* A worker puts an item into the global queue and asks.
LEMMA WorkerEnqueueStep ==
  ASSUME QueueInv, NEW w \in Worker, WorkerEnqueueGlobal(w)
  PROVE  QueueInv'
<1> USE WorkQueueAssumption DEF WorkQueueAssumption, QueueInv, WorkerEnqueueGlobal,
      EnqueueGlobal
<1>1. w \in Thread
  BY DEF Thread
<1>2. Others(w) /\ pc[w] = "execute" /\ pc'[w] = "ensure" /\ after'[w] = "execute"
  BY <1>1 DEF TypeOK, Others, Goto, scanVars, EnsureThenGoto
<1>3. RequestsInSync'
  BY <1>1, <1>2, CallsMove, SyncIs DEF Others, Calls
<1>4. made' \in 0..MaxItems /\ workItems' \in Seq(Item)
  BY AppendFacts DEF TypeOK, Item
<1>5. TypeOK'
  BY <1>1, <1>3, <1>4 DEF TypeOK, Steps, Goto, scanVars, queueVars, EnsureThenGoto
<1>6. Placed'
  BY <1>1, <1>2, PlacedMove DEF Asking
<1>7. Held' /\ Listed' /\ Looked'
  BY <1>1, <1>2 DEF Held, Listed, Looked, Others, Thread, scanVars, queueVars, Asking
<1>8. GlobalServed'
  BY <1>1, <1>2, GlobalMove DEF Seeks, queueVars
<1>9. LocalServed'
  BY <1>1, <1>2, LocalMove DEF Keeps, Alert, queueVars, scanVars
<1> QED BY <1>3, <1>5, <1>6, <1>7, <1>8, <1>9

\* A worker puts an item into its own queue, which is in the list.
LEMMA EnqueueLocalStep ==
  ASSUME QueueInv, NEW w \in Worker, EnqueueLocal(w)
  PROVE  QueueInv'
<1> USE WorkQueueAssumption DEF WorkQueueAssumption, QueueInv, EnqueueLocal
<1>1. w \in Thread
  BY DEF Thread
<1>2. Others(w) /\ pc[w] = "execute" /\ pc'[w] = "announce"
      /\ after'[w] \in {"idle", "execute"}
  BY <1>1 DEF TypeOK, Others, Goto, scanVars, Placed
<1>3. RequestsInSync'
  BY <1>1, <1>2, CallsMove, SyncIs DEF Others, Calls
<1>4. made' \in 0..MaxItems /\ Append(local[w], made + 1) \in Seq(Item)
  BY AppendFacts DEF TypeOK, Item
<1>5. TypeOK'
  BY <1>1, <1>3, <1>4 DEF TypeOK, Steps, Goto, scanVars, queueVars, Placed
<1>6. Placed'
  BY <1>1, <1>2, PlacedMove DEF Asking
<1>7. Held' /\ Listed' /\ Looked'
  BY <1>1, <1>2 DEF Held, Listed, Looked, Others, Thread, scanVars, queueVars, Asking,
     TypeOK
<1>8. GlobalServed'
  BY <1>1, <1>2, GlobalMove DEF Seeks, queueVars
<1>9. LocalServed'
  BY <1>1, <1>2, LocalMove DEF Keeps, Alert, queueVars, scanVars
<1> QED BY <1>3, <1>5, <1>6, <1>7, <1>8, <1>9

\* A waiting task runs an item of its own queue in place.
LEMMA FindAndPopStep ==
  ASSUME QueueInv, NEW w \in Worker, LocalFindAndPop(w)
  PROVE  QueueInv'
<1> USE WorkQueueAssumption DEF WorkQueueAssumption, QueueInv, LocalFindAndPop
<1>1. w \in Thread
  BY DEF Thread
<1>2. Others(w) /\ pc[w] = "execute" /\ pc'[w] = "execute"
      /\ after'[w] \in {"idle", "execute"}
  BY <1>1 DEF TypeOK, Others, Goto, scanVars, Placed
<1>3. RequestsInSync'
  BY <1>1, <1>2, CallsMove, SyncIs DEF Others, Calls
<1>4. PICK i \in DOMAIN local[w] : local' = [local EXCEPT ![w] = RemoveAt(local[w], i)]
                                 /\ done' = done \cup {local[w][i]}
  OBVIOUS
<1>5. RemoveAt(local[w], i) \in Seq(Item) /\ local[w][i] \in Item /\ local[w] # << >>
  BY RemoveAtFacts, ElementOfSeq DEF TypeOK
<1>6. TypeOK'
  BY <1>1, <1>3, <1>4, <1>5 DEF TypeOK, Steps, Goto, scanVars, queueVars, Placed
<1>7. Placed'
  BY <1>1, <1>2, PlacedMove DEF Asking
<1>8. Held' /\ Listed' /\ Looked'
  BY <1>1, <1>2, <1>4, <1>5 DEF Held, Listed, Looked, Others, Thread, scanVars,
     queueVars, Asking, TypeOK
<1>9. GlobalServed'
  BY <1>1, <1>2, GlobalMove DEF Seeks, queueVars
<1>10. LocalServed'
  BY <1>1, <1>2, <1>4, <1>5, LocalMove DEF Keeps, Alert, queueVars, scanVars, TypeOK
<1> QED BY <1>3, <1>6, <1>7, <1>8, <1>9, <1>10

\* A worker exits; its queue stays in the list.
LEMMA ExitStep ==
  ASSUME QueueInv, NEW w \in Worker, Exit(w)
  PROVE  QueueInv'
<1> USE WorkQueueAssumption DEF WorkQueueAssumption, QueueInv, Exit
<1>1. w \in Thread
  BY DEF Thread
<1>2. Others(w) /\ pc[w] = "idle" /\ pc'[w] = "gone"
      /\ after'[w] \in {"idle", "execute"}
  BY <1>1 DEF TypeOK, Others, Goto, scanVars, Placed
<1>3. RequestsInSync'
  BY <1>1, <1>2, CallsMove, SyncIs DEF Others, Calls
<1>4. TypeOK'
  BY <1>1, <1>3 DEF TypeOK, Steps, Goto, scanVars, queueVars, Placed
<1>5. Placed'
  BY <1>1, <1>2, PlacedMove DEF Asking
<1>6. Held' /\ Listed' /\ Looked'
  BY <1>1, <1>2 DEF Held, Listed, Looked, Others, Thread, scanVars, queueVars, Asking
<1>7. GlobalServed'
  BY <1>1, <1>2, GlobalMove DEF Seeks, queueVars
<1>8. LocalServed'
  BY <1>1, <1>2, LocalMove DEF Keeps, Alert, queueVars, scanVars
<1> QED BY <1>3, <1>4, <1>5, <1>6, <1>7, <1>8

\* The client puts an item into the global queue and asks.
LEMMA ClientStep ==
  ASSUME QueueInv, ClientEnqueue
  PROVE  QueueInv'
<1> USE WorkQueueAssumption DEF WorkQueueAssumption, QueueInv, ClientEnqueue,
      EnqueueGlobal
<1>1. Client \in Thread /\ Finalizer \in Thread /\ Client \notin Worker
  BY DEF Thread
<1>2. Others(Client) /\ pc[Client] = "idle" /\ pc'[Client] = "ensure"
      /\ after'[Client] = "idle"
  BY <1>1 DEF TypeOK, Others, Goto, scanVars, EnsureThenGoto
<1>3. RequestsInSync'
  BY <1>1, <1>2, CallsMove, SyncIs DEF Others, Calls
<1>4. made' \in 0..MaxItems /\ workItems' \in Seq(Item)
  BY AppendFacts DEF TypeOK, Item
<1>5. TypeOK'
  BY <1>1, <1>4 DEF TypeOK, Steps, Goto, scanVars, EnsureThenGoto
<1>6. Placed'
  BY <1>1, <1>2 DEF Placed, Others, Asking, Thread
<1>7. Held' /\ Listed' /\ Looked'
  BY <1>1, <1>2 DEF Held, Listed, Looked, Others, Thread, scanVars, Asking
<1>8. GlobalServed'
  BY <1>1, <1>2, GlobalMove DEF Seeks
<1>9. LocalServed'
  BY <1>1, <1>2, LocalMove DEF Keeps, Alert
<1> QED BY <1>3, <1>5, <1>6, <1>7, <1>8, <1>9

\* Where EnsureThreadRequested leads to.
LEMMA PlacedReturn ==
  ASSUME Placed, NEW t \in Thread, Others(t), cleaning' = cleaning, after' = after,
         pc[t] \in Asking, pc'[t] = "request" \/ pc'[t] = after[t]
  PROVE  Placed'
<1> USE WorkQueueAssumption DEF WorkQueueAssumption, Placed, Others, Asking, Thread
<1>1. CASE t \in Worker
  <2>1. pc'[t] \notin {"empty", "move"} /\ pc'[Client] = pc[Client]
        /\ pc'[Finalizer] = pc[Finalizer]
    BY <1>1
  <2>2. pc[Finalizer] # "idle" => pc'[cleaning] = "gone"
    BY <1>1
  <2>3. \A w \in Worker : pc'[w] \notin {"empty", "move"}
    BY <1>1, <2>1
  <2> QED BY <2>1, <2>2, <2>3
<1>2. CASE t = Client
  BY <1>2
<1>3. CASE t = Finalizer
  BY <1>3
<1> QED BY <1>1, <1>2, <1>3

\* A request is counted here, or enough of them are.
LEMMA EnsureStep ==
  ASSUME QueueInv, NEW t \in Thread, EnsureThreadRequested(t)
  PROVE  QueueInv'
<1> USE WorkQueueAssumption DEF WorkQueueAssumption, QueueInv, EnsureThreadRequested
<1>1. Others(t) /\ pc[t] = "ensure" /\ (pc'[t] = "request" \/ pc'[t] = after[t])
      /\ after[t] \in {"idle", "execute", "empty"}
  BY DEF TypeOK, Others, Goto, scanVars
<1>2. requests' \in 1..ProcessorCount
  BY DEF TypeOK
<1>3. RequestsInSync'
  <2>1. \A u \in Thread \ {t} : pc'[u] = pc[u]
    BY <1>1 DEF Others
  <2>2. requests = pending + Calling /\ pending \in Nat /\ requests \in Nat
    BY SyncIs DEF TypeOK
  <2>3. CASE requests < ProcessorCount
    <3>1. Calling \in Nat /\ Calling' = Calling + 1
      BY <1>1, <2>1, <2>3, CallsMove DEF Calls, Goto, TypeOK
    <3> QED BY <2>2, <2>3, <3>1, SyncIs
  <2>4. CASE ~(requests < ProcessorCount)
    <3>1. Calling' = Calling
      BY <1>1, <2>1, <2>4, CallsMove DEF Calls, Goto, TypeOK
    <3> QED BY <2>2, <2>4, <3>1, SyncIs
  <2> QED BY <2>3, <2>4
<1>4. TypeOK'
  <2>1. pc' \in [Thread -> Steps]
    BY <1>1 DEF TypeOK, Steps, Goto
  <2> QED BY <1>2, <2>1 DEF TypeOK, scanVars, queueVars
<1>5. Placed'
  BY <1>1, PlacedReturn DEF Asking
<1>6. Held' /\ Listed' /\ Looked'
  BY <1>1 DEF Held, Listed, Looked, Others, Thread, scanVars, queueVars, Asking, Placed
<1>7. GlobalServed' /\ LocalServed'
  BY <1>2 DEF GlobalServed, LocalServed
<1> QED BY <1>3, <1>4, <1>5, <1>6, <1>7

\* The runtime's count follows.
LEMMA RequestStep ==
  ASSUME QueueInv, NEW t \in Thread, RequestWorkerThread(t)
  PROVE  QueueInv'
<1> USE WorkQueueAssumption DEF WorkQueueAssumption, QueueInv, RequestWorkerThread
<1>1. Others(t) /\ pc[t] = "request" /\ pc'[t] = after[t]
      /\ after[t] \in {"idle", "execute", "empty"}
  BY DEF TypeOK, Others, Goto, scanVars
<1>2. RequestsInSync' /\ requests' > 0 /\ pending' \in 0..ProcessorCount
  <2>1. \A u \in Thread \ {t} : pc'[u] = pc[u]
    BY <1>1 DEF Others
  <2>2. requests = pending + Calling /\ pending \in Nat /\ requests \in 0..ProcessorCount
    BY SyncIs DEF TypeOK
  <2>3. Calling \in Nat /\ Calling > 0 /\ Calling' = Calling - 1
    BY <1>1, <2>1, CallsMove DEF Calls
  <2> QED BY <2>2, <2>3, SyncIs
<1>3. TypeOK'
  <2>1. pc' \in [Thread -> Steps]
    BY <1>1 DEF TypeOK, Steps, Goto
  <2> QED BY <1>2, <2>1 DEF TypeOK, scanVars, queueVars
<1>4. Placed'
  BY <1>1, PlacedReturn DEF Asking
<1>5. Held' /\ Listed' /\ Looked'
  BY <1>1 DEF Held, Listed, Looked, Others, Thread, scanVars, queueVars, Asking, Placed
<1>6. GlobalServed' /\ LocalServed'
  BY <1>2 DEF GlobalServed, LocalServed
<1> QED BY <1>2, <1>3, <1>4, <1>5, <1>6

\* The finalizer thread starts on the queue of a worker that is gone.
LEMMA CleanUpStep ==
  ASSUME QueueInv, NEW w \in Worker, CleanUp(w)
  PROVE  QueueInv'
<1> USE WorkQueueAssumption DEF WorkQueueAssumption, QueueInv, CleanUp
<1>1. Finalizer \in Thread /\ Finalizer \notin Worker /\ w \in Thread
  BY DEF Thread
<1>2. Others(Finalizer) /\ pc[Finalizer] = "idle" /\ pc'[Finalizer] = "empty"
  BY <1>1 DEF TypeOK, Others, Goto, scanVars
<1>3. RequestsInSync'
  BY <1>1, <1>2, CallsMove, SyncIs DEF Others, Calls
<1>4. TypeOK'
  BY <1>1 DEF TypeOK, Steps, Goto, scanVars, queueVars
<1>5. Placed'
  BY <1>1, <1>2 DEF Placed, Others, Asking, Thread
<1>6. Held' /\ Listed' /\ Looked'
  BY <1>1, <1>2 DEF Held, Listed, Looked, Others, Thread, scanVars, queueVars, Asking
<1>7. GlobalServed'
  BY <1>1, <1>2, GlobalMove DEF Seeks, queueVars
<1>8. LocalServed'
  BY <1>1, <1>2, LocalMove DEF Keeps, Alert, queueVars
<1> QED BY <1>3, <1>4, <1>5, <1>6, <1>7, <1>8

\* It takes an item out of that queue.
LEMMA CleanUpPopStep ==
  ASSUME QueueInv, CleanUpPop
  PROVE  QueueInv'
<1> USE WorkQueueAssumption DEF WorkQueueAssumption, QueueInv, CleanUpPop
<1>1. Finalizer \in Thread /\ Finalizer \notin Worker
  BY DEF Thread
<1>2. Others(Finalizer) /\ pc[Finalizer] = "empty" /\ pc'[Finalizer] = "move"
      /\ hand'[Finalizer] = Last(local[cleaning])
  BY <1>1 DEF TypeOK, Others, Goto, Hold, scanVars
<1>3. RequestsInSync'
  BY <1>1, <1>2, CallsMove, SyncIs DEF Others, Calls
<1>4. cleaning \in Worker /\ Last(local[cleaning]) \in Item
      /\ Front(local[cleaning]) \in Seq(Item)
  BY <1>2, EndFacts DEF TypeOK, Placed
<1>5. TypeOK'
  <2>1. local' \in [Worker -> Seq(Item)]
    BY <1>4 DEF TypeOK
  <2>2. hand' \in [Thread -> Item \cup {None}] /\ pc' \in [Thread -> Steps]
    BY <1>1, <1>4 DEF TypeOK, Hold, Goto, Steps
  <2> QED BY <2>1, <2>2 DEF TypeOK, scanVars
<1>6. Placed'
  BY <1>1, <1>2 DEF Placed, Others, Asking, Thread
<1>7. \A q \in Worker : local'[q] # << >> => local[q] # << >>
  BY <1>4 DEF TypeOK
<1>8. \A q \in Worker : local[q] = << >> => local'[q] = << >>
  BY <1>7
<1>9. Held' /\ Listed' /\ Looked'
  BY <1>1, <1>2, <1>4, <1>7, <1>8 DEF Held, Listed, Looked, Others, Thread, scanVars,
     Asking
<1>10. GlobalServed'
  BY <1>1, <1>2, GlobalMove DEF Seeks
<1>11. LocalServed'
  BY <1>1, <1>2, <1>7, LocalMove DEF Keeps, Alert
<1> QED BY <1>3, <1>5, <1>6, <1>9, <1>10, <1>11

\* It moves the item to the global queue and asks.
LEMMA CleanUpEnqueueStep ==
  ASSUME QueueInv, CleanUpEnqueue
  PROVE  QueueInv'
<1> USE WorkQueueAssumption DEF WorkQueueAssumption, QueueInv, CleanUpEnqueue
<1>1. Finalizer \in Thread /\ Finalizer \notin Worker
  BY DEF Thread
<1>2. Others(Finalizer) /\ pc[Finalizer] = "move" /\ pc'[Finalizer] = "ensure"
      /\ after'[Finalizer] = "empty"
  BY <1>1 DEF TypeOK, Others, Goto, Hold, scanVars, EnsureThenGoto
<1>3. RequestsInSync'
  BY <1>1, <1>2, CallsMove, SyncIs DEF Others, Calls
<1>4. workItems' \in Seq(Item)
  BY <1>2, AppendFacts DEF TypeOK, Held
<1>5. TypeOK'
  BY <1>1, <1>4 DEF TypeOK, Steps, Goto, Hold, None, scanVars, EnsureThenGoto
<1>6. Placed'
  BY <1>1, <1>2 DEF Placed, Others, Asking, Thread
<1>7. Held' /\ Listed' /\ Looked'
  BY <1>1, <1>2 DEF Held, Listed, Looked, Others, Thread, scanVars, Asking
<1>8. GlobalServed'
  BY <1>1, <1>2, GlobalMove DEF Seeks
<1>9. LocalServed'
  BY <1>1, <1>2, LocalMove DEF Keeps, Alert
<1> QED BY <1>3, <1>5, <1>6, <1>7, <1>8, <1>9

\* It takes the empty queue out of the list; the others stay.
LEMMA CleanUpRemoveStep ==
  ASSUME QueueInv, CleanUpRemove
  PROVE  QueueInv'
<1> USE WorkQueueAssumption DEF WorkQueueAssumption, QueueInv, CleanUpRemove
<1>1. Finalizer \in Thread /\ Finalizer \notin Worker /\ cleaning \in Worker
      /\ cleaning \in Thread /\ cleaning # Finalizer
  BY DEF Thread, Placed
<1>2. /\ pc[Finalizer] = "empty" /\ pc[cleaning] = "gone"
      /\ pc'[Finalizer] = "idle" /\ pc'[cleaning] = "idle"
      /\ \A u \in Thread \ {Finalizer, cleaning} : pc'[u] = pc[u]
  BY <1>1 DEF TypeOK, Placed
<1>3. RequestsInSync'
  <2>1. \A u \in Thread : pc'[u] \in Calls <=> pc[u] \in Calls
    BY <1>2 DEF Calls
  <2>2. {u \in Thread : pc'[u] \in Calls} = {u \in Thread : pc[u] \in Calls}
    BY <2>1
  <2>3. Calling' = Calling
    BY <2>2, Zenon DEF Calling
  <2> QED BY <2>3, SyncIs
<1>4. PICK k \in DOMAIN queues : queues[k] = cleaning /\ queues' = RemoveAt(queues, k)
  OBVIOUS
<1>5. queues' \in Seq(Worker) /\ \A q : Contains(queues, q) /\ q # cleaning => Contains(queues', q)
  BY <1>4, RemoveAtFacts DEF TypeOK
<1>6. TypeOK'
  BY <1>1, <1>5 DEF TypeOK, Steps, scanVars
<1>7. Placed'
  BY <1>1, <1>2 DEF Placed, Asking, Thread
<1>8. Held' /\ Listed' /\ Looked'
  BY <1>1, <1>2, <1>5 DEF Held, Listed, Looked, Thread, scanVars, Asking
<1>9. GlobalServed'
  <2>1. \A u \in Thread : pc[u] \in Seeks => pc'[u] \in Seeks
    BY <1>2 DEF Seeks
  <2> QED BY <2>1 DEF GlobalServed
<1>10. LocalServed'
  <2>1. \A u \in Thread, q \in Worker : Alert(u, q) => Alert(u, q)'
    BY <1>2 DEF Alert, scanVars
  <2> QED BY <2>1 DEF LocalServed
<1> QED BY <1>3, <1>6, <1>7, <1>8, <1>9, <1>10

-----------------------------------------------------------------------------
(* The theorems.                                                           *)

\* Nothing is queued, nobody works.
LEMMA QueueInvInit == Init => QueueInv
<1> SUFFICES ASSUME Init PROVE QueueInv
  OBVIOUS
<1> USE WorkQueueAssumption DEF WorkQueueAssumption, Init
<1>1. TypeOK
  BY DEF TypeOK, Steps, WsqNowActive, None, Thread
<1>2. Placed /\ Held /\ Listed /\ Looked
  BY DEF Placed, Held, Listed, Looked, Asking, Thread
<1>3. RequestsInSync
  <2>1. {t \in Thread : pc[t] \in Calls} = {}
    BY DEF Calls
  <2>2. Calling = 0
    BY <2>1, FS_EmptySet DEF Calling
  <2> QED BY <2>2, SyncIs
<1>4. GlobalServed /\ LocalServed
  BY DEF GlobalServed, LocalServed
<1> QED BY <1>1, <1>2, <1>3, <1>4 DEF QueueInv

\* Every step keeps the invariant.
LEMMA QueueInvNext == QueueInv /\ [Next]_vars => QueueInv'
<1> SUFFICES ASSUME QueueInv, [Next]_vars PROVE QueueInv'
  OBVIOUS
<1> USE WorkQueueAssumption DEF WorkQueueAssumption
<1>1. CASE ClientEnqueue
  BY <1>1, ClientStep
<1>2. ASSUME NEW t \in Thread, Step(t) PROVE QueueInv'
  BY <1>2, EnsureStep, RequestStep DEF Step
<1>3. ASSUME NEW w \in Worker, WorkerStep(w) PROVE QueueInv'
  BY <1>3, AnnounceStep, ActivateStep, MarkStep, HasQueueStep, ObserveStep, ExecuteStep,
     NotifyStep, LocalPopStep, TryDequeueStep, ReadQueuesStep, SkipEmptyStep,
     LowerActiveStep, NoWorkStep DEF WorkerStep
<1>4. ASSUME NEW w \in Worker,
             \/ TakeActiveRequest(w) \/ TrySteal(w) \/ WorkerEnqueueGlobal(w)
             \/ EnqueueLocal(w) \/ LocalFindAndPop(w) \/ CleanUp(w)
      PROVE  QueueInv'
  BY <1>4, TakeStep, TryStealStep, WorkerEnqueueStep, EnqueueLocalStep, FindAndPopStep,
     CleanUpStep
<1>5. ASSUME NEW w \in Disturbed,
             MissSteal(w) \/ QuantumExpired(w) \/ NotifyWorkItemComplete(w, FALSE)
      PROVE  QueueInv'
  <2>1. w \in Worker
    OBVIOUS
  <2> QED BY <1>5, <2>1, MissStealStep, QuantumStep, NotifyStep
<1>6. ASSUME NEW w \in Mortals, Exit(w) PROVE QueueInv'
  <2>1. w \in Worker
    OBVIOUS
  <2> QED BY <1>6, <2>1, ExitStep
<1>7. CASE FinalizerStep
  BY <1>7, CleanUpPopStep, CleanUpEnqueueStep, CleanUpRemoveStep DEF FinalizerStep
<1>8. CASE UNCHANGED vars
  <2> USE <1>8 DEF vars, queueVars, scanVars
  <2>1. TypeOK' /\ Placed' /\ Held' /\ Listed' /\ Looked'
    BY DEF QueueInv, TypeOK, Placed, Held, Listed, Looked
  <2>2. RequestsInSync' /\ GlobalServed' /\ LocalServed'
    BY DEF QueueInv, RequestsInSync, GlobalServed, LocalServed, Alert
  <2> QED BY <2>1, <2>2 DEF QueueInv
<1> QED BY <1>1, <1>2, <1>3, <1>4, <1>5, <1>6, <1>7, <1>8 DEF Next

\* QueueInv is an invariant of the queues.
THEOREM QueueInvariant == Spec => []QueueInv
BY QueueInvInit, QueueInvNext, PTL DEF Spec

\* The types: the local queues hold items, a worker that runs an item has one, and the
\* hint stays within its three values although it goes down by compare-exchange.
THEOREM QueueTypes == Spec => []TypeOK
<1>1. QueueInv => TypeOK
  BY DEF QueueInv
<1> QED BY <1>1, QueueInvariant, PTL

\* The two counts of requests differ by the calls under way, for any number of workers
\* and processors.
THEOREM RequestsInSyncHolds == Spec => []RequestsInSync
<1>1. QueueInv => RequestsInSync
  BY DEF QueueInv
<1> QED BY <1>1, QueueInvariant, PTL

\* The assertion of Dequeue (ThreadPool.cs:491): "There must at least be a queue for
\* this thread", whatever workers exit and have their queues removed meanwhile.
OwnQueueListed == \A w \in Worker : pc[w] \in {"list", "scan"} => Contains(queues, w)

\* A worker that scans the list finds its own queue in it.
THEOREM OwnQueueListedHolds == Spec => []OwnQueueListed
<1>1. QueueInv => OwnQueueListed
  BY DEF QueueInv, Listed, OwnQueueListed
<1> QED BY <1>1, QueueInvariant, PTL

\* With every worker back in the runtime and no request recorded, nothing is left in a
\* queue that the next worker would look at: whatever steals were missed, quanta
\* expired and workers exited meanwhile.
THEOREM NothingStrandedHolds == Spec => []NothingStranded
<1>1. ASSUME QueueInv, Resting, pending = 0
      PROVE  workItems = << >> /\ (wsqActive > 0 => \A w \in Worker : local[w] = << >>)
  <2>1. {t \in Thread : pc[t] \in Calls} = {}
    BY <1>1 DEF Resting, Calls
  <2>2. Calling = 0
    BY <2>1, FS_EmptySet DEF Calling
  <2>3. requests = 0
    BY <1>1, <2>2, SyncIs DEF QueueInv
  <2>4. \A t \in Thread : pc[t] \notin Seeks
    BY <1>1 DEF Resting, Seeks
  <2>5. \A t \in Thread, q \in Worker : ~Alert(t, q)
    BY <1>1 DEF Resting, Alert
  <2> QED BY <1>1, <2>3, <2>4, <2>5 DEF QueueInv, GlobalServed, LocalServed
<1>2. QueueInv => NothingStranded
  BY <1>1 DEF NothingStranded
<1> QED BY <1>2, QueueInvariant, PTL
==============================================================================
