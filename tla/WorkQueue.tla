----------------------------- MODULE WorkQueue -------------------------------
(***************************************************************************)
(* The managed half of the thread pool (ThreadPoolWorkQueue in             *)
(* ThreadPool.cs): the global queue, the list of local queues with the     *)
(* wsqActive hint that lets a thread skip it, and the requests for threads *)
(* made of the runtime.                                                    *)
(*                                                                         *)
(* A local queue is a sequence with its tail at the end, and each call on  *)
(* it is one step; WorkStealingQueue is its detailed model.  A steal that  *)
(* meets the queue's lock, or loses to the owner, is missed.  The runtime  *)
(* (WorkerPool) is reduced to the count of requests it has recorded, which *)
(* any idle worker may take.  Items are numbered as they are created.      *)
(***************************************************************************)
EXTENDS Naturals, Sequences, FiniteSets, SequencesExt

CONSTANTS
  Worker,          \* threads of the pool
  Client,          \* a thread that is not of the pool
  Finalizer,       \* the finalizer thread
  ProcessorCount,  \* ThreadPoolGlobals.processorCount
  Mortals,         \* bound: the workers that may exit
  Disturbed,       \* bound: the workers that may miss a steal or have to
                   \* return to the runtime before the queue is empty
  MaxItems         \* bound: items created

Thread == Worker \cup {Client, Finalizer}

ASSUME WorkQueueAssumption ==
  /\ IsFiniteSet(Worker)
  /\ Client \notin Worker /\ Finalizer \notin Worker /\ Client # Finalizer
  /\ Mortals \subseteq Worker /\ Disturbed \subseteq Worker
  /\ ProcessorCount \in Nat \ {0} /\ MaxItems \in Nat

VARIABLES
  workItems,  \* the global queue
  local,      \* the local queue of each worker
  queues,     \* WorkStealingQueueList._queues, by owner
  wsqActive,  \* 2 now active, 1 maybe inactive, 0 confirmed inactive
  requests,   \* numOutstandingThreadRequests
  pending,    \* m_numRequestsPending, the runtime's count
  pc,         \* the next step of each thread
  after,      \* where it goes once EnsureThreadRequested returns
  hand,       \* the item it holds, 0 for none
  observed,   \* wsqActiveObserved
  scan,       \* the queues its scan has yet to visit
  missed,     \* missedSteal
  cleaning,   \* the worker whose queue the finalizer empties, or None
  made,       \* items created
  done        \* items executed

queueVars  == <<workItems, local, queues>>
scanVars   == <<observed, scan, missed>>
vars == <<queueVars, wsqActive, requests, pending, pc, after, hand, scanVars, cleaning,
          made, done>>

WsqNowActive == 2
None == 0
Item == 1..MaxItems

Goto(t, l) == pc' = [pc EXCEPT ![t] = l]
Hold(t, n) == hand' = [hand EXCEPT ![t] = n]

Init ==
  /\ workItems = << >> /\ local = [w \in Worker |-> << >>] /\ queues = << >>
  /\ wsqActive = 0 /\ requests = 0 /\ pending = 0
  /\ pc = [t \in Thread |-> "idle"] /\ after = [t \in Thread |-> "idle"]
  /\ hand = [t \in Thread |-> None]
  /\ observed = [w \in Worker |-> 0] /\ scan = [w \in Worker |-> << >>]
  /\ missed = [w \in Worker |-> FALSE]
  /\ cleaning = None
  /\ made = 0 /\ done = {}
------------------------------------------------------------------------------
(***************************************************************************)
(* EnsureThreadRequested, then l: the count here first, the runtime's      *)
(* count after it.                                                         *)
(***************************************************************************)
EnsureThenGoto(t, l) ==
  /\ Goto(t, "ensure")
  /\ after' = [after EXCEPT ![t] = l]

\* Mutant of EnsureThreadRequested: one request more than processors.
EnsureThreadRequestedTwice(t) ==
  /\ pc[t] = "ensure"
  /\ IF requests <= ProcessorCount
       THEN requests' = requests + 1 /\ Goto(t, "request")
       ELSE UNCHANGED requests /\ Goto(t, after[t])
  /\ UNCHANGED <<queueVars, wsqActive, pending, after, hand, scanVars, cleaning, made, done>>

EnsureThreadRequested(t) ==
  /\ pc[t] = "ensure"
  /\ IF requests < ProcessorCount
       THEN requests' = requests + 1 /\ Goto(t, "request")
       ELSE UNCHANGED requests /\ Goto(t, after[t])
  /\ UNCHANGED <<queueVars, wsqActive, pending, after, hand, scanVars, cleaning, made, done>>

RequestWorkerThread(t) ==
  /\ pc[t] = "request"
  /\ pending' = pending + 1
  /\ Goto(t, after[t])
  /\ UNCHANGED <<queueVars, wsqActive, requests, after, hand, scanVars, cleaning, made, done>>
------------------------------------------------------------------------------
(***************************************************************************)
(* Enqueue.  A thread with a local queue uses it unless the caller forces  *)
(* the global one; then it makes sure the list is looked at.               *)
(***************************************************************************)
EnqueueGlobal(t, l) ==
  /\ made < MaxItems
  /\ made' = made + 1
  /\ workItems' = Append(workItems, made + 1)
  /\ EnsureThenGoto(t, l)
  /\ UNCHANGED <<local, queues, wsqActive, requests, pending, hand, scanVars, cleaning, done>>

ClientEnqueue == pc[Client] = "idle" /\ EnqueueGlobal(Client, "idle")

WorkerEnqueueGlobal(w) == pc[w] = "execute" /\ EnqueueGlobal(w, "execute")

EnqueueLocal(w) ==
  /\ pc[w] = "execute" /\ made < MaxItems
  /\ made' = made + 1
  /\ local' = [local EXCEPT ![w] = Append(@, made + 1)]
  /\ Goto(w, "announce")
  /\ UNCHANGED <<workItems, queues, wsqActive, requests, pending, after, hand, scanVars,
                 cleaning, done>>

\* The hint is read after the barrier, and written only when it differs.
Announce(w) ==
  /\ pc[w] = "announce"
  /\ IF wsqActive # WsqNowActive
       THEN Goto(w, "activate") /\ UNCHANGED after
       ELSE EnsureThenGoto(w, "execute")
  /\ UNCHANGED <<queueVars, wsqActive, requests, pending, hand, scanVars, cleaning, made, done>>

Activate(w) ==
  /\ pc[w] = "activate"
  /\ wsqActive' = WsqNowActive
  /\ EnsureThenGoto(w, "execute")
  /\ UNCHANGED <<queueVars, requests, pending, hand, scanVars, cleaning, made, done>>

\* A waiting task runs an item of its own queue in place.
LocalFindAndPop(w) ==
  /\ pc[w] = "execute"
  /\ \E i \in DOMAIN local[w] :
       /\ local' = [local EXCEPT ![w] = RemoveAt(@, i)]
       /\ done' = done \cup {local[w][i]}
  /\ UNCHANGED <<workItems, queues, wsqActive, requests, pending, pc, after, hand, scanVars,
                 cleaning, made>>
------------------------------------------------------------------------------
(***************************************************************************)
(* Dispatch.                                                               *)
(***************************************************************************)
\* The runtime hands a request to a worker, and then tells Dispatch.
TakeActiveRequest(w) ==
  /\ pc[w] = "idle" /\ pending > 0
  /\ pending' = pending - 1
  /\ Goto(w, "mark")
  /\ UNCHANGED <<queueVars, wsqActive, requests, after, hand, scanVars, cleaning, made, done>>

\* Mutant of MarkThreadRequestSatisfied: the last request is never satisfied.
MarkNotTheLast(w) ==
  /\ pc[w] = "mark"
  /\ requests' = IF requests > 1 THEN requests - 1 ELSE requests
  /\ Goto(w, "locals")
  /\ UNCHANGED <<queueVars, wsqActive, pending, after, hand, scanVars, cleaning, made, done>>

MarkThreadRequestSatisfied(w) ==
  /\ pc[w] = "mark"
  /\ requests' = IF requests > 0 THEN requests - 1 ELSE requests
  /\ Goto(w, "locals")
  /\ UNCHANGED <<queueVars, wsqActive, pending, after, hand, scanVars, cleaning, made, done>>

EnsureCurrentThreadHasQueue(w) ==
  /\ pc[w] = "locals"
  /\ queues' = IF Contains(queues, w) THEN queues ELSE Append(queues, w)
  /\ Goto(w, "loop")
  /\ UNCHANGED <<workItems, local, wsqActive, requests, pending, after, hand, scanVars,
                 cleaning, made, done>>

\* The quantum may be over; the queue may not be empty.
QuantumExpired(w) ==
  /\ pc[w] = "loop"
  /\ EnsureThenGoto(w, "idle")
  /\ UNCHANGED <<queueVars, wsqActive, requests, pending, hand, scanVars, cleaning, made, done>>

\* An item was found: there may be more work.
Got(w, n) == Hold(w, n) /\ EnsureThenGoto(w, "execute")

ExecuteWorkItem(w) ==
  /\ pc[w] = "execute"
  /\ done' = done \cup {hand[w]}
  /\ Hold(w, None)
  /\ Goto(w, "notify")
  /\ UNCHANGED <<queueVars, wsqActive, requests, pending, after, scanVars, cleaning, made>>

\* The runtime keeps the worker, or wants it back.
NotifyWorkItemComplete(w, keep) ==
  /\ pc[w] = "notify"
  /\ IF keep THEN Goto(w, "loop") /\ UNCHANGED after ELSE EnsureThenGoto(w, "idle")
  /\ UNCHANGED <<queueVars, wsqActive, requests, pending, hand, scanVars, cleaning, made, done>>
------------------------------------------------------------------------------
(***************************************************************************)
(* Dequeue.                                                                *)
(***************************************************************************)
Observe(w) ==
  /\ pc[w] = "loop"
  /\ observed' = [observed EXCEPT ![w] = wsqActive]
  /\ missed' = [missed EXCEPT ![w] = FALSE]
  /\ Goto(w, IF wsqActive > 0 THEN "pop" ELSE "dequeue")
  /\ UNCHANGED <<queueVars, wsqActive, requests, pending, after, hand, scan, cleaning, made,
                 done>>

LocalPop(w) ==
  /\ pc[w] = "pop"
  /\ IF local[w] # << >>
       THEN /\ local' = [local EXCEPT ![w] = Front(@)]
            /\ Got(w, Last(local[w]))
       ELSE /\ Goto(w, "dequeue")
            /\ UNCHANGED <<local, hand, after>>
  /\ UNCHANGED <<workItems, queues, wsqActive, requests, pending, scanVars, cleaning, made,
                 done>>

TryDequeue(w) ==
  /\ pc[w] = "dequeue"
  /\ IF workItems # << >>
       THEN /\ workItems' = Tail(workItems)
            /\ Got(w, Head(workItems))
       ELSE /\ Goto(w, IF observed[w] > 0 THEN "list" ELSE "none")
            /\ UNCHANGED <<workItems, hand, after>>
  /\ UNCHANGED <<local, queues, wsqActive, requests, pending, scanVars, cleaning, made, done>>

\* The list is read once and scanned round from a random place.
ReadQueues(w) ==
  /\ pc[w] = "list"
  /\ \E k \in DOMAIN queues :
       scan' = [scan EXCEPT ![w] = SubSeq(queues, k, Len(queues)) \o SubSeq(queues, 1, k - 1)]
  /\ Goto(w, "scan")
  /\ UNCHANGED <<queueVars, wsqActive, requests, pending, after, hand, observed, missed,
                 cleaning, made, done>>

\* Its own queue the thread has looked at already.
CanSteal(w) == Head(scan[w]) # w /\ local[Head(scan[w])] # << >>

TrySteal(w) ==
  LET q == Head(scan[w]) IN
  /\ pc[w] = "scan" /\ scan[w] # << >> /\ CanSteal(w)
  /\ local' = [local EXCEPT ![q] = Tail(@)]
  /\ scan' = [scan EXCEPT ![w] = << >>]
  /\ Got(w, Head(local[q]))
  /\ UNCHANGED <<workItems, queues, wsqActive, requests, pending, observed, missed, cleaning,
                 made, done>>

MissSteal(w) ==
  /\ pc[w] = "scan" /\ scan[w] # << >> /\ CanSteal(w)
  /\ missed' = [missed EXCEPT ![w] = TRUE]
  /\ scan' = [scan EXCEPT ![w] = Tail(@)]
  /\ UNCHANGED <<queueVars, wsqActive, requests, pending, pc, after, hand, observed,
                 cleaning, made, done>>

SkipEmpty(w) ==
  /\ pc[w] = "scan" /\ scan[w] # << >> /\ ~CanSteal(w)
  /\ scan' = [scan EXCEPT ![w] = Tail(@)]
  /\ UNCHANGED <<queueVars, wsqActive, requests, pending, pc, after, hand, observed, missed,
                 cleaning, made, done>>

\* Nothing found and nothing missed: the hint goes down, if it still is what
\* was read before the scan.
LowerActive(w) ==
  /\ pc[w] = "scan" /\ scan[w] = << >>
  /\ wsqActive' = IF ~missed[w] /\ wsqActive = observed[w] THEN wsqActive - 1 ELSE wsqActive
  /\ Goto(w, "none")
  /\ UNCHANGED <<queueVars, requests, pending, after, hand, scanVars, cleaning, made, done>>

\* Mutant of NoWork: a missed steal is forgotten.
NoWorkForgets(w) ==
  /\ pc[w] = "none"
  /\ Goto(w, "idle")
  /\ UNCHANGED <<queueVars, wsqActive, requests, pending, after, hand, scanVars, cleaning,
                 made, done>>

\* Dispatch returns; a missed steal asks for another thread.
NoWork(w) ==
  /\ pc[w] = "none"
  /\ IF missed[w] THEN EnsureThenGoto(w, "idle") ELSE Goto(w, "idle") /\ UNCHANGED after
  /\ UNCHANGED <<queueVars, wsqActive, requests, pending, hand, scanVars, cleaning, made, done>>
------------------------------------------------------------------------------
(***************************************************************************)
(* A worker exits.  Once its ThreadPoolWorkQueueThreadLocals is            *)
(* unreachable the finalizer moves its items to the global queue.          *)
(***************************************************************************)
Exit(w) ==
  /\ pc[w] = "idle" /\ Contains(queues, w)
  /\ Goto(w, "gone")
  /\ UNCHANGED <<queueVars, wsqActive, requests, pending, after, hand, scanVars, cleaning,
                 made, done>>

CleanUp(w) ==
  /\ pc[Finalizer] = "idle" /\ pc[w] = "gone"
  /\ cleaning' = w
  /\ Goto(Finalizer, "empty")
  /\ UNCHANGED <<queueVars, wsqActive, requests, pending, after, hand, scanVars, made, done>>

CleanUpPop ==
  /\ pc[Finalizer] = "empty" /\ local[cleaning] # << >>
  /\ Hold(Finalizer, Last(local[cleaning]))
  /\ local' = [local EXCEPT ![cleaning] = Front(@)]
  /\ Goto(Finalizer, "move")
  /\ UNCHANGED <<workItems, queues, wsqActive, requests, pending, after, scanVars, cleaning,
                 made, done>>

CleanUpEnqueue ==
  /\ pc[Finalizer] = "move"
  /\ workItems' = Append(workItems, hand[Finalizer])
  /\ Hold(Finalizer, None)
  /\ EnsureThenGoto(Finalizer, "empty")
  /\ UNCHANGED <<local, queues, wsqActive, requests, pending, scanVars, cleaning, made, done>>

\* The thread is gone for good; a new one may take its place.
CleanUpRemove ==
  /\ pc[Finalizer] = "empty" /\ local[cleaning] = << >>
  /\ \E k \in DOMAIN queues : queues[k] = cleaning /\ queues' = RemoveAt(queues, k)
  /\ pc' = [pc EXCEPT ![Finalizer] = "idle", ![cleaning] = "idle"]
  /\ cleaning' = None
  /\ UNCHANGED <<workItems, local, wsqActive, requests, pending, after, hand, scanVars,
                 made, done>>
------------------------------------------------------------------------------
\* The steps a scheduler runs.
Step(t) == EnsureThreadRequested(t) \/ RequestWorkerThread(t)

WorkerStep(w) ==
  \/ Announce(w) \/ Activate(w)
  \/ MarkThreadRequestSatisfied(w) \/ EnsureCurrentThreadHasQueue(w)
  \/ Observe(w) \/ ExecuteWorkItem(w) \/ NotifyWorkItemComplete(w, TRUE)
  \/ LocalPop(w) \/ TryDequeue(w) \/ ReadQueues(w) \/ SkipEmpty(w) \/ LowerActive(w)
  \/ NoWork(w)

FinalizerStep == CleanUpPop \/ CleanUpEnqueue \/ CleanUpRemove

Next ==
  \/ ClientEnqueue
  \/ \E t \in Thread : Step(t)
  \/ \E w \in Worker :
       \/ WorkerStep(w) \/ TakeActiveRequest(w) \/ TrySteal(w)
       \/ WorkerEnqueueGlobal(w) \/ EnqueueLocal(w) \/ LocalFindAndPop(w)
       \/ CleanUp(w)
  \/ \E w \in Disturbed :
       MissSteal(w) \/ QuantumExpired(w) \/ NotifyWorkItemComplete(w, FALSE)
  \/ \E w \in Mortals : Exit(w)
  \/ FinalizerStep

Spec == Init /\ [][Next]_vars

Steps == {"idle", "ensure", "request", "execute", "announce", "activate", "mark", "locals",
          "loop", "notify", "pop", "dequeue", "list", "scan", "none", "gone", "empty", "move"}

TypeOK ==
  /\ workItems \in Seq(Item) /\ local \in [Worker -> Seq(Item)]
  /\ queues \in Seq(Worker)
  /\ wsqActive \in 0..WsqNowActive
  /\ requests \in 0..ProcessorCount /\ pending \in 0..ProcessorCount
  /\ pc \in [Thread -> Steps]
  /\ after \in [Thread -> {"idle", "execute", "empty"}]
  /\ hand \in [Thread -> Item \cup {None}]
  /\ observed \in [Worker -> 0..WsqNowActive]
  /\ scan \in [Worker -> Seq(Worker)] /\ missed \in [Worker -> BOOLEAN]
  /\ cleaning \in Worker \cup {None}
  /\ made \in 0..MaxItems /\ done \subseteq Item
==============================================================================
