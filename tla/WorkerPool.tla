----------------------------- MODULE WorkerPool ------------------------------
(***************************************************************************)
(* The runtime's half of the thread pool (ThreadpoolMgr in                 *)
(* win32threadpool.cpp): the requests recorded for an application domain,  *)
(* the worker threads with the counts MaxWorking, NumActive, NumWorking    *)
(* and NumRetired, the two semaphores they wait on, and the gate thread    *)
(* that looks for starvation.                                              *)
(*                                                                         *)
(* The four counts are one 64-bit word changed by compare-exchange loops;  *)
(* a loop is one step, and what follows it is another.  The semaphores are *)
(* counters that wake any of their waiters.                                *)
(* What a worker runs is managed code that may ask for more workers        *)
(* (WorkQueue).  HillClimbing proposes any limit; time-outs and delays may *)
(* happen at any moment.  ThreadAdjustmentLock guards only the samples of  *)
(* HillClimbing and is left out.                                           *)
(***************************************************************************)
EXTENDS Naturals, Sequences, FiniteSets, FiniteSetsExt

CONSTANTS
  Worker,       \* the threads that can exist at once
  Client,       \* a thread outside the pool
  Gate,         \* the gate thread
  MinThreads,   \* what SetMinThreads may be called with, and the first minimum
  MaxThreads,   \* what SetMaxThreads may be called with, and the first maximum
  MaxRequests,  \* bound: requests
  MaxChanges,   \* bound: changes by HillClimbing, SetMinThreads, SetMaxThreads
  MaxFailures   \* bound: threads that cannot be created

Thread == Worker \cup {Client, Gate}

ASSUME WorkerPoolAssumption ==
  /\ IsFiniteSet(Worker)
  /\ Client \notin Worker /\ Gate \notin Worker /\ Client # Gate
  /\ MinThreads \subseteq Nat /\ MaxThreads \subseteq Nat \ {0}
  /\ MaxRequests \in Nat /\ MaxChanges \in Nat /\ MaxFailures \in Nat

VARIABLES
  counts,      \* ThreadCounter::Counts
  limits,      \* MinLimitTotalWorkerThreads, MaxLimitTotalWorkerThreads
  workerSem,   \* WorkerSemaphore
  retiredSem,  \* RetiredWorkerSemaphore
  pending,     \* m_numRequestsPending
  gateStatus,  \* GateThreadStatus
  todo,        \* what each thread is about to do, next step first
  found,       \* foundWork of each worker
  requested,   \* requests so far
  changes,     \* changes of a limit so far
  failures,    \* failed creations so far
  leftRaised   \* history: a worker that left has raised the limit from 0

bounds == <<requested, changes, failures, leftRaised>>
vars == <<counts, limits, workerSem, retiredSem, pending, gateStatus, todo, found, bounds>>

Min2(a, b) == Min({a, b})
Max2(a, b) == Max({a, b})

\* The thread t is about to do l; it does ls instead of it from now on.
At(t, l) == todo[t] # << >> /\ Head(todo[t]) = l
Goto(t, ls) == todo' = [todo EXCEPT ![t] = ls \o Tail(@)]

Init ==
  /\ \E lo \in MinThreads, hi \in MaxThreads :
       /\ 0 < lo /\ lo <= hi
       /\ limits = [min |-> lo, max |-> hi]
       /\ counts = [maxWorking |-> lo, active |-> 0, working |-> 0, retired |-> 0]
  /\ workerSem = 0 /\ retiredSem = 0 /\ pending = 0
  /\ gateStatus = "notRunning"
  /\ todo = [t \in Thread |-> << >>]
  /\ found = [w \in Worker |-> TRUE]
  /\ leftRaised = FALSE
  /\ requested = 0 /\ changes = 0 /\ failures = 0
------------------------------------------------------------------------------
(***************************************************************************)
(* SetAppDomainRequestsActive, called by a client, by managed code on a    *)
(* worker, or on the way back from a worker that was recalled.             *)
(***************************************************************************)
SetAppDomainRequestsActive(t) ==
  /\ (t = Client /\ todo[t] = << >>) \/ At(t, "dispatch") \/ At(t, "recalled")
  /\ requested < MaxRequests
  /\ requested' = requested + 1
  /\ pending' = pending + 1
  /\ todo' = [todo EXCEPT ![t] = <<"add", "ensureGate">> \o @]
  /\ UNCHANGED <<counts, limits, workerSem, retiredSem, gateStatus, found, changes, failures,
                 leftRaised>>

\* The counts MaybeAddWorkingWorker asks for: one more worker at work, taken
\* from the waiting ones, from the retired ones, or new, in this order.
OneMore(c) ==
  LET working == Max2(c.working, Min2(c.working + 1, c.maxWorking))
      active  == Max2(c.active, working)
      retired == IF c.retired > active - c.active THEN c.retired - (active - c.active)
                                                  ELSE 0
  IN [c EXCEPT !.working = working, !.active = active, !.retired = retired]

MaybeAddWorkingWorker(t) ==
  LET new == OneMore(counts) IN
  /\ At(t, "add")
  /\ counts' = new
  /\ Goto(t, IF new = counts THEN << >>
             ELSE IF new.retired < counts.retired THEN <<"unretire">>
             ELSE IF new.active > counts.active THEN <<"create">>
             ELSE <<"release">>)
  /\ UNCHANGED <<limits, workerSem, retiredSem, pending, gateStatus, found, bounds>>

Unretire(t) ==
  /\ At(t, "unretire")
  /\ retiredSem' = retiredSem + 1
  /\ Goto(t, << >>)
  /\ UNCHANGED <<counts, limits, workerSem, pending, gateStatus, found, bounds>>

Release(t) ==
  /\ At(t, "release")
  /\ workerSem' = workerSem + 1
  /\ Goto(t, << >>)
  /\ UNCHANGED <<counts, limits, retiredSem, pending, gateStatus, found, bounds>>

CreateWorkerThread(t, w) ==
  /\ At(t, "create") /\ todo[w] = << >>
  /\ todo' = [todo EXCEPT ![t] = Tail(@), ![w] = <<"work">>]
  /\ found' = [found EXCEPT ![w] = TRUE]
  /\ UNCHANGED <<counts, limits, workerSem, retiredSem, pending, gateStatus, bounds>>

CreateFails(t) ==
  /\ At(t, "create") /\ failures < MaxFailures
  /\ failures' = failures + 1
  /\ Goto(t, <<"renege">>)
  /\ UNCHANGED <<counts, limits, workerSem, retiredSem, pending, gateStatus, found, requested,
                 changes, leftRaised>>

Renege(t) ==
  /\ At(t, "renege")
  /\ counts' = [counts EXCEPT !.working = @ - 1, !.active = @ - 1]
  /\ Goto(t, << >>)
  /\ UNCHANGED <<limits, workerSem, retiredSem, pending, gateStatus, found, bounds>>
------------------------------------------------------------------------------
(***************************************************************************)
(* WorkerThreadStart.                                                      *)
(***************************************************************************)
\* Label Work: retire when there are too many, sleep when there is no work.
Work(w) ==
  /\ At(w, "work")
  /\ IF counts.active > counts.maxWorking
       THEN /\ counts' = [counts EXCEPT !.active = @ - 1, !.retired = @ + 1,
                                        !.working = @ - 1]
            /\ Goto(w, <<"retire">>)
     ELSE IF ~found[w]
       THEN counts' = [counts EXCEPT !.working = @ - 1] /\ Goto(w, <<"sweep">>)
       ELSE Goto(w, <<"execute">>) /\ UNCHANGED counts
  /\ UNCHANGED <<limits, workerSem, retiredSem, pending, gateStatus, found, bounds>>

\* Take a request and run managed code, or find none.
ExecuteWorkRequest(w) ==
  /\ At(w, "execute")
  /\ found' = [found EXCEPT ![w] = pending > 0]
  /\ pending' = IF pending > 0 THEN pending - 1 ELSE pending
  /\ Goto(w, IF pending > 0 THEN <<"dispatch">> ELSE <<"work">>)
  /\ UNCHANGED <<counts, limits, workerSem, retiredSem, gateStatus, bounds>>

\* Managed code found nothing more to do.
DispatchReturns(w) ==
  /\ At(w, "dispatch")
  /\ Goto(w, <<"work">>)
  /\ UNCHANGED <<counts, limits, workerSem, retiredSem, pending, gateStatus, found, bounds>>

\* NotifyRequestComplete, after a work item: ShouldAdjustMaxWorkersActive may
\* ask for a change of the limit.
NotifyRequestComplete(w) ==
  /\ At(w, "dispatch")
  /\ \/ Goto(w, <<"keep">>)
     \/ /\ changes < MaxChanges /\ counts.active <= counts.maxWorking
        /\ Goto(w, <<"adjust", "keep">>)
  /\ UNCHANGED <<counts, limits, workerSem, retiredSem, pending, gateStatus, found, bounds>>

\* What HillClimbing may propose: it stays within the limits, which may have
\* changed by the time that the proposal is used.
Proposals == UNION {lo..hi : lo \in MinThreads, hi \in MaxThreads}

\* HillClimbing has proposed n, which may be the limit as it is.
AdjustMaxWorkersActive(w, n) ==
  /\ At(w, "adjust")
  /\ \/ /\ n = counts.maxWorking
        /\ UNCHANGED changes
     \/ /\ n # counts.maxWorking /\ changes < MaxChanges
        /\ changes' = changes + 1
  /\ counts' = [counts EXCEPT !.maxWorking = n]
  /\ Goto(w, IF n > counts.maxWorking THEN <<"add">> ELSE << >>)
  /\ UNCHANGED <<limits, workerSem, retiredSem, pending, gateStatus, found, requested,
                 failures, leftRaised>>

ShouldWorkerKeepRunning(w) ==
  /\ At(w, "keep")
  /\ IF counts.active <= counts.maxWorking
       THEN Goto(w, <<"dispatch">>) /\ UNCHANGED counts
       ELSE /\ counts' = [counts EXCEPT !.working = @ - 1, !.active = @ - 1,
                                        !.retired = @ + 1]
            /\ Goto(w, <<"recalled">>)
  /\ UNCHANGED <<limits, workerSem, retiredSem, pending, gateStatus, found, bounds>>

\* Managed code returns, having asked for another thread or not.
Recalled(w) ==
  /\ At(w, "recalled")
  /\ Goto(w, <<"retire">>)
  /\ UNCHANGED <<counts, limits, workerSem, retiredSem, pending, gateStatus, found, bounds>>

\* Label Retire: work may have come in just before the counts went down.
Retire(w) ==
  /\ At(w, "retire")
  /\ Goto(w, IF pending > 0 THEN <<"add", "retired">> ELSE <<"retired">>)
  /\ UNCHANGED <<counts, limits, workerSem, retiredSem, pending, gateStatus, found, bounds>>

WakeRetired(w) ==
  /\ At(w, "retired") /\ retiredSem > 0
  /\ retiredSem' = retiredSem - 1
  /\ found' = [found EXCEPT ![w] = TRUE]
  /\ Goto(w, <<"work">>)
  /\ UNCHANGED <<counts, limits, workerSem, pending, gateStatus, bounds>>

RetiredTimeout(w) ==
  /\ At(w, "retired") /\ retiredSem = 0
  /\ Goto(w, <<"leaveRetired">>)
  /\ UNCHANGED <<counts, limits, workerSem, retiredSem, pending, gateStatus, found, bounds>>

\* Exit, unless every retired thread is expected back.
LeaveRetired(w) ==
  /\ At(w, "leaveRetired")
  /\ IF counts.retired = 0
       THEN Goto(w, <<"retired">>) /\ UNCHANGED counts
       ELSE Goto(w, << >>) /\ counts' = [counts EXCEPT !.retired = @ - 1]
  /\ UNCHANGED <<limits, workerSem, retiredSem, pending, gateStatus, found, bounds>>

\* Mutant of WaitForWork: work that has come in is not looked for.
WaitForWorkBlind(w) ==
  /\ At(w, "sweep")
  /\ Goto(w, <<"waiting">>)
  /\ UNCHANGED <<counts, limits, workerSem, retiredSem, pending, gateStatus, found, bounds>>

\* Label WaitForWork: work may have come in just before the counts went down.
WaitForWork(w) ==
  /\ At(w, "sweep")
  /\ found' = [found EXCEPT ![w] = @ \/ pending > 0]
  /\ Goto(w, IF pending > 0 THEN <<"add", "waiting">> ELSE <<"waiting">>)
  /\ UNCHANGED <<counts, limits, workerSem, retiredSem, pending, gateStatus, bounds>>

WakeWorker(w) ==
  /\ At(w, "waiting") /\ workerSem > 0
  /\ workerSem' = workerSem - 1
  /\ found' = [found EXCEPT ![w] = TRUE]
  /\ Goto(w, <<"work">>)
  /\ UNCHANGED <<counts, limits, retiredSem, pending, gateStatus, bounds>>

WaitTimeout(w) ==
  /\ At(w, "waiting") /\ workerSem = 0
  /\ Goto(w, <<"leaveWaiting">>)
  /\ UNCHANGED <<counts, limits, workerSem, retiredSem, pending, gateStatus, found, bounds>>

\* Mutant of LeaveWaiting: a thread that is expected to work exits.
LeaveWaitingBlind(w) ==
  /\ At(w, "leaveWaiting")
  /\ Goto(w, << >>)
  /\ counts' = [counts EXCEPT !.active = @ - 1,
       !.maxWorking = Max2(limits.min, Min2(counts.active - 1, @))]
  /\ UNCHANGED <<limits, workerSem, retiredSem, pending, gateStatus, found, bounds>>

\* Exit and lower the limit, unless every waiting thread is expected to work.
LeaveWaiting(w) ==
  /\ At(w, "leaveWaiting")
  /\ IF counts.active = counts.working
       THEN Goto(w, <<"waiting">>) /\ UNCHANGED counts
       ELSE /\ Goto(w, << >>)
            /\ counts' = [counts EXCEPT !.active = @ - 1,
                 !.maxWorking = Max2(limits.min, Min2(counts.active - 1, @))]
  /\ leftRaised' = (leftRaised \/ (counts.maxWorking = 0 /\ counts'.maxWorking > 0))
  /\ UNCHANGED <<limits, workerSem, retiredSem, pending, gateStatus, found, requested, changes,
                 failures>>
------------------------------------------------------------------------------
(***************************************************************************)
(* The gate thread.                                                        *)
(***************************************************************************)
EnsureGateThreadRunning(t) ==
  /\ At(t, "ensureGate")
  /\ gateStatus' = "requested"
  /\ Goto(t, IF gateStatus = "notRunning" THEN <<"createGate">> ELSE << >>)
  /\ UNCHANGED <<counts, limits, workerSem, retiredSem, pending, found, bounds>>

CreateGateThread(t) ==
  /\ At(t, "createGate")
  /\ todo' = [todo EXCEPT ![t] = Tail(@), ![Gate] = <<"watch">>]
  /\ UNCHANGED <<counts, limits, workerSem, retiredSem, pending, gateStatus, found, bounds>>

\* Somebody else will have to try again.
CreateGateFails(t) ==
  /\ At(t, "createGate") /\ failures < MaxFailures
  /\ failures' = failures + 1
  /\ gateStatus' = "notRunning"
  /\ Goto(t, << >>)
  /\ UNCHANGED <<counts, limits, workerSem, retiredSem, pending, found, requested, changes,
                 leftRaised>>

\* GateThreadStart: after a delay without a dequeue, raise the limit by one if
\* all the threads it allows exist.
GateThreadStart ==
  LET starved == /\ counts.active < limits.max
                 /\ counts.active >= counts.maxWorking
  IN
  /\ At(Gate, "watch") /\ pending > 0
  /\ counts' = IF starved THEN [counts EXCEPT !.maxWorking = counts.active + 1]
                          ELSE counts
  /\ Goto(Gate, IF starved THEN <<"add", "stay">> ELSE <<"stay">>)
  /\ UNCHANGED <<limits, workerSem, retiredSem, pending, gateStatus, found, bounds>>

NoDelay ==
  /\ At(Gate, "watch")
  /\ Goto(Gate, <<"stay">>)
  /\ UNCHANGED <<counts, limits, workerSem, retiredSem, pending, gateStatus, found, bounds>>

\* ShouldGateThreadKeepRunning: exit after a round without a request, when no
\* request is pending, unless somebody asks for the thread meanwhile.
ShouldGateThreadKeepRunning ==
  /\ At(Gate, "stay")
  /\ gateStatus' = "waitingForRequest"
  /\ Goto(Gate, IF gateStatus = "waitingForRequest" THEN <<"needed">> ELSE <<"watch">>)
  /\ UNCHANGED <<counts, limits, workerSem, retiredSem, pending, found, bounds>>

GateNeeded ==
  /\ At(Gate, "needed")
  /\ Goto(Gate, IF pending > 0 THEN <<"watch">> ELSE <<"quit">>)
  /\ UNCHANGED <<counts, limits, workerSem, retiredSem, pending, gateStatus, found, bounds>>

\* Mutant of GateQuit: the status is set without a look at it.
GateQuitBlind ==
  /\ At(Gate, "quit")
  /\ gateStatus' = "notRunning"
  /\ Goto(Gate, << >>)
  /\ UNCHANGED <<counts, limits, workerSem, retiredSem, pending, found, bounds>>

GateQuit ==
  /\ At(Gate, "quit")
  /\ IF gateStatus = "waitingForRequest"
       THEN gateStatus' = "notRunning" /\ Goto(Gate, << >>)
       ELSE UNCHANGED gateStatus /\ Goto(Gate, <<"watch">>)
  /\ UNCHANGED <<counts, limits, workerSem, retiredSem, pending, found, bounds>>
------------------------------------------------------------------------------
(***************************************************************************)
(* SetMaxThreads and SetMinThreads.                                        *)
(***************************************************************************)
SetMaxThreads(n) ==
  /\ todo[Client] = << >> /\ changes < MaxChanges
  /\ n >= limits.min /\ n # limits.max
  /\ changes' = changes + 1
  /\ limits' = [limits EXCEPT !.max = n]
  /\ todo' = [todo EXCEPT ![Client] = <<"lower">>]
  /\ UNCHANGED <<counts, workerSem, retiredSem, pending, gateStatus, found, requested,
                 failures, leftRaised>>

LowerLimit ==
  /\ At(Client, "lower")
  /\ counts' = [counts EXCEPT !.maxWorking = Min2(@, limits.max)]
  /\ Goto(Client, << >>)
  /\ UNCHANGED <<limits, workerSem, retiredSem, pending, gateStatus, found, bounds>>

SetMinThreads(n) ==
  /\ todo[Client] = << >> /\ changes < MaxChanges
  /\ n <= limits.max /\ n # limits.min
  /\ changes' = changes + 1
  /\ limits' = [limits EXCEPT !.min = n]
  /\ todo' = [todo EXCEPT ![Client] = <<"raise">>]
  /\ UNCHANGED <<counts, workerSem, retiredSem, pending, gateStatus, found, requested,
                 failures, leftRaised>>

RaiseLimit ==
  /\ At(Client, "raise")
  /\ counts' = [counts EXCEPT !.maxWorking = Max2(@, limits.min)]
  /\ Goto(Client, IF counts.maxWorking < limits.min THEN <<"raised">> ELSE << >>)
  /\ UNCHANGED <<limits, workerSem, retiredSem, pending, gateStatus, found, bounds>>

LimitRaised ==
  /\ At(Client, "raised")
  /\ Goto(Client, IF pending > 0 THEN <<"add">> ELSE << >>)
  /\ UNCHANGED <<counts, limits, workerSem, retiredSem, pending, gateStatus, found, bounds>>
------------------------------------------------------------------------------
\* MaybeAddWorkingWorker and what follows it, by any thread.
AddStep(t) ==
  \/ MaybeAddWorkingWorker(t) \/ Unretire(t) \/ Release(t) \/ Renege(t)
  \/ \E w \in Worker : CreateWorkerThread(t, w)
  \/ EnsureGateThreadRunning(t) \/ CreateGateThread(t)

WorkerStep(w) ==
  \/ Work(w) \/ ExecuteWorkRequest(w) \/ DispatchReturns(w) \/ ShouldWorkerKeepRunning(w)
  \/ Recalled(w) \/ Retire(w) \/ WakeRetired(w) \/ LeaveRetired(w)
  \/ WaitForWork(w) \/ WakeWorker(w) \/ LeaveWaiting(w)
  \/ \E n \in Proposals : AdjustMaxWorkersActive(w, n)

GateStep ==
  \/ GateThreadStart \/ ShouldGateThreadKeepRunning \/ GateNeeded \/ GateQuit

Next ==
  \/ \E t \in Thread : SetAppDomainRequestsActive(t) \/ AddStep(t) \/ CreateFails(t)
                       \/ CreateGateFails(t)
  \/ \E w \in Worker :
       \/ WorkerStep(w) \/ NotifyRequestComplete(w)
       \/ RetiredTimeout(w) \/ WaitTimeout(w)
  \/ GateStep \/ NoDelay
  \/ \E n \in MaxThreads : SetMaxThreads(n)
  \/ \E n \in MinThreads : SetMinThreads(n)
  \/ LowerLimit \/ RaiseLimit \/ LimitRaised

Spec == Init /\ [][Next]_vars

Steps ==
  {"add", "unretire", "release", "create", "renege", "ensureGate", "createGate", "work",
   "execute", "dispatch", "adjust", "keep", "recalled", "retire", "retired", "leaveRetired",
   "sweep", "waiting", "leaveWaiting", "watch", "stay", "needed", "quit", "lower",
   "raise", "raised"}

TypeOK ==
  /\ counts \in [maxWorking : Nat, active : Nat, working : Nat, retired : Nat]
  /\ limits \in [min : Nat, max : Nat]
  /\ workerSem \in Nat /\ retiredSem \in Nat /\ pending \in 0..MaxRequests
  /\ gateStatus \in {"notRunning", "waitingForRequest", "requested"}
  /\ todo \in [Thread -> Seq(Steps)]
  /\ found \in [Worker -> BOOLEAN] /\ leftRaised \in BOOLEAN
  /\ requested \in 0..MaxRequests /\ changes \in 0..MaxChanges /\ failures \in 0..MaxFailures
==============================================================================
