-------------------------- MODULE MonitorWaitProps ---------------------------
(***************************************************************************)
(* What Object.Wait and Pulse guarantee.                                   *)
(***************************************************************************)
EXTENDS MonitorWait

\* The Wait calls of a thread, by depth.
Call(t) == 1..Len(frames[t])

IsQueued(l) == \E s \in SB : l \in Range(queue[s])

\* A pulse that found a waiter is never lost on the way: when the link of a
\* blocked Wait has been dequeued (SyncBlock::Pulse), its event is set or the
\* thread that dequeued it is about to set it; no other Wait's Reset undoes that.
NoLostPulse ==
  \A t \in Thread : \A c \in Call(t) :
    LET l == <<t, frames[t][c].link>>
    IN  frames[t][c].pc \in {"leave", "block"} /\ ~IsQueued(l) =>
          \/ link[l].event \in signalled
          \/ \E u \in Thread : pulse[u].at = "set" /\ pulse[u].link = l

\* A link in the queue of a sync block is the one of a Wait call on it that has
\* not been through Restore, and it is there once: WaitEventLink lives on the
\* stack of SyncBlock::Wait, so any other link would be a dangling pointer.
NoDanglingLink ==
  \A s \in SB :
    /\ IsInjective(queue[s])
    /\ \A l \in Range(queue[s]) :
         \E c \in Call(l[1]) :
           /\ frames[l[1]][c].link = l[2] /\ frames[l[1]][c].sb = s
           /\ frames[l[1]][c].pc \in {"leave", "block", "unsignalled"}

\* The window between DequeueThread and Set in SyncBlock::Pulse: the link the
\* pulsing thread still has to read belongs to a Wait that has not returned,
\* because its Restore must enter the monitor the pulsing thread owns.
PulsedLinkAlive ==
  \A u \in Thread : pulse[u].at = "set" =>
    /\ LinkAlive(pulse[u].link)
    /\ link[pulse[u].link].sb = pulse[u].sb
    /\ owner[pulse[u].sb] = u

\* The event store: an event it holds is used by no link of a thread's list,
\* and two such links have different events, as long as all links are alive
\* (RestoreOutOfMemory leaves one behind that is not).
EventsExclusive ==
  Defined => \A t, u \in Thread : \A d \in chain[t], e \in chain[u] :
    /\ link[<<t, d>>].event \notin store
    /\ link[<<t, d>>].event = link[<<u, e>>].event => t = u /\ d = e

\* The comment of Thread::DoAppropriateWait (threads.cpp:3637) on a wait that
\* ended with WAIT_OBJECT_0: "This thread has been removed from syncblk waiting
\* list by the signalling thread".
RemovedBySignaller ==
  \A t \in Thread : InWait(t, "signalled") => ~IsQueued(MyLink(t))

\* The comment of PendingSync::Restore (threads.cpp:4558): "We need to make sure
\* that the finally from lock is excuted with the lock owned."  A Wait call is
\* left only with its monitor, except by a rude abort.
WaitLeftWithMonitor ==
  [][\A t \in Thread : Len(frames'[t]) < Len(frames[t]) =>
       owner'[Top(t).sb] = t \/ aborts' # aborts]_vars

-----------------------------------------------------------------------------
\* The scheduler runs every thread; an owner leaves its monitors some time; a
\* thread that wants a monitor back gets it when that is free often enough
\* (AwareLock makes newcomers queue behind its waiters).
Fairness ==
  \A t \in Thread : /\ WF_vars(Step(t))
                    /\ SF_vars(Reenter(t) \/ \E s \in SB : Leave(t, s))

FairSpec == Spec /\ Fairness

\* A Wait that has been pulsed returns, with the monitor.
PulsedWaitReturns ==
  \A t \in Thread :
    (InWait(t, "block") /\ ~IsQueued(MyLink(t))) ~> (frames[t] = <<>>)
==============================================================================
