----------------------------- MODULE MonitorWait -----------------------------
(***************************************************************************)
(* Object.Wait, Pulse and PulseAll: SyncBlock::Wait/Pulse/PulseAll and     *)
(* ThreadQueue (vm/syncblk.cpp), Thread::Block and PendingSync::Restore    *)
(* (vm/threads.cpp) and the pool of events (vm/eventstore.cpp).            *)
(*                                                                         *)
(* The monitor of a sync block is what module Monitor says (AwareLock      *)
(* implements it): an owner and a number of entries.                       *)
(*                                                                         *)
(* A blocked thread may run other managed code: an alertable wait defers   *)
(* to the SynchronizationContext or pumps messages, and that code may wait *)
(* again.  frames[t] is the stack of Wait calls of a thread.  Each Wait    *)
(* that needs one has its WaitEventLink in its own stack frame, so a link  *)
(* is named by its thread and the depth of that frame.                     *)
(*                                                                         *)
(* Granularity.  The queue of a sync block changes under the lock of the   *)
(* sync block cache, an event by one system call; each such access is an   *)
(* action, except that taking an event, resetting it and enqueuing the     *)
(* link form one (the thread owns the monitor, and a Set that hits the     *)
(* event in between has the effect of one before or after), and so do the  *)
(* removal of a link and the return of its event in Restore.               *)
(***************************************************************************)
EXTENDS Integers, SequencesExt

CONSTANTS Thread, SB,       \* threads and sync blocks
          NoThread, NoSB,
          TimedWaits,       \* the kinds of Wait the clients use: BOOLEAN for both
          PulseAlls,        \* the kinds of Pulse: TRUE for PulseAll
          OwnEvent,         \* Thread::m_EventWait, an event for each thread
          Pool,             \* the CLREvents the event store can come to create
          MaxNesting,       \* bound: Wait calls on the stack of one thread
          MaxEntries,       \* bound: recursion of a monitor
          MaxInterrupts,    \* bound: interrupted waits
          MaxRudeAborts,    \* bound: rude aborts during a Restore
          MaxStoreFailures  \* bound: events the store has no memory to keep

ASSUME MonitorWaitAssumption ==
  /\ NoThread \notin Thread /\ NoSB \notin SB
  /\ TimedWaits \subseteq BOOLEAN /\ PulseAlls \subseteq BOOLEAN
  /\ \A t, u \in Thread : OwnEvent[t] = OwnEvent[u] => t = u
  /\ \A t \in Thread : OwnEvent[t] \notin Pool
  /\ MaxNesting \in Nat \ {0} /\ MaxEntries \in Nat \ {0}
  /\ MaxInterrupts \in Nat /\ MaxRudeAborts \in Nat /\ MaxStoreFailures \in Nat

VARIABLES
  owner, entries,   \* the monitors
  queue,            \* SyncBlock::m_Link: the links that wait, oldest first
  link,             \* the WaitEventLink at each stack position
  chain,            \* Thread::m_WaitEventLink: depths of the links in the list (calls
                    \* return last in, first out, so its order is never read)
  frames,           \* the Wait calls on the stack of each thread
  pulse,            \* the Pulse or PulseAll each thread is in
  signalled,        \* the manual-reset events that are set
  store, created,   \* the event store; the pool events created so far
  interrupts, aborts, storeFailures

monitors == <<owner, entries>>
events   == <<signalled, store, created>>
bounds   == <<interrupts, aborts, storeFailures>>
vars     == <<monitors, queue, link, chain, frames, pulse, events, bounds>>

Event  == {OwnEvent[t] : t \in Thread} \cup Pool
Depth  == 1..MaxNesting
Link   == Thread \X Depth
NoLink == <<>>

\* A Wait call: the depth of the link it uses, PendingSync::m_EnterCount and
\* how far it is.
Frame == [sb : SB, link : Depth, count : Nat, timed : BOOLEAN,
          pc : {"leave", "block", "signalled", "unsignalled", "reenter"}]

TypeOK ==
  /\ owner \in [SB -> Thread \cup {NoThread}] /\ entries \in [SB -> Nat]
  /\ queue \in [SB -> Seq(Link)]
  /\ link \in [Link -> [sb : SB \cup {NoSB}, event : Event, ref : Nat]]
  /\ chain \in [Thread -> SUBSET Depth] /\ frames \in [Thread -> Seq(Frame)]
  /\ pulse \in [Thread -> [at : {"none", "dequeue", "set"}, sb : SB \cup {NoSB},
                           all : BOOLEAN, link : Link \cup {NoLink}]]
  /\ signalled \subseteq Event /\ store \subseteq Pool /\ created \subseteq Pool
  /\ interrupts \in Nat /\ aborts \in Nat /\ storeFailures \in Nat

NoPulse == [at |-> "none", sb |-> NoSB, all |-> FALSE, link |-> NoLink]

\* A stack position that holds no link.
DeadLink(t) == [sb |-> NoSB, event |-> OwnEvent[t], ref |-> 0]

\* CreateManualEvent(TRUE): events are born signalled.
Init ==
  /\ owner = [s \in SB |-> NoThread] /\ entries = [s \in SB |-> 0]
  /\ queue = [s \in SB |-> <<>>]
  /\ link = [l \in Link |-> DeadLink(l[1])]
  /\ chain = [t \in Thread |-> {}] /\ frames = [t \in Thread |-> <<>>]
  /\ pulse = [t \in Thread |-> NoPulse]
  /\ signalled = Event /\ store = {} /\ created = {}
  /\ interrupts = 0 /\ aborts = 0 /\ storeFailures = 0

-----------------------------------------------------------------------------
\* The call whose stack frame holds this link has not returned.
LinkAlive(l) == l[2] <= Len(frames[l[1]])

\* Once a queue, a thread's list or a pulsing thread has a link in a stack frame
\* that is gone, what the program does is undefined and the model ends.
Defined ==
  /\ \A t \in Thread : \A d \in chain[t] : LinkAlive(<<t, d>>)
  /\ \A s \in SB : \A i \in DOMAIN queue[s] : LinkAlive(queue[s][i])
  /\ \A t \in Thread : pulse[t].at = "set" => LinkAlive(pulse[t].link)

Top(t) == frames[t][Len(frames[t])]

InWait(t, where) == frames[t] # <<>> /\ Top(t).pc = where

\* The innermost Wait of the thread can go on from here: no nested code runs.
AtWait(t, where) == InWait(t, where) /\ pulse[t].at = "none" /\ Defined

\* The top frame goes on to another place.
Goto(t, to) == frames' = [frames EXCEPT ![t][Len(frames[t])].pc = to]

\* The link the top frame of a thread waits with.
MyLink(t) == <<t, Top(t).link>>

\* The monitor can be entered by this thread now.
Enterable(t, s) == owner[s] \in {NoThread, t}

\* A thread runs managed code outside of any Wait, or inside one that is
\* blocked (in the event wait, or in the contended entry of Restore).
RunsCode(t) ==
  /\ pulse[t].at = "none"
  /\ \/ frames[t] = <<>>
     \/ /\ Len(frames[t]) < MaxNesting
        /\ \/ InWait(t, "block")
           \/ InWait(t, "reenter") /\ ~Enterable(t, Top(t).sb)
  /\ Defined

\* The entries a thread has on a monitor, with those its Wait calls will restore.
Entries(t, s) ==
  FoldLeft(LAMBDA n, f : IF f.sb = s THEN n + f.count ELSE n, entries[s], frames[t])

Enter(t, s) ==
  /\ Enterable(t, s) /\ RunsCode(t) /\ Entries(t, s) < MaxEntries
  /\ owner' = [owner EXCEPT ![s] = t]
  /\ entries' = [entries EXCEPT ![s] = @ + 1]
  /\ UNCHANGED <<queue, link, chain, frames, pulse, events, bounds>>

Leave(t, s) ==
  /\ owner[s] = t /\ RunsCode(t)
  /\ entries' = [entries EXCEPT ![s] = @ - 1]
  /\ owner' = [owner EXCEPT ![s] = IF entries[s] = 1 THEN NoThread ELSE t]
  /\ UNCHANGED <<queue, link, chain, frames, pulse, events, bounds>>

-----------------------------------------------------------------------------
\* Thread::WaitEventLinkForSyncBlock: the depths at which this thread already
\* waits for the sync block.
AlreadyWaits(t, s) == {d \in chain[t] : link[<<t, d>>].sb = s}

PushFrame(t, s, d, timed) ==
  frames' = [frames EXCEPT ![t] =
    Append(@, [sb |-> s, link |-> d, count |-> 0, timed |-> timed,
               pc |-> "leave"])]

\* Mutant of TakeEvent: the slot of the store is not cleared.
TakeEventKept(e) ==
  \/ e \in store /\ UNCHANGED <<store, created>>
  \/ store = {} /\ e \in Pool \ created /\ created' = created \cup {e} /\ UNCHANGED store

\* GetEventFromEventStore: a stored event, or a new one if there is none.
TakeEvent(e) ==
  \/ e \in store /\ store' = store \ {e} /\ UNCHANGED created
  \/ store = {} /\ e \in Pool \ created /\ created' = created \cup {e} /\ UNCHANGED store

\* SyncBlock::Wait up to the point where the monitor is left: a nested wait on
\* the same sync block shares the link it finds; a first one takes an event
\* (the thread's own for the outermost), resets it and enqueues a new link.
WaitShared(t, s, timed) ==
  /\ owner[s] = t /\ RunsCode(t)
  /\ \E d \in AlreadyWaits(t, s) :
       /\ link' = [link EXCEPT ![<<t, d>>].ref = @ + 1]
       /\ PushFrame(t, s, d, timed)
  /\ UNCHANGED <<monitors, queue, chain, pulse, events, bounds>>

\* Mutant of WaitEnqueue: the event is not reset before the link is enqueued.
WaitEnqueueNoReset(t, s, timed) ==
  LET d == Len(frames[t]) + 1
  IN  /\ owner[s] = t /\ RunsCode(t) /\ AlreadyWaits(t, s) = {}
      /\ \E e \in Event :
           /\ \/ chain[t] = {} /\ e = OwnEvent[t] /\ UNCHANGED <<store, created>>
              \/ chain[t] # {} /\ TakeEvent(e)
           /\ link' = [link EXCEPT ![<<t, d>>] = [sb |-> s, event |-> e, ref |-> 1]]
      /\ chain' = [chain EXCEPT ![t] = @ \cup {d}]
      /\ queue' = [queue EXCEPT ![s] = Append(@, <<t, d>>)]
      /\ PushFrame(t, s, d, timed)
      /\ UNCHANGED <<monitors, pulse, signalled, bounds>>

WaitEnqueue(t, s, timed) ==
  LET d == Len(frames[t]) + 1
  IN  /\ owner[s] = t /\ RunsCode(t) /\ AlreadyWaits(t, s) = {}
      /\ \E e \in Event :
           /\ \/ chain[t] = {} /\ e = OwnEvent[t] /\ UNCHANGED <<store, created>>
              \/ chain[t] # {} /\ TakeEvent(e)
           /\ link' = [link EXCEPT ![<<t, d>>] = [sb |-> s, event |-> e, ref |-> 1]]
           /\ signalled' = signalled \ {e}
      /\ chain' = [chain EXCEPT ![t] = @ \cup {d}]
      /\ queue' = [queue EXCEPT ![s] = Append(@, <<t, d>>)]
      /\ PushFrame(t, s, d, timed)
      /\ UNCHANGED <<monitors, pulse, bounds>>

\* LeaveMonitorCompletely, then Thread::Block.
LeaveMonitorCompletely(t) ==
  LET s == Top(t).sb
  IN  /\ AtWait(t, "leave")
      /\ frames' = [frames EXCEPT ![t][Len(frames[t])] =
                      [@ EXCEPT !.count = entries[s], !.pc = "block"]]
      /\ owner' = [owner EXCEPT ![s] = NoThread]
      /\ entries' = [entries EXCEPT ![s] = 0]
      /\ UNCHANGED <<queue, link, chain, pulse, events, bounds>>

\* The event wait of the innermost call ends; the event stays signalled.
WaitSignalled(t) ==
  /\ AtWait(t, "block")
  /\ link[MyLink(t)].event \in signalled
  /\ Goto(t, "signalled")
  /\ UNCHANGED <<monitors, queue, link, chain, pulse, events, bounds>>

WaitTimedOut(t) ==
  /\ AtWait(t, "block") /\ Top(t).timed
  /\ Goto(t, "unsignalled")
  /\ UNCHANGED <<monitors, queue, link, chain, pulse, events, bounds>>

WaitInterrupted(t) ==
  /\ AtWait(t, "block")
  /\ interrupts < MaxInterrupts
  /\ interrupts' = interrupts + 1
  /\ Goto(t, "unsignalled")
  /\ UNCHANGED <<monitors, queue, link, chain, pulse, events, aborts, storeFailures>>

\* ThreadQueue::RemoveThread: the first link of this thread goes.
RemoveThread(t, q) ==
  LET mine == {i \in DOMAIN q : q[i][1] = t}
  IN  IF mine = {} THEN q
      ELSE RemoveAt(q, CHOOSE i \in mine : \A j \in mine : i <= j)

\* Mutant of Restore: bRemoveFromSB is ignored and the link stays queued.
RestoreQueued(t) ==
  LET l == MyLink(t)
  IN  /\ AtWait(t, "signalled") \/ AtWait(t, "unsignalled")
      /\ link' = [link EXCEPT ![l].ref = @ - 1]
      /\ chain' = [chain EXCEPT ![t] = @ \ {l[2]}]
      /\ Goto(t, "reenter")
      /\ UNCHANGED <<monitors, queue, pulse, events, bounds>>

\* PendingSync::Restore: the last user of a link removes it from the queue
\* (unless the wait was signalled: then the pulsing thread has done so), gives
\* a pool event back and takes the link out of the thread's list.
Restore(t) ==
  LET l == MyLink(t)
      s == link[l].sb
      e == link[l].event
  IN  /\ AtWait(t, "signalled") \/ AtWait(t, "unsignalled")
      /\ link' = [link EXCEPT ![l].ref = @ - 1]
      /\ \/ /\ link[l].ref = 1
            /\ queue' = [queue EXCEPT ![s] =
                           IF Top(t).pc = "signalled" THEN @ ELSE RemoveThread(t, @)]
            /\ store' = IF e = OwnEvent[t] THEN store ELSE store \cup {e}
            /\ chain' = [chain EXCEPT ![t] = @ \ {l[2]}]
         \/ /\ link[l].ref # 1
            /\ UNCHANGED <<queue, store, chain>>
      /\ Goto(t, "reenter")
      /\ UNCHANGED <<monitors, pulse, signalled, created, bounds>>

\* The Wait call is left, and what its stack frame held is gone.
Return(t) ==
  /\ link' = [link EXCEPT ![<<t, Len(frames[t])>>] = DeadLink(t)]
  /\ frames' = [frames EXCEPT ![t] = Front(@)]

\* Restore, when the event store needs a new element and gets no memory for
\* it: the exception leaves Restore, and the Wait, before the link is out of the
\* thread's list and before the monitor is entered again.
RestoreOutOfMemory(t) ==
  LET l == MyLink(t)
      s == link[l].sb
  IN  /\ AtWait(t, "signalled") \/ AtWait(t, "unsignalled")
      /\ link[l].ref = 1 /\ link[l].event # OwnEvent[t]
      /\ storeFailures < MaxStoreFailures
      /\ storeFailures' = storeFailures + 1
      /\ queue' = [queue EXCEPT ![s] =
                     IF Top(t).pc = "signalled" THEN @ ELSE RemoveThread(t, @)]
      /\ Return(t)
      /\ UNCHANGED <<monitors, chain, pulse, events, interrupts, aborts>>

\* Mutant of Reenter: the thread returns without waiting for the monitor.
ReenterAtOnce(t) ==
  LET s == Top(t).sb
  IN  /\ AtWait(t, "reenter")
      /\ owner' = [owner EXCEPT ![s] = t]
      /\ entries' = [entries EXCEPT ![s] = @ + Top(t).count]
      /\ Return(t)
      /\ UNCHANGED <<queue, chain, pulse, events, bounds>>

\* The loop of Restore over EnterMonitorForRestore: interrupts and aborts
\* during it are put off until the monitor is entered as often as before.
\* Then SyncBlock::Wait returns (or the exception goes on).
Reenter(t) ==
  LET s == Top(t).sb
  IN  /\ AtWait(t, "reenter") /\ Enterable(t, s)
      /\ owner' = [owner EXCEPT ![s] = t]
      /\ entries' = [entries EXCEPT ![s] = @ + Top(t).count]
      /\ Return(t)
      /\ UNCHANGED <<queue, chain, pulse, events, bounds>>

\* A rude abort ends that loop without the monitor.
RudeAbort(t) ==
  /\ AtWait(t, "reenter") /\ ~Enterable(t, Top(t).sb)
  /\ aborts < MaxRudeAborts
  /\ aborts' = aborts + 1
  /\ Return(t)
  /\ UNCHANGED <<monitors, queue, chain, pulse, events, interrupts, storeFailures>>

-----------------------------------------------------------------------------
\* SyncBlock::Pulse and PulseAll, called by the owner of the monitor.
BeginPulse(t, s, all) ==
  /\ owner[s] = t /\ RunsCode(t)
  /\ pulse' = [pulse EXCEPT ![t] = [at |-> "dequeue", sb |-> s, all |-> all,
                                    link |-> NoLink]]
  /\ UNCHANGED <<monitors, queue, link, chain, frames, events, bounds>>

\* Mutant of DequeueThread: the whole queue is unlinked with its head.
DequeueAll(t) ==
  LET s == pulse[t].sb
  IN  /\ pulse[t].at = "dequeue" /\ Defined
      /\ \/ /\ queue[s] = <<>>
            /\ pulse' = [pulse EXCEPT ![t] = NoPulse]
            /\ UNCHANGED queue
         \/ /\ queue[s] # <<>>
            /\ pulse' = [pulse EXCEPT ![t].at = "set", ![t].link = Head(queue[s])]
            /\ queue' = [queue EXCEPT ![s] = <<>>]
      /\ UNCHANGED <<monitors, link, chain, frames, events, bounds>>

\* ThreadQueue::DequeueThread under the lock of the cache.
DequeueThread(t) ==
  LET s == pulse[t].sb
  IN  /\ pulse[t].at = "dequeue" /\ Defined
      /\ \/ /\ queue[s] = <<>>
            /\ pulse' = [pulse EXCEPT ![t] = NoPulse]
            /\ UNCHANGED queue
         \/ /\ queue[s] # <<>>
            /\ pulse' = [pulse EXCEPT ![t].at = "set", ![t].link = Head(queue[s])]
            /\ queue' = [queue EXCEPT ![s] = Tail(@)]
      /\ UNCHANGED <<monitors, link, chain, frames, events, bounds>>

\* pWaitEventLink->m_EventWait->Set(), after that lock has been released.
SetEvent(t) ==
  /\ pulse[t].at = "set" /\ Defined
  /\ signalled' = signalled \cup {link[pulse[t].link].event}
  /\ pulse' = [pulse EXCEPT ![t] =
       IF pulse[t].all THEN [@ EXCEPT !.at = "dequeue", !.link = NoLink] ELSE NoPulse]
  /\ UNCHANGED <<monitors, queue, link, chain, frames, store, created, bounds>>

-----------------------------------------------------------------------------
\* What a thread does by itself once it is in a call.
Step(t) ==
  \/ LeaveMonitorCompletely(t) \/ WaitSignalled(t) \/ Restore(t)
  \/ DequeueThread(t) \/ SetEvent(t)

Client(t) ==
  \E s \in SB : \/ Enter(t, s) \/ Leave(t, s)
                \/ \E timed \in TimedWaits : WaitShared(t, s, timed)
                \/ \E timed \in TimedWaits : WaitEnqueue(t, s, timed)
                \/ \E all \in PulseAlls : BeginPulse(t, s, all)

Next ==
  \E t \in Thread : \/ Step(t) \/ Client(t) \/ Reenter(t)
                    \/ WaitTimedOut(t) \/ WaitInterrupted(t) \/ RudeAbort(t)
                    \/ RestoreOutOfMemory(t)

Spec == Init /\ [][Next]_vars
==============================================================================
