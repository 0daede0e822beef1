------------------------------ MODULE ObjHeader ------------------------------
(***************************************************************************)
(* The monitor and the hash code of one object: the header word            *)
(* (ObjHeader::m_SyncBlockValue), the sync block it grows into when the    *)
(* word is too small (ObjHeader::GetSyncBlock) and shrinks back from in a  *)
(* garbage collection (SyncBlockCache::GCWeakPtrScanElement).              *)
(*                                                                         *)
(* Granularity.  A load of the header word and the compare-exchange that   *)
(* depends on it are one action (a failed exchange goes round again, in    *)
(* the JIT helper it counts as contention), and so is each other access    *)
(* to the word.  The AwareLock of the sync block                           *)
(* is entered and left in one action, as module Monitor says; from module  *)
(* AwareLock come the rule that newcomers do not overtake counted waiters, *)
(* the pins and the counts the garbage collector looks at.                 *)
(*                                                                         *)
(* A garbage collection happens only while every thread is in preemptive   *)
(* mode or at a safe point.                                                *)
(***************************************************************************)
EXTENDS Integers

CONSTANTS Thread, NoThread,
          LargeId,           \* threads whose id exceeds SBLK_MASK_LOCK_THREADID
          MaxThinRecursion,  \* SBLK_MASK_LOCK_RECLEVEL, as a number of levels
          Hash, NoHash,      \* hash codes; 0
          NoBlock,           \* NULL
          MaxEntries         \* bound: entries of one thread

\* What the code sees to.
ObjHeaderAssumption ==
  /\ NoThread \notin Thread /\ NoHash \notin Hash
  /\ LargeId \subseteq Thread
  /\ MaxThinRecursion \in Nat /\ MaxEntries \in Nat \ {0}

VARIABLES
  header,     \* the word: its layout, the spin lock bit and its fields
  block,      \* the sync block in the table entry of the object
  cacheLock,  \* the holder of the lock of the SyncBlockCache
  pc, call,   \* where each thread is, and in which operation
  saved,      \* PendingSync::m_EnterCount of each thread
  hashes      \* history: the hash codes returned so far

vars == <<header, block, cacheLock, pc, call, saved, hashes>>

Calls == {"none", "Enter", "TryEnter", "Contention", "GetHashCode", "Wait", "Pulse"}

\* Inside GetSyncBlock.
Getting == {"get", "spinLock", "transfer", "setIndex", "unspin", "unlock"}

\* Where a thread has a pointer to the sync block.
Using == {"got", "hashPrecious", "queued", "spinning", "wait", "leaving",
          "waiting", "restore"}

PCs == {"idle", "helper", "slow", "hash"} \cup Getting \cup Using

\* Where the garbage collector may find a thread.
Safe == {"idle", "slow", "spinning", "wait", "leaving", "waiting", "restore"}

Block == [held : BOOLEAN, waiters : Int, thread : Thread \cup {NoThread},
          recursion : Nat, hash : Hash \cup {NoHash}, precious : BOOLEAN,
          transient : Int]

TypeOK ==
  /\ header \in [layout : {"thin", "hash", "index"}, spin : BOOLEAN,
                 thread : Thread \cup {NoThread}, level : 0..MaxThinRecursion,
                 hash : Hash \cup {NoHash}]
  /\ block \in Block \cup {NoBlock}
  /\ cacheLock \in Thread \cup {NoThread}
  /\ pc \in [Thread -> PCs] /\ call \in [Thread -> Calls]
  /\ saved \in [Thread -> Nat] /\ hashes \subseteq Hash

\* A header without lock, hash code or index.
EmptyHeader == [layout |-> "thin", spin |-> FALSE, thread |-> NoThread,
                level |-> 0, hash |-> NoHash]

EmptyBlock == [held |-> FALSE, waiters |-> 0, thread |-> NoThread, recursion |-> 0,
               hash |-> NoHash, precious |-> FALSE, transient |-> 0]

Init ==
  /\ header = EmptyHeader /\ block = NoBlock /\ cacheLock = NoThread
  /\ pc = [t \in Thread |-> "idle"] /\ call = [t \in Thread |-> "none"]
  /\ saved = [t \in Thread |-> 0] /\ hashes = {}

-----------------------------------------------------------------------------
Goto(t, from, to) == pc[t] = from /\ pc' = [pc EXCEPT ![t] = to]

Return(t, from) == Goto(t, from, "idle") /\ call' = [call EXCEPT ![t] = "none"]

\* The owner and its entries, wherever they are kept.
owner == CASE header.layout = "thin"  -> header.thread
           [] header.layout = "hash"  -> NoThread
           [] header.layout = "index" -> block.thread

count == CASE header.layout = "index" -> block.recursion
           [] OTHER -> IF owner = NoThread THEN 0 ELSE header.level + 1

\* AwareLock: what entering by this thread makes of the sync block's monitor.
WordIsZero == ~block.held /\ block.waiters = 0

TakeFree(t) == WordIsZero /\ block' = [block EXCEPT !.held = TRUE, !.thread = t, !.recursion = 1]

Recurse(t) == block.thread = t /\ block' = [block EXCEPT !.recursion = @ + 1]

Refused(t) == ~WordIsZero /\ block.thread # t

-----------------------------------------------------------------------------
\* The entry points: Monitor.Enter and TryEnter (JIT_MonEnterWorker and
\* JIT_MonTryEnter: at once into the framed helper when a GC is pending), and
\* the operations that start with GetSyncBlock or with the header's hash code.
Begin(t, op) ==
  /\ pc[t] = "idle"
  /\ op \in {"Enter", "TryEnter"} /\ owner = t => count < MaxEntries
  /\ call' = [call EXCEPT ![t] = op]
  /\ \/ op \in {"Enter", "TryEnter"} /\ (Goto(t, "idle", "helper") \/ Goto(t, "idle", "slow"))
     \/ op \in {"Wait", "Pulse"} /\ Goto(t, "idle", "get")
     \/ op = "GetHashCode" /\ Goto(t, "idle", "hash")
  /\ UNCHANGED <<header, block, cacheLock, saved, hashes>>

\* Mutant of HelperEntered: the recursion level may overflow.
HelperEnteredUnchecked(t) ==
  /\ Return(t, "helper")
  /\ \/ /\ header.layout = "thin" /\ ~header.spin /\ header.thread = NoThread
        /\ t \notin LargeId
        /\ header' = [header EXCEPT !.thread = t]
        /\ UNCHANGED block
     \/ /\ header.layout = "thin" /\ ~header.spin /\ header.thread = t
        /\ header' = [header EXCEPT !.level = @ + 1]
        /\ UNCHANGED block
     \/ /\ header.layout = "index"
        /\ TakeFree(t) \/ Recurse(t)
        /\ UNCHANGED header
  /\ UNCHANGED <<cacheLock, saved, hashes>>

\* EnterObjMonitorHelper enters: a free thin lock, a thin lock of its own, or
\* the monitor of the sync block.
HelperEntered(t) ==
  /\ Return(t, "helper")
  /\ \/ /\ header.layout = "thin" /\ ~header.spin /\ header.thread = NoThread
        /\ t \notin LargeId
        /\ header' = [header EXCEPT !.thread = t]
        /\ UNCHANGED block
     \/ /\ header.layout = "thin" /\ ~header.spin /\ header.thread = t
        /\ header.level < MaxThinRecursion
        /\ header' = [header EXCEPT !.level = @ + 1]
        /\ UNCHANGED block
     \/ /\ header.layout = "index"
        /\ TakeFree(t) \/ Recurse(t)
        /\ UNCHANGED header
  /\ UNCHANGED <<cacheLock, saved, hashes>>

\* It needs a sync block: for the hash code, the large thread id or the
\* recursion level that would overflow.
NeedsBlock(t) ==
  \/ header.layout = "hash"
  \/ /\ header.layout = "thin" /\ ~header.spin
     /\ \/ header.thread = NoThread /\ t \in LargeId
        \/ header.thread = t /\ header.level = MaxThinRecursion

HelperUseSlowPath(t) ==
  /\ NeedsBlock(t)
  /\ Goto(t, "helper", "slow")
  /\ UNCHANGED <<header, block, cacheLock, call, saved, hashes>>

\* It finds contention: a held lock, the spin lock bit or, as its only
\* exchange can fail when the word has just changed, a lock it could enter.
\* A TryEnter without timeout gives up, Enter tries again for a while and then
\* goes the way of JIT_MonContention_Helper.
HelperContention(t) ==
  /\ pc[t] = "helper"
  /\ \/ header.layout = "thin" /\ ~NeedsBlock(t)
     \/ header.layout = "index" /\ Refused(t)
  /\ \/ call[t] = "TryEnter" /\ Return(t, "helper")
     \/ call[t] = "Enter" /\ Goto(t, "helper", "get")
        /\ call' = [call EXCEPT ![t] = "Contention"]
  /\ UNCHANGED <<header, block, cacheLock, saved, hashes>>

\* JIT_MonEnter_Helper, JIT_MonTryEnter_Helper: a safe point, then EnterObjMonitor.
SlowPath(t) ==
  /\ Goto(t, "slow", "get")
  /\ UNCHANGED <<header, block, cacheLock, call, saved, hashes>>

-----------------------------------------------------------------------------
\* GetSyncBlock finds the sync block, with or without the lock of the cache.
PassiveGetSyncBlock(t) ==
  /\ header.layout = "index"
  /\ Goto(t, "get", "got")
  /\ UNCHANGED <<header, block, cacheLock, call, saved, hashes>>

\* It takes that lock, still finds none and gets memory and a table slot ...
NewSyncBlock(t) ==
  /\ header.layout # "index" /\ cacheLock = NoThread
  /\ cacheLock' = t
  /\ Goto(t, "get", "spinLock")
  /\ UNCHANGED <<header, block, call, saved, hashes>>

\* ... or cannot, gives the lock back and throws.
NewSyncBlockOutOfMemory(t) ==
  /\ header.layout # "index" /\ cacheLock = NoThread
  /\ Return(t, "get")
  /\ UNCHANGED <<header, block, cacheLock, saved, hashes>>

EnterSpinLock(t) ==
  /\ ~header.spin
  /\ header' = [header EXCEPT !.spin = TRUE]
  /\ Goto(t, "spinLock", "transfer")
  /\ UNCHANGED <<block, cacheLock, call, saved, hashes>>

\* Mutant of Transfer: InitState is left out.
TransferNotHeld(t) ==
  /\ Goto(t, "transfer", "setIndex")
  /\ block' = CASE header.layout = "thin" /\ header.thread # NoThread ->
                     [EmptyBlock EXCEPT !.thread = header.thread,
                                        !.recursion = header.level + 1]
                [] header.layout = "hash" ->
                     [EmptyBlock EXCEPT !.hash = header.hash, !.precious = TRUE]
                [] OTHER -> EmptyBlock
  /\ UNCHANGED <<header, cacheLock, call, saved, hashes>>

\* Lock or hash code move to the new sync block (InitState, SetAwareLock,
\* SetHashCode), which is then put into the table.
Transfer(t) ==
  /\ Goto(t, "transfer", "setIndex")
  /\ block' = CASE header.layout = "thin" /\ header.thread # NoThread ->
                     [EmptyBlock EXCEPT !.held = TRUE, !.thread = header.thread,
                                        !.recursion = header.level + 1]
                [] header.layout = "hash" ->
                     [EmptyBlock EXCEPT !.hash = header.hash, !.precious = TRUE]
                [] OTHER -> EmptyBlock
  /\ UNCHANGED <<header, cacheLock, call, saved, hashes>>

\* SetIndex overwrites lock and hash code and keeps the spin lock bit.
SetIndex(t) ==
  /\ Goto(t, "setIndex", "unspin")
  /\ header' = [EmptyHeader EXCEPT !.layout = "index", !.spin = header.spin]
  /\ UNCHANGED <<block, cacheLock, call, saved, hashes>>

ReleaseSpinLock(t) ==
  /\ Goto(t, "unspin", "unlock")
  /\ header' = [header EXCEPT !.spin = FALSE]
  /\ UNCHANGED <<block, cacheLock, call, saved, hashes>>

ReleaseCacheLock(t) ==
  /\ Goto(t, "unlock", "got")
  /\ cacheLock' = NoThread
  /\ UNCHANGED <<header, block, call, saved, hashes>>

-----------------------------------------------------------------------------
\* AwareLock::Enter, also for the restore of a Wait: at once, or counted as a
\* waiter.
BlockEnter(t) ==
  /\ pc[t] = "got" /\ call[t] = "Enter"
  /\ \/ (TakeFree(t) \/ Recurse(t)) /\ Return(t, "got")
     \/ /\ Refused(t)
        /\ block' = [block EXCEPT !.waiters = @ + 1]
        /\ Goto(t, "got", "queued") /\ UNCHANGED call
  /\ UNCHANGED <<header, cacheLock, saved, hashes>>

BlockTryEnter(t) ==
  /\ pc[t] = "got" /\ call[t] = "TryEnter"
  /\ TakeFree(t) \/ Recurse(t) \/ (Refused(t) /\ UNCHANGED block)
  /\ Return(t, "got")
  /\ UNCHANGED <<header, cacheLock, saved, hashes>>

\* EnterEpilogHelper pins the sync block, makes it precious for the event it
\* creates and waits in preemptive mode.
EnterEpilog(t) ==
  /\ Goto(t, "queued", "wait")
  /\ block' = [block EXCEPT !.transient = @ + 1, !.precious = TRUE]
  /\ UNCHANGED <<header, cacheLock, call, saved, hashes>>

\* It takes the free lock, leaves the waiters and unpins.
WaiterEnters(t) ==
  /\ pc[t] = "wait" /\ ~block.held
  /\ block' = [block EXCEPT !.held = TRUE, !.thread = t, !.recursion = 1,
                            !.waiters = @ - 1, !.transient = @ - 1]
  /\ \/ call[t] = "Enter" /\ Return(t, "wait") /\ UNCHANGED saved
     \/ call[t] = "Wait" /\ Goto(t, "wait", "restore")
        /\ saved' = [saved EXCEPT ![t] = @ - 1] /\ UNCHANGED call
  /\ UNCHANGED <<header, cacheLock, hashes>>

\* AwareLock::Contention: pin, spin in preemptive mode, unpin; then Enter.
Contention(t) ==
  /\ pc[t] = "got" /\ call[t] = "Contention"
  /\ block' = [block EXCEPT !.transient = @ + 1]
  /\ Goto(t, "got", "spinning")
  /\ UNCHANGED <<header, cacheLock, call, saved, hashes>>

SpinEnters(t) ==
  /\ pc[t] = "spinning" /\ WordIsZero
  /\ block' = [block EXCEPT !.held = TRUE, !.thread = t, !.recursion = 1, !.transient = @ - 1]
  /\ Return(t, "spinning")
  /\ UNCHANGED <<header, cacheLock, saved, hashes>>

SpinEnds(t) ==
  /\ Goto(t, "spinning", "got")
  /\ block' = [block EXCEPT !.transient = @ - 1]
  /\ call' = [call EXCEPT ![t] = "Enter"]
  /\ UNCHANGED <<header, cacheLock, saved, hashes>>

\* Mutant of LeaveObjMonitor: the spin lock bit is not looked at.
LeaveInTransfer(t) ==
  /\ pc[t] = "idle" /\ owner = t
  /\ \/ /\ header.layout = "thin"
        /\ header' = IF header.level > 0 THEN [header EXCEPT !.level = @ - 1]
                     ELSE [header EXCEPT !.thread = NoThread]
        /\ UNCHANGED block
     \/ /\ header.layout = "index"
        /\ block' = IF block.recursion > 1 THEN [block EXCEPT !.recursion = @ - 1]
                    ELSE [block EXCEPT !.recursion = 0, !.thread = NoThread, !.held = FALSE]
        /\ UNCHANGED header
  /\ UNCHANGED <<cacheLock, pc, call, saved, hashes>>

\* LeaveObjMonitor: nothing is left while the spin lock bit is set, and
\* nothing by a thread that is not the owner.
LeaveObjMonitor(t) ==
  /\ pc[t] = "idle" /\ ~header.spin /\ owner = t
  /\ \/ /\ header.layout = "thin"
        /\ header' = IF header.level > 0 THEN [header EXCEPT !.level = @ - 1]
                     ELSE [header EXCEPT !.thread = NoThread]
        /\ UNCHANGED block
     \/ /\ header.layout = "index"
        /\ block' = IF block.recursion > 1 THEN [block EXCEPT !.recursion = @ - 1]
                    ELSE [block EXCEPT !.recursion = 0, !.thread = NoThread, !.held = FALSE]
        /\ UNCHANGED header
  /\ UNCHANGED <<cacheLock, pc, call, saved, hashes>>

-----------------------------------------------------------------------------
\* GetHashCodeEx in the header: the hash code it has, or a new one for a
\* header that is free; a header that is locked needs a sync block first.
HashInHeader(t) ==
  /\ \/ /\ header.layout = "hash"
        /\ hashes' = hashes \cup {header.hash}
        /\ UNCHANGED header
     \/ /\ header.layout = "thin" /\ header.thread = NoThread /\ ~header.spin
        /\ \E h \in Hash : /\ header' = [header EXCEPT !.layout = "hash", !.hash = h]
                           /\ hashes' = hashes \cup {h}
  /\ Return(t, "hash")
  /\ UNCHANGED <<block, cacheLock, saved>>

HashNeedsBlock(t) ==
  /\ header.layout = "index" \/ (header.layout = "thin" /\ header.thread # NoThread)
  /\ Goto(t, "hash", "get")
  /\ UNCHANGED <<header, block, cacheLock, call, saved, hashes>>

\* SyncBlock::SetHashCode: the hash code it has, or a new one; SetPrecious
\* comes after the exchange.
HashInBlock(t) ==
  /\ pc[t] = "got" /\ call[t] = "GetHashCode"
  /\ \/ /\ block.hash # NoHash
        /\ hashes' = hashes \cup {block.hash}
        /\ Return(t, "got")
        /\ UNCHANGED block
     \/ /\ block.hash = NoHash
        /\ \E h \in Hash : block' = [block EXCEPT !.hash = h]
        /\ Goto(t, "got", "hashPrecious")
        /\ UNCHANGED <<call, hashes>>
  /\ UNCHANGED <<header, cacheLock, saved>>

\* Mutant of HashPrecious: SetPrecious is left out.
HashNotPrecious(t) ==
  /\ Return(t, "hashPrecious")
  /\ hashes' = hashes \cup {block.hash}
  /\ UNCHANGED <<header, block, cacheLock, saved>>

HashPrecious(t) ==
  /\ Return(t, "hashPrecious")
  /\ block' = [block EXCEPT !.precious = TRUE]
  /\ hashes' = hashes \cup {block.hash}
  /\ UNCHANGED <<header, cacheLock, saved>>

-----------------------------------------------------------------------------
\* ObjHeader::Wait and Pulse by a thread that is not the owner throw; the rest
\* of Pulse is in module MonitorWait.
WaitOrPulseReturns(t) ==
  /\ pc[t] = "got"
  /\ call[t] = "Pulse" \/ (call[t] = "Wait" /\ block.thread # t)
  /\ Return(t, "got")
  /\ UNCHANGED <<header, block, cacheLock, saved, hashes>>

\* SyncBlock::Wait pins the sync block and leaves the monitor, one level at a
\* time, in preemptive mode.
WaitPins(t) ==
  /\ pc[t] = "got" /\ call[t] = "Wait" /\ block.thread = t
  /\ block' = [block EXCEPT !.transient = @ + 1]
  /\ Goto(t, "got", "leaving")
  /\ UNCHANGED <<header, cacheLock, call, saved, hashes>>

LeaveCompletely(t) ==
  /\ pc[t] = "leaving"
  /\ \/ /\ block.recursion > 1 /\ UNCHANGED pc
        /\ block' = [block EXCEPT !.recursion = @ - 1]
     \/ /\ block.recursion = 1
        /\ Goto(t, "leaving", "waiting")
        /\ block' = [block EXCEPT !.recursion = 0, !.thread = NoThread, !.held = FALSE]
  /\ saved' = [saved EXCEPT ![t] = @ + 1]
  /\ UNCHANGED <<header, cacheLock, call, hashes>>

WaitEnds(t) ==
  /\ Goto(t, "waiting", "restore")
  /\ UNCHANGED <<header, block, cacheLock, call, saved, hashes>>

\* PendingSync::Restore: one entry after the other.
RestoreEnter(t) ==
  /\ pc[t] = "restore" /\ saved[t] > 0
  /\ \/ /\ TakeFree(t) \/ Recurse(t)
        /\ saved' = [saved EXCEPT ![t] = @ - 1]
        /\ UNCHANGED pc
     \/ /\ Refused(t)
        /\ block' = [block EXCEPT !.waiters = @ + 1]
        /\ Goto(t, "restore", "queued")
        /\ UNCHANGED saved
  /\ UNCHANGED <<header, cacheLock, call, hashes>>

WaitReturns(t) ==
  /\ saved[t] = 0
  /\ Return(t, "restore")
  /\ block' = [block EXCEPT !.transient = @ - 1]
  /\ UNCHANGED <<header, cacheLock, saved, hashes>>

-----------------------------------------------------------------------------
\* Mutant of IsIDisposable: m_TransientPrecious is not looked at.
IsIDisposablePinned == ~block.precious /\ ~block.held /\ block.waiters = 0

\* SyncBlock::IsIDisposable.
IsIDisposable == ~block.precious /\ ~block.held /\ block.waiters = 0 /\ block.transient = 0

\* GCWeakPtrScanElement for a live object: a disposable sync block is deleted
\* and the index taken out of the header (GCResetIndex).
GCWeakPtrScan ==
  /\ \A t \in Thread : pc[t] \in Safe
  /\ header.layout = "index" /\ IsIDisposable
  /\ header' = [EmptyHeader EXCEPT !.spin = header.spin]
  /\ block' = NoBlock
  /\ UNCHANGED <<cacheLock, pc, call, saved, hashes>>

-----------------------------------------------------------------------------
\* The steps of a thread inside GetSyncBlock, and inside the other operations.
GetSyncBlock(t) ==
  \/ PassiveGetSyncBlock(t) \/ NewSyncBlock(t) \/ NewSyncBlockOutOfMemory(t)
  \/ EnterSpinLock(t) \/ Transfer(t) \/ SetIndex(t) \/ ReleaseSpinLock(t)
  \/ ReleaseCacheLock(t)

Step(t) ==
  \/ HelperEntered(t) \/ HelperContention(t) \/ HelperUseSlowPath(t) \/ SlowPath(t)
  \/ GetSyncBlock(t)
  \/ BlockEnter(t) \/ BlockTryEnter(t) \/ EnterEpilog(t) \/ WaiterEnters(t)
  \/ Contention(t) \/ SpinEnters(t) \/ SpinEnds(t)
  \/ HashInHeader(t) \/ HashNeedsBlock(t) \/ HashInBlock(t) \/ HashPrecious(t)
  \/ WaitOrPulseReturns(t) \/ WaitPins(t) \/ LeaveCompletely(t)
  \/ RestoreEnter(t) \/ WaitReturns(t)

Client(t) ==
  \/ \E op \in Calls \ {"none", "Contention"} : Begin(t, op)
  \/ LeaveObjMonitor(t) \/ WaitEnds(t)

Next == GCWeakPtrScan \/ \E t \in Thread : Step(t) \/ Client(t)

Spec == Init /\ [][Next]_vars
==============================================================================
