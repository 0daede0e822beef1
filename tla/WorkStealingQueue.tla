------------------------- MODULE WorkStealingQueue ---------------------------
(***************************************************************************)
(* The local queue of a thread-pool thread (WorkStealingQueue in           *)
(* ThreadPool.cs): its owner pushes and pops at the tail without a lock    *)
(* when it can, other threads steal at the head under m_foreignLock, and   *)
(* the owner may pull one item out of the middle.  Every access to a field *)
(* another thread may change is a step of its own, in program order; the   *)
(* fields are volatile, and the two exchanges are full fences.             *)
(*                                                                         *)
(* Indices are signed integers of limited width: they run up to MaxIndex,  *)
(* wrap around, and are masked when the tail reaches MaxIndex.  The n-th   *)
(* item pushed is n, and 0 is null.                                        *)
(***************************************************************************)
EXTENDS Integers, FiniteSets

CONSTANTS
  Owner,        \* the thread the queue belongs to
  Thieves,      \* the threads that steal from it
  NoThread,     \* the foreign lock is free
  MaxIndex,     \* int.MaxValue
  InitialSize,  \* INITIAL_SIZE, a power of two
  StartIndices, \* START_INDEX, or where an empty queue has got to
  MaxPushes,    \* bound: items pushed
  MaxFinds      \* bound: calls of LocalFindAndPop

Thread == {Owner} \cup Thieves

\* What the code sees to.
QueueAssumption ==
  /\ Owner \notin Thieves /\ NoThread \notin Thread
  /\ MaxIndex \in Nat /\ InitialSize \in 2..MaxIndex
  /\ (MaxIndex + 1) % InitialSize = 0
  /\ StartIndices \subseteq 0..MaxIndex
  /\ MaxPushes \in Nat /\ MaxFinds \in Nat

VARIABLES
  array,     \* m_array
  mask,      \* m_mask
  head,      \* m_headIndex
  tail,      \* m_tailIndex
  lock,      \* m_foreignLock
  pc,        \* the next step of each thread
  at,        \* its local index: tail in the owner's calls, head in TrySteal
  obj,       \* the item it has read, pushes or looks for
  finds,     \* calls of LocalFindAndPop so far
  pushed,    \* items pushed so far
  takes,     \* how often each item was handed out
  present,   \* per call, what has been queued since it began
  denied     \* items some call reported absent since the last push

vars == <<array, mask, head, tail, lock, pc, at, obj, finds, pushed, takes,
          present, denied>>

Null == 0
Item == 1..MaxPushes

\* Signed arithmetic of the index's width.
Int32(x) == ((x + MaxIndex + 1) % (2 * (MaxIndex + 1))) - (MaxIndex + 1)

\* x & m, for an m of the form 2^k - 1.
And(x, m) == x % (m + 1)

\* The items pushed and not handed out.
Queued == {n \in 1..pushed : takes[n] = 0}

Slot(i) == array[And(i, mask)]

Init ==
  /\ array = [i \in 0..InitialSize - 1 |-> Null]
  /\ mask = InitialSize - 1
  /\ head \in StartIndices /\ tail = head
  /\ lock = NoThread
  /\ pc = [t \in Thread |-> "idle"]
  /\ at = [t \in Thread |-> 0]
  /\ obj = [t \in Thread |-> Null]
  /\ finds = 0
  /\ pushed = 0
  /\ takes = [n \in Item |-> 0]
  /\ present = [t \in Thread |-> {}]
  /\ denied = {}

(* Bookkeeping. *)
Goto(t, l) == pc' = [pc EXCEPT ![t] = l]

History == <<pushed, takes, present, denied>>

\* The call of t returns the item n.
Return(t, n) ==
  /\ takes' = [takes EXCEPT ![n] = @ + 1]
  /\ present' = [present EXCEPT ![t] = {}]
  /\ Goto(t, "idle")

\* The call of t returns null, having missed nothing.
ReturnNull(t) ==
  /\ denied' = denied \cup (present[t] \cap Queued)
  /\ present' = [present EXCEPT ![t] = {}]
  /\ Goto(t, "idle")
------------------------------------------------------------------------------
(***************************************************************************)
(* LocalPush.                                                              *)
(***************************************************************************)
LocalPush ==
  /\ pc[Owner] = "idle" /\ pushed < MaxPushes
  /\ at' = [at EXCEPT ![Owner] = tail]
  /\ Goto(Owner, IF tail = MaxIndex THEN "lockReset" ELSE "room")
  /\ UNCHANGED <<array, mask, head, tail, lock, obj, finds, History>>

LockReset ==
  /\ pc[Owner] = "lockReset" /\ lock = NoThread
  /\ lock' = Owner
  /\ Goto(Owner, "resetHead")
  /\ UNCHANGED <<array, mask, head, tail, at, obj, finds, History>>

ResetHead ==
  /\ pc[Owner] = "resetHead"
  /\ head' = And(head, mask)
  /\ Goto(Owner, "resetTail")
  /\ UNCHANGED <<array, mask, tail, lock, at, obj, finds, History>>

ResetTail ==
  /\ pc[Owner] = "resetTail"
  /\ tail' = And(tail, mask)
  /\ at' = [at EXCEPT ![Owner] = And(tail, mask)]
  /\ lock' = NoThread
  /\ Goto(Owner, "room")
  /\ UNCHANGED <<array, mask, head, obj, finds, History>>

\* Two free slots: no thief can be where the item goes.
Room ==
  /\ pc[Owner] = "room"
  /\ Goto(Owner, IF at[Owner] < Int32(head + mask) THEN "store" ELSE "lockGrow")
  /\ UNCHANGED <<array, mask, head, tail, lock, at, obj, finds, History>>

Store ==
  /\ pc[Owner] = "store"
  /\ array' = [array EXCEPT ![And(at[Owner], mask)] = pushed + 1]
  /\ Goto(Owner, "publish")
  /\ UNCHANGED <<mask, head, tail, lock, at, obj, finds, History>>

\* The caller goes on to announce the queue (Enqueue), so what was reported
\* absent before is looked for again.
Publish ==
  /\ pc[Owner] = "publish"
  /\ tail' = at[Owner] + 1
  /\ pushed' = pushed + 1
  /\ lock' = IF lock = Owner THEN NoThread ELSE lock
  /\ present' = [t \in Thread |-> {}]
  /\ denied' = {}
  /\ Goto(Owner, "idle")
  /\ UNCHANGED <<array, mask, head, at, obj, finds, takes>>

LockGrow ==
  /\ pc[Owner] = "lockGrow" /\ lock = NoThread
  /\ lock' = Owner
  /\ Goto(Owner, "grow")
  /\ UNCHANGED <<array, mask, head, tail, at, obj, finds, History>>

\* Full: double the array, with the items moved to its start.
Grow ==
  LET count == Int32(tail - head) IN
  /\ pc[Owner] = "grow"
  /\ IF count >= mask
       THEN /\ array' = [i \in 0..2 * mask + 1 |->
                           IF i <= mask THEN Slot(i + head) ELSE Null]
            /\ mask' = 2 * mask + 1
            /\ head' = 0 /\ tail' = count
            /\ at' = [at EXCEPT ![Owner] = count]
       ELSE UNCHANGED <<array, mask, head, tail, at>>
  /\ Goto(Owner, "store")
  /\ UNCHANGED <<lock, obj, finds, History>>
------------------------------------------------------------------------------
(***************************************************************************)
(* LocalPop and LocalPopCore.                                              *)
(***************************************************************************)
\* Nothing to pop, or LocalPopCore.
LocalPop ==
  /\ pc[Owner] = "idle"
  /\ IF head < tail
       THEN /\ present' = [present EXCEPT ![Owner] = Queued]
            /\ Goto(Owner, "pop")
            /\ UNCHANGED denied
       ELSE denied' = denied \cup Queued /\ UNCHANGED <<present, pc>>
  /\ UNCHANGED <<array, mask, head, tail, lock, at, obj, finds, pushed, takes>>

\* Decrement the tail, unless there is nothing below it.
LocalPopCore ==
  /\ pc[Owner] = "pop"
  /\ IF head >= tail
       THEN ReturnNull(Owner) /\ UNCHANGED at
       ELSE /\ at' = [at EXCEPT ![Owner] = tail - 1]
            /\ Goto(Owner, "exchange")
            /\ UNCHANGED <<present, denied>>
  /\ UNCHANGED <<array, mask, head, tail, lock, obj, finds, pushed, takes>>

Exchange ==
  /\ pc[Owner] = "exchange"
  /\ tail' = at[Owner]
  /\ Goto(Owner, "compare")
  /\ UNCHANGED <<array, mask, head, lock, at, obj, finds, History>>

\* Mutant of Compare: off by one, the slot of a thief looks free.
CompareLoosely ==
  /\ pc[Owner] = "compare"
  /\ Goto(Owner, IF head <= at[Owner] + 1 THEN "read" ELSE "lockPop")
  /\ UNCHANGED <<array, mask, head, tail, lock, at, obj, finds, History>>

\* Without a thief in the way the item is the owner's.
Compare ==
  /\ pc[Owner] = "compare"
  /\ Goto(Owner, IF head <= at[Owner] THEN "read" ELSE "lockPop")
  /\ UNCHANGED <<array, mask, head, tail, lock, at, obj, finds, History>>

\* A null was left by LocalFindAndPop: try the next one.
Read ==
  /\ pc[Owner] = "read"
  /\ obj' = [obj EXCEPT ![Owner] = Slot(at[Owner])]
  /\ Goto(Owner, IF Slot(at[Owner]) = Null THEN "pop" ELSE "clear")
  /\ lock' = IF lock = Owner /\ Slot(at[Owner]) = Null THEN NoThread ELSE lock
  /\ UNCHANGED <<array, mask, head, tail, at, finds, History>>

Clear ==
  /\ pc[Owner] = "clear"
  /\ array' = [array EXCEPT ![And(at[Owner], mask)] = Null]
  /\ lock' = IF lock = Owner THEN NoThread ELSE lock
  /\ Return(Owner, obj[Owner])
  /\ UNCHANGED <<mask, head, tail, at, obj, finds, pushed, denied>>

LockPop ==
  /\ pc[Owner] = "lockPop" /\ lock = NoThread
  /\ lock' = Owner
  /\ Goto(Owner, "recheck")
  /\ UNCHANGED <<array, mask, head, tail, at, obj, finds, History>>

\* Mutant of Recheck: the tail is not put back.
RecheckKeepsTail ==
  /\ pc[Owner] = "recheck"
  /\ IF head <= at[Owner]
       THEN Goto(Owner, "read") /\ UNCHANGED <<lock, present, denied>>
       ELSE lock' = NoThread /\ ReturnNull(Owner)
  /\ UNCHANGED <<array, mask, head, tail, at, obj, finds, pushed, takes>>

\* Under the lock the race is decided: the item is still there, or stolen.
Recheck ==
  /\ pc[Owner] = "recheck"
  /\ IF head <= at[Owner]
       THEN /\ Goto(Owner, "read")
            /\ UNCHANGED <<tail, lock, present, denied>>
       ELSE /\ tail' = at[Owner] + 1
            /\ lock' = NoThread
            /\ ReturnNull(Owner)
  /\ UNCHANGED <<array, mask, head, at, obj, finds, pushed, takes>>
------------------------------------------------------------------------------
(***************************************************************************)
(* LocalFindAndPop: pop the item at the tail, or take it from the middle.  *)
(***************************************************************************)
LocalFindAndPop(n) ==
  /\ pc[Owner] = "idle" /\ finds < MaxFinds
  /\ finds' = finds + 1
  /\ obj' = [obj EXCEPT ![Owner] = n]
  /\ IF Slot(tail - 1) = n
       THEN IF head < tail
              THEN Goto(Owner, "pop") /\ UNCHANGED at
              ELSE UNCHANGED <<pc, at>>
       ELSE /\ at' = [at EXCEPT ![Owner] = tail - 2]
            /\ Goto(Owner, "search")
  /\ present' = [present EXCEPT ![Owner] = {}]
  /\ UNCHANGED <<array, mask, head, tail, lock, pushed, takes, denied>>

Search ==
  /\ pc[Owner] = "search"
  /\ IF at[Owner] < head
       THEN Goto(Owner, "idle") /\ UNCHANGED at
       ELSE IF Slot(at[Owner]) = obj[Owner]
              THEN Goto(Owner, "lockFound") /\ UNCHANGED at
              ELSE at' = [at EXCEPT ![Owner] = Int32(@ - 1)] /\ UNCHANGED pc
  /\ UNCHANGED <<array, mask, head, tail, lock, obj, finds, History>>

LockFound ==
  /\ pc[Owner] = "lockFound" /\ lock = NoThread
  /\ lock' = Owner
  /\ Goto(Owner, "found")
  /\ UNCHANGED <<array, mask, head, tail, at, obj, finds, History>>

\* A thief was faster, or the item is taken out and an index moved past it.
Found ==
  /\ pc[Owner] = "found"
  /\ IF Slot(at[Owner]) = Null
       THEN /\ Goto(Owner, "idle")
            /\ UNCHANGED <<array, head, tail, takes, present>>
       ELSE /\ array' = [array EXCEPT ![And(at[Owner], mask)] = Null]
            /\ tail' = IF at[Owner] = tail THEN tail - 1 ELSE tail
            /\ head' = IF at[Owner] # tail /\ at[Owner] = head THEN head + 1 ELSE head
            /\ Return(Owner, obj[Owner])
  /\ lock' = NoThread
  /\ UNCHANGED <<mask, at, obj, finds, pushed, denied>>
------------------------------------------------------------------------------
(***************************************************************************)
(* TrySteal.                                                               *)
(***************************************************************************)
TrySteal(t) ==
  /\ pc[t] = "idle"
  /\ pushed < MaxPushes \/ head < tail
  /\ present' = [present EXCEPT ![t] = Queued]
  /\ Goto(t, "canSteal")
  /\ UNCHANGED <<array, mask, head, tail, lock, at, obj, finds, pushed, takes,
                 denied>>

CanSteal(t) ==
  /\ pc[t] = "canSteal"
  /\ at' = [at EXCEPT ![t] = head]
  /\ Goto(t, "canStealTail")
  /\ UNCHANGED <<array, mask, head, tail, lock, obj, finds, History>>

\* Mutant of CanStealTail: off by one, the last item looks gone.
CanStealTailShort(t) ==
  /\ pc[t] = "canStealTail"
  /\ IF at[t] + 1 < tail
       THEN Goto(t, "tryEnter") /\ UNCHANGED <<present, denied>>
       ELSE ReturnNull(t)
  /\ UNCHANGED <<array, mask, head, tail, lock, at, obj, finds, pushed, takes>>

CanStealTail(t) ==
  /\ pc[t] = "canStealTail"
  /\ IF at[t] < tail
       THEN Goto(t, "tryEnter") /\ UNCHANGED <<present, denied>>
       ELSE ReturnNull(t)
  /\ UNCHANGED <<array, mask, head, tail, lock, at, obj, finds, pushed, takes>>

\* When the lock is taken, or the owner got there first, the steal is missed.
Miss(t) ==
  /\ present' = [present EXCEPT ![t] = {}]
  /\ Goto(t, "idle")

TryEnter(t) ==
  /\ pc[t] = "tryEnter"
  /\ IF lock = NoThread
       THEN lock' = t /\ Goto(t, "advance") /\ UNCHANGED present
       ELSE Miss(t) /\ UNCHANGED lock
  /\ UNCHANGED <<array, mask, head, tail, at, obj, finds, pushed, takes, denied>>

Advance(t) ==
  /\ pc[t] = "advance"
  /\ at' = [at EXCEPT ![t] = head]
  /\ head' = Int32(head + 1)
  /\ Goto(t, "claim")
  /\ UNCHANGED <<array, mask, tail, lock, obj, finds, pushed, takes, present, denied>>

Claim(t) ==
  /\ pc[t] = "claim"
  /\ IF at[t] < tail
       THEN Goto(t, "steal") /\ UNCHANGED <<head, lock, present>>
       ELSE head' = at[t] /\ lock' = NoThread /\ Miss(t)
  /\ UNCHANGED <<array, mask, tail, at, obj, finds, pushed, takes, denied>>

\* A null was left by LocalFindAndPop: unlock and try the next one.
Steal(t) ==
  /\ pc[t] = "steal"
  /\ obj' = [obj EXCEPT ![t] = Slot(at[t])]
  /\ Goto(t, IF Slot(at[t]) = Null THEN "canSteal" ELSE "stolen")
  /\ lock' = IF Slot(at[t]) = Null THEN NoThread ELSE lock
  /\ UNCHANGED <<array, mask, head, tail, at, finds, History>>

Stolen(t) ==
  /\ pc[t] = "stolen"
  /\ array' = [array EXCEPT ![And(at[t], mask)] = Null]
  /\ lock' = NoThread
  /\ Return(t, obj[t])
  /\ UNCHANGED <<mask, head, tail, at, obj, finds, pushed, denied>>
------------------------------------------------------------------------------
OwnerStep ==
  \/ LocalPush \/ LockReset \/ ResetHead \/ ResetTail \/ Room \/ Store \/ Publish
  \/ LockGrow \/ Grow
  \/ LocalPop \/ LocalPopCore \/ Exchange \/ Compare \/ Read \/ Clear
  \/ LockPop \/ Recheck
  \/ \E n \in 1..pushed : LocalFindAndPop(n)
  \/ Search \/ LockFound \/ Found

ThiefStep(t) ==
  \/ TrySteal(t) \/ CanSteal(t) \/ CanStealTail(t) \/ TryEnter(t)
  \/ Advance(t) \/ Claim(t) \/ Steal(t) \/ Stolen(t)

Next == OwnerStep \/ \E t \in Thieves : ThiefStep(t)

Spec == Init /\ [][Next]_vars

TypeOK ==
  /\ mask \in Nat /\ array \in [0..mask -> Item \cup {Null}]
  /\ {head, tail} \subseteq -(MaxIndex + 1)..MaxIndex
  /\ lock \in Thread \cup {NoThread}
  /\ pc \in [Thread -> {"idle", "lockReset", "resetHead", "resetTail", "room",
       "store", "publish", "lockGrow", "grow", "pop", "exchange", "compare", "read",
       "clear", "lockPop", "recheck", "search", "lockFound", "found", "canSteal",
       "canStealTail", "tryEnter", "advance", "claim", "steal", "stolen"}]
  /\ at \in [Thread -> -(MaxIndex + 1)..MaxIndex]
  /\ obj \in [Thread -> Item \cup {Null}]
  /\ finds \in 0..MaxFinds /\ pushed \in 0..MaxPushes
  /\ takes \in [Item -> Nat]
  /\ present \in [Thread -> SUBSET Item] /\ denied \subseteq Item
==============================================================================
