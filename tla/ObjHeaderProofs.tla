--------------------------- MODULE ObjHeaderProofs ---------------------------
(***************************************************************************)
(* The object header keeps its promises for any number of threads, thread  *)
(* ids, hash codes, recursion levels and collections.                      *)
(***************************************************************************)
EXTENDS ObjHeaderProps, FiniteSetTheorems, TLAPS

\* Inside the lock of the cache, and under the spin lock bit.
Inflating == {"spinLock", "transfer", "setIndex", "unspin", "unlock"}
Spinning  == {"transfer", "setIndex", "unspin"}

\* One thread at a time inflates the header.  It has found no sync block, and
\* nobody else makes or takes away one.
OneInflates ==
  /\ \A t \in Thread : cacheLock = t <=> pc[t] \in Inflating
  /\ header.spin <=> \E t \in Thread : pc[t] \in Spinning
  /\ \A t \in Thread : pc[t] \in {"spinLock", "transfer", "setIndex"}
                         => header.layout # "index"
  /\ \A t \in Thread : pc[t] \in {"unspin", "unlock"} => header.layout = "index"

\* The fields of the header word that its layout does not have are empty.
HeaderFields ==
  /\ header.layout # "thin" => header.thread = NoThread /\ header.level = 0
  /\ header.layout = "hash" <=> header.hash # NoHash
  /\ header.thread = NoThread => header.level = 0

\* The monitor of a sync block: bit, thread and recursion agree.
MonitorFields(b) ==
  /\ b.held <=> b.thread # NoThread
  /\ b.thread = NoThread <=> b.recursion = 0

\* What Transfer has put into the sync block is what the header says, until the
\* header is overwritten.
BlockFields ==
  /\ header.layout = "index" => block \in Block /\ MonitorFields(block)
  /\ \A t \in Thread : pc[t] = "setIndex" =>
       /\ block \in Block /\ MonitorFields(block) /\ block.transient = 0
       /\ block.thread = header.thread
       /\ block.thread # NoThread => block.recursion = header.level + 1
       /\ block.hash = header.hash /\ (header.hash # NoHash => block.precious)
  /\ \A t \in Thread : pc[t] = "leaving" => block.thread = t

\* The pins of Contention and Wait, and that of EnterEpilogHelper.
Pinned == {t \in Thread : \/ pc[t] \in {"spinning", "leaving", "waiting", "restore"}
                          \/ pc[t] \in {"queued", "wait"} /\ call[t] = "Wait"}
PinnedToWait == {t \in Thread : pc[t] = "wait"}

\* m_TransientPrecious counts them.
PinsCounted ==
  /\ IsFiniteSet(Pinned) /\ IsFiniteSet(PinnedToWait)
  /\ header.layout = "index" =>
       block.transient = Cardinality(Pinned) + Cardinality(PinnedToWait)

\* The hash code is where the layout says, and a sync block that has it cannot
\* be collected once somebody knows it.
OneHash ==
  /\ header.layout = "thin" => hashes = {}
  /\ header.layout = "hash" => hashes \subseteq {header.hash}
  /\ header.layout = "index" =>
       /\ hashes \subseteq {block.hash}
       /\ block.hash # NoHash => block.precious \/ \E t \in Thread : pc[t] = "hashPrecious"
  /\ \A t \in Thread : pc[t] = "hashPrecious" => block.hash # NoHash

\* Wait, and only Wait, leaves the monitor completely and restores it; somebody
\* who queues in Restore has an entry to get back.
EntriesSaved ==
  \A t \in Thread :
    /\ pc[t] \in {"leaving", "waiting", "restore"} => call[t] = "Wait"
    /\ pc[t] \in {"queued", "wait"} /\ call[t] = "Wait" => saved[t] > 0

WordInv == TypeOK /\ OneInflates /\ HeaderFields /\ BlockFields /\ NoUseAfterDeflation
           /\ OneHash /\ EntriesSaved

HeaderInv == WordInv /\ PinsCounted

-----------------------------------------------------------------------------
\* What a step of t on a sync block's monitor may do to the sync block: hash code
\* and precious bit stay, and so does the monitor of another owner.
MonitorOf(t) ==
  /\ block' \in Block /\ MonitorFields(block')
  /\ block'.hash = block.hash /\ (block.precious => block'.precious)
  /\ block.thread \notin {t, NoThread} => block'.thread = block.thread

\* t works on the monitor of the sync block and on nothing else.
OnlyMonitor(t) ==
  /\ header.layout = "index" /\ UNCHANGED <<header, cacheLock, hashes>>
  /\ MonitorOf(t)
  /\ pc[t] \notin Inflating \cup {"hashPrecious"}
  /\ pc' \in [Thread -> PCs] /\ \A u \in Thread \ {t} : pc'[u] = pc[u]
  /\ pc'[t] \notin Inflating \cup {"hashPrecious"}
  /\ pc'[t] = "leaving" => block'.thread = t

\* A free monitor is taken, whatever happens to the counts of waiters and pins.
LEMMA TakeBlock ==
  ASSUME ObjHeaderAssumption, NEW t \in Thread, block \in Block, MonitorFields(block),
         ~block.held, NEW w \in Int, NEW n \in Int,
         block' = [block EXCEPT !.held = TRUE, !.thread = t, !.recursion = 1,
                                !.waiters = w, !.transient = n]
  PROVE  MonitorOf(t) /\ block'.thread = t
<1>1. /\ block'.held = TRUE /\ block'.thread = t /\ block'.recursion = 1
      /\ block'.hash = block.hash
  BY DEF Block
<1>2. block' \in Block /\ block'.precious = block.precious
  BY DEF Block
<1>3. MonitorFields(block') /\ block.thread = NoThread
  BY <1>1 DEF MonitorFields, ObjHeaderAssumption
<1> QED BY <1>1, <1>2, <1>3 DEF MonitorOf

\* The owner enters the monitor again.
LEMMA RecurseBlock ==
  ASSUME ObjHeaderAssumption, NEW t \in Thread, block \in Block, MonitorFields(block),
         Recurse(t)
  PROVE  MonitorOf(t) /\ block'.thread = t
BY DEF ObjHeaderAssumption, MonitorOf, Block, MonitorFields, Recurse

\* Waiters and pins are counted and the precious bit is set: the lock stays.
LEMMA CountBlock ==
  ASSUME NEW t \in Thread, block \in Block, MonitorFields(block),
         NEW w \in Int, NEW n \in Int, NEW p \in BOOLEAN, block.precious => p,
         block' = [block EXCEPT !.waiters = w, !.transient = n, !.precious = p]
  PROVE  MonitorOf(t) /\ block'.thread = block.thread
<1>1. /\ block'.held = block.held /\ block'.thread = block.thread
      /\ block'.recursion = block.recursion /\ block'.hash = block.hash
      /\ block'.precious = p
  BY DEF Block
<1>2. block' \in Block
  BY DEF Block
<1>3. MonitorFields(block')
  BY <1>1 DEF MonitorFields
<1> QED BY <1>1, <1>2, <1>3 DEF MonitorOf

\* The owner leaves one level, and the monitor with the last.
LEMMA LeaveBlock ==
  ASSUME ObjHeaderAssumption, NEW t \in Thread, block \in Block, MonitorFields(block),
         block.thread = t,
         block' = IF block.recursion > 1 THEN [block EXCEPT !.recursion = @ - 1]
                  ELSE [block EXCEPT !.recursion = 0, !.thread = NoThread, !.held = FALSE]
  PROVE  MonitorOf(t) /\ (block.recursion > 1 => block'.thread = t)
<1>1. CASE block.recursion > 1
  BY <1>1 DEF ObjHeaderAssumption, MonitorOf, Block, MonitorFields
<1>2. CASE ~(block.recursion > 1)
  <2>1. /\ block'.held = FALSE /\ block'.thread = NoThread /\ block'.recursion = 0
        /\ block'.hash = block.hash
    BY <1>2 DEF Block
  <2>2. block' \in Block /\ block'.precious = block.precious
    BY <1>2 DEF Block
  <2>3. MonitorFields(block')
    BY <2>1 DEF MonitorFields
  <2> QED BY <1>2, <2>1, <2>2, <2>3 DEF MonitorOf
<1> QED BY <1>1, <1>2

\* The actions that work on the monitor of the sync block do no more.
LEMMA BlockActions ==
  ASSUME ObjHeaderAssumption, WordInv, NEW t \in Thread,
         \/ BlockEnter(t) \/ BlockTryEnter(t) \/ EnterEpilog(t) \/ WaiterEnters(t)
         \/ Contention(t) \/ SpinEnters(t) \/ SpinEnds(t) \/ WaitPins(t)
         \/ LeaveCompletely(t) \/ RestoreEnter(t) \/ WaitReturns(t)
         \/ HelperEntered(t) /\ header.layout = "index"
         \/ LeaveObjMonitor(t) /\ header.layout = "index"
  PROVE  OnlyMonitor(t)
<1>1. /\ pc \in [Thread -> PCs] /\ call \in [Thread -> Calls]
      /\ header.layout = "index" => block \in Block /\ MonitorFields(block)
      /\ pc[t] = "leaving" => block.thread = t
  BY DEF WordInv, TypeOK, BlockFields
<1>2. header.layout = "index"
  BY <1>1 DEF WordInv, NoUseAfterDeflation, Using, BlockEnter, BlockTryEnter, EnterEpilog,
              WaiterEnters, Contention, SpinEnters, SpinEnds, WaitPins, LeaveCompletely,
              RestoreEnter, WaitReturns, Goto, Return
<1>3. block \in Block /\ MonitorFields(block) /\ block.waiters \in Int /\ block.transient \in Int
      /\ block.recursion \in Nat /\ block.precious \in BOOLEAN
  BY <1>1, <1>2 DEF Block
<1>4. ASSUME TakeFree(t)
      PROVE  MonitorOf(t) /\ block'.thread = t
  <2>1. block' = [block EXCEPT !.held = TRUE, !.thread = t, !.recursion = 1,
                               !.waiters = block.waiters, !.transient = block.transient]
    BY <1>3, <1>4 DEF TakeFree, Block
  <2> QED BY <1>3, <1>4, <2>1, TakeBlock DEF TakeFree, WordIsZero
<1>5. ASSUME Refused(t), block' = [block EXCEPT !.waiters = @ + 1]
      PROVE  MonitorOf(t)
  BY <1>3, <1>5 DEF MonitorOf, Block, MonitorFields
<1>6. MonitorOf(t) /\ (pc'[t] = "leaving" => block'.thread = t)
  <2>1. CASE BlockEnter(t) \/ BlockTryEnter(t) \/ RestoreEnter(t) \/ HelperEntered(t)
    <3>1. \/ TakeFree(t)
          \/ Recurse(t)
          \/ UNCHANGED block
          \/ Refused(t) /\ block' = [block EXCEPT !.waiters = @ + 1]
      BY <1>2, <2>1 DEF BlockEnter, BlockTryEnter, RestoreEnter, HelperEntered
    <3>2. pc'[t] # "leaving"
      BY <1>1, <2>1 DEF BlockEnter, BlockTryEnter, RestoreEnter, HelperEntered, Goto, Return
    <3> QED BY <1>3, <1>4, <1>5, <3>1, <3>2, RecurseBlock DEF MonitorOf
  <2>2. CASE EnterEpilog(t)
    <3>1. block' = [block EXCEPT !.waiters = block.waiters, !.transient = block.transient + 1,
                                 !.precious = TRUE]
      BY <1>3, <2>2 DEF EnterEpilog, Block
    <3>2. block.transient + 1 \in Int
      BY <1>3
    <3>3. MonitorOf(t)
      BY <1>3, <3>1, <3>2, CountBlock, Zenon
    <3> QED BY <1>1, <2>2, <3>3 DEF EnterEpilog, Goto
  <2>3. CASE WaiterEnters(t)
    <3>1. ~block.held /\ block' = [block EXCEPT !.held = TRUE, !.thread = t, !.recursion = 1,
                           !.waiters = block.waiters - 1, !.transient = block.transient - 1]
      BY <2>3 DEF WaiterEnters
    <3>2. block.waiters - 1 \in Int /\ block.transient - 1 \in Int
      BY <1>3
    <3> QED BY <1>3, <3>1, <3>2, TakeBlock, Zenon
  <2>4. CASE SpinEnters(t)
    <3>1. ~block.held /\ block' = [block EXCEPT !.held = TRUE, !.thread = t, !.recursion = 1,
                           !.waiters = block.waiters, !.transient = block.transient - 1]
      BY <1>3, <2>4 DEF SpinEnters, WordIsZero, Block
    <3>2. block.transient - 1 \in Int
      BY <1>3
    <3> QED BY <1>3, <3>1, <3>2, TakeBlock, Zenon
  <2>5. CASE Contention(t) \/ SpinEnds(t) \/ WaitPins(t) \/ WaitReturns(t)
    BY <1>1, <1>3, <2>5 DEF Contention, SpinEnds, WaitPins, WaitReturns, Goto, Return,
                            MonitorOf, Block, MonitorFields
  <2>6. CASE LeaveCompletely(t)
    <3>1. /\ block.thread = t
          /\ block' = IF block.recursion > 1 THEN [block EXCEPT !.recursion = @ - 1]
                      ELSE [block EXCEPT !.recursion = 0, !.thread = NoThread, !.held = FALSE]
      BY <1>1, <1>3, <2>6 DEF LeaveCompletely
    <3>2. pc'[t] = "leaving" => block.recursion > 1
      BY <1>1, <2>6 DEF LeaveCompletely, Goto
    <3> QED BY <1>3, <3>1, <3>2, LeaveBlock
  <2>7. CASE LeaveObjMonitor(t)
    <3>1. /\ block.thread = t /\ pc' = pc /\ pc[t] # "leaving"
          /\ block' = IF block.recursion > 1 THEN [block EXCEPT !.recursion = @ - 1]
                      ELSE [block EXCEPT !.recursion = 0, !.thread = NoThread, !.held = FALSE]
      BY <1>2, <2>7 DEF LeaveObjMonitor, owner
    <3> QED BY <1>3, <3>1, LeaveBlock
  <2> QED BY <2>1, <2>2, <2>3, <2>4, <2>5, <2>6, <2>7
<1>7. /\ UNCHANGED <<header, cacheLock, hashes>>
      /\ pc[t] \notin Inflating \cup {"hashPrecious"}
      /\ pc'[t] \notin Inflating \cup {"hashPrecious"}
      /\ pc' \in [Thread -> PCs] /\ \A u \in Thread \ {t} : pc'[u] = pc[u]
  BY <1>1, <1>2 DEF BlockEnter, BlockTryEnter, EnterEpilog, WaiterEnters, Contention,
     SpinEnters,
       SpinEnds, WaitPins, LeaveCompletely, RestoreEnter, WaitReturns, HelperEntered,
       LeaveObjMonitor, Goto, Return, PCs, Getting, Using, Inflating
<1> QED BY <1>2, <1>6, <1>7 DEF OnlyMonitor

\* What happens to the monitor alone disturbs no part of the invariant.
LEMMA MonitorKeeps ==
  ASSUME ObjHeaderAssumption, WordInv, NEW t \in Thread, OnlyMonitor(t),
         call' \in [Thread -> Calls], saved' \in [Thread -> Nat], EntriesSaved'
  PROVE  WordInv'
<1> USE DEF WordInv, OnlyMonitor, MonitorOf
<1>1. TypeOK'
  BY DEF TypeOK
<1>2. OneInflates'
  BY DEF TypeOK, OneInflates, Inflating, Spinning
<1>3. HeaderFields'
  BY DEF HeaderFields
<1>4. BlockFields'
  BY DEF TypeOK, BlockFields, OneInflates, Inflating, ObjHeaderAssumption
<1>5. NoUseAfterDeflation'
  BY DEF NoUseAfterDeflation
<1>6. OneHash'
  BY DEF TypeOK, OneHash
<1> QED BY <1>1, <1>2, <1>3, <1>4, <1>5, <1>6

\* Every step of a thread preserves all parts but the count of the pins.
LEMMA WordStep ==
  ASSUME ObjHeaderAssumption, WordInv, NEW t \in Thread, Step(t) \/ Client(t)
  PROVE  WordInv'
<1>1. CASE \/ BlockEnter(t) \/ BlockTryEnter(t) \/ EnterEpilog(t) \/ WaiterEnters(t)
           \/ Contention(t) \/ SpinEnters(t) \/ SpinEnds(t) \/ WaitPins(t)
           \/ LeaveCompletely(t) \/ RestoreEnter(t) \/ WaitReturns(t)
           \/ HelperEntered(t) /\ header.layout = "index"
           \/ LeaveObjMonitor(t) /\ header.layout = "index"
  <2>1. call' \in [Thread -> Calls] /\ saved' \in [Thread -> Nat] /\ EntriesSaved'
    BY <1>1 DEF WordInv, TypeOK, EntriesSaved, BlockEnter, BlockTryEnter, EnterEpilog,
       WaiterEnters, Contention, SpinEnters,
       SpinEnds, WaitPins, LeaveCompletely, RestoreEnter, WaitReturns, HelperEntered,
       LeaveObjMonitor, Goto, Return, Calls, PCs, Getting, Using
  <2> QED BY <1>1, <2>1, BlockActions, MonitorKeeps
\* Nothing but the place of t, its operation and the cache lock change.
<1>2. CASE \/ \E op \in Calls \ {"none", "Contention"} : Begin(t, op)
           \/ HelperUseSlowPath(t) \/ HelperContention(t) \/ SlowPath(t)
           \/ PassiveGetSyncBlock(t) \/ NewSyncBlock(t) \/ NewSyncBlockOutOfMemory(t)
           \/ ReleaseCacheLock(t) \/ HashNeedsBlock(t) \/ WaitOrPulseReturns(t) \/ WaitEnds(t)
  <2> USE <1>2 DEF WordInv, TypeOK, Begin, HelperUseSlowPath, HelperContention, SlowPath,
          PassiveGetSyncBlock,
         NewSyncBlock, NewSyncBlockOutOfMemory, ReleaseCacheLock, HashNeedsBlock,
         WaitOrPulseReturns, WaitEnds, Goto, Return, PCs, Calls, Getting, Using
  <2>1. TypeOK' /\ EntriesSaved'
    BY DEF EntriesSaved
  <2>2. OneInflates'
    BY DEF OneInflates, Inflating, Spinning, ObjHeaderAssumption
  <2>3. HeaderFields' /\ BlockFields'
    BY DEF HeaderFields, BlockFields
  <2>4. NoUseAfterDeflation' /\ OneHash'
    BY DEF NoUseAfterDeflation, OneHash, OneInflates
  <2> QED BY <2>1, <2>2, <2>3, <2>4
<1>3. CASE EnterSpinLock(t)
  <2> USE <1>3 DEF WordInv, TypeOK, EnterSpinLock, Goto, PCs, Calls, Getting, Using
  <2>1. TypeOK' /\ EntriesSaved'
    BY DEF EntriesSaved
  <2>2. OneInflates'
    BY DEF OneInflates, Inflating, Spinning, ObjHeaderAssumption
  <2>3. HeaderFields' /\ BlockFields'
    BY DEF HeaderFields, BlockFields, OneInflates, Inflating
  <2>4. NoUseAfterDeflation' /\ OneHash'
    BY DEF NoUseAfterDeflation, OneHash, OneInflates
  <2> QED BY <2>1, <2>2, <2>3, <2>4
<1>4. CASE Transfer(t)
  <2> USE <1>4 DEF WordInv, TypeOK, Goto, PCs, Calls, Getting, Using
  <2>0. block' \in Block /\ MonitorFields(block') /\ block'.transient = 0
       /\ block'.thread = header.thread
       /\ (block'.thread # NoThread => block'.recursion = header.level + 1)
       /\ block'.hash = header.hash /\ (header.hash # NoHash => block'.precious)
    <3>0. UNCHANGED header /\ header.layout \in {"thin", "hash"}
      BY DEF OneInflates, Transfer
    <3>1. CASE header.layout = "thin" /\ header.thread # NoThread
      <4>1. block' = [held |-> TRUE, waiters |-> 0, thread |-> header.thread, recursion |-> header.level + 1,
                      hash |-> NoHash, precious |-> FALSE, transient |-> 0]
        BY <3>1 DEF EmptyBlock, Transfer
      <4>2. header.hash = NoHash /\ header.thread \in Thread /\ header.level + 1 \in Nat \ {0}
        BY <3>1 DEF HeaderFields, ObjHeaderAssumption
      <4>3. block' \in Block
        BY <4>1, <4>2 DEF Block
      <4> QED BY <3>1, <4>1, <4>2, <4>3 DEF MonitorFields
    <3>2. CASE header.layout = "hash"
      <4>1. block' = [held |-> FALSE, waiters |-> 0, thread |-> NoThread, recursion |-> 0,
                      hash |-> header.hash, precious |-> TRUE, transient |-> 0]
        BY <3>2 DEF EmptyBlock, Transfer
      <4>2. header.hash \in Hash /\ header.thread = NoThread
        BY <3>2 DEF HeaderFields
      <4>3. block' \in Block
        BY <4>1, <4>2 DEF Block
      <4> QED BY <4>1, <4>2, <4>3 DEF MonitorFields
    <3>3. CASE header.layout = "thin" /\ header.thread = NoThread
      <4>1. block' = [held |-> FALSE, waiters |-> 0, thread |-> NoThread, recursion |-> 0,
                      hash |-> NoHash, precious |-> FALSE, transient |-> 0]
        BY <3>3 DEF EmptyBlock, Transfer
      <4>2. header.hash = NoHash
        BY <3>3 DEF HeaderFields
      <4>3. block' \in Block
        BY <4>1 DEF Block
      <4> QED BY <3>3, <4>1, <4>2, <4>3 DEF MonitorFields
    <3> QED BY <3>0, <3>1, <3>2, <3>3
  <2>1. TypeOK' /\ EntriesSaved'
    BY <2>0 DEF EntriesSaved, Transfer
  <2>2. OneInflates'
    BY DEF OneInflates, Inflating, Spinning, ObjHeaderAssumption, Transfer
  <2>3. HeaderFields' /\ BlockFields'
    <3>1. HeaderFields'
      BY DEF HeaderFields, Transfer
    <3>2. header'.layout # "index" /\ header' = header
      BY DEF OneInflates, Transfer
    <3>3. \A u \in Thread : pc'[u] # "leaving" /\ (pc'[u] = "setIndex" => u = t)
      BY <3>2 DEF OneInflates, Inflating, Transfer, NoUseAfterDeflation
    <3> QED BY <2>0, <3>1, <3>2, <3>3 DEF BlockFields
  <2>4. NoUseAfterDeflation' /\ OneHash'
    BY DEF NoUseAfterDeflation, OneHash, OneInflates, Transfer
  <2> QED BY <2>1, <2>2, <2>3, <2>4
<1>5. CASE SetIndex(t)
  <2>0. header' = [layout |-> "index", spin |-> header.spin, thread |-> NoThread,
                   level |-> 0, hash |-> NoHash]
    BY <1>5 DEF SetIndex, EmptyHeader
  <2>9. /\ header'.layout = "index" /\ header'.thread = NoThread /\ header'.level = 0
        /\ header'.hash = NoHash
    BY <2>0
  <2> USE <1>5 DEF WordInv, TypeOK, SetIndex, Goto, PCs, Calls, Getting, Using
  <2>1. TypeOK' /\ EntriesSaved'
    BY <2>0 DEF EntriesSaved, ObjHeaderAssumption
  <2>2. OneInflates'
    BY <2>0 DEF OneInflates, Inflating, Spinning
  <2>3. HeaderFields' /\ BlockFields'
    <3>1. HeaderFields'
      BY <2>9, Zenon DEF HeaderFields
    <3>2. \A u \in Thread : pc'[u] # "leaving" /\ pc'[u] # "setIndex"
      BY DEF OneInflates, Inflating, NoUseAfterDeflation
    <3>3. block' \in Block /\ MonitorFields(block')
      BY DEF BlockFields, MonitorFields
    <3> QED BY <3>1, <3>2, <3>3 DEF BlockFields
  <2>4. NoUseAfterDeflation' /\ OneHash'
    <3>1. /\ block' = block /\ block.hash = header.hash /\ (header.hash # NoHash => block.precious)
          /\ header.layout \in {"thin", "hash"}
      BY DEF BlockFields, OneInflates
    <3>2. header'.layout = "index" /\ hashes' = hashes /\ \A u \in Thread : pc'[u] # "hashPrecious"
      BY <2>0 DEF NoUseAfterDeflation, OneInflates
    <3>3. hashes \subseteq {header.hash}
      BY <3>1 DEF OneHash
    <3> QED BY <3>1, <3>2, <3>3 DEF NoUseAfterDeflation, OneHash
  <2> QED BY <2>1, <2>2, <2>3, <2>4
<1>6. CASE ReleaseSpinLock(t)
  <2> USE <1>6 DEF WordInv, TypeOK, ReleaseSpinLock, Goto, PCs, Calls, Getting, Using
  <2>1. TypeOK' /\ EntriesSaved'
    BY DEF EntriesSaved
  <2>2. OneInflates'
    BY DEF OneInflates, Inflating, Spinning
  <2>3. HeaderFields' /\ BlockFields'
    BY DEF HeaderFields, BlockFields, OneInflates, Inflating
  <2>4. NoUseAfterDeflation' /\ OneHash'
    BY DEF NoUseAfterDeflation, OneHash, OneInflates
  <2> QED BY <2>1, <2>2, <2>3, <2>4
\* The header alone changes, while nobody has the spin lock bit.
<1>7. CASE HelperEntered(t) /\ header.layout # "index"
  <2> USE <1>7 DEF WordInv, TypeOK, HelperEntered, Goto, Return, PCs, Calls, Getting, Using
  <2>1. TypeOK' /\ EntriesSaved'
    BY DEF EntriesSaved, ObjHeaderAssumption
  <2>2. OneInflates'
    BY DEF OneInflates, Inflating, Spinning
  <2>3. HeaderFields' /\ BlockFields'
    BY DEF HeaderFields, BlockFields, OneInflates, Spinning, NoUseAfterDeflation,
       ObjHeaderAssumption
  <2>4. NoUseAfterDeflation' /\ OneHash'
    BY DEF NoUseAfterDeflation, OneHash, OneInflates
  <2> QED BY <2>1, <2>2, <2>3, <2>4
<1>8. CASE LeaveObjMonitor(t) /\ header.layout # "index"
  <2> USE <1>8 DEF WordInv, TypeOK, LeaveObjMonitor, PCs, Calls, Getting, Using
  <2>1. TypeOK' /\ EntriesSaved'
    BY DEF EntriesSaved, ObjHeaderAssumption
  <2>2. OneInflates'
    BY DEF OneInflates, Inflating, Spinning
  <2>3. HeaderFields' /\ BlockFields'
    BY DEF HeaderFields, BlockFields, OneInflates, Spinning, NoUseAfterDeflation,
       ObjHeaderAssumption
  <2>4. NoUseAfterDeflation' /\ OneHash'
    BY DEF NoUseAfterDeflation, OneHash, OneInflates
  <2> QED BY <2>1, <2>2, <2>3, <2>4
<1>9. CASE HashInHeader(t)
  <2> USE DEF WordInv, TypeOK, PCs, Calls, Getting, Using
  <2>1. /\ UNCHANGED <<block, cacheLock, saved>> /\ pc[t] = "hash"
        /\ pc' = [pc EXCEPT ![t] = "idle"] /\ call' = [call EXCEPT ![t] = "none"]
    BY <1>9 DEF HashInHeader, Goto, Return
  <2>2. EntriesSaved'
    BY <2>1 DEF EntriesSaved
  <2>3. CASE UNCHANGED header /\ header.layout = "hash" /\ hashes' = hashes \cup {header.hash}
    <3>1. TypeOK'
      BY <2>1, <2>3 DEF HeaderFields
    <3>2. OneInflates'
      BY <2>1, <2>3 DEF OneInflates, Inflating, Spinning
    <3>3. HeaderFields' /\ BlockFields'
      BY <2>1, <2>3 DEF HeaderFields, BlockFields
    <3>4. NoUseAfterDeflation' /\ OneHash'
      BY <2>1, <2>3 DEF NoUseAfterDeflation, OneHash
    <3> QED BY <2>2, <3>1, <3>2, <3>3, <3>4
  <2>4. CASE /\ header.layout = "thin" /\ header.thread = NoThread /\ ~header.spin
             /\ \E h \in Hash : /\ header' = [header EXCEPT !.layout = "hash", !.hash = h]
                                /\ hashes' = hashes \cup {h}
    <3> PICK h \in Hash : /\ header' = [header EXCEPT !.layout = "hash", !.hash = h]
                          /\ hashes' = hashes \cup {h}
      BY <2>4
    <3>1. /\ header'.layout = "hash" /\ header'.hash = h /\ header'.thread = NoThread
          /\ header'.level = header.level /\ header'.spin = header.spin
      BY <2>4
    <3>2. TypeOK'
      BY <2>1, <2>4
    <3>3. OneInflates'
      BY <2>1, <2>4, <3>1 DEF OneInflates, Inflating, Spinning
    <3>4. HeaderFields'
      BY <2>4, <3>1 DEF HeaderFields, ObjHeaderAssumption
    <3>5. \A u \in Thread : pc'[u] # "leaving" /\ pc'[u] # "setIndex" /\ pc'[u] \notin Using
      BY <2>1, <2>4 DEF OneInflates, Spinning, NoUseAfterDeflation
    <3>6. BlockFields' /\ NoUseAfterDeflation'
      BY <3>1, <3>5 DEF BlockFields, NoUseAfterDeflation
    <3>7. OneHash'
      BY <2>4, <3>1, <3>5 DEF OneHash
    <3> QED BY <2>2, <3>2, <3>3, <3>4, <3>6, <3>7
  <2> QED BY <1>9, <2>3, <2>4 DEF HashInHeader
\* The hash code of the sync block.
<1>10. CASE HashInBlock(t) \/ HashPrecious(t)
  <2> USE DEF WordInv, TypeOK, PCs, Calls, Getting, Using
  <2>1. /\ UNCHANGED <<header, cacheLock, saved>> /\ pc[t] \in {"got", "hashPrecious"}
        /\ \E p \in {"idle", "hashPrecious"} : pc' = [pc EXCEPT ![t] = p]
        /\ call' \in [Thread -> Calls] /\ \A u \in Thread \ {t} : call'[u] = call[u]
    BY <1>10 DEF HashInBlock, HashPrecious, Goto, Return
  <2>2. header.layout = "index" /\ block \in Block /\ MonitorFields(block)
    BY <2>1 DEF NoUseAfterDeflation, BlockFields
  <2>3. /\ block' \in Block /\ MonitorFields(block') /\ block'.thread = block.thread
        /\ hashes' \subseteq Hash /\ hashes' \subseteq {block'.hash}
        /\ block'.hash # NoHash
        /\ \/ pc' = [pc EXCEPT ![t] = "hashPrecious"]
           \/ block'.precious
           \/ \E u \in Thread \ {t} : pc[u] = "hashPrecious"
    <3>1. CASE HashInBlock(t) /\ block.hash # NoHash
      <4>1. /\ block' = block /\ hashes' = hashes \cup {block.hash} /\ pc[t] = "got"
            /\ hashes \subseteq {block.hash} /\ block.hash \in Hash
        BY <2>2, <3>1 DEF HashInBlock, OneHash, Block
      <4>2. block.precious \/ \E u \in Thread \ {t} : pc[u] = "hashPrecious"
        BY <2>2, <3>1, <4>1 DEF OneHash
      <4> QED BY <2>2, <3>1, <4>1, <4>2 DEF MonitorFields
    <3>2. CASE HashInBlock(t) /\ block.hash = NoHash
      <4> PICK h \in Hash : block' = [block EXCEPT !.hash = h]
        BY <3>2 DEF HashInBlock
      <4>1. hashes' = {} /\ pc' = [pc EXCEPT ![t] = "hashPrecious"]
        BY <2>2, <3>2 DEF HashInBlock, OneHash, ObjHeaderAssumption, Goto
      <4>2. /\ block' \in Block /\ block'.hash = h /\ block'.thread = block.thread
            /\ block'.held = block.held /\ block'.recursion = block.recursion
        BY <2>2 DEF Block
      <4> QED BY <2>2, <4>1, <4>2 DEF MonitorFields, ObjHeaderAssumption
    <3>3. CASE HashPrecious(t)
      <4>1. /\ block.hash # NoHash /\ hashes \subseteq {block.hash}
            /\ block' = [block EXCEPT !.precious = TRUE] /\ hashes' = hashes \cup {block.hash}
        BY <2>2, <3>3 DEF HashPrecious, OneHash, Return, Goto
      <4>2. /\ block' \in Block /\ block'.precious = TRUE /\ block'.hash = block.hash
            /\ block'.thread = block.thread
            /\ block'.held = block.held /\ block'.recursion = block.recursion
        BY <2>2, <4>1 DEF Block
      <4> QED BY <2>2, <4>1, <4>2 DEF MonitorFields, Block
    <3> QED BY <1>10, <3>1, <3>2, <3>3 DEF HashInBlock
  <2>4. EntriesSaved'
    BY <2>1 DEF EntriesSaved
  <2>5. OneInflates'
    BY <2>1 DEF OneInflates, Inflating, Spinning
  <2>6. TypeOK'
    <3>1. pc' \in [Thread -> PCs]
      BY <2>1
    <3> QED BY <2>1, <2>3, <3>1, Zenon
  <2>7. HeaderFields' /\ BlockFields'
    BY <2>1, <2>2, <2>3 DEF HeaderFields, BlockFields, OneInflates
  <2>8. NoUseAfterDeflation' /\ OneHash'
    BY <2>1, <2>2, <2>3 DEF NoUseAfterDeflation, OneHash
  <2> QED BY <2>4, <2>5, <2>6, <2>7, <2>8
<1> QED BY <1>1, <1>2, <1>3, <1>4, <1>5, <1>6, <1>7, <1>8, <1>9, <1>10 DEF Step, Client,
           GetSyncBlock

-----------------------------------------------------------------------------
\* The pins of a step that pins nothing and unpins nothing.
LEMMA SamePins ==
  ASSUME PinsCounted, Pinned' = Pinned, PinnedToWait' = PinnedToWait,
         header'.layout = "index" => header.layout = "index" /\ block'.transient = block.transient
  PROVE  PinsCounted'
BY DEF PinsCounted

\* A thread pins the sync block or unpins it, one way or the other.
LEMMA OnePin ==
  ASSUME NEW t \in Thread, PinsCounted, header.layout = "index",
         block \in Block,
         \/ /\ t \notin Pinned /\ Pinned' = Pinned \cup {t} /\ PinnedToWait' = PinnedToWait
            /\ block'.transient = block.transient + 1
         \/ /\ t \notin PinnedToWait /\ PinnedToWait' = PinnedToWait \cup {t} /\ Pinned' = Pinned
            /\ block'.transient = block.transient + 1
         \/ /\ t \in Pinned /\ Pinned' = Pinned \ {t} /\ PinnedToWait' = PinnedToWait
            /\ block'.transient = block.transient - 1
         \/ /\ t \in PinnedToWait /\ PinnedToWait' = PinnedToWait \ {t} /\ Pinned' = Pinned
            /\ block'.transient = block.transient - 1
  PROVE  PinsCounted'
<1>1. /\ Cardinality(Pinned) \in Nat /\ Cardinality(PinnedToWait) \in Nat
      /\ IsFiniteSet(Pinned) /\ IsFiniteSet(PinnedToWait)
      /\ block.transient = Cardinality(Pinned) + Cardinality(PinnedToWait)
  BY FS_CardinalityType DEF PinsCounted
<1>2. ASSUME NEW S, IsFiniteSet(S), t \notin S
      PROVE  IsFiniteSet(S \cup {t}) /\ Cardinality(S \cup {t}) = Cardinality(S) + 1
  BY <1>2, FS_AddElement
<1>3. ASSUME NEW S, IsFiniteSet(S), t \in S
      PROVE  IsFiniteSet(S \ {t}) /\ Cardinality(S \ {t}) = Cardinality(S) - 1
  BY <1>3, FS_RemoveElement
<1>4. IsFiniteSet(Pinned') /\ IsFiniteSet(PinnedToWait')
  BY <1>1, <1>2, <1>3
<1>5. block'.transient = Cardinality(Pinned') + Cardinality(PinnedToWait')
  <2>1. /\ t \notin Pinned => Cardinality(Pinned \cup {t}) = Cardinality(Pinned) + 1
        /\ t \in Pinned => Cardinality(Pinned \ {t}) = Cardinality(Pinned) - 1
    BY <1>1, <1>2, <1>3
  <2>2. /\ t \notin PinnedToWait
             => Cardinality(PinnedToWait \cup {t}) = Cardinality(PinnedToWait) + 1
        /\ t \in PinnedToWait
             => Cardinality(PinnedToWait \ {t}) = Cardinality(PinnedToWait) - 1
    BY <1>1, <1>2, <1>3
  <2>3. \/ /\ Cardinality(Pinned') = Cardinality(Pinned) + 1
           /\ Cardinality(PinnedToWait') = Cardinality(PinnedToWait)
           /\ block'.transient = block.transient + 1
        \/ /\ Cardinality(Pinned') = Cardinality(Pinned)
           /\ Cardinality(PinnedToWait') = Cardinality(PinnedToWait) + 1
           /\ block'.transient = block.transient + 1
        \/ /\ Cardinality(Pinned') = Cardinality(Pinned) - 1
           /\ Cardinality(PinnedToWait') = Cardinality(PinnedToWait)
           /\ block'.transient = block.transient - 1
        \/ /\ Cardinality(Pinned') = Cardinality(Pinned)
           /\ Cardinality(PinnedToWait') = Cardinality(PinnedToWait) - 1
           /\ block'.transient = block.transient - 1
    BY <2>1, <2>2
  <2> QED BY <1>1, <2>3
<1> QED BY <1>4, <1>5 DEF PinsCounted

LEMMA PinsStep ==
  ASSUME ObjHeaderAssumption, HeaderInv, NEW t \in Thread, Step(t) \/ Client(t)
  PROVE  PinsCounted'
<1> USE DEF HeaderInv, WordInv, Goto, Return
<1>1. pc \in [Thread -> PCs] /\ call \in [Thread -> Calls]
  BY DEF TypeOK
<1>2. ASSUME pc[t] \in Using
      PROVE  header.layout = "index" /\ block \in Block
  BY <1>2 DEF NoUseAfterDeflation, BlockFields
<1>3. CASE EnterEpilog(t)
  <2>1. t \notin PinnedToWait /\ PinnedToWait' = PinnedToWait \cup {t} /\ Pinned' = Pinned
    BY <1>1, <1>3 DEF EnterEpilog, Pinned, PinnedToWait
  <2>2. block'.transient = block.transient + 1 /\ pc[t] \in Using
    BY <1>2, <1>3 DEF EnterEpilog, Block, Using
  <2> QED BY <1>2, <2>1, <2>2, OnePin
<1>4. CASE WaiterEnters(t)
  <2>1. t \in PinnedToWait /\ PinnedToWait' = PinnedToWait \ {t} /\ Pinned' = Pinned
    BY <1>1, <1>4 DEF WaiterEnters, Pinned, PinnedToWait
  <2>2. block'.transient = block.transient - 1 /\ pc[t] \in Using
    BY <1>2, <1>4 DEF WaiterEnters, Block, Using
  <2> QED BY <1>2, <2>1, <2>2, OnePin
<1>5. CASE Contention(t) \/ WaitPins(t)
  <2>1. t \notin Pinned /\ Pinned' = Pinned \cup {t} /\ PinnedToWait' = PinnedToWait
    BY <1>1, <1>5 DEF Contention, WaitPins, Pinned, PinnedToWait
  <2>2. block'.transient = block.transient + 1 /\ pc[t] \in Using
    BY <1>2, <1>5 DEF Contention, WaitPins, Block, Using
  <2> QED BY <1>2, <2>1, <2>2, OnePin
<1>6. CASE SpinEnters(t) \/ SpinEnds(t) \/ WaitReturns(t)
  <2>1. t \in Pinned /\ Pinned' = Pinned \ {t} /\ PinnedToWait' = PinnedToWait
    BY <1>1, <1>6 DEF SpinEnters, SpinEnds, WaitReturns, Pinned, PinnedToWait
  <2>2. block'.transient = block.transient - 1 /\ pc[t] \in Using
    BY <1>2, <1>6 DEF SpinEnters, SpinEnds, WaitReturns, Block, Using
  <2> QED BY <1>2, <2>1, <2>2, OnePin
\* The sync block comes into the table when nobody can have pinned it.
<1>7. CASE SetIndex(t)
  <2>1. Pinned' = {} /\ PinnedToWait' = {}
    BY <1>1, <1>7 DEF SetIndex, Pinned, PinnedToWait, OneInflates, NoUseAfterDeflation,
       Using
  <2>2. block'.transient = 0
    BY <1>7 DEF SetIndex, BlockFields
  <2> QED BY <2>1, <2>2, FS_EmptySet DEF PinsCounted
\* The other steps leave the pins alone.
<1>8. CASE \/ BlockEnter(t) \/ BlockTryEnter(t) \/ RestoreEnter(t) \/ LeaveCompletely(t)
           \/ HashInBlock(t) \/ HashPrecious(t)
  <2>1. Pinned' = Pinned /\ PinnedToWait' = PinnedToWait /\ pc[t] \in Using
    BY <1>1, <1>8 DEF BlockEnter, BlockTryEnter, RestoreEnter, LeaveCompletely, HashInBlock,
                      HashPrecious, EntriesSaved, Pinned, PinnedToWait, Using
  <2>2. block'.transient = block.transient
    BY <1>2, <1>8, <2>1 DEF BlockEnter, BlockTryEnter, RestoreEnter, LeaveCompletely,
       HashInBlock,
                      HashPrecious, TakeFree, Recurse, Block
  <2> QED BY <1>2, <2>1, <2>2, SamePins
<1>9. CASE HelperEntered(t) \/ LeaveObjMonitor(t)
  <2>1. Pinned' = Pinned /\ PinnedToWait' = PinnedToWait
    BY <1>1, <1>9 DEF HelperEntered, LeaveObjMonitor, Pinned, PinnedToWait
  <2>2. header'.layout = header.layout
    BY <1>9 DEF HelperEntered, LeaveObjMonitor, TypeOK
  <2>3. header.layout = "index" => block'.transient = block.transient
    BY <1>9 DEF HelperEntered, LeaveObjMonitor, BlockFields, TakeFree, Recurse, Block
  <2> QED BY <2>1, <2>2, <2>3, SamePins
<1>10. CASE \/ HashInHeader(t) \/ EnterSpinLock(t) \/ Transfer(t) \/ ReleaseSpinLock(t)
  <2>1. Pinned' = Pinned /\ PinnedToWait' = PinnedToWait
    BY <1>1, <1>10 DEF HashInHeader, EnterSpinLock, Transfer, ReleaseSpinLock, Pinned,
       PinnedToWait
  <2>2. header'.layout = "index" => header.layout = "index" /\ UNCHANGED block
    BY <1>10 DEF HashInHeader, EnterSpinLock, Transfer, ReleaseSpinLock, TypeOK, OneInflates
  <2> QED BY <2>1, <2>2, SamePins
<1>11. CASE \/ \E op \in Calls \ {"none", "Contention"} : Begin(t, op)
            \/ HelperUseSlowPath(t) \/ HelperContention(t) \/ SlowPath(t)
            \/ PassiveGetSyncBlock(t) \/ NewSyncBlock(t) \/ NewSyncBlockOutOfMemory(t)
            \/ ReleaseCacheLock(t) \/ HashNeedsBlock(t) \/ WaitOrPulseReturns(t) \/ WaitEnds(t)
  <2>1. Pinned' = Pinned /\ PinnedToWait' = PinnedToWait /\ UNCHANGED <<header, block>>
    BY <1>1, <1>11 DEF Begin, HelperUseSlowPath, HelperContention, SlowPath,
       PassiveGetSyncBlock,
         NewSyncBlock, NewSyncBlockOutOfMemory, ReleaseCacheLock, HashNeedsBlock,
         WaitOrPulseReturns, WaitEnds, Pinned, PinnedToWait
  <2> QED BY <2>1, SamePins
<1> QED
  BY <1>3, <1>4, <1>5, <1>6, <1>7, <1>8, <1>9, <1>10, <1>11 DEF Step, Client, GetSyncBlock

\* A collection takes the sync block away when nobody has a pointer to it.
LEMMA CollectStep ==
  ASSUME ObjHeaderAssumption, HeaderInv, GCWeakPtrScan
  PROVE  HeaderInv'
<1> USE DEF HeaderInv, WordInv
<1>1. /\ header.layout = "index" /\ ~block.precious /\ block.transient = 0
      /\ \A t \in Thread : pc[t] \in Safe
      /\ UNCHANGED <<cacheLock, pc, call, saved, hashes>> /\ block' = NoBlock
  BY DEF GCWeakPtrScan, IsIDisposable
<1>2. Pinned = {} /\ PinnedToWait = {}
  <2>1. Cardinality(Pinned) = 0 /\ Cardinality(PinnedToWait) = 0
    BY <1>1, FS_CardinalityType DEF PinsCounted
  <2> QED BY <2>1, FS_EmptySet DEF PinsCounted
<1>3. \A t \in Thread : pc[t] \notin Using \cup Inflating
  BY <1>1, <1>2 DEF Safe, Using, Inflating, Pinned, PinnedToWait
<1>4. ~header.spin
  BY <1>3 DEF OneInflates, Inflating, Spinning
<1>5. header' = [layout |-> "thin", spin |-> header.spin, thread |-> NoThread,
                 level |-> 0, hash |-> NoHash]
  BY DEF GCWeakPtrScan, EmptyHeader
<1>6. hashes = {}
  BY <1>1, <1>3 DEF OneHash, TypeOK, ObjHeaderAssumption, Using
<1>7. TypeOK'
  BY <1>1, <1>5 DEF TypeOK, ObjHeaderAssumption
<1>8. OneInflates'
  BY <1>1, <1>3, <1>4, <1>5 DEF OneInflates, Inflating, Spinning
<1>9. HeaderFields'
  BY <1>5 DEF HeaderFields
<1>10. BlockFields' /\ NoUseAfterDeflation' /\ OneHash'
  BY <1>1, <1>3, <1>5, <1>6 DEF BlockFields, NoUseAfterDeflation, OneHash, Using, Inflating
<1>11. EntriesSaved'
  BY <1>1 DEF EntriesSaved
<1>12. PinsCounted'
  BY <1>1, <1>5 DEF PinsCounted, Pinned, PinnedToWait
<1> QED BY <1>7, <1>8, <1>9, <1>10, <1>11, <1>12

-----------------------------------------------------------------------------
LEMMA HeaderInvInit ==
  ASSUME ObjHeaderAssumption, Init
  PROVE  HeaderInv
<1> USE DEF ObjHeaderAssumption, Init, EmptyHeader
<1>1. TypeOK /\ EntriesSaved
  BY DEF TypeOK, EntriesSaved, PCs, Calls
<1>2. OneInflates /\ HeaderFields
  BY DEF OneInflates, Inflating, Spinning, HeaderFields
<1>3. BlockFields /\ NoUseAfterDeflation /\ OneHash
  BY DEF BlockFields, NoUseAfterDeflation, Using, OneHash
<1>4. PinsCounted
  <2>1. Pinned = {} /\ PinnedToWait = {}
    BY DEF Pinned, PinnedToWait
  <2> QED BY <2>1, FS_EmptySet DEF PinsCounted
<1> QED BY <1>1, <1>2, <1>3, <1>4 DEF HeaderInv, WordInv

\* The inductive invariant of the header, the sync block and its pins.
THEOREM HeaderInvariant == ASSUME ObjHeaderAssumption PROVE Spec => []HeaderInv
<1>1. Init => HeaderInv
  BY HeaderInvInit
<1>2. HeaderInv /\ [Next]_vars => HeaderInv'
  <2> SUFFICES ASSUME HeaderInv, [Next]_vars PROVE HeaderInv'
    OBVIOUS
  <2>1. CASE GCWeakPtrScan
    BY <2>1, CollectStep
  <2>2. ASSUME NEW t \in Thread, Step(t) \/ Client(t)
        PROVE  HeaderInv'
    BY <2>2, WordStep, PinsStep DEF HeaderInv
  <2>3. CASE UNCHANGED vars
    BY <2>3 DEF vars, HeaderInv, WordInv, TypeOK, OneInflates, HeaderFields, BlockFields,
                NoUseAfterDeflation, OneHash, EntriesSaved, PinsCounted, Pinned,
                PinnedToWait
  <2> QED BY <2>1, <2>2, <2>3 DEF Next
<1> QED BY <1>1, <1>2, PTL DEF Spec

\* Header, sync block and threads stay within their types.
THEOREM HeaderTypes == ASSUME ObjHeaderAssumption PROVE Spec => []TypeOK
<1>1. HeaderInv => TypeOK
  BY DEF HeaderInv, WordInv
<1> QED BY <1>1, HeaderInvariant, PTL

\* No collection deletes the sync block under a thread that has a pointer to it
\* (m_TransientPrecious, IsIDisposable).
THEOREM NoUseAfterDeflationHolds ==
  ASSUME ObjHeaderAssumption PROVE Spec => []NoUseAfterDeflation
<1>1. HeaderInv => NoUseAfterDeflation
  BY DEF HeaderInv, WordInv
<1> QED BY <1>1, HeaderInvariant, PTL

\* GetHashCodeEx returns one hash code for the life of the object, whatever the
\* inflations, deflations and racing callers.
THEOREM HashStableHolds == ASSUME ObjHeaderAssumption PROVE Spec => []HashStable
<1>1. ASSUME HeaderInv PROVE HashStable
  <2>1. PICK h : hashes \subseteq {h}
    BY <1>1 DEF HeaderInv, WordInv, TypeOK, OneHash
  <2>2. hashes = {} \/ hashes = {h}
    BY <2>1
  <2>3. Cardinality(hashes) = 0 \/ Cardinality(hashes) = 1
    BY <2>2, FS_EmptySet, FS_Singleton
  <2> QED BY <2>3 DEF HashStable
<1> QED BY <1>1, HeaderInvariant, PTL

\* The header word is stable between the copy to the sync block and SetIndex:
\* nobody enters, leaves, stores a hash code or collects meanwhile.
THEOREM HeaderFrozenHolds == ASSUME ObjHeaderAssumption PROVE Spec => HeaderFrozen
<1>1. ASSUME HeaderInv, [Next]_vars, NEW t \in Thread,
             pc[t] \in {"transfer", "setIndex"}, pc'[t] # "unspin"
      PROVE  header' = header
  <2> USE <1>1 DEF HeaderInv, WordInv
  <2>1. header.spin /\ \A u \in Thread : pc[u] \in Inflating => u = t
    BY DEF OneInflates, Inflating, Spinning
  <2>2. ~GCWeakPtrScan
    BY DEF GCWeakPtrScan, Safe
  <2>3. ASSUME NEW u \in Thread, Step(u) \/ Client(u)
        PROVE  header' = header
    <3>1. ~EnterSpinLock(u) /\ ~LeaveObjMonitor(u) /\ (HashInHeader(u) => header' = header)
          /\ (HelperEntered(u) => header' = header)
      BY <2>1 DEF EnterSpinLock, LeaveObjMonitor, HashInHeader, HelperEntered
    <3>2. ~SetIndex(u) /\ ~ReleaseSpinLock(u)
      BY <2>1 DEF SetIndex, ReleaseSpinLock, Inflating, TypeOK, Goto
    <3> QED
      BY <2>3, <3>1, <3>2 DEF Step, Client, GetSyncBlock, Begin, HelperUseSlowPath,
           HelperContention, SlowPath, PassiveGetSyncBlock, NewSyncBlock,
           NewSyncBlockOutOfMemory, Transfer, ReleaseCacheLock, BlockEnter, BlockTryEnter,
           EnterEpilog, WaiterEnters, Contention, SpinEnters, SpinEnds, HashNeedsBlock,
           HashInBlock, HashPrecious, WaitOrPulseReturns, WaitPins, LeaveCompletely,
           WaitEnds,
           RestoreEnter, WaitReturns
  <2> QED BY <2>2, <2>3 DEF Next, vars
<1>2. HeaderInv /\ [Next]_vars =>
        [\A t \in Thread : pc[t] \in {"transfer", "setIndex"} /\ pc'[t] # "unspin"
            => header' = header]_vars
  BY <1>1
<1> QED BY <1>2, HeaderInvariant, PTL DEF Spec, HeaderFrozen

-----------------------------------------------------------------------------
\* Owner and count, layout by layout.
LEMMA OwnerAndCount ==
  ASSUME TypeOK
  PROVE  /\ header.layout = "thin" => owner = header.thread
         /\ header.layout = "hash" => owner = NoThread
         /\ header.layout = "index" => owner = block.thread /\ count = block.recursion
         /\ header.layout # "index" =>
              count = IF owner = NoThread THEN 0 ELSE header.level + 1
BY DEF TypeOK, owner, count

LEMMA OwnerAndCountNext ==
  ASSUME TypeOK'
  PROVE  /\ header'.layout = "thin" => owner' = header'.thread
         /\ header'.layout = "hash" => owner' = NoThread
         /\ header'.layout = "index" => owner' = block'.thread /\ count' = block'.recursion
         /\ header'.layout # "index" =>
              count' = IF owner' = NoThread THEN 0 ELSE header'.level + 1
BY DEF TypeOK, owner, count

\* Enter, leave, inflate and collect are steps of the abstract monitor or
\* invisible to it.
LEMMA MonitorStep ==
  ASSUME ObjHeaderAssumption, HeaderInv, HeaderInv', [Next]_vars
  PROVE  M!Next \/ UNCHANGED <<owner, count>>
<1> USE DEF HeaderInv, WordInv
<1>1. /\ header.layout = "thin" => owner = header.thread
      /\ header.layout = "hash" => owner = NoThread
      /\ header.layout = "index" => owner = block.thread /\ count = block.recursion
      /\ header.layout # "index" => count = IF owner = NoThread THEN 0 ELSE header.level + 1
  BY OwnerAndCount
<1>2. /\ header'.layout = "thin" => owner' = header'.thread
      /\ header'.layout = "hash" => owner' = NoThread
      /\ header'.layout = "index" => owner' = block'.thread /\ count' = block'.recursion
      /\ header'.layout # "index" => count' = IF owner' = NoThread THEN 0 ELSE header'.level + 1
  BY OwnerAndCountNext
<1>3. ASSUME UNCHANGED <<header, block>>
      PROVE  UNCHANGED <<owner, count>>
  BY <1>3 DEF owner, count
<1>4. CASE GCWeakPtrScan
  <2>1. header.layout = "index" /\ ~block.held /\ header'.layout = "thin"
        /\ header'.thread = NoThread
    BY <1>4 DEF GCWeakPtrScan, IsIDisposable, EmptyHeader
  <2>2. block.thread = NoThread /\ block.recursion = 0
    BY <2>1 DEF BlockFields, MonitorFields
  <2> QED BY <1>1, <1>2, <2>1, <2>2
<1>5. ASSUME NEW t \in Thread, Step(t) \/ Client(t)
      PROVE  M!Next \/ UNCHANGED <<owner, count>>
  <2>1. SUFFICES M!Acquire(t) \/ M!Reenter(t) \/ M!Exit(t) \/ UNCHANGED <<owner, count>>
    BY DEF M!Next
  \* On the sync block.
  <2>2. ASSUME pc[t] \in Using
        PROVE  header.layout = "index" /\ block \in Block /\ MonitorFields(block)
    BY <2>2 DEF NoUseAfterDeflation, BlockFields
  <2>3. ASSUME header.layout = "index", UNCHANGED header,
               block \in Block, ~block.held, block'.thread = t, block'.recursion = 1
        PROVE  M!Acquire(t)
    <3>1. block.thread = NoThread
      BY <2>3 DEF BlockFields, MonitorFields
    <3> QED BY <1>1, <1>2, <2>3, <3>1 DEF M!Acquire
  <2>4. ASSUME header.layout = "index", UNCHANGED header, block \in Block, Recurse(t)
        PROVE  M!Reenter(t)
    BY <1>1, <1>2, <2>4 DEF M!Reenter, Recurse, Block
  <2>5. ASSUME header.layout = "index", UNCHANGED header, block \in Block, TakeFree(t)
        PROVE  M!Acquire(t)
    BY <2>3, <2>5 DEF TakeFree, WordIsZero, Block
  <2>6. ASSUME header.layout = "index", UNCHANGED header,
               block'.thread = block.thread, block'.recursion = block.recursion
        PROVE  UNCHANGED <<owner, count>>
    BY <1>1, <1>2, <2>6
  <2>7. ASSUME header.layout = "index", UNCHANGED header, block \in Block, block.thread = t,
               block' = IF block.recursion > 1 THEN [block EXCEPT !.recursion = @ - 1]
                        ELSE [block EXCEPT !.recursion = 0, !.thread = NoThread, !.held = FALSE]
        PROVE  M!Exit(t)
    <3>1. block.recursion \in Nat \ {0}
      BY <2>7 DEF BlockFields, MonitorFields, Block, ObjHeaderAssumption
    <3>2. CASE block.recursion > 1
      BY <1>1, <1>2, <2>7, <3>1, <3>2 DEF M!Exit, Block
    <3>3. CASE block.recursion = 1
      BY <1>1, <1>2, <2>7, <3>3 DEF M!Exit, Block
    <3> QED BY <3>1, <3>2, <3>3
  <2>8. CASE \/ BlockEnter(t) \/ BlockTryEnter(t) \/ RestoreEnter(t)
             \/ HelperEntered(t) /\ header.layout = "index"
    <3>1. header.layout = "index" /\ UNCHANGED header /\ block \in Block
      BY <2>2, <2>8 DEF BlockEnter, BlockTryEnter, RestoreEnter, HelperEntered, Using,
         BlockFields
    <3>2. \/ TakeFree(t)
          \/ Recurse(t)
          \/ UNCHANGED block
          \/ block' = [block EXCEPT !.waiters = @ + 1]
      BY <2>8, <3>1 DEF BlockEnter, BlockTryEnter, RestoreEnter, HelperEntered
    <3> QED BY <2>4, <2>5, <2>6, <3>1, <3>2 DEF Block
  <2>9. CASE WaiterEnters(t) \/ SpinEnters(t)
    <3>1. header.layout = "index" /\ UNCHANGED header /\ block \in Block
      BY <2>2, <2>9 DEF WaiterEnters, SpinEnters, Using
    <3>2. ~block.held /\ block'.thread = t /\ block'.recursion = 1
      BY <2>9, <3>1 DEF WaiterEnters, SpinEnters, WordIsZero, Block
    <3> QED BY <2>3, <3>1, <3>2
  <2>10. CASE \/ EnterEpilog(t) \/ Contention(t) \/ SpinEnds(t) \/ WaitPins(t)
              \/ WaitReturns(t) \/ HashInBlock(t) \/ HashPrecious(t)
    <3>1. header.layout = "index" /\ UNCHANGED header /\ block \in Block
      BY <2>2, <2>10 DEF EnterEpilog, Contention, SpinEnds, WaitPins, WaitReturns,
         HashInBlock,
                         HashPrecious, Using, Goto, Return
    <3>2. block'.thread = block.thread /\ block'.recursion = block.recursion
      BY <2>10, <3>1 DEF EnterEpilog, Contention, SpinEnds, WaitPins, WaitReturns,
         HashInBlock,
                         HashPrecious, Block
    <3> QED BY <2>6, <3>1, <3>2
  <2>11. CASE LeaveCompletely(t) \/ (LeaveObjMonitor(t) /\ header.layout = "index")
    <3>1. /\ header.layout = "index" /\ UNCHANGED header /\ block \in Block
          /\ block.thread = t
      BY <1>1, <2>2, <2>11 DEF LeaveCompletely, LeaveObjMonitor, Using, BlockFields
    <3>2. block' = IF block.recursion > 1 THEN [block EXCEPT !.recursion = @ - 1]
                   ELSE [block EXCEPT !.recursion = 0, !.thread = NoThread, !.held = FALSE]
      BY <2>11, <3>1 DEF LeaveCompletely, LeaveObjMonitor
    <3> QED BY <2>7, <3>1, <3>2
  \* In the header word.
  <2>12. CASE HelperEntered(t) /\ header.layout # "index"
    <3>1. /\ header.layout = "thin" /\ header'.layout = "thin" /\ header'.thread = t
          /\ \/ header.thread = NoThread /\ header'.level = header.level
             \/ header.thread = t /\ header'.level = header.level + 1
      BY <2>12 DEF HelperEntered, TypeOK
    <3>2. header.level \in Nat /\ (header.thread = NoThread => header.level = 0) /\ t # NoThread
      BY DEF TypeOK, HeaderFields, ObjHeaderAssumption
    <3> QED BY <1>1, <1>2, <3>1, <3>2 DEF M!Acquire, M!Reenter
  <2>13. CASE LeaveObjMonitor(t) /\ header.layout # "index"
    <3>1. /\ header.layout = "thin" /\ header'.layout = "thin" /\ header.thread = t
          /\ \/ header.level > 0 /\ header'.level = header.level - 1 /\ header'.thread = t
             \/ ~(header.level > 0) /\ header'.thread = NoThread
      BY <1>1, <2>13 DEF LeaveObjMonitor, TypeOK
    <3>2. header.level \in Nat /\ t # NoThread
      BY DEF TypeOK, ObjHeaderAssumption
    <3> QED BY <1>1, <1>2, <3>1, <3>2 DEF M!Exit
  <2>14. CASE HashInHeader(t)
    <3>1. \/ UNCHANGED <<header, block>>
          \/ header.layout = "thin" /\ header.thread = NoThread /\ header'.layout = "hash"
      BY <2>14 DEF HashInHeader, TypeOK
    <3> QED BY <1>1, <1>2, <1>3, <3>1
  \* Inflation.
  <2>15. CASE EnterSpinLock(t) \/ ReleaseSpinLock(t)
    BY <2>15 DEF EnterSpinLock, ReleaseSpinLock, TypeOK, owner, count
  <2>16. CASE Transfer(t)
    BY <1>1, <1>2, <2>16 DEF Transfer, OneInflates, TypeOK, Goto
  <2>17. CASE SetIndex(t)
    <3>1. /\ block' = block /\ header.layout \in {"thin", "hash"} /\ header'.layout = "index"
          /\ MonitorFields(block)
          /\ block.thread = header.thread
          /\ block.thread # NoThread => block.recursion = header.level + 1
      BY <2>17 DEF SetIndex, Goto, BlockFields, OneInflates, TypeOK, EmptyHeader
    <3>2. header.layout = "hash" => header.thread = NoThread
      BY DEF HeaderFields
    <3> QED BY <1>1, <1>2, <3>1, <3>2 DEF MonitorFields
  <2>18. CASE \/ \E op \in Calls \ {"none", "Contention"} : Begin(t, op)
              \/ HelperUseSlowPath(t) \/ HelperContention(t) \/ SlowPath(t)
              \/ PassiveGetSyncBlock(t) \/ NewSyncBlock(t) \/ NewSyncBlockOutOfMemory(t)
              \/ ReleaseCacheLock(t) \/ HashNeedsBlock(t) \/ WaitOrPulseReturns(t)
              \/ WaitEnds(t)
    <3>1. UNCHANGED <<header, block>>
      BY <2>18 DEF Begin, HelperUseSlowPath, HelperContention, SlowPath,
         PassiveGetSyncBlock,
           NewSyncBlock, NewSyncBlockOutOfMemory, ReleaseCacheLock, HashNeedsBlock,
           WaitOrPulseReturns, WaitEnds
    <3> QED BY <1>3, <3>1
  <2> QED
    BY <1>5, <2>8, <2>9, <2>10, <2>11, <2>12, <2>13, <2>14, <2>15, <2>16, <2>17, <2>18
    DEF Step, Client, GetSyncBlock
<1> QED BY <1>3, <1>4, <1>5 DEF Next, vars

\* The lock of an object is a monitor through inflation, deflation, thin-lock
\* overflow and Wait: EnterObjMonitor and LeaveObjMonitor implement Monitor.
THEOREM HeaderImplementsMonitor ==
  ASSUME ObjHeaderAssumption PROVE Spec => ImplementsMonitor
<1>1. Init => M!Init
  BY DEF Init, M!Init, EmptyHeader, owner, count
<1>2. HeaderInv /\ HeaderInv' /\ [Next]_vars => [M!Next]_(M!mvars)
  BY MonitorStep DEF M!mvars
<1> QED BY <1>1, <1>2, HeaderInvariant, PTL DEF Spec, ImplementsMonitor, M!Spec
==============================================================================
