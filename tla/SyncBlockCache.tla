--------------------------- MODULE SyncBlockCache ----------------------------
(***************************************************************************)
(* The sync table and the pool of sync blocks: class SyncBlockCache        *)
(* (vm/syncblk.cpp), between the threads that need a sync block, the       *)
(* garbage collector that takes sync blocks away and the finalizer thread  *)
(* that cleans up those of dead objects.                                   *)
(*                                                                         *)
(* Granularity.  GetSyncBlock runs under the lock of the cache and in      *)
(* cooperative mode, so it is one action.  A collection is a sequence of   *)
(* scans of the table while all other threads are stopped.                 *)
(*                                                                         *)
(* The lists of free slots, free sync blocks and sync blocks to clean up   *)
(* are sets: nothing depends on the order in which they are served.  The   *)
(* counters beside them would show an element that is put in twice.        *)
(***************************************************************************)
EXTENDS Integers, FiniteSets

CONSTANTS Object, NoObject,
          Block, NoBlock,  \* bound: the sync blocks there is memory for; NULL
          InitialSize,     \* SYNC_TABLE_INITIAL_SIZE
          Limit,           \* MASK_SYNCBLOCKINDEX
          CardSize,        \* card_size: slots of one bit of the bitmap
          BlocksPerArray,  \* MAXSYNCBLOCK
          MaxFailures      \* bound: failed allocations of a SyncBlockArray

ASSUME SyncBlockCacheAssumption ==
  /\ NoObject \notin Object /\ NoBlock \notin Block /\ IsFiniteSet(Block)
  /\ InitialSize \in Nat \ {0} /\ Limit \in Nat /\ InitialSize <= Limit
  /\ CardSize \in Nat \ {0} /\ BlocksPerArray \in Nat \ {0}
  /\ MaxFailures \in Nat

VARIABLES
  gen,                    \* the heap: the generation of each object
  index,                  \* the sync block index in each object's header, or 0
  object, slotBlock,      \* the table: m_Object, m_SyncBlock
  stale,                  \* slots whose m_Object is an address the object has left
  freeSlots, freeIndex,   \* m_FreeSyncTableList, m_FreeSyncTableIndex
  size, cards,            \* m_SyncTableSize, m_EphemeralBitmap
  freeBlocks, made,       \* m_FreeBlockList; sync blocks taken from the arrays
  freeCount, activeCount, \* m_FreeCount, m_ActiveCount
  cleanup,                \* m_pCleanupBlockList
  used,                   \* sync blocks that are not IsIDisposable
  task, inProgress,       \* TT_CleanupSyncBlock, m_bSyncBlockCleanupInProgress
  finalizer, doomed,      \* where the finalizer thread is, and with which block
  gc, full,               \* the phase of a collection; it condemns all generations
  failures                \* history: failed allocations of a SyncBlockArray

table   == <<object, slotBlock, stale>>
slots   == <<freeSlots, freeIndex, size>>
pool    == <<freeBlocks, freeCount, activeCount>>
cleaner == <<inProgress, finalizer, doomed>>
vars    == <<gen, index, table, slots, cards, pool, made, cleanup, used, task,
             cleaner, gc, full, failures>>

Slot  == 1..(Limit - 1)
Live  == {o \in Object : gen[o] # "none"}

CardOf(n) == n \div CardSize

TypeOK ==
  /\ gen \in [Object -> {"none", "ephemeral", "old"}]
  /\ index \in [Object -> Slot \cup {0}]
  /\ object \in [Slot -> Object \cup {NoObject}] /\ stale \subseteq Slot
  /\ slotBlock \in [Slot -> Block \cup {NoBlock}]
  /\ freeSlots \subseteq Slot /\ freeIndex \in 1..Limit /\ size \in InitialSize..Limit
  /\ cards \subseteq {CardOf(n) : n \in Slot}
  /\ freeBlocks \subseteq Block /\ made \subseteq Block
  /\ freeCount \in Nat /\ activeCount \in Nat
  /\ cleanup \subseteq Block /\ used \subseteq Block
  /\ task \in BOOLEAN /\ inProgress \in BOOLEAN
  /\ finalizer \in {"idle", "reset", "walk", "delete", "done"}
  /\ doomed \in Block \cup {NoBlock}
  /\ gc \in {"none", "marked", "relocated"} /\ full \in BOOLEAN /\ failures \in Nat

Init ==
  /\ gen = [o \in Object |-> "none"]
  /\ index = [o \in Object |-> 0]
  /\ object = [n \in Slot |-> NoObject] /\ stale = {}
  /\ slotBlock = [n \in Slot |-> NoBlock]
  /\ freeSlots = {} /\ freeIndex = 1 /\ size = InitialSize /\ cards = {}
  /\ freeBlocks = {} /\ made = {} /\ freeCount = 0 /\ activeCount = 0
  /\ cleanup = {} /\ used = {} /\ task = FALSE /\ inProgress = FALSE
  /\ finalizer = "idle" /\ doomed = NoBlock
  /\ gc = "none" /\ full = FALSE /\ failures = 0

-----------------------------------------------------------------------------
\* A thread allocates an object, in generation 0 or on the large object heap.
Allocate(o) ==
  /\ gc = "none" /\ gen[o] = "none"
  /\ \E g \in {"ephemeral", "old"} : gen' = [gen EXCEPT ![o] = g]
  /\ UNCHANGED <<index, table, slots, cards, pool, made, cleanup, used, task,
                 cleaner, gc, full, failures>>

\* GetNextFreeSyncBlock: a recycled sync block, or the next one of the arrays.
GetNextFreeSyncBlock(b) ==
  \/ b \in freeBlocks /\ UNCHANGED made
  \/ freeBlocks = {} /\ b \notin made /\ made' = made \cup {b}

\* Mutant of NewSize: the mask is not looked at.
NewSizeUnchecked == size * 2

\* The size Grow gives the table: twice as much, within the mask.
NewSize == IF size <= Limit \div 2 THEN size * 2 ELSE Limit

Grow == NewSize > size /\ size' = NewSize

\* NewSyncBlockSlot: a recycled slot, or the next one that was never used, for
\* which the table may have to grow (slots and bitmap are copied); its card is set.
NewSyncBlockSlot(n) ==
  /\ \/ /\ n \in freeSlots
        /\ freeSlots' = freeSlots \ {n} /\ UNCHANGED <<freeIndex, size>>
     \/ /\ freeSlots = {} /\ n = freeIndex
        /\ freeIndex' = freeIndex + 1 /\ UNCHANGED freeSlots
        /\ \/ n < size /\ UNCHANGED size
           \/ n >= size /\ Grow
  /\ cards' = cards \cup {CardOf(n)}

\* GetSyncBlock of an object without one.
GetSyncBlock(o) ==
  /\ gc = "none" /\ o \in Live /\ index[o] = 0
  /\ \E b \in Block, n \in Slot :
       /\ GetNextFreeSyncBlock(b) /\ NewSyncBlockSlot(n)
       /\ object' = [object EXCEPT ![n] = o] /\ stale' = stale \ {n}
       /\ slotBlock' = [slotBlock EXCEPT ![n] = b]
       /\ index' = [index EXCEPT ![o] = n]
       /\ used' = used \ {b}
       /\ freeBlocks' = freeBlocks \ {b}
       /\ freeCount' = IF b \in freeBlocks THEN freeCount - 1 ELSE freeCount
  /\ activeCount' = activeCount + 1
  /\ UNCHANGED <<gen, cleanup, task, cleaner, gc, full, failures>>

\* There is no memory for another array of sync blocks.  The sync block has
\* already been counted as active.
GetSyncBlockOutOfMemory(o) ==
  /\ gc = "none" /\ o \in Live /\ index[o] = 0
  /\ freeBlocks = {} /\ Cardinality(made) % BlocksPerArray = 0
  /\ failures < MaxFailures
  /\ failures' = failures + 1
  /\ activeCount' = activeCount + 1
  /\ UNCHANGED <<gen, index, table, slots, cards, freeBlocks, freeCount, made,
                 cleanup, used, task, cleaner, gc, full>>

\* Mutant of GetSyncBlockTableFull: the sync block is not given back.
GetSyncBlockTableFullKeeps(o) ==
  /\ gc = "none" /\ o \in Live /\ index[o] = 0
  /\ freeSlots = {} /\ freeIndex >= size
  /\ \E b \in Block : GetNextFreeSyncBlock(b) /\ freeBlocks' = freeBlocks \ {b}
  /\ activeCount' = activeCount + 1
  /\ freeCount' = IF freeBlocks = {} THEN freeCount ELSE freeCount - 1
  /\ UNCHANGED <<gen, index, table, slots, cards, cleanup, used, task, cleaner,
                 gc, full, failures>>

\* Grow throws, at the limit of the mask or for want of memory, and the holder
\* in GetSyncBlock puts the sync block on the free list (DeleteSyncBlockMemory).
GetSyncBlockTableFull(o) ==
  /\ gc = "none" /\ o \in Live /\ index[o] = 0
  /\ freeSlots = {} /\ freeIndex >= size
  /\ \E b \in Block : GetNextFreeSyncBlock(b) /\ freeBlocks' = freeBlocks \cup {b}
  /\ freeCount' = IF freeBlocks = {} THEN freeCount + 1 ELSE freeCount
  /\ UNCHANGED <<gen, index, table, slots, cards, activeCount, cleanup, used, task,
                 cleaner, gc, full, failures>>

\* A sync block becomes indispensable (a lock, a waiter, a hash code) or stops
\* being so: modules AwareLock and ObjHeader.
UseSyncBlock(o) ==
  /\ gc = "none" /\ o \in Live /\ index[o] # 0
  /\ LET b == slotBlock[index[o]]
     IN  used' = IF b \in used THEN used \ {b} ELSE used \cup {b}
  /\ UNCHANGED <<gen, index, table, slots, cards, pool, made, cleanup, task,
                 cleaner, gc, full, failures>>

-----------------------------------------------------------------------------
\* The slots GCWeakPtrScan looks at: all that are not free, or in a collection
\* of the ephemeral generations those of ephemeral objects in a card that is set.
Ephemeral(n) == object[n] # NoObject /\ gen[object[n]] = "ephemeral"

Scanned(all) ==
  {n \in Slot : /\ n < freeIndex /\ object[n] # NoObject
                /\ all \/ (CardOf(n) \in cards /\ Ephemeral(n))}

\* Mutant of ClearCards: a card is cleared when one of its slots is not ephemeral.
ClearCardsEager(all) ==
  IF all THEN cards
  ELSE {c \in cards : \A n \in Slot : CardOf(n) = c /\ object[n] # NoObject => Ephemeral(n)}

\* The cards it leaves set.
ClearCards(all) ==
  IF all THEN cards
  ELSE {c \in cards : \E n \in Slot : n < freeIndex /\ CardOf(n) = c /\ Ephemeral(n)}

\* The sync blocks of these slots go to the free list, or to the cleanup list.
GCDeleteSyncBlock(ns) ==
  /\ freeBlocks' = freeBlocks \cup {slotBlock[n] : n \in ns}
  /\ freeCount' = freeCount + Cardinality(ns)
  /\ activeCount' = activeCount - Cardinality(ns)

InsertCleanupSyncBlock(ns) ==
  /\ cleanup' = cleanup \cup {slotBlock[n] : n \in ns}
  /\ used' = used \ {slotBlock[n] : n \in ns}

\* GCWeakPtrScan, with GCWeakPtrScanElement for each slot: scanProc clears the
\* reference to a dead object and updates that to one that moves.  A slot with a
\* dead object or a disposable sync block becomes free; the sync block of a dead
\* object goes to the cleanup list, the other kind to the free list.
GCWeakPtrScan(all, dead, moved) ==
  LET gone     == {n \in Scanned(all) : object[n] \in dead}
      disposed == {n \in Scanned(all) \ gone : slotBlock[n] \notin used}
      freed    == gone \cup disposed
  IN  /\ object' = [n \in Slot |-> IF n \in freed THEN NoObject ELSE object[n]]
      /\ stale' = (stale \cup {n \in Slot : object[n] \in moved}) \ Scanned(all)
      /\ slotBlock' = [n \in Slot |-> IF n \in freed THEN NoBlock ELSE slotBlock[n]]
      /\ freeSlots' = freeSlots \cup freed
      /\ InsertCleanupSyncBlock(gone)
      /\ task' = (task \/ gone # {})
      /\ GCDeleteSyncBlock(disposed)
      /\ index' = [o \in Object |->
                     IF o \in dead \cup {object[n] : n \in disposed} THEN 0 ELSE index[o]]
      /\ cards' = ClearCards(all)

Condemned(all) == {o \in Live : all \/ gen[o] = "ephemeral"}

\* A collection: when marking is over, unmarked condemned objects are dead.  The
\* finalizer thread is stopped like all others; between setting
\* m_bSyncBlockCleanupInProgress and resetting its task it cannot be.
GCMark(all, dead) ==
  /\ gc = "none" /\ finalizer # "reset"
  /\ dead \subseteq Condemned(all)
  /\ GCWeakPtrScan(all, dead, {})
  /\ gen' = [o \in Object |-> IF o \in dead THEN "none" ELSE gen[o]]
  /\ gc' = "marked" /\ full' = all
  /\ UNCHANGED <<freeIndex, size, made, cleaner, failures>>

\* A compacting collection moves objects and scans the table once more.
GCRelocate(moved) ==
  /\ gc = "marked"
  /\ moved \subseteq Condemned(full)
  /\ GCWeakPtrScan(full, {}, moved)
  /\ gc' = "relocated"
  /\ UNCHANGED <<gen, freeIndex, size, made, cleaner, full, failures>>

\* Mutant of GCDone: demotion is not looked at.
GCDoneBlind(demoting, newGen) == cards

\* GCDone(demoting): after a full collection that demoted objects the cards of
\* those that are ephemeral now are set.
GCDone(demoting, newGen) ==
  IF demoting /\ full
  THEN cards \cup {CardOf(n) : n \in {m \in Slot : object[m] # NoObject
                                         /\ newGen[object[m]] = "ephemeral"}}
  ELSE cards

\* The survivors get their generations: ephemeral ones may be promoted, old ones
\* demoted only by a compacting collection of all generations.
GCEnd(demoting, newGen) ==
  /\ gc = "relocated" \/ (gc = "marked" /\ ~demoting)
  /\ \A o \in Object :
       \/ newGen[o] = gen[o]
       \/ o \in Condemned(full) /\ gen[o] = "ephemeral" /\ newGen[o] = "old"
       \/ o \in Condemned(full) /\ gen[o] = "old" /\ newGen[o] = "ephemeral" /\ demoting
  /\ gen' = newGen
  /\ cards' = GCDone(demoting, newGen)
  /\ gc' = "none" /\ full' = FALSE
  /\ UNCHANGED <<index, table, slots, pool, made, cleanup, used, task, cleaner,
                 failures>>

-----------------------------------------------------------------------------
\* The finalizer thread sees its task in DoExtraWorkForFinalizer and calls
\* CleanupSyncBlocks, which sets the flag before it resets the task ...
BeginCleanup ==
  /\ gc = "none" /\ finalizer = "idle" /\ task
  /\ inProgress' = TRUE
  /\ finalizer' = "reset"
  /\ UNCHANGED <<gen, index, table, slots, cards, pool, made, cleanup, used, task,
                 doomed, gc, full, failures>>

ResetSyncBlockCleanup ==
  /\ gc = "none" /\ finalizer = "reset"
  /\ task' = FALSE
  /\ finalizer' = "walk"
  /\ UNCHANGED <<gen, index, table, slots, cards, pool, made, cleanup, used,
                 inProgress, doomed, gc, full, failures>>

\* ... and then takes one sync block after the other from the list.
GetNextCleanupSyncBlock ==
  /\ gc = "none" /\ finalizer = "walk"
  /\ \/ /\ cleanup = {}
        /\ finalizer' = "done" /\ UNCHANGED <<cleanup, doomed>>
     \/ \E b \in cleanup :
          /\ cleanup' = cleanup \ {b} /\ doomed' = b
          /\ finalizer' = "delete"
  /\ UNCHANGED <<gen, index, table, slots, cards, pool, made, used, task, inProgress,
                 gc, full, failures>>

DeleteSyncBlock ==
  /\ gc = "none" /\ finalizer = "delete"
  /\ freeBlocks' = freeBlocks \cup {doomed}
  /\ freeCount' = freeCount + 1 /\ activeCount' = activeCount - 1
  /\ doomed' = NoBlock
  /\ finalizer' = "walk"
  /\ UNCHANGED <<gen, index, table, slots, cards, made, cleanup, used, task,
                 inProgress, gc, full, failures>>

\* Mutant of EndCleanup: the task is reset at the end.
EndCleanupReset ==
  /\ gc = "none" /\ finalizer = "done"
  /\ inProgress' = FALSE /\ task' = FALSE
  /\ finalizer' = "idle"
  /\ UNCHANGED <<gen, index, table, slots, cards, pool, made, cleanup, used,
                 doomed, gc, full, failures>>

EndCleanup ==
  /\ gc = "none" /\ finalizer = "done"
  /\ inProgress' = FALSE
  /\ finalizer' = "idle"
  /\ UNCHANGED <<gen, index, table, slots, cards, pool, made, cleanup, used, task,
                 doomed, gc, full, failures>>

-----------------------------------------------------------------------------
Mutator ==
  \E o \in Object : \/ Allocate(o) \/ GetSyncBlock(o) \/ UseSyncBlock(o)
                    \/ GetSyncBlockOutOfMemory(o) \/ GetSyncBlockTableFull(o)

Collector ==
  \/ \E all \in BOOLEAN, dead \in SUBSET Object : GCMark(all, dead)
  \/ \E moved \in SUBSET Object : GCRelocate(moved)
  \/ \E demoting \in BOOLEAN, newGen \in [Object -> {"none", "ephemeral", "old"}] :
       GCEnd(demoting, newGen)

Finalizer ==
  \/ BeginCleanup \/ ResetSyncBlockCleanup \/ GetNextCleanupSyncBlock
  \/ DeleteSyncBlock \/ EndCleanup

Next == Mutator \/ Collector \/ Finalizer

Spec == Init /\ [][Next]_vars
==============================================================================
