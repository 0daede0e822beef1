------------------------ MODULE SyncBlockCacheProofs -------------------------
(***************************************************************************)
(* The sync table keeps its promises for any number of objects and sync    *)
(* blocks, any size of the table and of a card, and any number of failed   *)
(* allocations.                                                            *)
(***************************************************************************)
EXTENDS SyncBlockCacheProps, FiniteSetTheorems, TLAPS

\* A slot has an object when it has a sync block; a free one has been used.
SlotsWellFormed ==
  /\ \A n \in Slot : object[n] = NoObject <=> slotBlock[n] = NoBlock
  /\ \A n \in freeSlots : n < freeIndex

\* The card of every slot with an ephemeral object is set, in the middle of a
\* collection too.
Carded == \A n \in Slot : Ephemeral(n) => CardOf(n) \in cards

\* A sync block is in one place.
OnePlace ==
  /\ \A m, n \in InUse : slotBlock[m] = slotBlock[n] => m = n
  /\ \A n \in InUse : slotBlock[n] \in made \ (freeBlocks \cup cleanup \cup {doomed})
  /\ freeBlocks \subseteq made /\ cleanup \subseteq made
  /\ doomed # NoBlock => doomed \in made
  /\ freeBlocks \cap cleanup = {}
  /\ doomed \notin freeBlocks \cup cleanup
  /\ \A b \in made : b \in freeBlocks \cup cleanup \cup {doomed}
                     \/ \E n \in InUse : slotBlock[n] = b

\* The counters count them.
Counted ==
  /\ freeCount = Cardinality(freeBlocks)
  /\ activeCount = Cardinality(made) - freeCount + failures

\* The finalizer thread works on the cleanup list only under its flag, and has
\* a sync block in its hands only while it deletes it.
FinalizerAt ==
  /\ inProgress <=> finalizer # "idle"
  /\ doomed # NoBlock <=> finalizer = "delete"
  /\ finalizer = "done" /\ cleanup # {} => task

TableInv == TypeOK /\ BackPointers /\ SlotsWellFormed /\ Carded

CacheInv == TableInv /\ OnePlace /\ Counted /\ FinalizerAt /\ CleanupAnnounced

-----------------------------------------------------------------------------
\* Grow stays within the mask.
LEMMA GrowBounds ==
  ASSUME size \in InitialSize..Limit
  PROVE  NewSize \in InitialSize..Limit
BY SyncBlockCacheAssumption DEF SyncBlockCacheAssumption, NewSize

\* An empty table.
LEMMA CacheInvInit == Init => CacheInv
<1> SUFFICES ASSUME Init PROVE CacheInv
  OBVIOUS
<1> USE SyncBlockCacheAssumption DEF SyncBlockCacheAssumption, Init
<1>1. TypeOK
  <2>1. task \in BOOLEAN /\ inProgress \in BOOLEAN /\ full \in BOOLEAN
    BY Zenon
  <2>2. freeIndex \in 1..Limit /\ size \in InitialSize..Limit
    OBVIOUS
  <2> QED BY <2>1, <2>2 DEF TypeOK
<1>2. InUse = {}
  BY DEF InUse
<1>3. BackPointers /\ SlotsWellFormed /\ Carded
  BY <1>2 DEF BackPointers, SlotsWellFormed, Carded, Ephemeral
<1>4. OnePlace
  BY <1>2 DEF OnePlace
<1>5. Counted
  BY FS_EmptySet DEF Counted
<1>6. FinalizerAt /\ CleanupAnnounced
  BY DEF FinalizerAt, CleanupAnnounced
<1> QED BY <1>1, <1>3, <1>4, <1>5, <1>6 DEF CacheInv, TableInv

-----------------------------------------------------------------------------
\* There are finitely many sync blocks, and no more free ones than there are.
LEMMA BlocksFinite ==
  ASSUME NEW m \in SUBSET Block, NEW f \in SUBSET m
  PROVE  /\ IsFiniteSet(m) /\ IsFiniteSet(f)
         /\ Cardinality(m) \in Nat /\ Cardinality(f) \in Nat
         /\ Cardinality(m) - Cardinality(f) \in Nat
<1>1. IsFiniteSet(m)
  BY FS_Subset, SyncBlockCacheAssumption DEF SyncBlockCacheAssumption
<1>2. IsFiniteSet(f) /\ Cardinality(f) <= Cardinality(m)
  BY <1>1, FS_Subset
<1> QED BY <1>1, <1>2, FS_CardinalityType

\* An allocated object has no slot yet.
LEMMA CacheInvAllocate ==
  ASSUME CacheInv, NEW o \in Object, Allocate(o)
  PROVE  CacheInv'
<1> USE DEF CacheInv, TableInv, Allocate, table, slots, pool, cleaner
<1>1. TypeOK'
  BY DEF TypeOK
<1>2. \A p \in Object : gen[p] # "none" => gen'[p] = gen[p]
  BY DEF TypeOK
<1>3. InUse' = InUse
  BY DEF InUse
<1>4. BackPointers'
  BY <1>2, <1>3 DEF TypeOK, BackPointers, InUse, Live
<1>5. SlotsWellFormed' /\ Carded'
  BY <1>2 DEF TypeOK, BackPointers, InUse, Live, SlotsWellFormed, Carded, Ephemeral
<1>6. OnePlace' /\ Counted' /\ FinalizerAt' /\ CleanupAnnounced'
  BY <1>3 DEF OnePlace, Counted, FinalizerAt, CleanupAnnounced
<1> QED BY <1>1, <1>4, <1>5, <1>6

\* A block that comes from the free list or from the arrays is in no other place.
LEMMA CacheInvGetSyncBlock ==
  ASSUME CacheInv, NEW o \in Object, GetSyncBlock(o)
  PROVE  CacheInv'
<1> USE SyncBlockCacheAssumption DEF SyncBlockCacheAssumption
<1> USE DEF CacheInv, TableInv, table, slots, pool, cleaner
<1> PICK b \in Block, n \in Slot :
       /\ GetNextFreeSyncBlock(b) /\ NewSyncBlockSlot(n)
       /\ object' = [object EXCEPT ![n] = o] /\ stale' = stale \ {n}
       /\ slotBlock' = [slotBlock EXCEPT ![n] = b]
       /\ index' = [index EXCEPT ![o] = n]
       /\ used' = used \ {b}
       /\ freeBlocks' = freeBlocks \ {b}
       /\ freeCount' = IF b \in freeBlocks THEN freeCount - 1 ELSE freeCount
  BY DEF GetSyncBlock
<1>1. /\ o \in Live /\ index[o] = 0 /\ activeCount' = activeCount + 1
      /\ UNCHANGED <<gen, cleanup, task, inProgress, finalizer, doomed, gc, full, failures>>
  BY DEF GetSyncBlock
<1>2. /\ n \notin InUse /\ n < freeIndex' /\ freeIndex <= freeIndex'
      /\ n \notin freeSlots' /\ freeSlots' \subseteq freeSlots
      /\ freeIndex' \in 1..Limit /\ size' \in InitialSize..Limit
  BY GrowBounds DEF NewSyncBlockSlot, Grow, TypeOK, BackPointers, SlotsWellFormed, Slot
<1>3. cards' = cards \cup {CardOf(n)}
  BY DEF NewSyncBlockSlot
<1>4. InUse' = InUse \cup {n}
  BY <1>2 DEF InUse, TypeOK
<1>5. BackPointers'
  <2>1. \A p \in Object : index'[p] # 0 => object'[index'[p]] = p
    <3> SUFFICES ASSUME NEW p \in Object, index'[p] # 0
                 PROVE  object'[index'[p]] = p
      OBVIOUS
    <3>1. CASE p = o
      BY <3>1 DEF TypeOK
    <3>2. CASE p # o
      <4>1. index[p] \in Slot /\ object[index[p]] = p /\ index[p] \in InUse
        BY <3>2 DEF TypeOK, BackPointers, InUse
      <4> QED BY <3>2, <4>1, <1>2 DEF TypeOK
    <3> QED BY <3>1, <3>2
  <2>2. \A m \in InUse' :
          /\ object'[m] \in Live' /\ index'[object'[m]] = m /\ m \notin stale'
          /\ m < freeIndex' /\ m \notin freeSlots'
    <3> SUFFICES ASSUME NEW m \in InUse'
                 PROVE  /\ object'[m] \in Live' /\ index'[object'[m]] = m /\ m \notin stale'
                        /\ m < freeIndex' /\ m \notin freeSlots'
      OBVIOUS
    <3>1. CASE m = n
      BY <3>1, <1>1, <1>2 DEF TypeOK, Live
    <3>2. CASE m # n
      BY <3>2, <1>1, <1>2, <1>4 DEF TypeOK, BackPointers, Live, InUse, Slot
    <3> QED BY <3>1, <3>2
  <2> QED BY <2>1, <2>2 DEF BackPointers
<1>6. SlotsWellFormed'
  <2>1. \A m \in Slot : object'[m] = NoObject <=> slotBlock'[m] = NoBlock
    BY DEF SlotsWellFormed, TypeOK
  <2>2. \A m \in freeSlots' : m < freeIndex'
    BY <1>2 DEF SlotsWellFormed, TypeOK, Slot
  <2> QED BY <2>1, <2>2 DEF SlotsWellFormed
<1>7. Carded'
  BY <1>1, <1>3 DEF Carded, Ephemeral, TypeOK
<1>8. /\ b \notin cleanup \cup {doomed} /\ \A m \in InUse : slotBlock[m] # b
      /\ made' \subseteq Block /\ made' = made \cup {b}
  BY DEF OnePlace, GetNextFreeSyncBlock, TypeOK
<1>9. OnePlace'
  <2>1. \A m \in InUse : slotBlock'[m] = slotBlock[m]
    BY <1>2 DEF TypeOK
  <2>2. slotBlock'[n] = b
    BY DEF TypeOK
  <2>3. \A k, m \in InUse' : slotBlock'[k] = slotBlock'[m] => k = m
    BY <1>4, <1>8, <2>1, <2>2 DEF OnePlace
  <2>4. \A m \in InUse' : slotBlock'[m] \in made' \ (freeBlocks' \cup cleanup' \cup {doomed'})
    BY <1>1, <1>4, <1>8, <2>1, <2>2 DEF OnePlace
  <2>5. \A c \in made' : c \in freeBlocks' \cup cleanup' \cup {doomed'}
                     \/ \E m \in InUse' : slotBlock'[m] = c
    BY <1>1, <1>4, <1>8, <2>1, <2>2 DEF OnePlace
  <2> QED BY <1>1, <1>8, <2>3, <2>4, <2>5 DEF OnePlace
<1>10. Counted' /\ freeCount' \in Nat /\ activeCount' \in Nat
  <2>1. /\ IsFiniteSet(made) /\ IsFiniteSet(freeBlocks)
        /\ Cardinality(made) \in Nat /\ Cardinality(freeBlocks) \in Nat
    BY BlocksFinite DEF TypeOK, OnePlace
  <2>2. /\ Cardinality(freeBlocks') \in Nat
        /\ Cardinality(made') - Cardinality(freeBlocks') \in Nat
    BY <1>8, <1>9, BlocksFinite DEF OnePlace
  <2>3. CASE b \in freeBlocks /\ made' = made
    <3>1. Cardinality(freeBlocks') = Cardinality(freeBlocks) - 1
      BY <2>1, <2>3, FS_RemoveElement
    <3> QED BY <1>1, <2>1, <2>2, <2>3, <3>1 DEF Counted, TypeOK
  <2>4. CASE freeBlocks = {} /\ b \notin made
    <3>1. Cardinality(made') = Cardinality(made) + 1
      BY <1>8, <2>1, <2>4, FS_AddElement
    <3>2. freeBlocks' = freeBlocks
      BY <2>4
    <3> QED BY <1>1, <2>1, <2>2, <2>4, <3>1, <3>2 DEF Counted, TypeOK
  <2> QED BY <2>3, <2>4 DEF GetNextFreeSyncBlock
<1>11. TypeOK'
  BY <1>1, <1>2, <1>3, <1>8, <1>10 DEF TypeOK
<1>12. FinalizerAt' /\ CleanupAnnounced'
  BY <1>1 DEF FinalizerAt, CleanupAnnounced
<1> QED BY <1>5, <1>6, <1>7, <1>9, <1>10, <1>11, <1>12

\* A failed allocation counts a sync block too many, which failures records.
LEMMA CacheInvOutOfMemory ==
  ASSUME CacheInv, NEW o \in Object, GetSyncBlockOutOfMemory(o)
  PROVE  CacheInv'
<1> USE DEF CacheInv, TableInv, table, slots, pool, cleaner
<1>1. /\ failures' = failures + 1 /\ activeCount' = activeCount + 1
      /\ UNCHANGED <<gen, index, object, slotBlock, stale, freeSlots, freeIndex, size,
                     cards, freeBlocks, freeCount, made, cleanup, used, task,
                     inProgress, finalizer, doomed, gc, full>>
  BY DEF GetSyncBlockOutOfMemory
<1>2. InUse' = InUse
  BY <1>1 DEF InUse
<1>3. Cardinality(made) \in Nat
  BY BlocksFinite DEF TypeOK, OnePlace
<1>4. Counted'
  BY <1>1, <1>3 DEF Counted, TypeOK
<1>5. TypeOK'
  BY <1>1 DEF TypeOK
<1>6. BackPointers' /\ SlotsWellFormed' /\ Carded'
  BY <1>1, <1>2 DEF BackPointers, Live, SlotsWellFormed, Carded, Ephemeral
<1>7. OnePlace' /\ FinalizerAt' /\ CleanupAnnounced'
  BY <1>1, <1>2 DEF OnePlace, FinalizerAt, CleanupAnnounced
<1> QED BY <1>4, <1>5, <1>6, <1>7

\* The holder in GetSyncBlock gives the sync block back.
LEMMA CacheInvTableFull ==
  ASSUME CacheInv, NEW o \in Object, GetSyncBlockTableFull(o)
  PROVE  CacheInv'
<1> USE DEF CacheInv, TableInv, table, slots, pool, cleaner
<1> PICK b \in Block : GetNextFreeSyncBlock(b) /\ freeBlocks' = freeBlocks \cup {b}
  BY DEF GetSyncBlockTableFull
<1>1. /\ freeCount' = IF freeBlocks = {} THEN freeCount + 1 ELSE freeCount
      /\ UNCHANGED <<gen, index, object, slotBlock, stale, freeSlots, freeIndex, size,
                     cards, activeCount, cleanup, used, task, inProgress, finalizer,
                     doomed, gc, full, failures>>
  BY DEF GetSyncBlockTableFull
<1>2. InUse' = InUse
  BY <1>1 DEF InUse
<1>3. /\ b \notin cleanup \cup {doomed} /\ \A m \in InUse : slotBlock[m] # b
      /\ made' \subseteq Block /\ made' = made \cup {b}
      /\ b \in freeBlocks <=> b \in made
  BY SyncBlockCacheAssumption
     DEF SyncBlockCacheAssumption, OnePlace, GetNextFreeSyncBlock, TypeOK
<1>4. OnePlace'
  BY <1>1, <1>2, <1>3 DEF OnePlace
<1>5. /\ IsFiniteSet(made) /\ IsFiniteSet(freeBlocks)
      /\ Cardinality(made) \in Nat /\ Cardinality(freeBlocks) \in Nat
  BY BlocksFinite DEF TypeOK, OnePlace
<1>6. Counted' /\ freeCount' \in Nat
  <2>1. CASE b \in freeBlocks
    <3>1. freeBlocks' = freeBlocks /\ made' = made /\ freeBlocks # {}
      BY <1>3, <2>1
    <3> QED BY <1>1, <1>5, <3>1 DEF Counted
  <2>2. CASE b \notin freeBlocks
    <3>1. freeBlocks = {} /\ b \notin made
      BY <1>3, <2>2 DEF GetNextFreeSyncBlock
    <3>2. /\ Cardinality(freeBlocks') = Cardinality(freeBlocks) + 1
          /\ Cardinality(made') = Cardinality(made) + 1
      BY <1>3, <1>5, <2>2, <3>1, FS_AddElement
    <3> QED BY <1>1, <1>5, <3>1, <3>2 DEF Counted, TypeOK
  <2> QED BY <2>1, <2>2
<1>7. TypeOK'
  BY <1>1, <1>3, <1>6 DEF TypeOK
<1>8. BackPointers' /\ SlotsWellFormed' /\ Carded'
  BY <1>1, <1>2 DEF BackPointers, Live, SlotsWellFormed, Carded, Ephemeral
<1>9. FinalizerAt' /\ CleanupAnnounced'
  BY <1>1 DEF FinalizerAt, CleanupAnnounced
<1> QED BY <1>4, <1>6, <1>7, <1>8, <1>9

\* Whether a sync block is indispensable concerns only the collector.
LEMMA CacheInvUse ==
  ASSUME CacheInv, NEW o \in Object, UseSyncBlock(o)
  PROVE  CacheInv'
<1> USE DEF CacheInv, TableInv, table, slots, pool, cleaner
<1>1. index[o] \in InUse /\ slotBlock[index[o]] \in Block
  BY SyncBlockCacheAssumption
     DEF SyncBlockCacheAssumption, UseSyncBlock, TypeOK, BackPointers, InUse, SlotsWellFormed
<1>2. used' \subseteq Block
  BY <1>1 DEF UseSyncBlock, TypeOK
<1>3. UNCHANGED <<gen, index, object, slotBlock, stale, freeSlots, freeIndex, size,
                  cards, freeBlocks, freeCount, activeCount, made, cleanup, task,
                  inProgress, finalizer, doomed, gc, full, failures>>
  BY DEF UseSyncBlock
<1>4. TypeOK'
  BY <1>2, <1>3 DEF TypeOK
<1>5. InUse' = InUse
  BY <1>3 DEF InUse
<1>6. BackPointers' /\ SlotsWellFormed' /\ Carded'
  BY <1>3, <1>5 DEF BackPointers, Live, SlotsWellFormed, Carded, Ephemeral
<1>7. OnePlace' /\ Counted' /\ FinalizerAt' /\ CleanupAnnounced'
  BY <1>3, <1>5 DEF OnePlace, Counted, FinalizerAt, CleanupAnnounced
<1> QED BY <1>4, <1>6, <1>7

-----------------------------------------------------------------------------
\* The finalizer thread empties the cleanup list under its flag.
LEMMA CacheInvFinalizer == CacheInv /\ Finalizer => CacheInv'
<1> SUFFICES ASSUME CacheInv, Finalizer PROVE CacheInv'
  OBVIOUS
<1> USE DEF CacheInv, TableInv, table, slots, pool, cleaner
<1>1. UNCHANGED <<gen, index, object, slotBlock, stale, freeSlots, freeIndex, size,
                  cards, made, used, gc, full, failures>>
  BY DEF Finalizer, BeginCleanup, ResetSyncBlockCleanup, GetNextCleanupSyncBlock,
         DeleteSyncBlock, EndCleanup
<1>2. InUse' = InUse /\ BackPointers' /\ SlotsWellFormed' /\ Carded'
  BY <1>1 DEF InUse, BackPointers, Live, SlotsWellFormed, Carded, Ephemeral
<1>3. CASE BeginCleanup \/ ResetSyncBlockCleanup \/ EndCleanup
  <2>1. UNCHANGED <<freeBlocks, freeCount, activeCount, cleanup, doomed>>
    BY <1>3 DEF BeginCleanup, ResetSyncBlockCleanup, EndCleanup
  <2>2. task' \in BOOLEAN /\ inProgress' \in BOOLEAN
    BY <1>3, Zenon DEF BeginCleanup, ResetSyncBlockCleanup, EndCleanup, TypeOK
  <2>3. finalizer' \in {"idle", "reset", "walk", "delete", "done"}
    BY <1>3 DEF BeginCleanup, ResetSyncBlockCleanup, EndCleanup
  <2>4. TypeOK'
    BY <1>1, <2>1, <2>2, <2>3 DEF TypeOK
  <2>5. OnePlace' /\ Counted'
    BY <1>1, <1>2, <2>1 DEF OnePlace, Counted
  <2>6. FinalizerAt' /\ CleanupAnnounced'
    BY <1>3, <2>1 DEF BeginCleanup, ResetSyncBlockCleanup, EndCleanup, FinalizerAt,
                      CleanupAnnounced
  <2> QED BY <1>2, <2>4, <2>5, <2>6
<1>4. CASE GetNextCleanupSyncBlock
  <2>1. UNCHANGED <<freeBlocks, freeCount, activeCount, task, inProgress>>
    BY <1>4 DEF GetNextCleanupSyncBlock
  <2>2. doomed = NoBlock
    BY <1>4 DEF GetNextCleanupSyncBlock, FinalizerAt
  <2>3. CASE cleanup = {} /\ finalizer' = "done" /\ UNCHANGED <<cleanup, doomed>>
    BY <1>1, <1>2, <1>4, <2>1, <2>3
       DEF GetNextCleanupSyncBlock, TypeOK, OnePlace, Counted, FinalizerAt, CleanupAnnounced
  <2>4. ASSUME NEW b \in cleanup,
               cleanup' = cleanup \ {b} /\ doomed' = b /\ finalizer' = "delete"
        PROVE  CacheInv'
    <3>1. b \in Block /\ b # NoBlock
      BY SyncBlockCacheAssumption DEF SyncBlockCacheAssumption, TypeOK
    <3>2. TypeOK' /\ Counted'
      BY <1>1, <2>1, <2>4, <3>1 DEF TypeOK, Counted
    <3>3. OnePlace'
      <4>1. freeBlocks \cup cleanup \cup {doomed} =
              freeBlocks \cup (cleanup \ {b}) \cup {b} \cup {NoBlock}
        BY <2>2, <2>4
      <4>2. b \in made /\ b \notin freeBlocks /\ \A n \in InUse : slotBlock[n] # b
        BY <2>4 DEF OnePlace
      <4>3. NoBlock \notin made
        BY SyncBlockCacheAssumption DEF SyncBlockCacheAssumption, TypeOK
      <4> QED BY <1>1, <1>2, <2>1, <2>2, <2>4, <4>1, <4>2, <4>3 DEF OnePlace
    <3>4. FinalizerAt' /\ CleanupAnnounced'
      BY <1>4, <2>1, <2>4, <3>1 DEF FinalizerAt, CleanupAnnounced, GetNextCleanupSyncBlock
    <3> QED BY <1>2, <3>2, <3>3, <3>4
  <2> QED BY <1>4, <2>3, <2>4 DEF GetNextCleanupSyncBlock
<1>5. CASE DeleteSyncBlock
  <2>1. /\ freeBlocks' = freeBlocks \cup {doomed}
        /\ freeCount' = freeCount + 1 /\ activeCount' = activeCount - 1
        /\ doomed' = NoBlock /\ finalizer = "delete" /\ finalizer' = "walk"
        /\ UNCHANGED <<cleanup, task, inProgress>>
    BY <1>5 DEF DeleteSyncBlock
  <2>2. doomed \in made /\ doomed \notin freeBlocks
    BY <2>1 DEF FinalizerAt, OnePlace
  <2>3. NoBlock \notin made
    BY SyncBlockCacheAssumption DEF SyncBlockCacheAssumption, TypeOK
  <2>4. OnePlace'
    BY <1>1, <1>2, <2>1, <2>2, <2>3 DEF OnePlace
  <2>5. /\ IsFiniteSet(freeBlocks) /\ Cardinality(freeBlocks) \in Nat
        /\ Cardinality(made) \in Nat
        /\ Cardinality(made') - Cardinality(freeBlocks') \in Nat
    BY <1>1, <2>4, BlocksFinite DEF TypeOK, OnePlace
  <2>6. Cardinality(freeBlocks') = Cardinality(freeBlocks) + 1
    BY <2>1, <2>2, <2>5, FS_AddElement
  <2>7. Counted' /\ freeCount' \in Nat /\ activeCount' \in Nat
    BY <1>1, <2>1, <2>5, <2>6 DEF Counted, TypeOK
  <2>8. TypeOK'
    BY <1>1, <2>1, <2>2, <2>7 DEF TypeOK
  <2>9. FinalizerAt' /\ CleanupAnnounced'
    BY <2>1 DEF FinalizerAt, CleanupAnnounced
  <2> QED BY <1>2, <2>4, <2>7, <2>8, <2>9
<1> QED BY <1>3, <1>4, <1>5 DEF Finalizer

-----------------------------------------------------------------------------
\* The scan of an ephemeral collection misses no slot it has to look at, because
\* the cards are set.
LEMMA ScanReaches ==
  ASSUME CacheInv, NEW all \in BOOLEAN, NEW n \in InUse, object[n] \in Condemned(all)
  PROVE  n \in Scanned(all)
<1>1. n \in Slot /\ n < freeIndex /\ object[n] # NoObject
  BY DEF CacheInv, TableInv, BackPointers, InUse
<1>2. CASE all
  BY <1>1, <1>2 DEF Scanned
<1>3. CASE ~all
  BY <1>1, <1>3 DEF Scanned, Condemned, Ephemeral, CacheInv, TableInv, Carded
<1> QED BY <1>2, <1>3

\* The sync blocks of different slots are different.
LEMMA BlocksOfSlots ==
  ASSUME CacheInv, NEW ns \in SUBSET InUse
  PROVE  LET bs == {slotBlock[n] : n \in ns}
         IN  /\ IsFiniteSet(bs) /\ IsFiniteSet(ns)
             /\ Cardinality(bs) = Cardinality(ns) /\ Cardinality(ns) \in Nat
<1> DEFINE bs == {slotBlock[n] : n \in ns}
           f  == [n \in ns |-> slotBlock[n]]
<1>1. IsFiniteSet(Slot)
  BY FS_Interval, SyncBlockCacheAssumption DEF SyncBlockCacheAssumption, Slot
<1>2. IsFiniteSet(ns)
  <2>1. ns \in SUBSET Slot
    BY DEF InUse
  <2> QED BY <1>1, <2>1, FS_Subset
<1>3. f \in Injection(ns, bs)
  <2>1. f \in [ns -> bs]
    OBVIOUS
  <2>2. \A a, b \in ns : f[a] = f[b] => a = b
    BY DEF CacheInv, OnePlace
  <2> QED BY <2>1, <2>2 DEF Injection, IsInjective
<1>4. f \in Surjection(ns, bs)
  BY DEF Surjection
<1>5. ExistsBijection(ns, bs)
  BY <1>3, <1>4 DEF ExistsBijection, Bijection
<1> QED BY <1>2, <1>5, FS_Bijection, FS_CardinalityType

\* What a scan of the table does, when it is told which of the condemned objects
\* are dead and which move.
LEMMA CacheInvScan ==
  ASSUME CacheInv, NEW all \in BOOLEAN,
         NEW dead \in SUBSET Condemned(all), NEW moved \in SUBSET Condemned(all),
         GCWeakPtrScan(all, dead, moved),
         gen' \in [Object -> {"none", "ephemeral", "old"}],
         \A o \in Object : gen'[o] = IF o \in dead THEN "none" ELSE gen[o],
         gc' \in {"none", "marked", "relocated"}, full' \in BOOLEAN,
         UNCHANGED <<freeIndex, size, made, inProgress, finalizer, doomed, failures>>
  PROVE  CacheInv'
<1> DEFINE gone     == {n \in Scanned(all) : object[n] \in dead}
           disposed == {n \in Scanned(all) \ gone : slotBlock[n] \notin used}
           freed    == gone \cup disposed
           D        == {slotBlock[n] : n \in disposed}
           G        == {slotBlock[n] : n \in gone}
<1>1. /\ object' = [n \in Slot |-> IF n \in freed THEN NoObject ELSE object[n]]
      /\ stale' = (stale \cup {n \in Slot : object[n] \in moved}) \ Scanned(all)
      /\ slotBlock' = [n \in Slot |-> IF n \in freed THEN NoBlock ELSE slotBlock[n]]
      /\ freeSlots' = freeSlots \cup freed
      /\ cleanup' = cleanup \cup G /\ used' = used \ G
      /\ task' = (task \/ gone # {})
      /\ freeBlocks' = freeBlocks \cup D
      /\ freeCount' = freeCount + Cardinality(disposed)
      /\ activeCount' = activeCount - Cardinality(disposed)
      /\ index' = [o \in Object |->
                     IF o \in dead \cup {object[n] : n \in disposed} THEN 0 ELSE index[o]]
      /\ cards' = ClearCards(all)
  BY DEF GCWeakPtrScan, GCDeleteSyncBlock, InsertCleanupSyncBlock
<1>2. /\ gone \subseteq InUse /\ disposed \subseteq InUse /\ freed \subseteq InUse
      /\ gone \cap disposed = {} /\ InUse \subseteq Slot
  BY DEF Scanned, InUse
<1>3. \A n \in InUse : object[n] \in dead => n \in gone
  BY ScanReaches
<1>4. \A n \in InUse : object[n] \in moved => n \in Scanned(all)
  BY ScanReaches
<1> HIDE DEF gone, disposed
<1> USE SyncBlockCacheAssumption DEF SyncBlockCacheAssumption, CacheInv, TableInv
<1>5. InUse' = InUse \ freed /\ \A n \in InUse' : object'[n] = object[n]
  BY <1>1, <1>2 DEF InUse
<1>6. dead \subseteq Object /\ moved \subseteq Object
  BY DEF Condemned, Live
<1>7. BackPointers'
  <2>1. ASSUME NEW o \in Object, index'[o] # 0
        PROVE  object'[index'[o]] = o
    <3>1. o \notin dead /\ index'[o] = index[o] /\ index[o] # 0
      BY <1>1, <2>1
    <3>2. o \notin {object[n] : n \in disposed}
      BY <1>1, <2>1
    <3>3. index[o] \in Slot /\ object[index[o]] = o
      BY <3>1 DEF BackPointers, TypeOK
    <3>4. index[o] \notin disposed
      BY <3>2, <3>3
    <3>5. index[o] \notin gone
      BY <3>1, <3>3 DEF gone
    <3> QED BY <1>1, <3>1, <3>3, <3>4, <3>5
  <2>2. ASSUME NEW n \in InUse'
        PROVE  /\ object'[n] \in Live' /\ index'[object'[n]] = n /\ n \notin stale'
               /\ n < freeIndex' /\ n \notin freeSlots'
    <3>1. n \in InUse /\ n \notin freed /\ object'[n] = object[n]
      BY <1>5
    <3>2. object[n] \notin dead
      BY <1>3, <3>1
    <3>3. object[n] \in Live /\ index[object[n]] = n /\ n \notin stale
          /\ n < freeIndex /\ n \notin freeSlots /\ object[n] \in Object
      BY <3>1 DEF BackPointers, Live
    <3>4. object'[n] \in Live'
      BY <3>1, <3>2, <3>3 DEF Live
    <3>5. object[n] \notin {object[m] : m \in disposed}
      <4> SUFFICES ASSUME NEW m \in disposed, object[m] = object[n] PROVE FALSE
        OBVIOUS
      <4>1. index[object[m]] = m
        BY <1>2 DEF BackPointers
      <4> QED BY <3>1, <3>3, <4>1
    <3>6. index'[object'[n]] = n
      BY <1>1, <3>1, <3>2, <3>3, <3>5
    <3>7. n \notin stale'
      BY <1>1, <1>4, <3>1, <3>3
    <3> QED BY <1>1, <3>1, <3>3, <3>4, <3>6, <3>7
  <2> QED BY <2>1, <2>2 DEF BackPointers
<1>8. SlotsWellFormed'
  <2>1. \A n \in freed : n < freeIndex
    BY <1>2 DEF BackPointers
  <2> QED BY <1>1, <2>1 DEF SlotsWellFormed
<1>9. Carded'
  <2> SUFFICES ASSUME NEW n \in Slot, Ephemeral(n)' PROVE CardOf(n) \in cards'
    BY DEF Carded
  <2>1. n \in InUse' /\ object'[n] = object[n]
    BY <1>5 DEF Ephemeral, InUse
  <2>2. object[n] \notin dead /\ object[n] \in Object /\ n \in InUse /\ n < freeIndex
    BY <1>3, <1>5, <2>1 DEF BackPointers, Live
  <2>3. Ephemeral(n)
    BY <2>1, <2>2 DEF Ephemeral, InUse
  <2>4. CardOf(n) \in cards
    BY <2>3 DEF Carded
  <2> QED BY <1>1, <2>2, <2>3, <2>4 DEF ClearCards
<1>10. OnePlace'
  <2>1. \A n \in InUse' : slotBlock'[n] = slotBlock[n] /\ n \in InUse /\ n \notin freed
    BY <1>1, <1>2, <1>5
  <2>2. \A m, n \in InUse' : slotBlock'[m] = slotBlock'[n] => m = n
    BY <2>1 DEF OnePlace
  <2>3. /\ D \cup G \subseteq made \ (freeBlocks \cup cleanup \cup {doomed})
        /\ D \cap G = {}
    BY <1>2 DEF OnePlace
  <2>4. \A n \in InUse' : slotBlock'[n] \notin D \cup G
    BY <1>2, <2>1 DEF OnePlace
  <2>5. \A n \in InUse' : slotBlock'[n] \in made' \ (freeBlocks' \cup cleanup' \cup {doomed'})
    <3> SUFFICES ASSUME NEW n \in InUse'
                 PROVE  slotBlock'[n] \in made' \ (freeBlocks' \cup cleanup' \cup {doomed'})
      OBVIOUS
    <3>1. slotBlock[n] \in made \ (freeBlocks \cup cleanup \cup {doomed})
      BY <2>1 DEF OnePlace
    <3> HIDE DEF D, G
    <3> QED BY <1>1, <2>1, <2>4, <3>1
  <2>6. ASSUME NEW b \in made', b \notin freeBlocks' \cup cleanup' \cup {doomed'}
        PROVE  \E n \in InUse' : slotBlock'[n] = b
    <3>1. b \in made /\ b \notin freeBlocks \cup cleanup \cup {doomed} /\ b \notin D \cup G
      BY <1>1, <2>6
    <3>2. PICK n \in InUse : slotBlock[n] = b
      BY <3>1 DEF OnePlace
    <3>3. n \notin freed
      BY <3>1, <3>2
    <3> QED BY <1>1, <1>2, <1>5, <3>2, <3>3
  <2> HIDE DEF D, G
  <2>7. /\ freeBlocks' \subseteq made' /\ cleanup' \subseteq made'
        /\ doomed' # NoBlock => doomed' \in made'
        /\ freeBlocks' \cap cleanup' = {}
        /\ doomed' \notin freeBlocks' \cup cleanup'
    BY <1>1, <2>3 DEF OnePlace
  <2> QED BY <2>2, <2>5, <2>6, <2>7 DEF OnePlace
<1>11. Counted' /\ freeCount' \in Nat /\ activeCount' \in Nat
  <2>1. /\ IsFiniteSet(freeBlocks) /\ Cardinality(freeBlocks) \in Nat
        /\ Cardinality(made) \in Nat
        /\ Cardinality(made') - Cardinality(freeBlocks') \in Nat
        /\ Cardinality(freeBlocks') \in Nat
    BY <1>10, BlocksFinite DEF OnePlace, TypeOK
  <2>2. /\ IsFiniteSet(D) /\ Cardinality(D) = Cardinality(disposed)
        /\ Cardinality(disposed) \in Nat
    BY <1>2, BlocksOfSlots
  <2>3. freeBlocks \cap D = {}
    BY <1>2 DEF OnePlace
  <2> HIDE DEF D
  <2>4. Cardinality(freeBlocks') = Cardinality(freeBlocks) + Cardinality(disposed)
    <3>1. Cardinality(freeBlocks \cup D) = Cardinality(freeBlocks) + Cardinality(D) - 0
      BY <2>1, <2>2, <2>3, FS_Union, FS_EmptySet
    <3> QED BY <1>1, <2>1, <2>2, <3>1 DEF D
  <2> QED BY <1>1, <2>1, <2>2, <2>4 DEF Counted, TypeOK
<1>12. TypeOK'
  <2>1. task' \in BOOLEAN
    BY <1>1, Zenon
  <2>2. cards' \subseteq cards
    BY <1>1 DEF ClearCards
  <2>3. D \subseteq Block /\ G \subseteq Block
    BY <1>2 DEF OnePlace, TypeOK
  <2>4. object' \in [Slot -> Object \cup {NoObject}]
    BY <1>1 DEF TypeOK
  <2>5. slotBlock' \in [Slot -> Block \cup {NoBlock}]
    BY <1>1 DEF TypeOK
  <2>6. index' \in [Object -> Slot \cup {0}]
    BY <1>1 DEF TypeOK
  <2>7. stale' \subseteq Slot /\ freeSlots' \subseteq Slot
    BY <1>1, <1>2 DEF TypeOK
  <2> HIDE DEF D, G
  <2>8. freeBlocks' \subseteq Block /\ cleanup' \subseteq Block /\ used' \subseteq Block
    BY <1>1, <2>3 DEF TypeOK
  <2> QED BY <1>11, <2>1, <2>2, <2>4, <2>5, <2>6, <2>7, <2>8 DEF TypeOK
<1>13. FinalizerAt' /\ CleanupAnnounced'
  <2>1. cleanup' # cleanup => task'
    BY <1>1
  <2>2. task => task'
    BY <1>1
  <2> QED BY <1>1, <2>1, <2>2 DEF FinalizerAt, CleanupAnnounced
<1> QED BY <1>7, <1>8, <1>9, <1>10, <1>11, <1>12, <1>13

\* The three steps of a collection.
LEMMA CacheInvCollector == CacheInv /\ Collector => CacheInv'
<1> SUFFICES ASSUME CacheInv, Collector PROVE CacheInv'
  OBVIOUS
<1> USE DEF table, slots, pool, cleaner
<1>1. ASSUME NEW all \in BOOLEAN, NEW dead \in SUBSET Object, GCMark(all, dead)
      PROVE  CacheInv'
  <2>1. /\ dead \in SUBSET Condemned(all) /\ {} \in SUBSET Condemned(all)
        /\ GCWeakPtrScan(all, dead, {})
        /\ gen' = [o \in Object |-> IF o \in dead THEN "none" ELSE gen[o]]
        /\ gc' = "marked" /\ full' = all
        /\ UNCHANGED <<freeIndex, size, made, inProgress, finalizer, doomed, failures>>
    BY <1>1 DEF GCMark
  <2>2. gen' \in [Object -> {"none", "ephemeral", "old"}]
    BY <2>1 DEF CacheInv, TableInv, TypeOK
  <2> QED BY <2>1, <2>2, CacheInvScan
<1>2. ASSUME NEW moved \in SUBSET Object, GCRelocate(moved)
      PROVE  CacheInv'
  <2>1. /\ moved \in SUBSET Condemned(full) /\ {} \in SUBSET Condemned(full)
        /\ GCWeakPtrScan(full, {}, moved)
        /\ gc' = "relocated"
        /\ UNCHANGED <<gen, freeIndex, size, made, inProgress, finalizer, doomed, full,
                       failures>>
    BY <1>2 DEF GCRelocate
  <2>2. /\ full \in BOOLEAN /\ full' \in BOOLEAN
        /\ gen' \in [Object -> {"none", "ephemeral", "old"}]
        /\ \A o \in Object : gen'[o] = IF o \in {} THEN "none" ELSE gen[o]
    BY <2>1 DEF CacheInv, TableInv, TypeOK
  <2> QED BY <2>1, <2>2, CacheInvScan
<1>3. ASSUME NEW demoting \in BOOLEAN,
             NEW newGen \in [Object -> {"none", "ephemeral", "old"}],
             GCEnd(demoting, newGen)
      PROVE  CacheInv'
  <2>1. /\ gen' = newGen /\ cards' = GCDone(demoting, newGen)
        /\ gc' = "none" /\ full' = FALSE
        /\ UNCHANGED <<index, object, slotBlock, stale, freeSlots, freeIndex, size,
                       freeBlocks, freeCount, activeCount, made, cleanup, used, task,
                       inProgress, finalizer, doomed, failures>>
    BY <1>3 DEF GCEnd
  <2>2. \A o \in Object :
          \/ newGen[o] = gen[o]
          \/ gen[o] = "ephemeral" /\ newGen[o] = "old"
          \/ gen[o] = "old" /\ newGen[o] = "ephemeral" /\ demoting /\ full
    BY <1>3 DEF GCEnd, Condemned
  <2> USE DEF CacheInv, TableInv
  <2>3. TypeOK'
    <3>1. full' \in BOOLEAN
      BY <2>1, Zenon
    <3>2. cards' \subseteq {CardOf(n) : n \in Slot}
      BY <2>1 DEF GCDone, TypeOK
    <3>3. gen' \in [Object -> {"none", "ephemeral", "old"}]
      BY <2>1
    <3>4. gc' \in {"none", "marked", "relocated"}
      BY <2>1
    <3> QED BY <2>1, <3>1, <3>2, <3>3, <3>4 DEF TypeOK
  <2>4. InUse' = InUse
    BY <2>1 DEF InUse
  <2>5. Live' = Live
    BY <2>1, <2>2 DEF Live
  <2>6. BackPointers' /\ SlotsWellFormed'
    BY <2>1, <2>4, <2>5 DEF BackPointers, SlotsWellFormed
  <2>7. Carded'
    <3> SUFFICES ASSUME NEW n \in Slot, Ephemeral(n)' PROVE CardOf(n) \in cards'
      BY DEF Carded
    <3>1. object[n] # NoObject /\ newGen[object[n]] = "ephemeral" /\ object[n] \in Object
      BY <2>1 DEF Ephemeral, TypeOK
    <3>2. CASE demoting /\ full
      BY <2>1, <3>1, <3>2 DEF GCDone
    <3>3. CASE ~(demoting /\ full)
      <4>1. Ephemeral(n)
        BY <2>2, <3>1, <3>3 DEF Ephemeral
      <4> QED BY <2>1, <3>3, <4>1 DEF GCDone, Carded
    <3> QED BY <3>2, <3>3
  <2>8. OnePlace' /\ Counted' /\ FinalizerAt' /\ CleanupAnnounced'
    BY <2>1, <2>4 DEF OnePlace, Counted, FinalizerAt, CleanupAnnounced
  <2> QED BY <2>3, <2>6, <2>7, <2>8
<1> QED BY <1>1, <1>2, <1>3 DEF Collector

-----------------------------------------------------------------------------
\* CacheInv is an invariant of the specification.
THEOREM CacheInvariant == Spec => []CacheInv
<1>1. CacheInv /\ [Next]_vars => CacheInv'
  <2> SUFFICES ASSUME CacheInv, [Next]_vars PROVE CacheInv'
    OBVIOUS
  <2>1. CASE Mutator
    BY <2>1, CacheInvAllocate, CacheInvGetSyncBlock, CacheInvOutOfMemory,
       CacheInvTableFull, CacheInvUse DEF Mutator
  <2>2. CASE Collector
    BY <2>2, CacheInvCollector
  <2>3. CASE Finalizer
    BY <2>3, CacheInvFinalizer
  <2>4. CASE UNCHANGED vars
    <3> USE <2>4 DEF vars, table, slots, pool, cleaner, CacheInv, TableInv
    <3>1. InUse' = InUse
      BY DEF InUse
    <3>2. TypeOK' /\ BackPointers' /\ SlotsWellFormed' /\ Carded'
      BY <3>1 DEF TypeOK, BackPointers, Live, SlotsWellFormed, Carded, Ephemeral
    <3>3. OnePlace' /\ Counted' /\ FinalizerAt' /\ CleanupAnnounced'
      BY <3>1 DEF OnePlace, Counted, FinalizerAt, CleanupAnnounced
    <3> QED BY <3>2, <3>3
  <2> QED BY <2>1, <2>2, <2>3, <2>4 DEF Next
<1> QED BY <1>1, CacheInvInit, PTL DEF Spec

\* Types, and the counters never negative (m_FreeCount, m_ActiveCount).
THEOREM CacheTypes == Spec => []TypeOK
<1>1. CacheInv => TypeOK
  BY DEF CacheInv, TableInv
<1> QED BY <1>1, CacheInvariant, PTL

\* Header and table point at each other through every collection (the assertion
\* of GetSyncBlock), whatever dies, moves and is demoted.
THEOREM BackPointersHold == Spec => []BackPointers
<1>1. CacheInv => BackPointers
  BY DEF CacheInv, TableInv
<1> QED BY <1>1, CacheInvariant, PTL

\* The assertion of VerifySyncTableEntry on the ephemeral bitmap.
THEOREM EphemeralCardedHolds == Spec => []EphemeralCarded
<1>1. CacheInv => EphemeralCarded
  BY DEF CacheInv, TableInv, Carded, EphemeralCarded, InUse
<1> QED BY <1>1, CacheInvariant, PTL

\* A sync block is in one place, and the counters count them.
THEOREM BlocksPartitionedHolds == Spec => []BlocksPartitioned
<1>1. CacheInv => BlocksPartitioned
  <2> SUFFICES ASSUME CacheInv, NEW b \in made
      PROVE  Cardinality({n \in InUse : slotBlock[n] = b})
               + (IF b \in freeBlocks THEN 1 ELSE 0) + (IF b \in cleanup THEN 1 ELSE 0)
               + (IF b = doomed THEN 1 ELSE 0) = 1
    BY DEF BlocksPartitioned, CacheInv, Counted
  <2>1. CASE \E m \in InUse : slotBlock[m] = b
    <3> PICK m \in InUse : slotBlock[m] = b
      BY <2>1
    <3>1. {n \in InUse : slotBlock[n] = b} = {m}
      BY DEF CacheInv, OnePlace
    <3>2. b \notin freeBlocks /\ b \notin cleanup /\ b # doomed
      BY DEF CacheInv, OnePlace
    <3> QED BY <3>1, <3>2, FS_Singleton
  <2>2. CASE ~\E m \in InUse : slotBlock[m] = b
    <3>1. {n \in InUse : slotBlock[n] = b} = {}
      BY <2>2
    <3>2. b \in freeBlocks \cup cleanup \cup {doomed}
      BY <2>2 DEF CacheInv, OnePlace
    <3>3. (b \in freeBlocks => b \notin cleanup) /\ doomed \notin freeBlocks \cup cleanup
      BY DEF CacheInv, OnePlace
    <3> QED BY <3>1, <3>2, <3>3, FS_EmptySet
  <2> QED BY <2>1, <2>2
<1> QED BY <1>1, CacheInvariant, PTL

\* The cleanup of a dead object's sync block is never forgotten: the comment of
\* CleanupSyncBlocks on the order of flag and task.
THEOREM CleanupAnnouncedHolds == Spec => []CleanupAnnounced
<1>1. CacheInv => CleanupAnnounced
  BY DEF CacheInv
<1> QED BY <1>1, CacheInvariant, PTL
==============================================================================
