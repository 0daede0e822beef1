------------------------ MODULE SyncBlockCacheProps --------------------------
(***************************************************************************)
(* What the sync table and the pool of sync blocks guarantee.              *)
(***************************************************************************)
EXTENDS SyncBlockCache

InUse == {n \in Slot : object[n] # NoObject}

\* Header and table point at each other through every collection (the assertion
\* of GetSyncBlock, "Has our backpointer been correctly updated through every
\* GC?", and of VerifySyncTableEntry): the index in a header is that of the slot
\* of its object, every slot in use has a live object at its current address
\* whose header leads back, and no such slot is on the free list.
BackPointers ==
  /\ \A o \in Object : index[o] # 0 => object[index[o]] = o
  /\ \A n \in InUse :
       /\ object[n] \in Live /\ index[object[n]] = n /\ n \notin stale
       /\ n < freeIndex /\ n \notin freeSlots

\* The assertion of VerifySyncTableEntry: between collections the card of every
\* slot with an ephemeral object is set, so that the next collection of the
\* ephemeral generations will not miss the slot.
EphemeralCarded ==
  gc = "none" => \A n \in InUse : Ephemeral(n) => CardOf(n) \in cards

\* A sync block is in one place: in one slot, on the free list, on the cleanup
\* list or in the hands of the finalizer thread; and m_FreeCount and
\* m_ActiveCount count them (a failed allocation leaves m_ActiveCount too high).
BlocksPartitioned ==
  /\ \A b \in made :
       Cardinality({n \in InUse : slotBlock[n] = b})
         + (IF b \in freeBlocks THEN 1 ELSE 0) + (IF b \in cleanup THEN 1 ELSE 0)
         + (IF b = doomed THEN 1 ELSE 0) = 1
  /\ freeCount = Cardinality(freeBlocks)
  /\ activeCount = Cardinality(made) - freeCount + failures

\* The comment of CleanupSyncBlocks, "This must be set before the sync block
\* cleanup bit is reset on the thread": as long as a sync block waits for its
\* cleanup or is in it, the task or the flag is set, so that ReleaseRCWsInCaches
\* waits for the finalizer thread and the cleanup is not forgotten.
CleanupAnnounced == cleanup # {} \/ doomed # NoBlock => task \/ inProgress
==============================================================================
