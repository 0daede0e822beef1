----------------------------- MODULE MCMonitors ------------------------------
(***************************************************************************)
(* The monitors for TLC: the contended lock (AwareLock), the lock in the   *)
(* header of an object that becomes one (ObjHeader), and Wait and Pulse    *)
(* (MonitorWait) without nested waits.  A behaviour runs one of them and   *)
(* leaves the others as they start.                                        *)
(***************************************************************************)
EXTENDS AwareLockProps, TLC

CONSTANTS LargeId,               \* threads whose id is too large for a thin lock
          MaxThinRecursion, Hash, NoHash, NoBlock,
          MaxEntries,            \* bound: entries of one thread
          SB, NoSB,              \* the objects to wait for
          WaitEntries, WaitInterrupts   \* bounds: MaxEntries and MaxInterrupts there

VARIABLE part

VARIABLES ohHeader, ohBlock, ohCacheLock, ohPc, ohCall, ohSaved, ohHashes

\* The module with the theorems about ObjHeaderProps, so that MonitorsProofs can
\* cite them.
OH == INSTANCE ObjHeaderProofs WITH
  header <- ohHeader, block <- ohBlock, cacheLock <- ohCacheLock, pc <- ohPc,
  call <- ohCall, saved <- ohSaved, hashes <- ohHashes

ASSUME HeaderAssumption == OH!ObjHeaderAssumption

VARIABLES mwOwner, mwEntries, mwQueue, mwLink, mwChain, mwFrames, mwPulse, mwSignalled,
          mwStore, mwCreated, mwInterrupts, mwAborts, mwStoreFailures

\* The same for the theorems about MonitorWaitProps.
MW == INSTANCE MonitorWaitProofs WITH
  OwnEvent <- [t \in Thread |-> <<t>>], Pool <- {}, TimedWaits <- BOOLEAN,
  PulseAlls <- BOOLEAN, MaxNesting <- 1, MaxEntries <- WaitEntries,
  MaxInterrupts <- WaitInterrupts, MaxRudeAborts <- 0, MaxStoreFailures <- 0,
  owner <- mwOwner, entries <- mwEntries, queue <- mwQueue, link <- mwLink,
  chain <- mwChain, frames <- mwFrames, pulse <- mwPulse, signalled <- mwSignalled,
  store <- mwStore, created <- mwCreated, interrupts <- mwInterrupts,
  aborts <- mwAborts, storeFailures <- mwStoreFailures

ASSUME WaitAssumption == MW!MonitorWaitAssumption

ohVars == <<ohHeader, ohBlock, ohCacheLock, ohPc, ohCall, ohSaved, ohHashes>>
mwVars == <<mwOwner, mwEntries, mwQueue, mwLink, mwChain, mwFrames, mwPulse, mwSignalled,
            mwStore, mwCreated, mwInterrupts, mwAborts, mwStoreFailures>>

MCInit == part \in {"lock", "header", "waits"} /\ Init /\ OH!Init /\ MW!Init

\* Threads may wait for a pulse that nobody sends.
MayStop == part = "waits" /\ UNCHANGED <<vars, ohVars, mwVars>>

MCNext ==
  /\ UNCHANGED part
  /\ \/ part = "lock" /\ Next /\ UNCHANGED <<ohVars, mwVars>>
     \/ part = "header" /\ OH!Next /\ UNCHANGED <<vars, mwVars>>
     \/ part = "waits" /\ MW!Next /\ UNCHANGED <<vars, ohVars>>
     \/ MayStop

MCSpec == MCInit /\ [][MCNext]_<<vars, ohVars, mwVars, part>>

\* Threads with small ids are interchangeable, and so are hash codes.
Symmetry == Permutations(Thread \ LargeId) \cup Permutations(Hash)

\* Types of the monitors: in particular the recursion level of a thin lock
\* (EnterObjMonitorHelper) and m_Recursion stay in their ranges, and a monitor that
\* is left by Wait has been entered before.
MonitorTypeOK == TypeOK /\ OH!TypeOK /\ MW!TypeOK

\* ObjHeaderProps!HashStable: an object has one hash code, wherever it is kept.
HashStable == OH!HashStable

\* ObjHeaderProps!NoUseAfterDeflation: the GC never deletes the sync block under a
\* thread that has a pointer to it.
NoUseAfterDeflation == OH!NoUseAfterDeflation

\* ObjHeaderProps!HeaderFrozen: nobody else changes a header that is copied to a
\* sync block.
HeaderFrozen == OH!HeaderFrozen

\* ObjHeaderProps!ImplementsMonitor: owner and count survive inflation and
\* deflation.
HeaderImplementsMonitor == OH!ImplementsMonitor

\* MonitorWaitProps!NoLostPulse: a blocked Wait that was dequeued has its event set,
\* or the pulsing thread is about to set it.
NoLostPulse == MW!NoLostPulse

\* MonitorWaitProps!NoDanglingLink: a queue holds links of Wait calls that have not
\* been through Restore.
NoDanglingLink == MW!NoDanglingLink

\* MonitorWaitProps!PulsedLinkAlive: the link a pulsing thread still has to read
\* belongs to a Wait that has not returned.
PulsedLinkAlive == MW!PulsedLinkAlive

\* MonitorWaitProps!RemovedBySignaller: a Wait whose event was signalled is no longer
\* queued.
RemovedBySignaller == MW!RemovedBySignaller
==============================================================================
