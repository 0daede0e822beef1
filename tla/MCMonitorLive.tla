----------------------------- MODULE MCMonitorLive ---------------------------
(***************************************************************************)
(* The liveness properties of the monitor, one part of it at a time: Wait  *)
(* and Pulse, the contended lock and the object header.  The parts share   *)
(* nothing; a behaviour runs the one that "part" names and leaves the      *)
(* others as they start.  The fairness of a part is that of its Props      *)
(* module; one conjunct below stands for a conjunct of each.               *)
(***************************************************************************)
EXTENDS MCMonitorWait

CONSTANTS First, Second,   \* two of the threads
          NoHash, Hash, NoBlock

VARIABLE part

VARIABLES
  alHeldBit, alHeldWaiters, alHoldingThread, alRecursion, alPrecious,
  alTransient, alEventAlloc, alEventFlag, alEventSet, alPc, alCall, alDepth,
  alExceptions, alPhantom, alWaited,

  ohHeader, ohBlock, ohCacheLock, ohPc, ohCall, ohSaved, ohHashes

Pair == {First, Second}

AL == INSTANCE AwareLockProps WITH
  EnterOps <- {"Enter", "TryEnterTimed"}, TimeOut <- 0,
  MaxRecursion <- 1, MaxExceptions <- 0,
  heldBit <- alHeldBit, heldWaiters <- alHeldWaiters,
  holdingThread <- alHoldingThread, recursion <- alRecursion,
  precious <- alPrecious, transient <- alTransient,
  eventAlloc <- alEventAlloc, eventFlag <- alEventFlag,
  eventSet <- alEventSet, pc <- alPc, call <- alCall, depth <- alDepth,
  exceptions <- alExceptions, phantom <- alPhantom, waited <- alWaited

OH == INSTANCE ObjHeaderProps WITH
  Thread <- Pair, LargeId <- {Second}, MaxThinRecursion <- 0,
  MaxEntries <- 2,
  header <- ohHeader, block <- ohBlock, cacheLock <- ohCacheLock, pc <- ohPc,
  call <- ohCall, saved <- ohSaved, hashes <- ohHashes

alVars == <<alHeldBit, alHeldWaiters, alHoldingThread, alRecursion, alPrecious,
             alTransient, alEventAlloc, alEventFlag, alEventSet, alPc, alCall, alDepth,
             alExceptions, alPhantom, alWaited>>

ohVars == <<ohHeader, ohBlock, ohCacheLock, ohPc, ohCall, ohSaved, ohHashes>>

allVars == <<part, vars, alVars, ohVars>>

LiveInit == part \in {"wait", "lock", "header"} /\ Init /\ AL!Init /\ OH!Init

\* A step of one part.
InWaits(step)  == part = "wait" /\ step /\ UNCHANGED <<part, alVars, ohVars>>
InLock(step)   == part = "lock" /\ step /\ UNCHANGED <<part, vars, ohVars>>
InHeader(step) == part = "header" /\ step /\ UNCHANGED <<part, vars, alVars>>

LiveNext == InWaits(Next) \/ InLock(AL!Next) \/ InHeader(OH!Next)

\* What the scheduler runs.
Run(t) ==
  InWaits(Step(t)) \/ InLock(AL!Step(t)) \/ InHeader(t \in Pair /\ OH!Step(t))

\* What the owner of the monitor does some time; waits end.
End(t) == InLock(AL!Leave(t)) \/ InHeader(t \in Pair /\ OH!WaitEnds(t))

\* What happens when it is possible often enough.
Strong(t) ==
  \/ InWaits(Reenter(t) \/ \E s \in SB : Leave(t, s))
  \/ InLock(AL!WaitSignalled(t) \/ AL!SpinEnd(t))
  \/ InHeader(IF t \in Pair THEN OH!WaiterEnters(t) \/ OH!LeaveAt(t, 1)
                            ELSE \E u \in Pair : OH!LeaveAt(u, 2))

LiveSpec ==
  /\ LiveInit /\ [][LiveNext]_allVars
  /\ \A t \in Thread : /\ WF_allVars(Run(t)) /\ WF_allVars(End(t))
                       /\ SF_allVars(Strong(t))

\* The thread is in a call that waits without a timeout: it has been pulsed, it
\* enters or leaves the contended lock, or it is in an operation on the header.
Busy(t) ==
  \/ part = "wait" /\ InWait(t, "block") /\ ~IsQueued(MyLink(t))
  \/ part = "lock" /\ alCall[t] \in {"Enter", "Contention", "Leave"}
  \/ part = "header" /\ t \in Pair /\ ohPc[t] # "idle"

Returned(t) ==
  \/ part = "wait" /\ frames[t] = <<>>
  \/ part = "lock" /\ alCall[t] = "none"
  \/ part = "header" /\ (t \in Pair => ohPc[t] = "idle")

\* Nobody starves.  Every Enter is granted, although entering threads, waiters
\* that time out, the creation of the event and the owner that leaves interleave
\* in every way (AwareLockProps!EnterReturns); a Wait that has been pulsed comes
\* back with the monitor (MonitorWaitProps!PulsedWaitReturns); spin lock, cache
\* lock and monitor of a header block nobody for ever
\* (ObjHeaderProps!OperationsReturn).
CallsReturn == \A t \in Thread : Busy(t) ~> Returned(t)
==============================================================================
