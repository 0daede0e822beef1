----------------------------- MODULE MCThreadPool ----------------------------
(***************************************************************************)
(* The safety properties of the thread pool, one part of it at a time: the *)
(* runtime's half (WorkerPool), the managed half (WorkQueue) and the local *)
(* queue (WorkStealingQueue), the latter with two thieves, and with one    *)
(* thief where the indices overflow.  A behaviour runs the part that       *)
(* "part" names and leaves the others as they start.                       *)
(***************************************************************************)
EXTENDS WorkerPoolProps, TLC

CONSTANTS Finalizer, Owner, Thief, Other, NoThread

VARIABLE part

VARIABLES
  wqWorkItems, wqLocal, wqQueues, wqWsqActive, wqRequests, wqPending, wqPc,
  wqAfter, wqHand, wqObserved, wqScan, wqMissed, wqCleaning, wqMade, wqDone,

  wsArray, wsMask, wsHead, wsTail, wsLock, wsPc, wsAt, wsObj, wsFinds,
  wsPushed, wsTakes, wsPresent, wsDenied

WQ == INSTANCE WorkQueueProofs WITH
  ProcessorCount <- 2, Mortals <- Worker, Disturbed <- Worker, MaxItems <- 3,
  workItems <- wqWorkItems, local <- wqLocal, queues <- wqQueues,
  wsqActive <- wqWsqActive, requests <- wqRequests, pending <- wqPending,
  pc <- wqPc, after <- wqAfter, hand <- wqHand, observed <- wqObserved,
  scan <- wqScan, missed <- wqMissed, cleaning <- wqCleaning, made <- wqMade,
  done <- wqDone

\* The debug build starts at int.MaxValue.
Two == INSTANCE WorkStealingQueueProofs WITH
  Thieves <- {Thief, Other}, MaxIndex <- 7, InitialSize <- 2,
  StartIndices <- {7}, MaxPushes <- 3, MaxFinds <- 0,
  array <- wsArray, mask <- wsMask, head <- wsHead, tail <- wsTail,
  lock <- wsLock, pc <- wsPc, at <- wsAt, obj <- wsObj, finds <- wsFinds,
  pushed <- wsPushed, takes <- wsTakes, present <- wsPresent,
  denied <- wsDenied

\* The tail gets past the start of the array, or to the end of the integers.
One == INSTANCE WorkStealingQueueProofs WITH
  Thieves <- {Thief}, MaxIndex <- 7, InitialSize <- 2,
  StartIndices <- {5, 6, 7}, MaxPushes <- 4, MaxFinds <- 1,
  array <- wsArray, mask <- wsMask, head <- wsHead, tail <- wsTail,
  lock <- wsLock, pc <- wsPc, at <- wsAt, obj <- wsObj, finds <- wsFinds,
  pushed <- wsPushed, takes <- wsTakes, present <- wsPresent,
  denied <- wsDenied

ASSUME PoolAssumption ==
  WQ!WorkQueueAssumption /\ Two!QueueAssumption /\ One!QueueAssumption

wqVars == <<wqWorkItems, wqLocal, wqQueues, wqWsqActive, wqRequests, wqPending, wqPc,
           wqAfter, wqHand, wqObserved, wqScan, wqMissed, wqCleaning, wqMade, wqDone>>

wsVars == <<wsArray, wsMask, wsHead, wsTail, wsLock, wsPc, wsAt, wsObj, wsFinds,
           wsPushed, wsTakes, wsPresent, wsDenied>>

MCInit ==
  /\ Init /\ WQ!Init
  /\ \/ part = "Pool" /\ Two!Init
     \/ part = "Queue" /\ Two!Init
     \/ part = "Two" /\ Two!Init
     \/ part = "One" /\ One!Init
  /\ part # "Pool" => limits = [min |-> 1, max |-> 1]

MCNext ==
  /\ UNCHANGED part
  /\ \/ part = "Pool" /\ Next /\ UNCHANGED <<wqVars, wsVars>>
     \/ part = "Queue" /\ WQ!Next /\ UNCHANGED <<vars, wsVars>>
     \/ part = "Two" /\ Two!Next /\ UNCHANGED <<vars, wqVars>>
     \/ part = "One" /\ One!Next /\ UNCHANGED <<vars, wqVars>>

MCSpec == MCInit /\ [][MCNext]_<<vars, wqVars, wsVars, part>>

\* Workers are interchangeable, and so are two thieves.
Symmetry == Permutations(Worker) \cup Permutations({Thief, Other})

\* Types of the parts.
PoolTypeOK ==
  TypeOK /\ WQ!TypeOK /\ IF part = "One" THEN One!TypeOK ELSE Two!TypeOK

\* WorkQueueProps!RequestsInSync: what the managed code counts as requested is
\* what the runtime has recorded, up to the calls under way.
RequestsInSync == WQ!RequestsInSync

\* WorkQueueProps!NothingStranded: no item is left in a queue with every worker
\* back in the runtime and no request recorded.
NothingStranded == WQ!NothingStranded

\* WorkStealingQueueProps!TakenOnce: no item is handed out twice.
TakenOnce == IF part = "One" THEN One!TakenOnce ELSE Two!TakenOnce

\* WorkStealingQueueProps!NothingLost: what was pushed and not handed out can be
\* reached between head and tail.
NothingLost == IF part = "One" THEN One!NothingLost ELSE Two!NothingLost

\* WorkStealingQueueProps!AbsentWasTaken: an item that was there for the whole of
\* a call that reported the queue empty has been handed out.
AbsentWasTaken == IF part = "One" THEN One!AbsentWasTaken ELSE Two!AbsentWasTaken
==============================================================================
