-------------------------- MODULE MCThreadSuspend ----------------------------
(***************************************************************************)
(* Small instances of ThreadSuspend for TLC.  With three threads, each has *)
(* a role of its own: one collects, one suspends, one is in the way.  With *)
(* two (the third is not started), both do everything, one starts and      *)
(* ends, and store buffers are longer; or both collect and start no-GC     *)
(* regions.                                                                *)
(***************************************************************************)
EXTENDS ThreadSuspendProps, TLC

CONSTANTS Pair       \* the two threads of the other instances

VARIABLE crew

Trio == INSTANCE ThreadSuspend WITH Mortals <- {}, BufferSize <- 1, Starters <- {}

Both == INSTANCE ThreadSuspend WITH Collectors <- Pair, Suspenders <- Pair, Starters <- {}

NoGC == INSTANCE ThreadSuspend WITH Collectors <- Pair, Suspenders <- {}, Mortals <- {},
                                    BufferSize <- 1

MCInit == \/ crew = "trio" /\ Trio!Init
          \/ crew = "pair" /\ Both!Init
          \/ crew = "region" /\ NoGC!Init

MCNext ==
  /\ UNCHANGED crew
  /\ \/ crew = "trio" /\ Trio!Next
     \/ crew = "pair" /\ \E t \in Pair : Both!Moves(t)
     \/ crew = "region" /\ \E t \in Pair : NoGC!Moves(t)

MCSpec == MCInit /\ [][MCNext]_<<vars, crew>>
==============================================================================
