--------------------------- MODULE MCMonitorWait -----------------------------
(***************************************************************************)
(* Small instances of MonitorWait for TLC.  The own event of a thread is   *)
(* named after the thread.                                                 *)
(***************************************************************************)
EXTENDS MonitorWaitProps, TLC

MCOwnEvent == [t \in Thread |-> <<t>>]

\* Threads, sync blocks and pool events are interchangeable.
Symmetry == Permutations(Thread) \cup Permutations(SB) \cup Permutations(Pool)
==============================================================================
