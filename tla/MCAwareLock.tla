----------------------------- MODULE MCAwareLock -----------------------------
(***************************************************************************)
(* Small instances of AwareLock for TLC.                                   *)
(***************************************************************************)
EXTENDS AwareLockProps, TLC

\* Threads are interchangeable.
Symmetry == Permutations(Thread)
==============================================================================
