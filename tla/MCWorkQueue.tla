----------------------------- MODULE MCWorkQueue -----------------------------
(***************************************************************************)
(* An instance of WorkQueue with three workers for TLC.                    *)
(***************************************************************************)
EXTENDS WorkQueueProps, TLC

\* Workers are interchangeable.
Symmetry == Permutations(Worker)
==============================================================================
