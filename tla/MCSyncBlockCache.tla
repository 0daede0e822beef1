-------------------------- MODULE MCSyncBlockCache ---------------------------
(***************************************************************************)
(* Small instances of SyncBlockCache for TLC.                              *)
(***************************************************************************)
EXTENDS SyncBlockCacheProps, TLC

\* Objects are interchangeable, and so are sync blocks.
Symmetry == Permutations(Object) \cup Permutations(Block)
==============================================================================
