--------------------------- MODULE MCTaskExecutor ---------------------------
(* Instances of TaskExecutor for TLC. *)
EXTENDS TaskExecutor, TLC
RequestSymmetry == Permutations(Requests)
=============================================================================
