-------------------------------- MODULE MCRpc --------------------------------
(* Instances of Rpc for TLC. *)
EXTENDS Rpc, TLC

CONSTANTS q1, q2, n1
OneByte == [c \in Procs |-> 1]
RequestSymmetry == Permutations(Requests)
==============================================================================
