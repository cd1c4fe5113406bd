--------------------------- MODULE MCControlBlock ---------------------------
(* Instances of ControlBlock for TLC. *)
EXTENDS ControlBlock, TLC

CONSTANTS t1, t2, b1, b2, b3

Symmetric == Permutations(Thread) \cup Permutations(Block)
=============================================================================
