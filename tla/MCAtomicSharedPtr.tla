------------------------- MODULE MCAtomicSharedPtr -------------------------
(* Instances of AtomicSharedPtr for TLC. *)
EXTENDS AtomicSharedPtr, TLC

CONSTANTS t1, t2, p1, p2, c1, c2

MCDisposer == {"decrementRef"}
MCDisposerOf == [c \in Cell |-> "decrementRef"]

Symmetric == Permutations(Thread) \cup Permutations(Ptr) \cup Permutations(Cell)
=============================================================================
