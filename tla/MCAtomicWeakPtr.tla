-------------------------- MODULE MCAtomicWeakPtr --------------------------
(* Instances of AtomicWeakPtr for TLC. *)
EXTENDS AtomicWeakPtr, TLC
CONSTANTS t1, t2, p1, s, w
MCDisposer == {"decrementRef", "decrementWeakRef"}
MCDisposerOf == [c \in Cell |-> IF c = w THEN "decrementWeakRef" ELSE "decrementRef"]
Symmetric == Permutations(Thread) \cup Permutations(Ptr)
=============================================================================
