----------------------- MODULE MCHazardPointerDomain -----------------------
(* Instances of HazardPointerDomain for TLC. *)
EXTENDS HazardPointerDomain, TLC

CONSTANTS t1, t2, e1, e2, p1, p2, c1

MCDisposer == {"decrementRef"}
MCDisposerOf == [c \in Cell |-> "decrementRef"]

Symmetric ==
  Permutations(Thread) \cup Permutations(Entry) \cup Permutations(Ptr)
=============================================================================
