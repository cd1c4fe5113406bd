------------------------------- MODULE Nodes -------------------------------
(***************************************************************************)
(* The nodes of LockFreeStack and LockFreeQueue: control blocks with a     *)
(* value and a next pointer, an AtomicSharedPtr or a SharedPtr.  A node    *)
(* lives as long as there is a SharedPtr of it; after that its address can *)
(* be used by another node.                                                *)
(***************************************************************************)
EXTENDS Naturals, Sequences, FiniteSets

CONSTANTS Node, NULL

\* The addresses of nodes.
ASSUME NodeAssumption == IsFiniteSet(Node) /\ Node # {} /\ NULL \notin Node

\* The nodes that SharedPtrs keep alive: those in S, and those that can be
\* reached from them.
KeptBy(links, S) ==
  LET nth[i \in 0..Cardinality(Node)] ==
        IF i = 0 THEN S \ {NULL}
        ELSE nth[i - 1] \cup ({links[n] : n \in nth[i - 1]} \ {NULL})
  IN  nth[Cardinality(Node)]

\* The nodes from first on, along the links.
ListFrom(links, first) ==
  LET nth[i \in 1..(Cardinality(Node) + 1)] ==
        IF i = 1 THEN first
        ELSE IF nth[i - 1] = NULL THEN NULL ELSE links[nth[i - 1]]
      len == Cardinality({i \in DOMAIN nth : nth[i] # NULL})
  IN  [i \in 1..len |-> nth[i]]
=============================================================================
