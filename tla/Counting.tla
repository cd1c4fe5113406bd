------------------------------ MODULE Counting ------------------------------
(***************************************************************************)
(* How the number of elements of a set changes with one element, and with  *)
(* it the number of places in which a function has a value: what the       *)
(* proofs about reference counters count with.  At the end, that there is  *)
(* one walk along a linked list, for the proofs about lists.               *)
(***************************************************************************)
EXTENDS FiniteSetTheorems, TLAPS

\* A set of numbers has a least element.
LEMMA LeastNumber ==
  ASSUME NEW A \in SUBSET Nat, A # {}
  PROVE  \E m \in A : \A n \in A : m <= n
<1> DEFINE R == OpToRel(<, Nat)
<1>1. R = {p \in Nat \X Nat : p[1] < p[2]}
  BY DEF OpToRel
<1>2. IsWellFoundedOn(R, Nat)
  BY NatLessThanWellFounded
<1> HIDE DEF R
<1>3. PICK m \in A : \A n \in A : <<n, m>> \notin R
  BY <1>2, WFMin
<1>4. \A n \in A : ~ (n < m)
  BY <1>1, <1>3
<1> QED
  BY <1>4

\* The numbers up to n are n.
LEMMA IntervalSize ==
  ASSUME NEW n \in Nat
  PROVE  IsFiniteSet(1..n) /\ Cardinality(1..n) = n
<1>1. 1 \in Int /\ n \in Int
  OBVIOUS
<1>2. IsFiniteSet(1..n) /\ Cardinality(1..n) = IF 1 > n THEN 0 ELSE n - 1 + 1
  BY <1>1, FS_Interval
<1> QED
  BY <1>2

\* A subset of a finite set has a number of elements.
LEMMA CountIsNat ==
  ASSUME NEW S, IsFiniteSet(S), NEW A \in SUBSET S
  PROVE  /\ IsFiniteSet(A)
         /\ Cardinality(A) \in Nat
         /\ Cardinality(A) = 0 <=> A = {}
BY FS_Subset, FS_CardinalityType, FS_EmptySet

\* A sum of numbers is zero if they all are.
LEMMA SumIsZero ==
  ASSUME NEW i \in Nat, NEW j \in Nat, NEW k \in Nat, NEW l \in Nat,
         i + j + k + l = 0
  PROVE  i = 0 /\ j = 0 /\ k = 0 /\ l = 0
OBVIOUS

\* Two sets that agree up to x differ in number by x.
LEMMA CountChange ==
  ASSUME NEW S, IsFiniteSet(S), NEW A \in SUBSET S, NEW B \in SUBSET S,
         NEW x \in S, \A y \in S : y # x => (y \in A <=> y \in B)
  PROVE  /\ Cardinality(A) \in Nat /\ Cardinality(B) \in Nat
         /\ Cardinality(B) + (IF x \in A THEN 1 ELSE 0)
              = Cardinality(A) + (IF x \in B THEN 1 ELSE 0)
<1>1. /\ IsFiniteSet(A) /\ IsFiniteSet(B)
      /\ Cardinality(A) \in Nat /\ Cardinality(B) \in Nat
  BY CountIsNat
<1>2. CASE x \in A <=> x \in B
  <2>1. A = B
    BY <1>2
  <2> QED
    BY <1>1, <2>1
<1>3. CASE x \in A /\ x \notin B
  <2>1. B = A \ {x}
    BY <1>3
  <2>2. Cardinality(A \ {x}) = Cardinality(A) - 1
    BY <1>1, <1>3, FS_RemoveElement
  <2> QED
    BY <1>1, <1>3, <2>1, <2>2
<1>4. CASE x \notin A /\ x \in B
  <2>1. B = A \cup {x}
    BY <1>4
  <2>2. Cardinality(A \cup {x}) = Cardinality(A) + 1
    BY <1>1, <1>4, FS_AddElement
  <2> QED
    BY <1>1, <1>4, <2>1, <2>2
<1> QED
  BY <1>2, <1>3, <1>4

\* How many values of a function are v.
NumberOf(I, f, v) == Cardinality({i \in I : f[i] = v})

\* A function that changes at i changes this number by what it has there.
LEMMA NumberChange ==
  ASSUME NEW I, IsFiniteSet(I), NEW f, NEW g, NEW i \in I, NEW v,
         \A j \in I : j # i => g[j] = f[j]
  PROVE  /\ NumberOf(I, f, v) \in Nat /\ NumberOf(I, g, v) \in Nat
         /\ NumberOf(I, g, v) + (IF f[i] = v THEN 1 ELSE 0)
              = NumberOf(I, f, v) + (IF g[i] = v THEN 1 ELSE 0)
<1> DEFINE A == {j \in I : f[j] = v}
           B == {j \in I : g[j] = v}
<1>1. /\ A \in SUBSET I /\ B \in SUBSET I
      /\ \A j \in I : j # i => (j \in A <=> j \in B)
      /\ i \in A <=> f[i] = v
      /\ i \in B <=> g[i] = v
  OBVIOUS
<1>2. NumberOf(I, f, v) = Cardinality(A) /\ NumberOf(I, g, v) = Cardinality(B)
  BY DEF NumberOf
<1> HIDE DEF A, B
<1>3. /\ Cardinality(A) \in Nat /\ Cardinality(B) \in Nat
      /\ Cardinality(B) + (IF i \in A THEN 1 ELSE 0)
           = Cardinality(A) + (IF i \in B THEN 1 ELSE 0)
  BY <1>1, CountChange
<1> QED
  BY <1>1, <1>2, <1>3

\* It is above zero when v is a value.
LEMMA NumberPositive ==
  ASSUME NEW I, IsFiniteSet(I), NEW f, NEW v
  PROVE  /\ NumberOf(I, f, v) \in Nat
         /\ \A i \in I : f[i] = v => NumberOf(I, f, v) > 0
         /\ (\A i \in I : f[i] # v) => NumberOf(I, f, v) = 0
<1> DEFINE A == {j \in I : f[j] = v}
<1>1. A \in SUBSET I /\ \A i \in I : f[i] = v <=> i \in A
  OBVIOUS
<1>2. NumberOf(I, f, v) = Cardinality(A)
  BY DEF NumberOf
<1> HIDE DEF A
<1>3. Cardinality(A) \in Nat /\ (Cardinality(A) = 0 <=> A = {})
  BY <1>1, CountIsNat
<1> QED
  BY <1>1, <1>2, <1>3

-----------------------------------------------------------------------------
(* Walks along a linked list.                                              *)

\* The walk f from first goes along the links for N steps, until it comes to
\* nil.
IsWalk(N, first, links, nil, f) ==
  f = [n \in 1..N |-> IF n = 1 THEN first
                      ELSE IF f[n - 1] = nil THEN nil ELSE links[f[n - 1]]]

\* There is one such walk.
LEMMA SameWalk ==
  ASSUME NEW N \in Nat, NEW first, NEW links, NEW nil, NEW f, NEW g,
         IsWalk(N, first, links, nil, f), IsWalk(N, first, links, nil, g)
  PROVE  f = g
<1> DEFINE Follow(e) == IF e = nil THEN nil ELSE links[e]
<1>1. /\ f = [n \in 1..N |-> IF n = 1 THEN first ELSE Follow(f[n - 1])]
      /\ g = [n \in 1..N |-> IF n = 1 THEN first ELSE Follow(g[n - 1])]
  BY DEF IsWalk
<1> HIDE DEF Follow
<1>2. ASSUME NEW n \in 1..N
      PROVE  /\ f[n] = IF n = 1 THEN first ELSE Follow(f[n - 1])
             /\ g[n] = IF n = 1 THEN first ELSE Follow(g[n - 1])
  BY <1>1
<1> DEFINE Different == {n \in 1..N : f[n] # g[n]}
<1>3. ASSUME NEW m \in Different, \A n \in Different : m <= n
      PROVE  FALSE
  <2>1. m \in 1..N /\ f[m] # g[m]
    OBVIOUS
  <2>2. m # 1
    BY <1>2, <2>1
  <2>3. m - 1 \in 1..N /\ f[m - 1] = g[m - 1]
    BY <1>3, <2>1, <2>2
  <2> QED
    BY <1>2, <2>1, <2>2, <2>3
<1>4. Different = {}
  <2> HIDE DEF Different
  <2>1. Different \in SUBSET Nat
    BY DEF Different
  <2> QED
    BY <1>3, <2>1, LeastNumber
<1>5. \A n \in 1..N : f[n] = g[n]
  BY <1>4
<1> QED
  BY <1>1, <1>5
=============================================================================
