-------------------------- MODULE ContainerProofs --------------------------
(***************************************************************************)
(* LockFreeStack and LockFreeQueue implement the stack and the queue of    *)
(* Container, for every number of threads, nodes and values.  The queue is *)
(* extended; the stack is S, with the variables of the same names and its  *)
(* own, held.                                                              *)
(***************************************************************************)
EXTENDS LockFreeQueue, Counting

VARIABLE held

S == INSTANCE LockFreeStack

-----------------------------------------------------------------------------
(* Lists of nodes.                                                         *)

\* c lists the nodes that are reached from first, each once.
IsList(links, first, c) ==
  /\ c \in Seq(Node)
  /\ \A i, j \in 1..Len(c) : c[i] = c[j] => i = j
  /\ first = IF Len(c) = 0 THEN NULL ELSE c[1]
  /\ \A i \in 1..Len(c) : links[c[i]] = IF i = Len(c) THEN NULL ELSE c[i + 1]

\* There are no more nodes in the list than in the heap.
LEMMA ListIsShort ==
  ASSUME NEW first, NEW links, NEW c, IsList(links, first, c)
  PROVE  /\ Len(c) \in Nat /\ Cardinality(Node) \in Nat
         /\ Len(c) <= Cardinality(Node)
<1>1. c \in Seq(Node) /\ Len(c) \in Nat
  BY DEF IsList
<1>2. c \in Injection(1..Len(c), Node)
  <2>1. c \in [1..Len(c) -> Node]
    BY <1>1
  <2> QED
    BY <2>1 DEF IsList, Injection, IsInjective
<1>3. Cardinality(1..Len(c)) = Len(c)
  BY <1>1, IntervalSize
<1>4. IsFiniteSet(Node) /\ Cardinality(Node) \in Nat
  BY NodeAssumption, FS_CardinalityType
<1>5. Cardinality(1..Len(c)) <= Cardinality(Node)
  BY <1>2, <1>4, FS_Injection
<1> QED
  BY <1>1, <1>3, <1>4, <1>5

\* Whatever lists the nodes from first on, each once, is ListFrom(first).
LEMMA ListIsUnique ==
  ASSUME NEW first, NEW links, NEW c, IsList(links, first, c)
  PROVE  ListFrom(links, first) = c
<1> DEFINE N == Cardinality(Node) + 1
           Follow(e) == IF e = NULL THEN NULL ELSE links[e]
           nth[n \in 1..N] == IF n = 1 THEN first ELSE Follow(nth[n - 1])
           len == Cardinality({n \in DOMAIN nth : nth[n] # NULL})
           g == [n \in 1..N |-> IF n <= Len(c) THEN c[n] ELSE NULL]
<1>1. ListFrom(links, first) = [i \in 1..len |-> nth[i]]
  BY Zenon DEF ListFrom
<1>2. /\ Len(c) \in Nat /\ N \in Nat /\ Len(c) < N
      /\ c \in Seq(Node) /\ NULL \notin Node
  BY ListIsShort, NodeAssumption DEF IsList
<1>3. IsWalk(N, first, links, NULL, g)
  <2>1. ASSUME NEW n \in 1..N, n = 1
        PROVE  g[n] = first
    BY <1>2, <2>1 DEF IsList
  <2>2. ASSUME NEW n \in 1..N, n # 1
        PROVE  g[n] = IF g[n - 1] = NULL THEN NULL ELSE links[g[n - 1]]
    <3>1. CASE n <= Len(c)
      <4>1. /\ g[n - 1] = c[n - 1] /\ g[n] = c[n]
            /\ n - 1 \in 1..Len(c) /\ n - 1 # Len(c)
        BY <1>2, <2>2, <3>1
      <4>2. links[c[n - 1]] = c[n]
        BY <1>2, <4>1 DEF IsList
      <4> QED
        BY <1>2, <4>1, <4>2
    <3>2. CASE n = Len(c) + 1
      <4>1. /\ g[n - 1] = c[Len(c)] /\ g[n] = NULL /\ Len(c) \in 1..Len(c)
        BY <1>2, <2>2, <3>2
      <4>2. links[c[Len(c)]] = NULL
        BY <4>1 DEF IsList
      <4> QED
        BY <1>2, <4>1, <4>2
    <3>3. CASE n > Len(c) + 1
      BY <1>2, <3>3
    <3> QED
      BY <1>2, <3>1, <3>2, <3>3
  <2>3. g = [n \in 1..N |-> g[n]]
    OBVIOUS
  <2> HIDE DEF g, N
  <2> QED
    BY <2>1, <2>2, <2>3 DEF IsWalk
<1>4. nth = g
  <2>1. nth = CHOOSE f : IsWalk(N, first, links, NULL, f)
    BY DEF IsWalk
  <2> HIDE DEF nth, g, N
  <2>2. IsWalk(N, first, links, NULL, nth)
    BY <1>3, <2>1, Zenon
  <2> QED
    BY <1>2, <1>3, <2>2, SameWalk
<1>5. len = Len(c)
  <2> HIDE DEF nth
  <2>1. {n \in DOMAIN nth : nth[n] # NULL} = 1..Len(c)
    BY <1>2, <1>4
  <2> QED
    BY <1>2, <2>1, IntervalSize
<1> HIDE DEF nth, len, N
<1>6. \A i \in 1..Len(c) : nth[i] = c[i]
  BY <1>2, <1>4
<1> QED
  BY <1>1, <1>2, <1>5, <1>6

\* The tail of a sequence.
LEMMA TailOf ==
  ASSUME NEW T, NEW s \in Seq(T), s # <<>>
  PROVE  /\ Len(Tail(s)) = Len(s) - 1
         /\ Tail(s) = [i \in 1..(Len(s) - 1) |-> Tail(s)[i]]
         /\ \A i \in 1..(Len(s) - 1) : Tail(s)[i] = s[i + 1]
<1> DEFINE d == Tail(s)
<1>1. d \in Seq(T) /\ Len(d) = Len(s) - 1
  OBVIOUS
<1>2. \A i \in 1..(Len(s) - 1) : d[i] = s[i + 1]
  OBVIOUS
<1> HIDE DEF d
<1>3. d = [i \in 1..Len(d) |-> d[i]]
  BY <1>1
<1>4. d = [i \in 1..(Len(s) - 1) |-> d[i]]
  BY <1>1, <1>3
<1> QED
  BY <1>1, <1>2, <1>4 DEF d

\* A list keeps its nodes when their links stay.
LEMMA ListKept ==
  ASSUME NEW first, NEW links, NEW after, NEW c, IsList(links, first, c),
         \A i \in 1..Len(c) : after[c[i]] = links[c[i]]
  PROVE  IsList(after, first, c)
BY DEF IsList

\* A node that links the first one makes a list with one node more.
LEMMA ListPushed ==
  ASSUME NEW first, NEW links, NEW c, NEW e \in Node, IsList(links, first, c),
         \A i \in 1..Len(c) : c[i] # e,
         links[e] = first
  PROVE  IsList(links, e, <<e>> \o c)
<1> DEFINE d == <<e>> \o c
<1>1. /\ c \in Seq(Node) /\ Len(c) \in Nat
      /\ d \in Seq(Node) /\ Len(d) = Len(c) + 1
      /\ d[1] = e
      /\ \A i \in 1..Len(c) : d[i + 1] = c[i] /\ c[i] \in Node
  BY DEF IsList
<1> HIDE DEF d
<1>2. ASSUME NEW i \in 1..Len(d), i # 1
      PROVE  i - 1 \in 1..Len(c) /\ d[i] = c[i - 1]
  <2>1. i - 1 \in 1..Len(c) /\ (i - 1) + 1 = i
    BY <1>1, <1>2
  <2> QED
    BY <1>1, <2>1
<1>3. \A i, j \in 1..Len(d) : d[i] = d[j] => i = j
  <2> SUFFICES ASSUME NEW i \in 1..Len(d), NEW j \in 1..Len(d), d[i] = d[j]
               PROVE  i = j
    OBVIOUS
  <2>1. \A k \in 1..Len(d) : k # 1 => d[k] # e
    BY <1>2
  <2>2. CASE i = 1 \/ j = 1
    <3>1. d[1] = e
      BY <1>1
    <3> QED
      BY <2>1, <2>2, <3>1
  <2>3. CASE i # 1 /\ j # 1
    <3>1. /\ i - 1 \in 1..Len(c) /\ j - 1 \in 1..Len(c)
          /\ c[i - 1] = c[j - 1]
      BY <1>2, <2>3
    <3>2. i - 1 = j - 1
      BY <3>1 DEF IsList
    <3> QED
      BY <1>1, <3>2
  <2> QED
    BY <2>2, <2>3
<1>4. ASSUME NEW i \in 1..Len(d)
      PROVE  links[d[i]] = IF i = Len(d) THEN NULL ELSE d[i + 1]
  <2>1. CASE i = 1
    BY <1>1, <2>1 DEF IsList
  <2>2. CASE i # 1
    <3>1. i - 1 \in 1..Len(c) /\ d[i] = c[i - 1]
      BY <1>2, <2>2
    <3>2. links[c[i - 1]] = IF i - 1 = Len(c) THEN NULL ELSE c[(i - 1) + 1]
      BY <3>1 DEF IsList
    <3>3. CASE i = Len(d)
      BY <1>1, <3>1, <3>2, <3>3
    <3>4. CASE i # Len(d)
      <4>1. i \in 1..Len(c) /\ (i - 1) + 1 = i /\ i - 1 # Len(c)
        BY <1>1, <3>4
      <4> QED
        BY <1>1, <3>1, <3>2, <3>4, <4>1
    <3> QED
      BY <3>3, <3>4
  <2> QED
    BY <2>1, <2>2
<1>5. IsList(links, e, d)
  BY <1>1, <1>3, <1>4 DEF IsList
<1> QED
  BY <1>5 DEF d

\* A node linked behind the last one makes a list with one node more.
LEMMA ListAppended ==
  ASSUME NEW first, NEW links, NEW after, NEW c, NEW e \in Node,
         IsList(links, first, c), Len(c) # 0,
         \A i \in 1..Len(c) : c[i] # e,
         \A i \in 1..(Len(c) - 1) : after[c[i]] = links[c[i]],
         after[c[Len(c)]] = e, after[e] = NULL
  PROVE  IsList(after, first, Append(c, e))
<1> DEFINE d == Append(c, e)
<1>1. /\ c \in Seq(Node) /\ Len(c) \in Nat /\ Len(c) > 0
      /\ d \in Seq(Node) /\ Len(d) = Len(c) + 1
      /\ \A i \in 1..Len(c) : d[i] = c[i] /\ c[i] \in Node
      /\ d[Len(c) + 1] = e
  BY DEF IsList
<1> HIDE DEF d
<1>2. \A i, j \in 1..Len(d) : d[i] = d[j] => i = j
  BY <1>1 DEF IsList
<1>3. ASSUME NEW i \in 1..Len(d)
      PROVE  after[d[i]] = IF i = Len(d) THEN NULL ELSE d[i + 1]
  <2>1. CASE i \in 1..(Len(c) - 1)
    <3>1. /\ i \in 1..Len(c) /\ i + 1 \in 1..Len(c) /\ i # Len(c) /\ i # Len(d)
          /\ d[i] = c[i] /\ d[i + 1] = c[i + 1]
      BY <1>1, <2>1
    <3>2. after[c[i]] = c[i + 1]
      BY <2>1, <3>1 DEF IsList
    <3> QED
      BY <3>1, <3>2
  <2>2. CASE i = Len(c)
    BY <1>1, <2>2
  <2>3. CASE i = Len(c) + 1
    BY <1>1, <2>3
  <2> QED
    BY <1>1, <2>1, <2>2, <2>3
<1>4. IsList(after, first, d)
  BY <1>1, <1>2, <1>3 DEF IsList
<1> QED
  BY <1>4 DEF d

\* Without its first node it is the list from the second one on.
LEMMA ListPopped ==
  ASSUME NEW first, NEW links, NEW c, IsList(links, first, c), Len(c) # 0
  PROVE  /\ IsList(links, links[first], Tail(c))
         /\ Len(Tail(c)) = Len(c) - 1
         /\ \A i \in 1..(Len(c) - 1) : Tail(c)[i] = c[i + 1]
<1> DEFINE d == Tail(c)
<1>1. /\ c \in Seq(Node) /\ Len(c) \in Nat /\ Len(c) > 0 /\ c # <<>>
      /\ d \in Seq(Node) /\ Len(d) = Len(c) - 1
      /\ \A i \in 1..(Len(c) - 1) : d[i] = c[i + 1]
      /\ first = c[1]
  BY DEF IsList
<1> HIDE DEF d
<1>2. \A i, j \in 1..Len(d) : d[i] = d[j] => i = j
  <2>1. ASSUME NEW i \in 1..Len(d), NEW j \in 1..Len(d), d[i] = d[j]
        PROVE  i = j
    <3>1. c[i + 1] = c[j + 1] /\ i + 1 \in 1..Len(c) /\ j + 1 \in 1..Len(c)
      BY <1>1, <2>1
    <3>2. i + 1 = j + 1
      BY <3>1 DEF IsList
    <3> QED
      BY <3>2
  <2> QED
    BY <2>1
<1>3. links[first] = IF Len(d) = 0 THEN NULL ELSE d[1]
  BY <1>1 DEF IsList
<1>4. ASSUME NEW i \in 1..Len(d)
      PROVE  links[d[i]] = IF i = Len(d) THEN NULL ELSE d[i + 1]
  <2>1. /\ i + 1 \in 1..Len(c) /\ d[i] = c[i + 1]
        /\ (i + 1 = Len(c)) <=> (i = Len(d))
    BY <1>1
  <2>2. links[c[i + 1]] = IF i + 1 = Len(c) THEN NULL ELSE c[(i + 1) + 1]
    BY <2>1 DEF IsList
  <2>3. CASE i = Len(d)
    BY <2>1, <2>2, <2>3
  <2>4. CASE i # Len(d)
    <3>1. i + 1 \in 1..(Len(c) - 1)
      BY <1>1, <2>4
    <3>2. d[i + 1] = c[(i + 1) + 1]
      BY <1>1, <3>1
    <3> QED
      BY <2>1, <2>2, <2>4, <3>2
  <2> QED
    BY <2>3, <2>4
<1>5. IsList(links, links[first], d)
  BY <1>1, <1>2, <1>3, <1>4 DEF IsList
<1> QED
  BY <1>1, <1>5 DEF d
-----------------------------------------------------------------------------
(* Which nodes are kept.                                                   *)

\* f[i] is what is reached from A in up to i steps.
IsReach(N, A, links, f) ==
  f = [i \in 0..N |-> IF i = 0 THEN A
                      ELSE f[i - 1] \cup ({links[n] : n \in f[i - 1]} \ {NULL})]

\* It can be computed for any number of steps.
LEMMA ReachExists ==
  ASSUME NEW N \in Nat, NEW A, NEW links
  PROVE  \E f : IsReach(N, A, links, f)
<1> DEFINE Further(B) == B \cup ({links[n] : n \in B} \ {NULL})
           Missing == {k \in Nat : ~ \E f : IsReach(k, A, links, f)}
<1>1. ASSUME NEW k \in Nat, NEW f
      PROVE  IsReach(k, A, links, f)
               <=> f = [i \in 0..k |-> IF i = 0 THEN A ELSE Further(f[i - 1])]
  BY DEF IsReach
<1> HIDE DEF Further
<1>2. ASSUME NEW m \in Missing, \A k \in Missing : m <= k
      PROVE  FALSE
  <2>1. m \in Nat /\ ~ \E f : IsReach(m, A, links, f)
    OBVIOUS
  <2>2. CASE m = 0
    <3> DEFINE g == [i \in 0..0 |-> A]
    <3>1. g = [i \in 0..0 |-> IF i = 0 THEN A ELSE Further(g[i - 1])]
      OBVIOUS
    <3> HIDE DEF g
    <3>2. IsReach(0, A, links, g)
      BY <1>1, <3>1
    <3> QED
      BY <2>1, <2>2, <3>2
  <2>3. CASE m # 0
    <3>1. m - 1 \in Nat /\ m - 1 \notin Missing
      BY <1>2, <2>1, <2>3
    <3>2. PICK f : IsReach(m - 1, A, links, f)
      BY <3>1
    <3>3. f = [i \in 0..(m - 1) |-> IF i = 0 THEN A ELSE Further(f[i - 1])]
      BY <1>1, <3>1, <3>2
    <3>4. ASSUME NEW i \in 0..(m - 1)
          PROVE  f[i] = IF i = 0 THEN A ELSE Further(f[i - 1])
      BY <3>3
    <3> DEFINE g == [i \in 0..m |-> IF i = m THEN Further(f[m - 1]) ELSE f[i]]
    <3>5. ASSUME NEW i \in 0..m
          PROVE  g[i] = IF i = 0 THEN A ELSE Further(g[i - 1])
      <4>1. CASE i = m
        <5>1. m - 1 \in 0..m /\ m - 1 # m
          BY <2>1, <2>3
        <5> QED
          BY <2>3, <4>1, <5>1
      <4>2. CASE i # m /\ i # 0
        <5>1. i \in 0..(m - 1) /\ i - 1 \in 0..m /\ i - 1 # m
          BY <2>1, <4>2
        <5> QED
          BY <3>4, <4>2, <5>1
      <4>3. CASE i = 0 /\ i # m
        <5>1. i \in 0..(m - 1)
          BY <2>1, <4>3
        <5> QED
          BY <3>4, <4>3, <5>1
      <4> QED
        BY <2>3, <4>1, <4>2, <4>3
    <3>6. g = [i \in 0..m |-> g[i]]
      OBVIOUS
    <3> HIDE DEF g
    <3>7. g = [i \in 0..m |-> IF i = 0 THEN A ELSE Further(g[i - 1])]
      BY <3>5, <3>6
    <3>8. IsReach(m, A, links, g)
      BY <1>1, <2>1, <3>7
    <3> QED
      BY <2>1, <3>8
  <2> QED
    BY <2>2, <2>3
<1>3. Missing = {}
  <2> HIDE DEF Missing
  <2>1. Missing \in SUBSET Nat
    BY DEF Missing
  <2> QED
    BY <1>2, <2>1, LeastNumber
<1> QED
  BY <1>3

\* f says how KeptBy(links, A) is reached in N steps: every step keeps what
\* the ones before have reached.
IsReachOf(N, A, links, f) ==
  /\ N \in Nat \ {0}
  /\ KeptBy(links, A) = f[N]
  /\ f[0] = A \ {NULL}
  /\ \A i \in 1..N :
       f[i] = f[i - 1] \cup ({links[n] : n \in f[i - 1]} \ {NULL})
  /\ \A i \in 0..N : f[i] \subseteq f[N]

LEMMA KeptByReach ==
  ASSUME NEW links, NEW A
  PROVE  \E f : IsReachOf(Cardinality(Node), A, links, f)
<1> DEFINE N == Cardinality(Node)
           B == A \ {NULL}
           Further(C) == C \cup ({links[n] : n \in C} \ {NULL})
           nth[i \in 0..N] == IF i = 0 THEN B ELSE Further(nth[i - 1])
<1>1. KeptBy(links, A) = nth[N]
  BY Zenon DEF KeptBy
<1>2. N \in Nat \ {0}
  BY NodeAssumption, FS_CardinalityType, FS_EmptySet
<1>3. IsReach(N, B, links, nth)
  <2>1. nth = CHOOSE f : IsReach(N, B, links, f)
    BY DEF IsReach
  <2> HIDE DEF nth, N, B
  <2>2. \E f : IsReach(N, B, links, f)
    BY <1>2, ReachExists
  <2> QED
    BY <2>1, <2>2, Zenon
<1>4. nth = [i \in 0..N |-> IF i = 0 THEN B ELSE Further(nth[i - 1])]
  BY <1>3 DEF IsReach
<1> HIDE DEF nth, N, Further
<1>5. ASSUME NEW i \in 0..N
      PROVE  nth[i] = IF i = 0 THEN B ELSE Further(nth[i - 1])
  BY <1>4
<1>6. ASSUME NEW i \in 1..N
      PROVE  nth[i] = nth[i - 1] \cup ({links[n] : n \in nth[i - 1]} \ {NULL})
  <2>1. i \in 0..N /\ i # 0
    BY <1>2
  <2> QED
    BY <1>5, <2>1 DEF Further
<1>7. ASSUME NEW i \in 0..N
      PROVE  nth[i] \subseteq nth[N]
  <2> DEFINE Lost == {d \in 0..N : ~ (nth[N - d] \subseteq nth[N])}
  <2>1. ASSUME NEW m \in Lost, \A d \in Lost : m <= d
        PROVE  FALSE
    <3>1. m \in 0..N /\ ~ (nth[N - m] \subseteq nth[N])
      OBVIOUS
    <3>2. m # 0
      BY <1>2, <3>1
    <3>3. m - 1 \in 0..N /\ nth[N - (m - 1)] \subseteq nth[N]
      BY <1>2, <2>1, <3>1, <3>2
    <3>4. N - (m - 1) \in 1..N /\ (N - (m - 1)) - 1 = N - m
      BY <1>2, <3>1, <3>2
    <3>5. nth[N - m] \subseteq nth[N - (m - 1)]
      BY <1>6, <3>4
    <3> QED
      BY <3>1, <3>3, <3>5
  <2>2. Lost = {}
    <3> HIDE DEF Lost
    <3>1. Lost \in SUBSET Nat
      BY <1>2 DEF Lost
    <3> QED
      BY <2>1, <3>1, LeastNumber
  <2>3. N - i \in 0..N /\ N - (N - i) = i
    BY <1>2
  <2> QED
    BY <2>2, <2>3
<1>8. nth[0] = B
  BY <1>2, <1>5
<1>9. \A i \in 1..N :
        nth[i] = nth[i - 1] \cup ({links[n] : n \in nth[i - 1]} \ {NULL})
  BY <1>6
<1>10. \A i \in 0..N : nth[i] \subseteq nth[N]
  BY <1>7
<1>11. IsReachOf(N, A, links, nth)
  BY <1>1, <1>2, <1>8, <1>9, <1>10 DEF IsReachOf
<1> QED
  BY <1>11 DEF N

\* What is given is kept, and so are what it links and the list from it on;
\* nothing is kept but nodes.
LEMMA Kept ==
  ASSUME NEW links \in [Node -> Node \cup {NULL}], NEW A \in SUBSET (Node \cup {NULL})
  PROVE  /\ KeptBy(links, A) \subseteq Node
         /\ \A n \in A : n # NULL => n \in KeptBy(links, A)
         /\ \A n \in A : n # NULL /\ links[n] # NULL => links[n] \in KeptBy(links, A)
<1> DEFINE N == Cardinality(Node)
<1>0. PICK f : IsReachOf(N, A, links, f)
  BY KeptByReach
<1>1. /\ N \in Nat \ {0}
      /\ KeptBy(links, A) = f[N]
      /\ f[0] = A \ {NULL}
      /\ \A i \in 1..N :
           f[i] = f[i - 1] \cup ({links[n] : n \in f[i - 1]} \ {NULL})
      /\ \A i \in 0..N : f[i] \subseteq f[N]
  BY <1>0 DEF IsReachOf
<1> HIDE DEF N
<1>2. f[N] \subseteq Node
  <2> DEFINE Stray == {i \in 0..N : ~ (f[i] \subseteq Node)}
  <2>1. ASSUME NEW m \in Stray, \A i \in Stray : m <= i
        PROVE  FALSE
    <3>1. m \in 0..N /\ ~ (f[m] \subseteq Node)
      OBVIOUS
    <3>2. m # 0
      BY <1>1, <3>1
    <3>3. m - 1 \in 0..N /\ m \in 1..N /\ f[m - 1] \subseteq Node
      BY <1>1, <2>1, <3>1, <3>2
    <3>4. f[m] = f[m - 1] \cup ({links[n] : n \in f[m - 1]} \ {NULL})
      BY <1>1, <3>3
    <3> QED
      BY <3>1, <3>3, <3>4
  <2>2. Stray = {}
    <3> HIDE DEF Stray
    <3>1. Stray \in SUBSET Nat
      BY <1>1 DEF Stray
    <3> QED
      BY <2>1, <3>1, LeastNumber
  <2>3. N \in 0..N
    BY <1>1
  <2> QED
    BY <2>2, <2>3
<1>3. 0 \in 0..N /\ 1 \in 0..N /\ 1 \in 1..N
  BY <1>1
<1>4. f[1] = f[0] \cup ({links[n] : n \in f[0]} \ {NULL})
  <2>1. f[1] = f[1 - 1] \cup ({links[n] : n \in f[1 - 1]} \ {NULL})
    BY <1>1, <1>3
  <2>2. 1 - 1 = 0
    OBVIOUS
  <2> QED
    BY <2>1, <2>2
<1> QED
  BY <1>1, <1>2, <1>3, <1>4

LEMMA KeptList ==
  ASSUME NEW links, NEW A, NEW first \in A, NEW c, IsList(links, first, c)
  PROVE  \A i \in 1..Len(c) : c[i] \in KeptBy(links, A)
<1> DEFINE N == Cardinality(Node)
<1>0. PICK f : IsReachOf(N, A, links, f)
  BY KeptByReach
<1>1. /\ N \in Nat \ {0}
      /\ KeptBy(links, A) = f[N]
      /\ f[0] = A \ {NULL}
      /\ \A i \in 1..N :
           f[i] = f[i - 1] \cup ({links[n] : n \in f[i - 1]} \ {NULL})
      /\ \A i \in 0..N : f[i] \subseteq f[N]
  BY <1>0 DEF IsReachOf
<1>2. /\ Len(c) \in Nat /\ Len(c) <= N
      /\ \A i \in 1..Len(c) : c[i] \in Node /\ c[i] # NULL
  BY ListIsShort, NodeAssumption DEF IsList
<1> HIDE DEF N
<1> DEFINE Missed == {i \in 1..Len(c) : c[i] \notin f[i - 1]}
<1>3. ASSUME NEW m \in Missed, \A i \in Missed : m <= i
      PROVE  FALSE
  <2>1. m \in 1..Len(c) /\ c[m] \notin f[m - 1]
    OBVIOUS
  <2>2. CASE m = 1
    <3>1. c[1] \in f[0] /\ 1 - 1 = 0
      BY <1>1, <1>2, <2>1, <2>2 DEF IsList
    <3> QED
      BY <2>1, <2>2, <3>1
  <2>3. CASE m # 1
    <3>1. m - 1 \in 1..Len(c) /\ m - 1 \in 1..N /\ (m - 1) + 1 = m /\ m - 1 # Len(c)
      BY <1>1, <1>2, <2>1, <2>3
    <3>2. c[m - 1] \in f[(m - 1) - 1]
      BY <1>2, <1>3, <2>1, <3>1
    <3>3. links[c[m - 1]] = c[m]
      BY <3>1 DEF IsList
    <3>4. f[m - 1] = f[(m - 1) - 1] \cup ({links[n] : n \in f[(m - 1) - 1]} \ {NULL})
      BY <1>1, <3>1
    <3> QED
      BY <1>2, <2>1, <3>2, <3>3, <3>4
  <2> QED
    BY <2>2, <2>3
<1>4. Missed = {}
  <2> HIDE DEF Missed
  <2>1. Missed \in SUBSET Nat
    BY <1>2 DEF Missed
  <2> QED
    BY <1>3, <2>1, LeastNumber
<1>5. ASSUME NEW i \in 1..Len(c)
      PROVE  c[i] \in f[N]
  <2>1. i - 1 \in 0..N /\ c[i] \in f[i - 1]
    BY <1>1, <1>2, <1>4
  <2> QED
    BY <1>1, <2>1
<1> QED
  BY <1>1, <1>5

\* An address that is used again is that of no node that is kept.
LEMMA FreeNode ==
  ASSUME NEW links \in [Node -> Node \cup {NULL}], NEW A \in SUBSET (Node \cup {NULL}),
         KeptBy(links, A) # Node
  PROVE  LET n == CHOOSE n \in Node : n \notin KeptBy(links, A)
         IN  n \in Node /\ n \notin KeptBy(links, A)
BY Kept
-----------------------------------------------------------------------------
(* The operators of the stack are those of Nodes.                          *)

LEMMA SameOperators ==
  ASSUME NEW links, NEW first, NEW A
  PROVE  /\ S!ListFrom(links, first) = ListFrom(links, first)
         /\ S!KeptBy(links, A) = KeptBy(links, A)
<1>1. S!ListFrom(links, first) = ListFrom(links, first)
  BY Zenon DEF S!ListFrom, ListFrom, S!Cardinality, Cardinality
<1>2. S!KeptBy(links, A) = KeptBy(links, A)
  BY Zenon DEF S!KeptBy, KeptBy, S!Cardinality, Cardinality
<1> QED
  BY <1>1, <1>2

-----------------------------------------------------------------------------
(* The stack.                                                              *)

\* The nodes from head_ on.
Chain == ListFrom(next, head)

InChain(n) == \E i \in 1..Len(Chain) : Chain[i] = n

StackPushing(t) == pc[t] \in {"pushLoad", "pushExchange"}

StackTypes ==
  /\ head \in Node \cup {NULL}
  /\ next \in [Node -> Node \cup {NULL}]
  /\ value \in [Node -> Value \cup {None}]
  /\ pc \in [Thread -> {"idle", "pushLoad", "pushExchange", "popLoad", "popExchange"}]
  /\ held \in [Thread -> Node \cup {NULL}]
  /\ answer \in [Thread -> Value \cup {None}]

\* The links from head_ list nodes, each once, and until a push exchanges
\* head_ its node is in nobody else's hands.
StackInv ==
  /\ StackTypes
  /\ IsList(next, head, Chain)
  /\ \A t \in Thread :
       /\ StackPushing(t) =>
            /\ held[t] \in Node
            /\ ~ InChain(held[t])
            /\ \A u \in Thread : u # t => held[u] # held[t]
       /\ pc[t] = "popExchange" => held[t] \in Node

\* What a state shows of the abstract stack.
StackOp == [t \in Thread |-> CASE pc[t] \in {"pushLoad", "pushExchange"} -> "push"
                               [] pc[t] \in {"popLoad", "popExchange"} -> "pop"
                               [] OTHER -> "none"]
StackArg == [t \in Thread |-> IF pc[t] \in {"pushLoad", "pushExchange"}
                                 THEN value[held[t]] ELSE None]
ValuesOf(c) == [i \in 1..Len(c) |-> value[c[i]]]

LEMMA StackContents ==
  S!Contents = ValuesOf(Chain) /\ S!Contents' = ValuesOf(Chain)'
<1>1. /\ S!ListFrom(next, head) = ListFrom(next, head)
      /\ S!ListFrom(next', head') = ListFrom(next', head')
  BY SameOperators
<1> QED
  BY <1>1, Zenon DEF S!Contents, ValuesOf, Chain

\* A step that leaves the chain and its links alone.
LEMMA ChainStays ==
  ASSUME IsList(next, head, Chain), head' = head,
         \A i \in 1..Len(Chain) : next'[Chain[i]] = next[Chain[i]]
  PROVE  /\ IsList(next', head', Chain')
         /\ Chain' = Chain
<1>1. IsList(next', head', Chain)
  BY ListKept
<1> QED
  BY <1>1, ListIsUnique DEF Chain

\* The next chain is what the next links list from the next head_ on.
LEMMA ChainIs ==
  ASSUME NEW c, IsList(next', head', c)
  PROVE  /\ IsList(next', head', Chain')
         /\ Chain' = c
BY ListIsUnique DEF Chain

LEMMA StackInit ==
  ASSUME S!Init
  PROVE  StackInv /\ Chain = <<>> /\ S!Contents = <<>>
<1>1. IsList(next, head, <<>>)
  BY DEF S!Init, IsList
<1>2. Chain = <<>> /\ IsList(next, head, Chain)
  BY <1>1, ListIsUnique DEF Chain
<1>3. StackInv
  BY <1>2 DEF StackInv, StackTypes, S!Init, StackPushing
<1>4. S!Contents = <<>>
  BY <1>2, StackContents DEF ValuesOf
<1> QED
  BY <1>2, <1>3, <1>4

\* The node of a new push is free: it is not in the stack, and no call has it.
LEMMA StackFreeNode ==
  ASSUME StackInv, S!Live # Node
  PROVE  LET n == CHOOSE n \in Node : n \notin S!Live
         IN  /\ n \in Node
             /\ ~ InChain(n)
             /\ \A u \in Thread : held[u] # n
<1> DEFINE A == {head} \cup {held[t] : t \in Thread}
           n == CHOOSE m \in Node : m \notin S!Live
<1>1. S!Live = KeptBy(next, A)
  BY SameOperators DEF S!Live
<1>2. A \in SUBSET (Node \cup {NULL}) /\ head \in A
  BY DEF StackInv, StackTypes
<1>3. next \in [Node -> Node \cup {NULL}] /\ IsList(next, head, Chain)
  BY DEF StackInv, StackTypes
<1> HIDE DEF A
<1>4. n \in Node /\ n \notin S!Live
  BY <1>1, <1>2, <1>3, FreeNode
<1>5. \A i \in 1..Len(Chain) : Chain[i] \in S!Live
  BY <1>1, <1>2, <1>3, KeptList
<1>6. \A u \in Thread : held[u] # NULL => held[u] \in S!Live
  BY <1>1, <1>2, <1>3, Kept DEF A
<1> HIDE DEF n
<1>7. ~ InChain(n)
  BY <1>4, <1>5 DEF InChain
<1>8. \A u \in Thread : held[u] # n
  BY <1>4, <1>6, NodeAssumption
<1> QED
  BY <1>4, <1>7, <1>8 DEF n

LEMMA StackPush ==
  ASSUME StackInv, NEW t \in Thread, NEW v \in Value, S!Push(t, v)
  PROVE  StackInv' /\ S!Stack!CallPush(t, v)
<1>1. PICK n \in Node :
        /\ ~ InChain(n)
        /\ \A u \in Thread : held[u] # n
        /\ value' = [value EXCEPT ![n] = v]
        /\ next' = [next EXCEPT ![n] = NULL]
        /\ held' = [held EXCEPT ![t] = n]
  BY StackFreeNode DEF S!Push
<1>2. /\ pc[t] = "idle" /\ pc' = [pc EXCEPT ![t] = "pushLoad"]
      /\ answer' = [answer EXCEPT ![t] = None]
      /\ head' = head
  BY DEF S!Push, S!Goto
<1>3. /\ StackTypes /\ IsList(next, head, Chain)
      /\ \A i \in 1..Len(Chain) : Chain[i] \in Node /\ Chain[i] # n
  BY <1>1 DEF StackInv, IsList, InChain
<1>4. \A i \in 1..Len(Chain) : next'[Chain[i]] = next[Chain[i]] /\ value'[Chain[i]] = value[Chain[i]]
  BY <1>1, <1>3 DEF StackTypes
<1>5. IsList(next', head', Chain') /\ Chain' = Chain
  BY <1>2, <1>3, <1>4, ChainStays
<1>6. \A m : InChain(m)' <=> InChain(m)
  BY <1>5 DEF InChain
<1>7. StackTypes'
  BY <1>1, <1>2, <1>3 DEF StackTypes
<1>8. StackInv'
  BY <1>1, <1>2, <1>3, <1>5, <1>6, <1>7 DEF StackInv, StackTypes, StackPushing
<1>9. S!Contents' = S!Contents
  BY <1>4, <1>5, StackContents DEF ValuesOf
<1>10. StackOp[t] = "none" /\ StackOp' = [StackOp EXCEPT ![t] = "push"]
  BY <1>2, <1>3 DEF StackOp, StackTypes
<1>11. StackArg' = [StackArg EXCEPT ![t] = v]
  BY <1>1, <1>2, <1>3 DEF StackArg, StackTypes, StackInv, StackPushing
<1> QED
  BY <1>2, <1>8, <1>9, <1>10, <1>11 DEF S!Stack!CallPush, StackOp, StackArg

\* A step that the abstract stack does not see.
StackStutters == UNCHANGED <<S!Contents, StackOp, StackArg, answer>>

LEMMA StackPushLoad ==
  ASSUME StackInv, NEW t \in Thread, S!PushLoad(t)
  PROVE  StackInv' /\ StackStutters
<1>1. /\ pc[t] = "pushLoad" /\ pc' = [pc EXCEPT ![t] = "pushExchange"]
      /\ next' = [next EXCEPT ![held[t]] = head]
      /\ UNCHANGED <<head, value, held, answer>>
  BY DEF S!PushLoad, S!Goto
<1>2. /\ StackTypes /\ IsList(next, head, Chain)
      /\ held[t] \in Node /\ ~ InChain(held[t])
      /\ \A i \in 1..Len(Chain) : Chain[i] \in Node /\ Chain[i] # held[t]
  BY <1>1 DEF StackInv, StackPushing, IsList, InChain
<1>3. \A i \in 1..Len(Chain) : next'[Chain[i]] = next[Chain[i]]
  BY <1>1, <1>2 DEF StackTypes
<1>4. IsList(next', head', Chain') /\ Chain' = Chain
  BY <1>1, <1>2, <1>3, ChainStays
<1>5. \A m : InChain(m)' <=> InChain(m)
  BY <1>4 DEF InChain
<1>6. StackTypes'
  BY <1>1, <1>2 DEF StackTypes
<1>7. StackInv'
  BY <1>1, <1>2, <1>4, <1>5, <1>6 DEF StackInv, StackTypes, StackPushing
<1>8. S!Contents' = S!Contents
  BY <1>1, <1>4, StackContents DEF ValuesOf
<1>9. StackOp' = StackOp /\ StackArg' = StackArg
  BY <1>1, <1>2 DEF StackOp, StackArg, StackTypes
<1> QED
  BY <1>1, <1>7, <1>8, <1>9 DEF StackStutters

LEMMA StackPushExchange ==
  ASSUME StackInv, NEW t \in Thread, S!PushExchange(t)
  PROVE  StackInv' /\ (StackStutters \/ S!Stack!PushTakesEffect(t))
<1>1. /\ pc[t] = "pushExchange"
      /\ UNCHANGED <<next, value, answer>>
  BY DEF S!PushExchange
<1>2. /\ StackTypes /\ IsList(next, head, Chain)
      /\ held[t] \in Node /\ ~ InChain(held[t])
      /\ \A u \in Thread : u # t => held[u] # held[t]
      /\ Chain \in Seq(Node)
  BY <1>1 DEF StackInv, StackPushing, IsList
<1>3. CASE head = next[held[t]]
  <2>1. /\ head' = held[t] /\ held' = [held EXCEPT ![t] = NULL]
        /\ pc' = [pc EXCEPT ![t] = "idle"]
    BY <1>3 DEF S!PushExchange, S!Goto
  <2>2. IsList(next, held[t], <<held[t]>> \o Chain)
    BY <1>2, <1>3, ListPushed DEF InChain
  <2>3. IsList(next', head', Chain') /\ Chain' = <<held[t]>> \o Chain
    BY <1>1, <2>1, <2>2, ChainIs
  <2>4. /\ Len(Chain) \in Nat /\ Len(Chain') = Len(Chain) + 1
        /\ Chain'[1] = held[t]
        /\ \A i \in 1..Len(Chain) : Chain'[i + 1] = Chain[i]
    BY <1>2, <2>3
  <2>5. ASSUME NEW m, InChain(m)'
        PROVE  InChain(m) \/ m = held[t]
    <3>1. PICK i \in 1..(Len(Chain) + 1) : Chain'[i] = m
      BY <2>4, <2>5 DEF InChain
    <3>2. CASE i # 1
      <4>1. i - 1 \in 1..Len(Chain) /\ (i - 1) + 1 = i
        BY <2>4, <3>2
      <4>2. Chain[i - 1] = m
        BY <2>4, <3>1, <4>1
      <4> QED
        BY <4>1, <4>2 DEF InChain
    <3> QED
      BY <2>4, <3>1, <3>2
  <2>6. StackTypes'
    BY <1>1, <1>2, <2>1 DEF StackTypes
  <2>7. ASSUME NEW u \in Thread
        PROVE  /\ StackPushing(u)' =>
                    /\ held'[u] \in Node
                    /\ ~ InChain(held[u])'
                    /\ \A w \in Thread : w # u => held'[w] # held'[u]
               /\ pc'[u] = "popExchange" => held'[u] \in Node
    <3>1. CASE u = t
      BY <1>2, <2>1, <3>1 DEF StackPushing, StackTypes
    <3>2. CASE u # t
      <4>1. pc'[u] = pc[u] /\ held'[u] = held[u] /\ held[u] # held[t]
        BY <1>2, <2>1, <3>2 DEF StackTypes
      <4>2. /\ StackPushing(u) =>
                 /\ held[u] \in Node
                 /\ ~ InChain(held[u])
                 /\ \A w \in Thread : w # u => held[w] # held[u]
            /\ pc[u] = "popExchange" => held[u] \in Node
        BY DEF StackInv
      <4>3. StackPushing(u)' <=> StackPushing(u)
        BY <4>1 DEF StackPushing
      <4>4. ASSUME StackPushing(u)
            PROVE  /\ ~ InChain(held[u])'
                   /\ \A w \in Thread : w # u => held'[w] # held'[u]
        <5>1. ~ InChain(held[u])'
          BY <2>5, <4>1, <4>2, <4>4
        <5>2. \A w \in Thread : w # u => held'[w] # held'[u]
          BY <1>2, <2>1, <4>1, <4>2, <4>4, NodeAssumption DEF StackTypes
        <5> QED
          BY <5>1, <5>2
      <4> QED
        BY <4>1, <4>2, <4>3, <4>4
    <3> QED
      BY <3>1, <3>2
  <2>8. StackInv'
    BY <2>3, <2>6, <2>7 DEF StackInv
  <2>9. S!Contents' = <<value[held[t]]>> \o S!Contents
    <3> DEFINE c == Chain  d == Chain'  x == value[held[t]]
               e == ValuesOf(Chain)  f == <<x>> \o e
    <3>1. ValuesOf(Chain)' = [i \in 1..Len(d) |-> value[d[i]]]
      BY <1>1 DEF ValuesOf
    <3>2. /\ e \in Seq(Value \cup {None}) /\ Len(e) = Len(Chain)
          /\ \A i \in 1..Len(Chain) : e[i] = value[Chain[i]]
      BY <1>2, <2>4 DEF ValuesOf, StackTypes
    <3> HIDE DEF e
    <3>3. /\ Len(f) = Len(e) + 1 /\ f = [i \in 1..(Len(e) + 1) |-> f[i]] /\ f[1] = x
          /\ \A i \in 1..Len(e) : f[i + 1] = e[i]
      BY <3>2
    <3> HIDE DEF f
    <3>4. ASSUME NEW i \in 1..Len(d)
          PROVE  value[d[i]] = f[i]
      <4>1. CASE i = 1
        BY <2>4, <3>3, <4>1
      <4>2. CASE i # 1
        <5>1. i - 1 \in 1..Len(Chain) /\ (i - 1) + 1 = i
          BY <2>4, <4>2
        <5>2. f[i] = e[i - 1] /\ d[i] = Chain[i - 1]
          BY <2>4, <3>2, <3>3, <5>1
        <5> QED
          BY <3>2, <5>1, <5>2
      <4> QED
        BY <4>1, <4>2
    <3>5. ValuesOf(Chain)' = f
      BY <2>4, <3>1, <3>2, <3>3, <3>4
    <3> QED
      BY <3>5, StackContents DEF e, f
  <2>10. /\ StackOp[t] = "push" /\ StackOp' = [StackOp EXCEPT ![t] = "none"]
         /\ StackArg[t] = value[held[t]] /\ StackArg' = [StackArg EXCEPT ![t] = None]
    BY <1>1, <1>2, <2>1 DEF StackOp, StackArg, StackTypes
  <2> QED
    BY <1>1, <2>8, <2>9, <2>10
    DEF S!Stack!PushTakesEffect, S!Pushed, StackOp, StackArg
<1>4. CASE head # next[held[t]]
  <2>1. pc' = [pc EXCEPT ![t] = "pushLoad"] /\ UNCHANGED <<head, held>>
    BY <1>4 DEF S!PushExchange, S!Goto
  <2>2. IsList(next', head', Chain') /\ Chain' = Chain
    BY <1>1, <1>2, <2>1, ChainStays
  <2>3. StackInv'
    BY <1>1, <1>2, <2>1, <2>2
    DEF StackInv, StackTypes, StackPushing, InChain
  <2>4. S!Contents' = S!Contents
    BY <1>1, <2>2, StackContents DEF ValuesOf
  <2>5. StackOp' = StackOp /\ StackArg' = StackArg
    BY <1>1, <1>2, <2>1 DEF StackOp, StackArg, StackTypes
  <2> QED
    BY <1>1, <2>3, <2>4, <2>5 DEF StackStutters
<1> QED
  BY <1>3, <1>4
LEMMA StackPop ==
  ASSUME StackInv, NEW t \in Thread, S!Pop(t)
  PROVE  StackInv' /\ S!Stack!CallPop(t)
<1>1. /\ pc[t] = "idle" /\ pc' = [pc EXCEPT ![t] = "popLoad"]
      /\ answer' = [answer EXCEPT ![t] = None]
      /\ UNCHANGED <<head, next, value, held>>
  BY DEF S!Pop, S!Goto
<1>2. StackTypes /\ IsList(next, head, Chain)
  BY DEF StackInv
<1>3. IsList(next', head', Chain') /\ Chain' = Chain
  BY <1>1, <1>2, ChainStays
<1>4. StackInv'
  BY <1>1, <1>2, <1>3 DEF StackInv, StackTypes, StackPushing, InChain
<1>5. S!Contents' = S!Contents
  BY <1>1, <1>3, StackContents DEF ValuesOf
<1>6. /\ StackOp[t] = "none" /\ StackOp' = [StackOp EXCEPT ![t] = "pop"]
      /\ StackArg' = StackArg
  BY <1>1, <1>2 DEF StackOp, StackArg, StackTypes
<1> QED
  BY <1>1, <1>4, <1>5, <1>6 DEF S!Stack!CallPop, StackOp, StackArg

LEMMA StackPopLoad ==
  ASSUME StackInv, NEW t \in Thread, S!PopLoad(t)
  PROVE  StackInv' /\ (StackStutters \/ S!Stack!PopTakesEffect(t))
<1>1. /\ pc[t] = "popLoad" /\ held' = [held EXCEPT ![t] = head]
      /\ UNCHANGED <<head, next, value>>
  BY DEF S!PopLoad
<1>2. StackTypes /\ IsList(next, head, Chain)
  BY DEF StackInv
<1>3. IsList(next', head', Chain') /\ Chain' = Chain
  BY <1>1, <1>2, ChainStays
<1>4. /\ pc' = [pc EXCEPT ![t] = IF head = NULL THEN "idle" ELSE "popExchange"]
      /\ answer' = IF head = NULL THEN [answer EXCEPT ![t] = None] ELSE answer
  BY DEF S!PopLoad, S!Goto
<1>5. head # NULL => head \in Node /\ InChain(head)
  BY <1>2 DEF StackTypes, IsList, InChain
<1>6. StackTypes'
  BY <1>1, <1>2, <1>4 DEF StackTypes
<1>7. ASSUME NEW u \in Thread
      PROVE  /\ StackPushing(u)' =>
                  /\ held'[u] \in Node
                  /\ ~ InChain(held[u])'
                  /\ \A w \in Thread : w # u => held'[w] # held'[u]
             /\ pc'[u] = "popExchange" => held'[u] \in Node
  <2>1. CASE u = t
    BY <1>1, <1>2, <1>4, <1>5, <2>1 DEF StackPushing, StackTypes
  <2>2. CASE u # t
    <3>1. pc'[u] = pc[u] /\ held'[u] = held[u]
      BY <1>1, <1>2, <1>4, <2>2 DEF StackTypes
    <3>2. ASSUME StackPushing(u)
          PROVE  /\ held[u] \in Node /\ ~ InChain(held[u])
                 /\ held[u] # head
                 /\ \A w \in Thread : w # u => held'[w] # held'[u]
      BY <1>1, <1>2, <1>5, <3>1, <3>2, NodeAssumption DEF StackInv, StackTypes
    <3> QED
      BY <1>3, <3>1, <3>2 DEF StackInv, StackPushing, InChain
  <2> QED
    BY <2>1, <2>2
<1>8. StackInv'
  BY <1>3, <1>6, <1>7 DEF StackInv
<1>9. S!Contents' = S!Contents
  BY <1>1, <1>3, StackContents DEF ValuesOf
<1>10. StackArg' = StackArg
  BY <1>1, <1>2, <1>4 DEF StackArg, StackTypes
<1>11. CASE head = NULL
  <2>1. Chain = <<>>
    BY <1>2, <1>11, NodeAssumption DEF IsList
  <2>2. S!Contents = <<>>
    BY <2>1, StackContents DEF ValuesOf
  <2>3. StackOp[t] = "pop" /\ StackOp' = [StackOp EXCEPT ![t] = "none"]
    BY <1>1, <1>2, <1>4, <1>11 DEF StackOp, StackTypes
  <2> QED
    BY <1>4, <1>8, <1>9, <1>10, <1>11, <2>2, <2>3
    DEF S!Stack!PopTakesEffect, StackOp, StackArg
<1>12. CASE head # NULL
  <2>1. StackOp' = StackOp
    BY <1>1, <1>2, <1>4, <1>12 DEF StackOp, StackTypes
  <2> QED
    BY <1>4, <1>8, <1>9, <1>10, <1>12, <2>1 DEF StackStutters
<1> QED
  BY <1>11, <1>12

LEMMA StackPopExchange ==
  ASSUME StackInv, NEW t \in Thread, S!PopExchange(t)
  PROVE  StackInv' /\ (StackStutters \/ S!Stack!PopTakesEffect(t))
<1>1. /\ pc[t] = "popExchange" /\ held' = [held EXCEPT ![t] = NULL]
      /\ UNCHANGED <<next, value>>
  BY DEF S!PopExchange
<1>2. /\ StackTypes /\ IsList(next, head, Chain)
      /\ held[t] \in Node /\ Chain \in Seq(Node)
  BY <1>1 DEF StackInv, IsList
<1>3. CASE head = held[t]
  <2>1. /\ head' = next[head] /\ pc' = [pc EXCEPT ![t] = "idle"]
        /\ answer' = [answer EXCEPT ![t] = value[head]]
    BY <1>3 DEF S!PopExchange, S!Goto
  <2>2. Len(Chain) \in Nat /\ Len(Chain) # 0 /\ head = Chain[1]
    BY <1>2, <1>3, NodeAssumption DEF IsList
  <2>3. /\ IsList(next, next[head], Tail(Chain))
        /\ Len(Tail(Chain)) = Len(Chain) - 1
        /\ \A i \in 1..(Len(Chain) - 1) : Tail(Chain)[i] = Chain[i + 1]
    BY <1>2, <2>2, ListPopped
  <2>4. IsList(next', head', Chain') /\ Chain' = Tail(Chain)
    BY <1>1, <2>1, <2>3, ChainIs
  <2>5. ASSUME NEW m, InChain(m)'
        PROVE  InChain(m)
    <3>1. PICK i \in 1..(Len(Chain) - 1) : Chain[i + 1] = m
      BY <2>3, <2>4, <2>5 DEF InChain
    <3>2. i + 1 \in 1..Len(Chain)
      BY <2>2
    <3> QED
      BY <3>1, <3>2 DEF InChain
  <2>6. StackTypes'
    BY <1>1, <1>2, <1>3, <2>1 DEF StackTypes
  <2>7. StackInv'
    BY <1>1, <1>2, <2>1, <2>4, <2>5, <2>6, NodeAssumption
    DEF StackInv, StackPushing, StackTypes
  <2>8. S!Contents # <<>> /\ S!Contents' = Tail(S!Contents) /\ Head(S!Contents) = value[head]
    <3> DEFINE d == Chain'  e == ValuesOf(Chain)  f == Tail(e)
    <3>1. ValuesOf(Chain)' = [i \in 1..Len(d) |-> value[d[i]]]
      BY <1>1 DEF ValuesOf
    <3>2. /\ e \in Seq(Value \cup {None}) /\ Len(e) = Len(Chain)
          /\ \A i \in 1..Len(Chain) : e[i] = value[Chain[i]]
      BY <1>2 DEF ValuesOf, StackTypes
    <3> HIDE DEF e
    <3>3. /\ e # <<>> /\ Head(e) = value[head]
          /\ Len(f) = Len(e) - 1 /\ f = [i \in 1..(Len(e) - 1) |-> f[i]]
          /\ \A i \in 1..(Len(e) - 1) : f[i] = e[i + 1]
      <4>1. e # <<>> /\ Head(e) = e[1] /\ e[1] = value[head]
        BY <2>2, <3>2
      <4> QED
        BY <3>2, <4>1, TailOf
    <3> HIDE DEF f
    <3>4. ASSUME NEW i \in 1..Len(d)
          PROVE  value[d[i]] = f[i]
      BY <2>2, <2>3, <2>4, <3>2, <3>3
    <3>5. ValuesOf(Chain)' = f
      BY <2>3, <2>4, <3>1, <3>2, <3>3, <3>4
    <3> QED
      BY <3>3, <3>5, StackContents DEF e, f
  <2>9. /\ StackOp[t] = "pop" /\ StackOp' = [StackOp EXCEPT ![t] = "none"]
        /\ StackArg' = StackArg
    BY <1>1, <1>2, <2>1 DEF StackOp, StackArg, StackTypes
  <2> QED
    BY <2>1, <2>7, <2>8, <2>9 DEF S!Stack!PopTakesEffect, StackOp, StackArg
<1>4. CASE head # held[t]
  <2>1. pc' = [pc EXCEPT ![t] = "popLoad"] /\ UNCHANGED <<head, answer>>
    BY <1>4 DEF S!PopExchange, S!Goto
  <2>2. IsList(next', head', Chain') /\ Chain' = Chain
    BY <1>1, <1>2, <2>1, ChainStays
  <2>3. StackInv'
    BY <1>1, <1>2, <2>1, <2>2, NodeAssumption
    DEF StackInv, StackTypes, StackPushing, InChain
  <2>4. S!Contents' = S!Contents
    BY <1>1, <2>2, StackContents DEF ValuesOf
  <2>5. StackOp' = StackOp /\ StackArg' = StackArg
    BY <1>1, <1>2, <2>1 DEF StackOp, StackArg, StackTypes
  <2> QED
    BY <2>1, <2>3, <2>4, <2>5 DEF StackStutters
<1> QED
  BY <1>3, <1>4

\* Every step keeps the invariant and is a step of the abstract stack or none.
LEMMA StackStep ==
  ASSUME StackInv, [S!Next]_(S!vars)
  PROVE  StackInv' /\ [S!Stack!ContainerNext]_(S!Stack!containerVars)
<1>1. ASSUME StackStutters
      PROVE  UNCHANGED S!Stack!containerVars
  BY <1>1 DEF StackStutters, S!Stack!containerVars, StackOp, StackArg
<1>2. CASE UNCHANGED S!vars
  <2>1. UNCHANGED <<head, next, value, pc, held, answer>>
    BY <1>2 DEF S!vars
  <2>2. IsList(next', head', Chain') /\ Chain' = Chain
    BY <2>1, ChainStays DEF StackInv
  <2>3. StackInv'
    BY <2>1, <2>2 DEF StackInv, StackTypes, StackPushing, InChain
  <2>4. S!Contents' = S!Contents
    BY <2>1, <2>2, StackContents DEF ValuesOf
  <2> QED
    BY <1>1, <2>1, <2>3, <2>4 DEF StackStutters, StackOp, StackArg
<1>3. ASSUME NEW t \in Thread, NEW v \in Value, S!Push(t, v)
      PROVE  StackInv' /\ S!Stack!ContainerNext
  BY <1>3, StackPush DEF S!Stack!ContainerNext
<1>4. ASSUME NEW t \in Thread, S!Pop(t)
      PROVE  StackInv' /\ S!Stack!ContainerNext
  BY <1>4, StackPop DEF S!Stack!ContainerNext
<1>5. ASSUME NEW t \in Thread, S!Running(t)
      PROVE  StackInv' /\ (StackStutters \/ S!Stack!ContainerNext)
  BY <1>5, StackPushLoad, StackPushExchange, StackPopLoad, StackPopExchange
  DEF S!Running, S!Stack!ContainerNext
<1> QED
  BY <1>1, <1>2, <1>3, <1>4, <1>5 DEF S!Next

\* push and pop of LockFreeStack are those of a stack, each of which takes
\* effect at one moment of its call, for every number of threads and nodes.
THEOREM StackCorrect == S!Spec => S!ImplementsStack
<1>1. ASSUME S!Init
      PROVE  StackInv /\ S!Stack!ContainerInit
  BY <1>1, StackInit DEF S!Init, S!Stack!ContainerInit
<1> QED
  BY <1>1, StackStep, PTL DEF S!Spec, S!ImplementsStack, S!Stack!ContainerSpec
-----------------------------------------------------------------------------
(* The queue.                                                              *)

QueueTypes ==
  /\ head \in Node /\ tail \in Node
  /\ next \in [Node -> Node \cup {NULL}]
  /\ value \in [Node -> Value \cup {None}]
  /\ pc \in [Thread -> {"idle", "pushLoad", "pushPeek", "pushHelp", "pushLink", "pushSwing",
                       "popLoad", "popPeek", "popExchange", "popTake"}]
  /\ new \in [Thread -> Node \cup {NULL}]
  /\ cur \in [Thread -> Node \cup {NULL}]
  /\ curNext \in [Thread -> Node \cup {NULL}]
  /\ answer \in [Thread -> Value \cup {None}]

\* tail_ is the last node or the one before it, which head_ may have left.
TailNear ==
  \/ tail = Chain[Len(Chain)]
  \/ Len(Chain) > 1 /\ tail = Chain[Len(Chain) - 1]
  \/ Len(Chain) = 1 /\ next[tail] = head

\* Until it is linked, the node of a push is last and nobody else's.
Private(t) ==
  Pushing(t) =>
    /\ new[t] \in Node
    /\ next[new[t]] = NULL
    /\ ~ InChain(new[t])
    /\ tail # new[t]
    /\ \A u \in Thread :
         /\ u # t => new[u] # new[t]
         /\ cur[u] # new[t] /\ curNext[u] # new[t]
         /\ cur[u] # NULL => next[cur[u]] # new[t]

\* What a thread has read is still so: a cur_tail without next is tail_, and
\* a cur_head without next is head_.  Those that take values have a node each,
\* the head or one behind it.
Read(t) ==
  /\ pc[t] = "pushSwing" => new[t] \in Node
  /\ pc[t] \in {"pushPeek", "pushHelp", "pushLink", "pushSwing",
                "popPeek", "popExchange", "popTake"} => cur[t] \in Node
  /\ pc[t] \in {"popExchange", "popTake"} => curNext[t] \in Node
  /\ pc[t] \in {"pushPeek", "pushLink"} /\ next[cur[t]] = NULL => tail = cur[t]
  /\ pc[t] = "pushHelp" => next[cur[t]] # NULL
  /\ pc[t] = "pushSwing" => next[cur[t]] = new[t]
  /\ pc[t] = "popPeek" /\ next[cur[t]] = NULL => head = cur[t]
  /\ pc[t] = "popExchange" => next[cur[t]] = curNext[t]
  /\ pc[t] = "popTake" =>
       /\ InChain(curNext[t]) => curNext[t] = head
       /\ \A u \in Thread : pc[u] = "popTake" /\ curNext[u] = curNext[t] => u = t

QueueInv ==
  /\ QueueTypes
  /\ IsList(next, head, Chain)
  /\ TailNear
  /\ \A t \in Thread : Private(t) /\ Read(t)

\* What a state shows of the abstract queue.
QueueOp == [t \in Thread |-> CASE Pushing(t) -> "push"
                               [] Popping(t) -> "pop"
                               [] OTHER -> "none"]
QueueArg == [t \in Thread |-> IF Pushing(t) THEN value[new[t]] ELSE None]
QueueAnswer == [t \in Thread |-> IF pc[t] = "popTake" THEN value[curNext[t]]
                                                     ELSE answer[t]]
ValuesBehind(c) == [i \in 1..(Len(c) - 1) |-> value[c[i + 1]]]

\* A step that the abstract queue does not see.
QueueStutters == UNCHANGED <<Contents, QueueOp, QueueArg, QueueAnswer>>

LEMMA QueueContents ==
  Contents = ValuesBehind(Chain) /\ Contents' = ValuesBehind(Chain)'
BY Zenon DEF Contents, ValuesBehind, Chain

LEMMA QueueInit ==
  ASSUME Init
  PROVE  QueueInv /\ Contents = <<>>
<1>1. head \in Node /\ tail = head
  BY NodeAssumption DEF Init
<1>2. IsList(next, head, <<head>>)
  BY <1>1 DEF Init, IsList
<1>3. Chain = <<head>> /\ IsList(next, head, Chain)
  BY <1>2, ListIsUnique DEF Chain
<1>4. QueueTypes
  BY <1>1 DEF QueueTypes, Init
<1>5. TailNear
  BY <1>1, <1>3 DEF TailNear
<1>6. ASSUME NEW t \in Thread
      PROVE  Private(t) /\ Read(t)
  BY DEF Private, Read, Init, Pushing
<1>7. Contents = <<>>
  BY <1>3, QueueContents DEF ValuesBehind
<1> QED
  BY <1>3, <1>4, <1>5, <1>6, <1>7 DEF QueueInv

\* The chain has a node, the dummy.
LEMMA Dummy ==
  ASSUME QueueInv
  PROVE  /\ Chain \in Seq(Node) /\ Len(Chain) \in Nat /\ Len(Chain) > 0
         /\ head = Chain[1]
         /\ \A i \in 1..Len(Chain) : Chain[i] \in Node /\ InChain(Chain[i])
         /\ next[head] = IF Len(Chain) = 1 THEN NULL ELSE Chain[2]
         /\ Chain[Len(Chain)] \in Node /\ next[Chain[Len(Chain)]] = NULL
<1>1. /\ Chain \in Seq(Node) /\ Len(Chain) \in Nat /\ head \in Node
      /\ IsList(next, head, Chain)
  BY DEF QueueInv, QueueTypes, IsList
<1>2. Len(Chain) > 0 /\ head = Chain[1]
  BY <1>1, NodeAssumption DEF IsList
<1>3. /\ 1 \in 1..Len(Chain) /\ Len(Chain) \in 1..Len(Chain)
      /\ \A i \in 1..Len(Chain) : Chain[i] \in Node /\ InChain(Chain[i])
  BY <1>1, <1>2 DEF InChain
<1>4. \A i \in 1..Len(Chain) : next[Chain[i]] = IF i = Len(Chain) THEN NULL ELSE Chain[i + 1]
  BY <1>1 DEF IsList
<1>5. next[Chain[1]] = IF Len(Chain) = 1 THEN NULL ELSE Chain[2]
  <2>1. next[Chain[1]] = IF 1 = Len(Chain) THEN NULL ELSE Chain[1 + 1]
    BY <1>3, <1>4
  <2>2. 1 + 1 = 2
    OBVIOUS
  <2> QED
    BY <2>1, <2>2
<1> QED
  BY <1>1, <1>2, <1>3, <1>4, <1>5

\* A tail_ without next is the last node, and a tail_ with one links it.
LEMMA TailLinks ==
  ASSUME QueueInv
  PROVE  /\ next[tail] = NULL => tail = Chain[Len(Chain)]
         /\ next[tail] # NULL => next[tail] = Chain[Len(Chain)]
<1>1. CASE tail = Chain[Len(Chain)]
  BY <1>1, Dummy
<1>2. CASE Len(Chain) > 1 /\ tail = Chain[Len(Chain) - 1]
  <2>1. /\ Len(Chain) - 1 \in 1..Len(Chain) /\ Len(Chain) - 1 # Len(Chain)
        /\ (Len(Chain) - 1) + 1 = Len(Chain)
    BY <1>2, Dummy
  <2>2. next[Chain[Len(Chain) - 1]] = Chain[Len(Chain)]
    BY <2>1 DEF QueueInv, IsList
  <2> QED
    BY <1>2, <2>2, Dummy, NodeAssumption
<1>3. CASE Len(Chain) = 1 /\ next[tail] = head
  BY <1>3, Dummy, NodeAssumption DEF QueueInv, QueueTypes
<1> QED
  BY <1>1, <1>2, <1>3 DEF QueueInv, TailNear

\* A step that does not touch head_ and the links of the chain.
LEMMA ChainQuiet ==
  ASSUME QueueInv, head' = head,
         \A i \in 1..Len(Chain) : next'[Chain[i]] = next[Chain[i]]
  PROVE  /\ IsList(next', head', Chain')
         /\ Chain' = Chain
         /\ \A m : InChain(m)' <=> InChain(m)
<1>1. IsList(next', head', Chain') /\ Chain' = Chain
  BY ChainStays DEF QueueInv
<1> QED
  BY <1>1 DEF InChain

\* The node of a new push is free: it is not in the queue, no call has it or a
\* node that links it, and it is not tail_.
LEMMA QueueFreeNode ==
  ASSUME QueueInv, Live # Node
  PROVE  LET n == CHOOSE n \in Node : n \notin Live
         IN  /\ n \in Node
             /\ ~ InChain(n)
             /\ tail # n
             /\ \A u \in Thread :
                  /\ new[u] # n /\ cur[u] # n /\ curNext[u] # n
                  /\ cur[u] # NULL => next[cur[u]] # n
<1> DEFINE A == {head, tail} \cup UNION {{new[t], cur[t], curNext[t]} : t \in Thread}
           n == CHOOSE m \in Node : m \notin Live
<1>1. Live = KeptBy(next, A)
  BY DEF Live
<1>2. A \in SUBSET (Node \cup {NULL}) /\ head \in A /\ tail \in A
  BY DEF QueueInv, QueueTypes
<1>3. \A u \in Thread : new[u] \in A /\ cur[u] \in A /\ curNext[u] \in A
  OBVIOUS
<1>4. /\ next \in [Node -> Node \cup {NULL}] /\ IsList(next, head, Chain)
      /\ tail \in Node
  BY DEF QueueInv, QueueTypes
<1> HIDE DEF A
<1>5. n \in Node /\ n \notin Live
  BY <1>1, <1>2, <1>4, FreeNode
<1>6. \A i \in 1..Len(Chain) : Chain[i] \in Live
  BY <1>1, <1>2, <1>4, KeptList
<1>7. \A m \in A : m # NULL => m \in Live /\ (next[m] # NULL => next[m] \in Live)
  BY <1>1, <1>2, <1>4, Kept
<1> HIDE DEF n
<1>8. ~ InChain(n)
  BY <1>5, <1>6 DEF InChain
<1>9. tail # n
  BY <1>2, <1>4, <1>5, <1>7, NodeAssumption
<1>10. \A u \in Thread :
         /\ new[u] # n /\ cur[u] # n /\ curNext[u] # n
         /\ cur[u] # NULL => next[cur[u]] # n
  BY <1>3, <1>5, <1>7, NodeAssumption
<1> QED
  BY <1>5, <1>8, <1>9, <1>10 DEF n
LEMMA QueuePush ==
  ASSUME QueueInv, NEW t \in Thread, NEW v \in Value, Push(t, v)
  PROVE  QueueInv' /\ Queue!CallPush(t, v)
<1>1. PICK n \in Node :
        /\ ~ InChain(n)
        /\ tail # n
        /\ \A u \in Thread :
             /\ new[u] # n /\ cur[u] # n /\ curNext[u] # n
             /\ cur[u] # NULL => next[cur[u]] # n
        /\ value' = [value EXCEPT ![n] = v]
        /\ next' = [next EXCEPT ![n] = NULL]
        /\ new' = [new EXCEPT ![t] = n]
  BY QueueFreeNode DEF Push
<1>2. /\ pc[t] = "idle" /\ pc' = [pc EXCEPT ![t] = "pushLoad"]
      /\ answer' = [answer EXCEPT ![t] = None]
      /\ UNCHANGED <<head, tail, cur, curNext>>
  BY DEF Push, Goto
<1>3. QueueTypes /\ \A i \in 1..Len(Chain) : Chain[i] \in Node /\ Chain[i] # n
  BY <1>1, Dummy DEF QueueInv, InChain
<1>4. \A i \in 1..Len(Chain) : next'[Chain[i]] = next[Chain[i]]
  BY <1>1, <1>3 DEF QueueTypes
<1>5. /\ IsList(next', head', Chain') /\ Chain' = Chain
      /\ \A m : InChain(m)' <=> InChain(m)
  BY <1>2, <1>4, ChainQuiet
<1>6. \A m \in Node : m # n => next'[m] = next[m] /\ value'[m] = value[m]
  BY <1>1, <1>3 DEF QueueTypes
<1>7. next'[n] = NULL /\ value'[n] = v /\ new'[t] = n /\ pc'[t] = "pushLoad"
  BY <1>1, <1>2, <1>3 DEF QueueTypes
<1>8. \A u \in Thread : u # t => new'[u] = new[u] /\ pc'[u] = pc[u]
  BY <1>1, <1>2, <1>3 DEF QueueTypes
<1>9. QueueTypes'
  BY <1>1, <1>2, <1>3 DEF QueueTypes
<1>10. TailNear'
  BY <1>1, <1>2, <1>3, <1>5, <1>6 DEF TailNear, QueueInv, QueueTypes
<1>11. ASSUME NEW u \in Thread
       PROVE  Private(u)'
  <2>1. CASE u = t
    BY <1>1, <1>2, <1>3, <1>5, <1>6, <1>7, <1>8, <2>1 DEF Private, QueueTypes
  <2>2. CASE u # t
    <3>1. SUFFICES ASSUME Pushing(u)
                   PROVE  Private(u)'
      BY <1>8, <2>2 DEF Private, Pushing
    <3>2. /\ new[u] \in Node /\ next[new[u]] = NULL /\ ~ InChain(new[u]) /\ tail # new[u]
          /\ \A w \in Thread :
               /\ w # u => new[w] # new[u]
               /\ cur[w] # new[u] /\ curNext[w] # new[u]
               /\ cur[w] # NULL => next[cur[w]] # new[u]
      BY <3>1 DEF QueueInv, Private
    <3>3. new'[u] = new[u] /\ next'[new[u]] = NULL
      BY <1>1, <1>6, <1>8, <2>2, <3>2
    <3>4. \A w \in Thread : w # u => new'[w] # new[u]
      BY <1>1, <1>7, <1>8, <3>2
    <3>5. \A w \in Thread : cur[w] # NULL => next'[cur[w]] # new[u]
      BY <1>1, <1>3, <1>6, <3>2 DEF QueueTypes
    <3> QED
      BY <1>2, <1>5, <3>2, <3>3, <3>4, <3>5 DEF Private
  <2> QED
    BY <2>1, <2>2
<1>12. ASSUME NEW u \in Thread
       PROVE  Read(u)'
  <2>1. CASE u = t
    BY <1>7, <2>1 DEF Read
  <2>2. CASE u # t
    <3>1. Read(u) /\ pc'[u] = pc[u] /\ new'[u] = new[u]
      BY <1>8, <2>2 DEF QueueInv
    <3>2. cur[u] \in Node => next'[cur[u]] = next[cur[u]]
      BY <1>1, <1>6
    <3>3. \A w \in Thread : pc'[w] = "popTake" => pc[w] = "popTake"
      BY <1>7, <1>8
    <3> QED
      BY <1>2, <1>5, <3>1, <3>2, <3>3 DEF Read
  <2> QED
    BY <2>1, <2>2
<1>13. QueueInv'
  BY <1>5, <1>9, <1>10, <1>11, <1>12 DEF QueueInv
<1>14. Contents' = Contents
  <2>1. \A i \in 1..(Len(Chain) - 1) : value'[Chain[i + 1]] = value[Chain[i + 1]]
    BY <1>3, <1>6, Dummy
  <2> QED
    BY <1>5, <2>1, QueueContents DEF ValuesBehind
<1>15. QueueOp[t] = "none" /\ QueueOp' = [QueueOp EXCEPT ![t] = "push"]
  BY <1>2, <1>3 DEF QueueOp, QueueTypes, Pushing, Popping
<1>16. QueueArg' = [QueueArg EXCEPT ![t] = v]
  <2>1. ASSUME NEW u \in Thread, u # t
        PROVE  QueueArg'[u] = QueueArg[u]
    BY <1>1, <1>6, <1>8, <2>1 DEF QueueArg, QueueInv, Pushing, Private
  <2>2. QueueArg'[t] = v
    BY <1>7 DEF QueueArg, Pushing
  <2> QED
    BY <2>1, <2>2 DEF QueueArg
<1>17. QueueAnswer' = [QueueAnswer EXCEPT ![t] = None]
  <2>1. ASSUME NEW u \in Thread, u # t
        PROVE  QueueAnswer'[u] = QueueAnswer[u]
    <3>1. pc[u] = "popTake" => curNext[u] \in Node /\ curNext[u] # n
      BY <1>1 DEF QueueInv, Read
    <3> QED
      BY <1>2, <1>3, <1>6, <1>8, <2>1, <3>1 DEF QueueAnswer, QueueTypes
  <2>2. QueueAnswer'[t] = None
    BY <1>2, <1>3, <1>7 DEF QueueAnswer, QueueTypes
  <2> QED
    BY <2>1, <2>2 DEF QueueAnswer
<1> QED
  BY <1>13, <1>14, <1>15, <1>16, <1>17
  DEF Queue!CallPush, QueueOp, QueueArg, QueueAnswer,
      Pushing, Popping, Pushing, Popping
\* A step of t that leaves head_ and the links alone and may move tail_ to the
\* node that it links: what there is to show of it.
LEMMA QueueQuiet ==
  ASSUME QueueInv, NEW t \in Thread,
         UNCHANGED <<head, next>>,
         tail' = tail \/ (next[tail] # NULL /\ tail' = next[tail]),
         QueueTypes',
         \A u \in Thread : u # t => /\ pc'[u] = pc[u] /\ new'[u] = new[u]
                                   /\ cur'[u] = cur[u] /\ curNext'[u] = curNext[u],
         Pushing(t)' => Pushing(t) /\ new'[t] = new[t],
         pc'[t] # "popTake",
         new'[t] \in {NULL, new[t]},
         cur'[t] \in {NULL, cur[t], head, tail},
         \/ curNext'[t] \in {NULL, curNext[t]}
         \/ curNext'[t] = next[cur[t]] /\ cur[t] \in Node,
         Read(t)'
  PROVE  QueueInv' /\ Chain' = Chain
<1>1. /\ IsList(next', head', Chain') /\ Chain' = Chain
      /\ \A m : InChain(m)' <=> InChain(m)
  BY ChainQuiet
<1>2. TailNear'
  <2>1. CASE tail' = tail
    BY <1>1, <2>1 DEF TailNear, QueueInv
  <2>2. CASE next[tail] # NULL /\ tail' = next[tail]
    BY <1>1, <2>2, TailLinks DEF TailNear
  <2> QED
    BY <2>1, <2>2
<1>3. /\ head \in Node /\ InChain(head) /\ (next[head] = NULL \/ InChain(next[head]))
      /\ (next[tail] = NULL \/ InChain(next[tail]))
  BY Dummy, TailLinks DEF QueueInv, QueueTypes
<1>4. ASSUME NEW u \in Thread
      PROVE  Private(u)'
  <2>1. SUFFICES ASSUME Pushing(u)'
                 PROVE  Private(u)'
    BY DEF Private
  <2>2. Pushing(u) /\ new'[u] = new[u]
    BY <2>1 DEF Pushing
  <2>3. /\ new[u] \in Node /\ next[new[u]] = NULL /\ ~ InChain(new[u]) /\ tail # new[u]
        /\ \A w \in Thread :
             /\ w # u => new[w] # new[u]
             /\ cur[w] # new[u] /\ curNext[w] # new[u]
             /\ cur[w] # NULL => next[cur[w]] # new[u]
    BY <2>2 DEF QueueInv, Private
  <2>4. new[u] # NULL /\ head # new[u] /\ next[head] # new[u] /\ next[tail] # new[u]
    BY <1>3, <2>3, NodeAssumption
  <2>5. ASSUME NEW w \in Thread
        PROVE  /\ w # u => new'[w] # new[u]
               /\ cur'[w] # new[u] /\ curNext'[w] # new[u]
               /\ cur'[w] # NULL => next[cur'[w]] # new[u]
    <3>1. CASE w # t
      BY <2>3, <3>1
    <3>2. CASE w = t
      BY <2>3, <2>4, <3>2, NodeAssumption
    <3> QED
      BY <3>1, <3>2
  <2> QED
    BY <1>1, <2>2, <2>3, <2>4, <2>5 DEF Private
<1>5. ASSUME NEW u \in Thread
      PROVE  Read(u)'
  <2>1. CASE u # t
    <3>1. \A w \in Thread : pc'[w] = "popTake" => pc[w] = "popTake" /\ curNext'[w] = curNext[w]
      OBVIOUS
    <3>2. tail' = tail \/ ~ (pc[u] \in {"pushPeek", "pushLink"} /\ next[cur[u]] = NULL)
      BY DEF QueueInv, Read
    <3> QED
      BY <1>1, <2>1, <3>1, <3>2 DEF QueueInv, Read
  <2> QED
    BY <2>1
<1> QED
  BY <1>1, <1>2, <1>4, <1>5 DEF QueueInv

LEMMA QueuePop ==
  ASSUME QueueInv, NEW t \in Thread, Pop(t)
  PROVE  QueueInv' /\ Queue!CallPop(t)
<1>1. /\ pc[t] = "idle" /\ pc' = [pc EXCEPT ![t] = "popLoad"]
      /\ answer' = [answer EXCEPT ![t] = None]
      /\ UNCHANGED <<head, tail, next, value, new, cur, curNext>>
  BY DEF Pop, Goto
<1>2. QueueTypes /\ QueueTypes'
  BY <1>1 DEF QueueInv, QueueTypes
<1>3. pc'[t] = "popLoad" /\ Read(t)' /\ ~ Pushing(t)'
  BY <1>1, <1>2 DEF Read, QueueTypes, Pushing
<1>4. \A u \in Thread : u # t => /\ pc'[u] = pc[u] /\ cur'[u] = cur[u]
                                /\ curNext'[u] = curNext[u] /\ answer'[u] = answer[u]
  BY <1>1, <1>2 DEF QueueTypes
<1>5. QueueInv' /\ Chain' = Chain
  BY <1>1, <1>2, <1>3, <1>4, QueueQuiet
<1>6. QueueOp[t] = "none" /\ QueueOp' = [QueueOp EXCEPT ![t] = "pop"]
  BY <1>1, <1>2 DEF QueueOp, QueueTypes, Pushing, Popping
<1>7. QueueArg' = QueueArg
  BY <1>1, <1>2 DEF QueueArg, QueueTypes, Pushing
<1>8. QueueAnswer' = [QueueAnswer EXCEPT ![t] = None]
  BY <1>1, <1>2 DEF QueueAnswer, QueueTypes
<1>9. Contents' = Contents
  BY <1>1, <1>5, QueueContents DEF ValuesBehind
<1> QED
  BY <1>5, <1>6, <1>7, <1>8, <1>9
  DEF Queue!CallPop, QueueOp, QueueArg, QueueAnswer,
      Pushing, Popping, Pushing, Popping

\* The steps that read, and the exchanges that fail.
LEMMA QueueReads ==
  ASSUME QueueInv, NEW t \in Thread,
         \/ PushLoad(t) \/ PushPeek(t)
         \/ PushLink(t) /\ next[cur[t]] # NULL
         \/ PopLoad(t)
         \/ PopPeek(t) /\ next[cur[t]] # NULL
         \/ PopExchange(t) /\ head # cur[t]
  PROVE  QueueInv' /\ QueueStutters
<1>1. /\ UNCHANGED <<head, tail, next, value, new, answer>>
      /\ pc' = [pc EXCEPT ![t] = pc'[t]]
      /\ cur' = [cur EXCEPT ![t] = cur'[t]]
      /\ curNext' = [curNext EXCEPT ![t] = curNext'[t]]
      /\ \/ pc[t] = "pushLoad" /\ pc'[t] = "pushPeek" /\ cur'[t] = tail /\ UNCHANGED curNext
         \/ /\ pc[t] = "pushPeek" /\ UNCHANGED <<cur, curNext>>
            /\ pc'[t] = IF next[cur[t]] # NULL THEN "pushHelp" ELSE "pushLink"
         \/ pc[t] = "pushLink" /\ pc'[t] = "pushLoad" /\ UNCHANGED <<cur, curNext>>
         \/ pc[t] = "popLoad" /\ pc'[t] = "popPeek" /\ cur'[t] = head /\ UNCHANGED curNext
         \/ /\ pc[t] = "popPeek" /\ pc'[t] = "popExchange" /\ UNCHANGED cur
            /\ next[cur[t]] # NULL /\ curNext'[t] = next[cur[t]]
         \/ pc[t] = "popExchange" /\ pc'[t] = "popLoad" /\ UNCHANGED cur /\ curNext'[t] = NULL
  BY DEF QueueInv, QueueTypes, PushLoad, PushPeek, PushLink, PopLoad, PopPeek,
         PopExchange, Goto
<1>2. QueueTypes /\ Read(t)
  BY DEF QueueInv
<1>3. QueueTypes'
  BY <1>1, <1>2 DEF QueueTypes, Read
<1>4. Read(t)'
  BY <1>1, <1>2 DEF QueueTypes, Read
<1>5. \A u \in Thread : u # t => /\ pc'[u] = pc[u] /\ cur'[u] = cur[u]
                                /\ curNext'[u] = curNext[u] /\ answer'[u] = answer[u]
  BY <1>1, <1>2 DEF QueueTypes
<1>6. /\ Pushing(t)' <=> Pushing(t)
      /\ Popping(t)' <=> Popping(t)
      /\ pc[t] # "popTake" /\ pc'[t] # "popTake"
  BY <1>1 DEF Pushing, Popping
<1>7. /\ cur'[t] = cur[t] \/ cur'[t] \in {head, tail}
      /\ \/ curNext'[t] \in {NULL, curNext[t]}
         \/ curNext'[t] = next[cur[t]] /\ cur[t] \in Node
  BY <1>1, <1>2 DEF Read
<1>8. QueueInv' /\ Chain' = Chain
  BY <1>1, <1>3, <1>4, <1>5, <1>6, <1>7, QueueQuiet
<1>9. QueueOp' = QueueOp
  BY <1>5, <1>6 DEF QueueOp, Pushing, Popping
<1>10. QueueArg' = QueueArg
  BY <1>1, <1>5, <1>6 DEF QueueArg, Pushing
<1>11. QueueAnswer' = QueueAnswer
  BY <1>1, <1>5, <1>6 DEF QueueAnswer
<1>12. Contents' = Contents
  BY <1>1, <1>8, QueueContents DEF ValuesBehind
<1> QED
  BY <1>8, <1>9, <1>10, <1>11, <1>12 DEF QueueStutters
\* The steps that move tail_ on.
LEMMA QueueTailMoves ==
  ASSUME QueueInv, NEW t \in Thread, PushHelp(t) \/ PushSwing(t)
  PROVE  QueueInv' /\ QueueStutters
<1>1. /\ UNCHANGED <<head, next, value, answer>>
      /\ pc' = [pc EXCEPT ![t] = pc'[t]]
      /\ new' = [new EXCEPT ![t] = new'[t]]
      /\ cur' = [cur EXCEPT ![t] = cur'[t]]
      /\ curNext' = [curNext EXCEPT ![t] = curNext'[t]]
      /\ \/ /\ pc[t] = "pushHelp" /\ pc'[t] = "pushLoad" /\ UNCHANGED <<new, cur, curNext>>
            /\ tail' = IF tail = cur[t] THEN next[cur[t]] ELSE tail
         \/ /\ pc[t] = "pushSwing" /\ pc'[t] = "idle"
            /\ new'[t] = NULL /\ cur'[t] = NULL /\ curNext'[t] = NULL
            /\ tail' = IF tail = cur[t] THEN new[t] ELSE tail
  BY DEF QueueInv, QueueTypes, PushHelp, PushSwing, Goto, Return
<1>2. QueueTypes /\ Read(t)
  BY DEF QueueInv
<1>3. tail' = tail \/ (next[tail] # NULL /\ tail' = next[tail])
  BY <1>1, <1>2, NodeAssumption DEF Read
<1>4. QueueTypes'
  BY <1>1, <1>2, <1>3 DEF QueueTypes
<1>5. Read(t)'
  BY <1>1 DEF Read
<1>6. \A u \in Thread : u # t => /\ pc'[u] = pc[u] /\ new'[u] = new[u]
                                /\ cur'[u] = cur[u] /\ curNext'[u] = curNext[u]
  BY <1>1, <1>2 DEF QueueTypes
<1>7. /\ Pushing(t)' => Pushing(t) /\ new'[t] = new[t]
      /\ Pushing(t)' <=> Pushing(t)
      /\ ~ Popping(t)' /\ ~ Popping(t)
      /\ pc[t] # "popTake" /\ pc'[t] # "popTake"
  BY <1>1 DEF Pushing, Popping
<1>8. /\ new'[t] \in {NULL, new[t]} /\ cur'[t] \in {NULL, cur[t], head, tail}
      /\ curNext'[t] \in {NULL, curNext[t]}
  BY <1>1
<1>9. QueueInv' /\ Chain' = Chain
  BY <1>1, <1>3, <1>4, <1>5, <1>6, <1>7, <1>8, QueueQuiet
<1>10. Contents' = Contents
  BY <1>1, <1>9, QueueContents DEF ValuesBehind
<1>11. QueueOp' = QueueOp
  BY <1>6, <1>7 DEF QueueOp, Pushing, Popping
<1>12. QueueArg' = QueueArg
  BY <1>1, <1>6, <1>7 DEF QueueArg, Pushing
<1>13. QueueAnswer' = QueueAnswer
  BY <1>1, <1>6, <1>7 DEF QueueAnswer
<1> QED
  BY <1>9, <1>10, <1>11, <1>12, <1>13 DEF QueueStutters

\* A pop that finds no next node finds the queue empty.
LEMMA QueuePopEmpty ==
  ASSUME QueueInv, NEW t \in Thread, PopPeek(t), next[cur[t]] = NULL
  PROVE  QueueInv' /\ Queue!PopTakesEffect(t)
<1>1. /\ UNCHANGED <<head, tail, next, value>>
      /\ pc[t] = "popPeek" /\ pc' = [pc EXCEPT ![t] = "idle"]
      /\ new' = [new EXCEPT ![t] = NULL]
      /\ cur' = [cur EXCEPT ![t] = NULL]
      /\ curNext' = [curNext EXCEPT ![t] = NULL]
      /\ answer' = [answer EXCEPT ![t] = None]
  BY DEF PopPeek, Goto, Return
<1>2. QueueTypes /\ Read(t)
  BY DEF QueueInv
<1>3. QueueTypes'
  BY <1>1, <1>2 DEF QueueTypes
<1>4. /\ pc'[t] = "idle" /\ new'[t] = NULL /\ cur'[t] = NULL /\ curNext'[t] = NULL
      /\ \A u \in Thread : u # t => /\ pc'[u] = pc[u] /\ new'[u] = new[u]
                                   /\ cur'[u] = cur[u] /\ curNext'[u] = curNext[u]
  BY <1>1, <1>2 DEF QueueTypes
<1>5. Read(t)' /\ ~ Pushing(t)'
  BY <1>4 DEF Read, Pushing
<1>6. QueueInv' /\ Chain' = Chain
  BY <1>1, <1>3, <1>4, <1>5, QueueQuiet
<1>7. Contents = <<>> /\ Contents' = Contents
  <2>1. Len(Chain) = 1
    <3>1. next[head] = NULL
      BY <1>1, <1>2 DEF Read
    <3>2. Len(Chain) \in Nat /\ Len(Chain) > 0
      BY Dummy
    <3>3. \A k \in Nat : k > 0 /\ k # 1 => 2 \in 1..k
      OBVIOUS
    <3>4. Len(Chain) # 1 => 2 \in 1..Len(Chain)
      BY <3>2, <3>3
    <3>5. Len(Chain) # 1 => next[head] \in Node
      BY <3>4, Dummy
    <3> QED
      BY <3>1, <3>5, NodeAssumption
  <2>2. Contents = <<>>
    BY <2>1, QueueContents DEF ValuesBehind
  <2> QED
    BY <1>1, <1>6, <2>2, QueueContents DEF ValuesBehind
<1>8. QueueOp[t] = "pop" /\ QueueOp' = [QueueOp EXCEPT ![t] = "none"]
  BY <1>1, <1>2 DEF QueueOp, QueueTypes, Pushing, Popping
<1>9. QueueArg' = QueueArg
  BY <1>1, <1>2, <1>4 DEF QueueArg, QueueTypes, Pushing
<1>10. QueueAnswer' = [QueueAnswer EXCEPT ![t] = None]
  BY <1>1, <1>2, <1>4 DEF QueueAnswer, QueueTypes
<1> QED
  BY <1>6, <1>7, <1>8, <1>9, <1>10
  DEF Queue!PopTakesEffect, QueueOp, QueueArg, QueueAnswer,
      Pushing, Popping, Pushing, Popping

\* The value is moved out of a node that is not behind the head.
LEMMA QueuePopTake ==
  ASSUME QueueInv, NEW t \in Thread, PopTake(t)
  PROVE  QueueInv' /\ QueueStutters
<1>1. /\ UNCHANGED <<head, tail, next>>
      /\ pc[t] = "popTake" /\ pc' = [pc EXCEPT ![t] = "idle"]
      /\ new' = [new EXCEPT ![t] = NULL]
      /\ cur' = [cur EXCEPT ![t] = NULL]
      /\ curNext' = [curNext EXCEPT ![t] = NULL]
      /\ answer' = [answer EXCEPT ![t] = value[curNext[t]]]
      /\ value' = [value EXCEPT ![curNext[t]] = None]
  BY DEF PopTake, Goto, Return
<1>2. QueueTypes /\ Read(t) /\ curNext[t] \in Node
  BY <1>1 DEF QueueInv, Read
<1>3. QueueTypes'
  BY <1>1, <1>2 DEF QueueTypes
<1>4. /\ pc'[t] = "idle" /\ new'[t] = NULL /\ cur'[t] = NULL /\ curNext'[t] = NULL
      /\ \A u \in Thread : u # t => /\ pc'[u] = pc[u] /\ new'[u] = new[u]
                                   /\ cur'[u] = cur[u] /\ curNext'[u] = curNext[u]
  BY <1>1, <1>2 DEF QueueTypes
<1>5. Read(t)' /\ ~ Pushing(t)'
  BY <1>4 DEF Read, Pushing
<1>6. QueueInv' /\ Chain' = Chain
  BY <1>1, <1>3, <1>4, <1>5, QueueQuiet
<1>7. \A m \in Node : m # curNext[t] => value'[m] = value[m]
  BY <1>1, <1>2 DEF QueueTypes
<1>8. Contents' = Contents
  <2>1. ASSUME NEW i \in 1..(Len(Chain) - 1)
        PROVE  value'[Chain[i + 1]] = value[Chain[i + 1]]
    <3>1. i + 1 \in 1..Len(Chain) /\ i + 1 # 1 /\ 1 \in 1..Len(Chain)
      BY Dummy
    <3>2. Chain[i + 1] \in Node /\ InChain(Chain[i + 1]) /\ Chain[i + 1] # head
      BY <3>1, Dummy DEF QueueInv, IsList
    <3>3. Chain[i + 1] # curNext[t]
      BY <1>1, <1>2, <3>2 DEF Read
    <3> QED
      BY <1>7, <3>2, <3>3
  <2> QED
    BY <1>6, <2>1, QueueContents DEF ValuesBehind
<1>9. QueueOp' = QueueOp
  BY <1>1, <1>2 DEF QueueOp, QueueTypes, Pushing, Popping
<1>10. QueueArg' = QueueArg
  <2>1. ASSUME NEW u \in Thread
        PROVE  QueueArg'[u] = QueueArg[u]
    <3>1. CASE u = t
      BY <1>1, <1>4, <3>1 DEF QueueArg, Pushing
    <3>2. CASE u # t
      <4>1. Pushing(u) => new[u] \in Node /\ curNext[t] # new[u]
        BY DEF QueueInv, Private
      <4> QED
        BY <1>4, <1>7, <3>2, <4>1 DEF QueueArg, Pushing
    <3> QED
      BY <3>1, <3>2
  <2> QED
    BY <2>1 DEF QueueArg
<1>11. QueueAnswer' = QueueAnswer
  <2>1. ASSUME NEW u \in Thread
        PROVE  QueueAnswer'[u] = QueueAnswer[u]
    <3>1. CASE u = t
      BY <1>1, <1>2, <1>4, <3>1 DEF QueueAnswer, QueueTypes
    <3>2. CASE u # t
      <4>1. pc[u] = "popTake" => curNext[u] \in Node /\ curNext[u] # curNext[t]
        BY <1>1, <3>2 DEF QueueInv, Read
      <4>2. answer'[u] = answer[u]
        BY <1>1, <1>2, <3>2 DEF QueueTypes
      <4> QED
        BY <1>4, <1>7, <3>2, <4>1, <4>2 DEF QueueAnswer
    <3> QED
      BY <3>1, <3>2
  <2> QED
    BY <2>1 DEF QueueAnswer
<1> QED
  BY <1>6, <1>8, <1>9, <1>10, <1>11 DEF QueueStutters
\* The push that finds the last node without next appends its own.
LEMMA QueuePushLink ==
  ASSUME QueueInv, NEW t \in Thread, PushLink(t), next[cur[t]] = NULL
  PROVE  QueueInv' /\ Queue!PushTakesEffect(t)
<1> DEFINE n == Len(Chain)
<1>1. /\ UNCHANGED <<head, tail, value, new, cur, curNext, answer>>
      /\ pc[t] = "pushLink" /\ pc' = [pc EXCEPT ![t] = "pushSwing"]
      /\ next' = [next EXCEPT ![cur[t]] = new[t]]
  BY DEF PushLink, Goto
<1>2. /\ QueueTypes /\ Read(t) /\ Private(t) /\ Pushing(t)
      /\ cur[t] \in Node /\ new[t] \in Node
  BY <1>1 DEF QueueInv, Read, Private, Pushing
<1>3. /\ Chain \in Seq(Node) /\ n \in Nat /\ n > 0
      /\ \A i \in 1..n : Chain[i] \in Node /\ InChain(Chain[i])
      /\ IsList(next, head, Chain)
  BY Dummy DEF QueueInv
<1>4. tail = cur[t] /\ cur[t] = Chain[n] /\ InChain(cur[t])
  <2>1. tail = cur[t]
    BY <1>1, <1>2 DEF Read
  <2>2. n \in 1..n
    BY <1>3
  <2> QED
    BY <1>3, <2>1, <2>2, TailLinks
<1>5. /\ next'[cur[t]] = new[t]
      /\ \A m \in Node : m # cur[t] => next'[m] = next[m]
  BY <1>1, <1>2 DEF QueueTypes
<1>6. new[t] # cur[t] /\ next'[new[t]] = NULL /\ ~ InChain(new[t])
  BY <1>2, <1>4, <1>5 DEF Private
<1>7. \A i \in 1..(n - 1) : next'[Chain[i]] = next[Chain[i]]
  <2>1. ASSUME NEW i \in 1..(n - 1)
        PROVE  next'[Chain[i]] = next[Chain[i]]
    <3>1. i \in 1..n /\ n \in 1..n /\ i # n
      BY <1>3
    <3>2. Chain[i] # Chain[n]
      BY <1>3, <3>1 DEF IsList
    <3> QED
      BY <1>3, <1>4, <1>5, <3>1, <3>2
  <2> QED
    BY <2>1
<1>8. IsList(next', head, Append(Chain, new[t]))
  <2>1. \A i \in 1..n : Chain[i] # new[t]
    BY <1>6 DEF InChain
  <2> QED
    <3>1. next'[Chain[Len(Chain)]] = new[t] /\ Len(Chain) # 0
      BY <1>3, <1>4, <1>5
    <3>2. \A i \in 1..(Len(Chain) - 1) : next'[Chain[i]] = next[Chain[i]]
      BY <1>7
    <3> HIDE DEF n
    <3> QED
      BY <1>2, <1>3, <1>6, <2>1, <3>1, <3>2, ListAppended DEF n
<1>9. IsList(next', head', Chain') /\ Chain' = Append(Chain, new[t])
  BY <1>1, <1>8, ChainIs
<1> HIDE DEF n
<1>10. /\ Len(Chain') = n + 1 /\ Chain'[n + 1] = new[t]
       /\ \A i \in 1..n : Chain'[i] = Chain[i]
  BY <1>2, <1>3, <1>9 DEF n
<1>11. \A m : InChain(m)' <=> InChain(m) \/ m = new[t]
  <2>1. \A i \in 1..(n + 1) : i \in 1..n \/ i = n + 1
    BY <1>3
  <2>2. \A i \in 1..n : i \in 1..(n + 1)
    BY <1>3
  <2>3. n + 1 \in 1..(n + 1)
    BY <1>3
  <2> QED
    BY <1>10, <2>1, <2>2, <2>3 DEF InChain, n
<1>12. QueueTypes'
  BY <1>1, <1>2 DEF QueueTypes
<1>13. TailNear'
  <2>1. Len(Chain') > 1 /\ Len(Chain') - 1 = n /\ n \in 1..n
    BY <1>3, <1>10
  <2> QED
    BY <1>1, <1>4, <1>10, <2>1 DEF TailNear
<1>14. pc'[t] = "pushSwing" /\ \A u \in Thread : u # t => pc'[u] = pc[u]
  BY <1>1, <1>2 DEF QueueTypes
<1>15. ASSUME NEW u \in Thread
       PROVE  Private(u)'
  <2>1. SUFFICES ASSUME Pushing(u)'
                 PROVE  Private(u)'
    BY DEF Private
  <2>2. u # t /\ Pushing(u)
    BY <1>14, <2>1 DEF Pushing
  <2>3. /\ new[u] \in Node /\ next[new[u]] = NULL /\ ~ InChain(new[u]) /\ tail # new[u]
        /\ \A w \in Thread :
             /\ w # u => new[w] # new[u]
             /\ cur[w] # new[u] /\ curNext[w] # new[u]
             /\ cur[w] # NULL => next[cur[w]] # new[u]
    BY <2>2 DEF QueueInv, Private
  <2>4. next'[new[u]] = NULL /\ ~ InChain(new[u])'
    BY <1>1, <1>5, <1>11, <2>2, <2>3
  <2>5. \A w \in Thread : cur[w] # NULL => next'[cur[w]] # new[u]
    <3>1. \A w \in Thread : cur[w] # NULL => cur[w] \in Node
      BY <1>2 DEF QueueTypes
    <3> QED
      BY <1>5, <2>2, <2>3, <3>1
  <2> QED
    BY <1>1, <2>3, <2>4, <2>5 DEF Private
<1>16. ASSUME NEW u \in Thread
       PROVE  Read(u)'
  <2>1. CASE u = t
    BY <1>1, <1>2, <1>5, <1>14, <2>1 DEF Read
  <2>2. CASE u # t
    <3>1. Read(u) /\ pc'[u] = pc[u]
      BY <1>14, <2>2 DEF QueueInv
    <3>2. cur[u] \in Node /\ next[cur[u]] # NULL => next'[cur[u]] = next[cur[u]]
      BY <1>5
    <3>3. cur[u] \in Node /\ next'[cur[u]] = NULL => next[cur[u]] = NULL
      BY <1>2, <1>5, NodeAssumption
    <3>4. \A w \in Thread : pc'[w] = "popTake" => pc[w] = "popTake"
      BY <1>14
    <3>5. curNext[u] # new[t]
      BY <1>2 DEF Private
    <3>6. NULL \notin Node
      BY NodeAssumption
    <3> QED
      BY <1>1, <1>11, <3>1, <3>2, <3>3, <3>4, <3>5, <3>6 DEF Read
  <2> QED
    BY <2>1, <2>2
<1>17. QueueInv'
  BY <1>9, <1>12, <1>13, <1>15, <1>16 DEF QueueInv
<1>18. Contents' = Append(Contents, value[new[t]])
  <2> DEFINE d == Chain'  e == ValuesBehind(Chain)  x == value[new[t]]  f == Append(e, x)
  <2>1. ValuesBehind(Chain)' = [i \in 1..n |-> value[d[i + 1]]]
    <3>1. ValuesBehind(Chain)' = [i \in 1..(Len(d) - 1) |-> value'[d[i + 1]]]
      BY DEF ValuesBehind
    <3>2. Len(d) - 1 = n
      BY <1>3, <1>10
    <3> QED
      BY <1>1, <3>1, <3>2
  <2>2. /\ e \in Seq(Value \cup {None}) /\ Len(e) = n - 1 /\ x \in Value \cup {None}
        /\ \A i \in 1..(n - 1) : e[i] = value[Chain[i + 1]]
    <3>1. \A i \in 1..(n - 1) : value[Chain[i + 1]] \in Value \cup {None}
      BY <1>2, <1>3 DEF QueueTypes
    <3> QED
      BY <1>2, <1>3, <3>1 DEF ValuesBehind, QueueTypes, n
  <2> HIDE DEF e, x
  <2>3. /\ f = [i \in 1..n |-> f[i]] /\ f[n] = x
        /\ \A i \in 1..(n - 1) : f[i] = e[i]
    <3>1. /\ f \in Seq(Value \cup {None}) /\ Len(f) = n /\ f[n] = x
          /\ \A i \in 1..(n - 1) : f[i] = e[i]
      BY <1>3, <2>2
    <3> HIDE DEF f
    <3> QED
      BY <3>1
  <2> HIDE DEF f
  <2>4. ASSUME NEW i \in 1..n
        PROVE  value[d[i + 1]] = f[i]
    <3>1. CASE i = n
      BY <1>10, <2>3, <3>1 DEF x
    <3>2. CASE i # n
      <4>1. i \in 1..(n - 1) /\ i + 1 \in 1..n
        BY <1>3, <3>2
      <4> QED
        BY <1>10, <2>2, <2>3, <4>1
    <3> QED
      BY <3>1, <3>2
  <2>5. ValuesBehind(Chain)' = f
    BY <2>1, <2>3, <2>4
  <2> QED
    BY <2>5, QueueContents DEF e, f, x
<1>19. QueueOp[t] = "push" /\ QueueOp' = [QueueOp EXCEPT ![t] = "none"]
  BY <1>1, <1>2 DEF QueueOp, QueueTypes, Pushing, Popping
<1>20. QueueArg[t] = value[new[t]] /\ QueueArg' = [QueueArg EXCEPT ![t] = None]
  BY <1>1, <1>2 DEF QueueArg, QueueTypes, Pushing
<1>21. QueueAnswer' = QueueAnswer
  BY <1>1, <1>2 DEF QueueAnswer, QueueTypes
<1> QED
  BY <1>17, <1>18, <1>19, <1>20, <1>21
  DEF Queue!PushTakesEffect, QueueOp, QueueArg, QueueAnswer,
      Pushing, Popping, Pushing, Popping
\* The pop that exchanges head_ gets the value of the node that it makes the
\* dummy.
LEMMA QueuePopExchange ==
  ASSUME QueueInv, NEW t \in Thread, PopExchange(t), head = cur[t]
  PROVE  QueueInv' /\ Queue!PopTakesEffect(t)
<1>1. /\ UNCHANGED <<tail, next, value, new, cur, curNext, answer>>
      /\ pc[t] = "popExchange" /\ pc' = [pc EXCEPT ![t] = "popTake"]
      /\ head' = curNext[t]
  BY DEF PopExchange, Goto
<1>2. /\ QueueTypes /\ Read(t) /\ IsList(next, head, Chain)
      /\ curNext[t] \in Node /\ next[head] = curNext[t]
  BY <1>1 DEF QueueInv, Read
<1>3. /\ Chain \in Seq(Node) /\ Len(Chain) \in Nat /\ Len(Chain) > 0 /\ head = Chain[1]
      /\ Len(Chain) # 1 /\ next[head] = Chain[2]
      /\ \A i \in 1..Len(Chain) : Chain[i] \in Node /\ InChain(Chain[i])
  BY <1>2, Dummy, NodeAssumption
<1>4. /\ IsList(next, next[head], Tail(Chain))
      /\ Len(Tail(Chain)) = Len(Chain) - 1
      /\ \A i \in 1..(Len(Chain) - 1) : Tail(Chain)[i] = Chain[i + 1]
  BY <1>2, <1>3, ListPopped
<1>5. IsList(next', head', Chain') /\ Chain' = Tail(Chain)
  BY <1>1, <1>2, <1>4, ChainIs
<1>6. /\ Len(Chain') = Len(Chain) - 1
      /\ \A i \in 1..(Len(Chain) - 1) : Chain'[i] = Chain[i + 1]
  BY <1>4, <1>5
<1>7. ASSUME NEW m, InChain(m)'
      PROVE  InChain(m) /\ m # head
  <2>1. PICK i \in 1..(Len(Chain) - 1) : Chain[i + 1] = m
    BY <1>6, <1>7 DEF InChain
  <2>2. i + 1 \in 1..Len(Chain) /\ 1 \in 1..Len(Chain) /\ i + 1 # 1
    BY <1>3
  <2> QED
    BY <1>2, <1>3, <2>1, <2>2 DEF IsList
<1>8. QueueTypes'
  BY <1>1, <1>2 DEF QueueTypes
<1>9. TailNear'
  <2> DEFINE n == Len(Chain)
  <2>1. /\ n \in Nat /\ n > 0 /\ n # 1 /\ Len(Chain') = n - 1
        /\ \A i \in 1..(n - 1) : Chain'[i] = Chain[i + 1]
    BY <1>3, <1>6
  <2>2. head = Chain[1] /\ head' = next[head]
    BY <1>1, <1>2, <1>3
  <2>3. \/ tail = Chain[n]
        \/ n > 1 /\ tail = Chain[n - 1]
    BY <1>3 DEF QueueInv, TailNear
  <2> HIDE DEF n
  <2>4. n > 1 /\ (n > 2 \/ n = 2)
    BY <2>1
  <2>5. CASE tail = Chain[n]
    <3>1. n - 1 \in 1..(n - 1) /\ (n - 1) + 1 = n
      BY <2>1, <2>4
    <3> QED
      BY <1>1, <2>1, <2>5, <3>1 DEF TailNear
  <2>6. CASE n > 2 /\ tail = Chain[n - 1]
    <3>1. n - 2 \in 1..(n - 1) /\ (n - 2) + 1 = n - 1 /\ (n - 1) - 1 = n - 2 /\ n - 1 > 1
      BY <2>1, <2>6
    <3> QED
      BY <1>1, <2>1, <2>6, <3>1 DEF TailNear
  <2>7. CASE n = 2 /\ tail = Chain[n - 1]
    <3>1. n - 1 = 1
      BY <2>7
    <3>2. tail = head /\ Len(Chain') = 1
      BY <2>1, <2>2, <2>7, <3>1
    <3> QED
      BY <1>1, <2>2, <3>2 DEF TailNear
  <2> QED
    BY <2>3, <2>4, <2>5, <2>6, <2>7
<1>10. pc'[t] = "popTake" /\ \A u \in Thread : u # t => pc'[u] = pc[u]
  BY <1>1, <1>2 DEF QueueTypes
<1>11. ASSUME NEW u \in Thread
       PROVE  Private(u)'
  <2>1. Pushing(u)' => Pushing(u)
    BY <1>10 DEF Pushing
  <2> QED
    BY <1>1, <1>7, <2>1 DEF QueueInv, Private
<1>12. curNext[t] = Chain[2] /\ InChain(curNext[t]) /\ curNext[t] # head
  <2>1. \A k \in Nat : k > 0 /\ k # 1 => 2 \in 1..k /\ 1 \in 1..k
    OBVIOUS
  <2>2. 2 \in 1..Len(Chain) /\ 1 \in 1..Len(Chain)
    BY <1>3, <2>1
  <2> QED
    BY <1>2, <1>3, <2>2 DEF IsList
<1>13. \A u \in Thread : pc[u] = "popTake" => ~ InChain(curNext[u])' /\ curNext[u] # curNext[t]
  <2>1. ASSUME NEW u \in Thread, pc[u] = "popTake"
        PROVE  ~ InChain(curNext[u])' /\ curNext[u] # curNext[t]
    <3>1. InChain(curNext[u]) => curNext[u] = head
      BY <2>1 DEF QueueInv, Read
    <3>2. curNext'[u] = curNext[u]
      BY <1>1
    <3> QED
      BY <1>7, <1>12, <3>1, <3>2
  <2> QED
    BY <2>1
<1>14. ASSUME NEW u \in Thread
       PROVE  Read(u)'
  <2>1. CASE u = t
    BY <1>1, <1>2, <1>10, <1>13, <2>1 DEF Read
  <2>2. CASE u # t
    <3>1. Read(u) /\ pc'[u] = pc[u]
      BY <1>10, <2>2 DEF QueueInv
    <3>2. ~ (pc[u] = "popPeek" /\ next[cur[u]] = NULL)
      BY <1>2, <3>1, NodeAssumption DEF Read
    <3>3. pc[u] = "popTake" =>
            /\ ~ InChain(curNext[u])'
            /\ \A w \in Thread : pc'[w] = "popTake" /\ curNext[w] = curNext[u] => w = u
      BY <1>10, <1>13, <3>1 DEF Read
    <3> QED
      BY <1>1, <3>1, <3>2, <3>3 DEF Read
  <2> QED
    BY <2>1, <2>2
<1>15. QueueInv'
  BY <1>5, <1>8, <1>9, <1>11, <1>14 DEF QueueInv
<1>16. /\ Contents # <<>> /\ Contents' = Tail(Contents)
       /\ Head(Contents) = value[curNext[t]]
  <2> DEFINE n == Len(Chain)  d == Chain'  e == ValuesBehind(Chain)  f == Tail(e)
  <2>1. ValuesBehind(Chain)' = [i \in 1..(n - 2) |-> value[d[i + 1]]]
    <3>1. ValuesBehind(Chain)' = [i \in 1..(Len(d) - 1) |-> value'[d[i + 1]]]
      BY DEF ValuesBehind
    <3>2. Len(d) - 1 = n - 2
      BY <1>3, <1>6
    <3> QED
      BY <1>1, <3>1, <3>2
  <2>2. /\ e \in Seq(Value \cup {None}) /\ Len(e) = n - 1
        /\ \A i \in 1..(n - 1) : e[i] = value[Chain[i + 1]]
    <3>1. \A i \in 1..(n - 1) : value[Chain[i + 1]] \in Value \cup {None}
      BY <1>2, <1>3 DEF QueueTypes
    <3> QED
      BY <1>3, <3>1 DEF ValuesBehind
  <2> HIDE DEF e
  <2>3. e # <<>> /\ Head(e) = e[1] /\ e[1] = value[Chain[2]]
    <3>1. Len(e) > 0 /\ 1 \in 1..(n - 1) /\ 1 + 1 = 2
      BY <1>3, <2>2
    <3> QED
      BY <2>2, <3>1
  <2>4. /\ f = [i \in 1..(n - 2) |-> f[i]]
        /\ \A i \in 1..(n - 2) : f[i] = e[i + 1]
    <3>1. Len(e) - 1 = n - 2
      BY <1>3, <2>2
    <3> QED
      BY <2>2, <2>3, <3>1, TailOf
  <2> HIDE DEF f
  <2>5. ASSUME NEW i \in 1..(n - 2)
        PROVE  value[d[i + 1]] = f[i]
    <3>1. i + 1 \in 1..(n - 1)
      BY <1>3
    <3> QED
      BY <1>6, <2>2, <2>4, <3>1
  <2>6. ValuesBehind(Chain)' = f
    BY <2>1, <2>4, <2>5
  <2> QED
    BY <1>12, <2>3, <2>6, QueueContents DEF e, f
<1>17. QueueOp[t] = "pop" /\ QueueOp' = [QueueOp EXCEPT ![t] = "none"]
  BY <1>1, <1>2 DEF QueueOp, QueueTypes, Pushing, Popping
<1>18. QueueArg' = QueueArg
  BY <1>1, <1>2 DEF QueueArg, QueueTypes, Pushing
<1>19. QueueAnswer' = [QueueAnswer EXCEPT ![t] = value[curNext[t]]]
  BY <1>1, <1>2 DEF QueueAnswer, QueueTypes
<1> QED
  BY <1>15, <1>16, <1>17, <1>18, <1>19
  DEF Queue!PopTakesEffect, QueueOp, QueueArg, QueueAnswer,
      Pushing, Popping, Pushing, Popping

\* Every step keeps the invariant and is a step of the abstract queue or none.
LEMMA QueueStep ==
  ASSUME QueueInv, [Next]_(vars)
  PROVE  QueueInv' /\ [Queue!ContainerNext]_(Queue!containerVars)
<1>1. ASSUME QueueStutters
      PROVE  UNCHANGED Queue!containerVars
  BY <1>1 DEF QueueStutters, Queue!containerVars, QueueOp, QueueArg, QueueAnswer,
              Pushing, Popping, Pushing, Popping
<1>2. CASE UNCHANGED vars
  <2>1. UNCHANGED <<head, tail, next, value, pc, new, cur, curNext, answer>>
    BY <1>2 DEF vars
  <2>2. /\ IsList(next', head', Chain') /\ Chain' = Chain
        /\ \A m : InChain(m)' <=> InChain(m)
    BY <2>1, ChainQuiet
  <2>3. QueueInv'
    BY <2>1, <2>2 DEF QueueInv, QueueTypes, TailNear, Private, Read, Pushing
  <2>4. Contents' = Contents
    BY <2>1, <2>2, QueueContents DEF ValuesBehind
  <2>5. QueueStutters
    BY <2>1, <2>4 DEF QueueStutters, QueueOp, QueueArg, QueueAnswer, Pushing, Popping
  <2> QED
    BY <1>1, <2>3, <2>5
<1>3. ASSUME NEW t \in Thread, NEW v \in Value, Push(t, v)
      PROVE  QueueInv' /\ Queue!ContainerNext
  BY <1>3, QueuePush DEF Queue!ContainerNext
<1>4. ASSUME NEW t \in Thread, Pop(t)
      PROVE  QueueInv' /\ Queue!ContainerNext
  BY <1>4, QueuePop DEF Queue!ContainerNext
<1>5. ASSUME NEW t \in Thread, Running(t)
      PROVE  QueueInv' /\ (QueueStutters \/ Queue!ContainerNext)
  <2>1. CASE PushLink(t) /\ next[cur[t]] = NULL
    BY <2>1, QueuePushLink DEF Queue!ContainerNext
  <2>2. CASE PopPeek(t) /\ next[cur[t]] = NULL
    BY <2>2, QueuePopEmpty DEF Queue!ContainerNext
  <2>3. CASE PopExchange(t) /\ head = cur[t]
    BY <2>3, QueuePopExchange DEF Queue!ContainerNext
  <2>4. CASE PushHelp(t) \/ PushSwing(t)
    BY <2>4, QueueTailMoves
  <2>5. CASE PopTake(t)
    BY <2>5, QueuePopTake
  <2> QED
    BY <1>5, <2>1, <2>2, <2>3, <2>4, <2>5, QueueReads DEF Running
<1> QED
  BY <1>1, <1>2, <1>3, <1>4, <1>5 DEF Next

\* push and pop of LockFreeQueue are those of a FIFO queue, each of which takes
\* effect at one moment of its call, for every number of threads and nodes.
THEOREM QueueCorrect == Spec => ImplementsQueue
<1>1. ASSUME Init
      PROVE  QueueInv /\ Queue!ContainerInit
  BY <1>1, QueueInit DEF Init, Queue!ContainerInit, Pushing, Popping
<1> QED
  BY <1>1, QueueStep, PTL DEF Spec, ImplementsQueue, Queue!ContainerSpec

\* tail_ is never more than one node behind, whatever pushes have stopped.
THEOREM TailCorrect == Spec => []TailIsNearTheEnd
<1>1. ASSUME Init
      PROVE  QueueInv
  BY <1>1, QueueInit
<1>2. ASSUME QueueInv, [Next]_(vars)
      PROVE  QueueInv'
  BY <1>2, QueueStep
<1>3. ASSUME QueueInv
      PROVE  TailIsNearTheEnd
  BY <1>3, TailLinks, Dummy DEF TailIsNearTheEnd
<1> QED
  BY <1>1, <1>2, <1>3, PTL DEF Spec
=============================================================================
