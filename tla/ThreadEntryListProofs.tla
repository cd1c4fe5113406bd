----------------------- MODULE ThreadEntryListProofs -----------------------
(***************************************************************************)
(* The pointer-level list keeps its types and the exclusiveness of its     *)
(* entries, for every number of threads and entries.                       *)
(***************************************************************************)
EXTENDS ThreadEntryList, Sequences, Counting

Owned(t, e) == e # NULL /\ (entry[t] = e \/ borrowed[t] = e)

Exclusive ==
  /\ \A t, u \in Thread : \A e \in Entry : Owned(t, e) /\ Owned(u, e) => t = u
  /\ \A t \in Thread : entry[t] = borrowed[t] => entry[t] = NULL

\* The owner of an entry has set its flag, and every pointer that a cursor can
\* follow leads to an entry that has been allocated: so what allocItem()
\* returns is nobody's, and what tryAcquire() captures has had no owner.
ListInv ==
  /\ TypeOK
  /\ Exclusive
  /\ \A t \in Thread : \A e \in Entry :
       Owned(t, e) => e \in allocated /\ acquired[e]
  /\ head \in allocated \cup {NULL}
  /\ \A e \in Entry : next[e] \in allocated \cup {NULL}
  /\ \A t \in Thread : cur[t] \in allocated \cup {NULL}

LEMMA ListInitInv ==
  ASSUME Init
  PROVE  ListInv
BY DEF Init, ListInv, TypeOK, Exclusive, Owned

LEMMA ListStep ==
  ASSUME ListInv, [Next]_vars
  PROVE  ListInv'
<1>1. NULL \notin Entry
  BY NullIsNoEntry
<1> USE <1>1 DEF ListInv, TypeOK, Exclusive, Owned
<1>2. CASE UNCHANGED vars
  BY <1>2 DEF vars
<1>3. ASSUME NEW t \in Thread, BeginAcquire(t)
      PROVE  ListInv'
  BY <1>3 DEF BeginAcquire
<1>4. ASSUME NEW t \in Thread, FindFree(t)
      PROVE  ListInv'
  <2>1. cur[t] \in Entry /\ cur[t] \in allocated /\ next[cur[t]] \in allocated \cup {NULL}
    BY <1>4 DEF FindFree
  <2>2. CASE UNCHANGED <<acquired, entry, stage>>
    BY <1>4, <2>1, <2>2 DEF FindFree
  <2>3. CASE ~ acquired[cur[t]]
    <3>1. \A u \in Thread : ~ Owned(u, cur[t])
      BY <2>1, <2>3
    <3>2. /\ acquired' = [acquired EXCEPT ![cur[t]] = TRUE]
          /\ entry' = [entry EXCEPT ![t] = cur[t]]
          /\ stage' = [stage EXCEPT ![t] = "held"]
          /\ cur' = [cur EXCEPT ![t] = NULL]
          /\ UNCHANGED <<head, next, allocated, borrowed>>
      BY <1>4, <2>3 DEF FindFree
    <3>3. TypeOK'
      BY <2>1, <3>2
    <3>4. Exclusive'
      BY <2>1, <3>1, <3>2
    <3> QED
      BY <2>1, <3>2, <3>3, <3>4
  <2> QED
    BY <1>4, <2>2, <2>3 DEF FindFree
<1>5. ASSUME NEW t \in Thread, AllocItem(t)
      PROVE  ListInv'
  <2>1. PICK e \in Entry :
          /\ e \notin allocated
          /\ allocated' = allocated \cup {e}
          /\ acquired' = [acquired EXCEPT ![e] = TRUE]
          /\ entry' = [entry EXCEPT ![t] = e]
    BY <1>5 DEF AllocItem
  <2> QED
    BY <1>5, <2>1 DEF AllocItem
<1>6. ASSUME NEW t \in Thread, PushLink(t)
      PROVE  ListInv'
  BY <1>6 DEF PushLink
<1>7. ASSUME NEW t \in Thread, PushExchange(t)
      PROVE  ListInv'
  BY <1>7 DEF PushExchange
<1>8. ASSUME NEW t \in Thread, HelpBegin(t)
      PROVE  ListInv'
  BY <1>8 DEF HelpBegin
<1>9. ASSUME NEW t \in Thread, HelpNext(t)
      PROVE  ListInv'
  <2>1. cur[t] \in Entry /\ cur[t] \in allocated /\ next[cur[t]] \in allocated \cup {NULL}
    BY <1>9 DEF HelpNext
  <2>2. CASE UNCHANGED <<acquired, borrowed>>
    BY <1>9, <2>1, <2>2 DEF HelpNext
  <2>3. CASE ~ acquired[cur[t]]
    <3>1. \A u \in Thread : ~ Owned(u, cur[t])
      BY <2>1, <2>3
    <3>2. entry[t] # cur[t]
      BY <2>1, <3>1
    <3>3. /\ acquired' = [acquired EXCEPT ![cur[t]] = TRUE]
          /\ borrowed' = [borrowed EXCEPT ![t] = cur[t]]
          /\ UNCHANGED <<head, next, allocated, entry, stage, cur>>
      BY <1>9, <2>3 DEF HelpNext
    <3>4. TypeOK'
      BY <2>1, <3>3
    <3>5. Exclusive'
      BY <2>1, <3>1, <3>2, <3>3
    <3> QED
      BY <2>1, <3>3, <3>4, <3>5
  <2> QED
    BY <1>9, <2>2, <2>3 DEF HelpNext
<1>10. ASSUME NEW t \in Thread, GiveBack(t)
       PROVE  ListInv'
  BY <1>10 DEF GiveBack
<1>11. ASSUME NEW t \in Thread, ReleaseEntry(t)
       PROVE  ListInv'
  BY <1>11 DEF ReleaseEntry
<1> QED
  BY <1>2, <1>3, <1>4, <1>5, <1>6, <1>7, <1>8, <1>9, <1>10, <1>11
  DEF Next, Acquiring, Helping

\* Every variable of the list keeps its type, and a thread has an entry from
\* its capture or allocation on until the end of ~EntryHolder().
THEOREM ListTypeCorrect == Spec => []TypeOK
<1>1. ListInv => TypeOK
  BY DEF ListInv
<1> QED
  BY ListInitInv, ListStep, <1>1, PTL DEF Spec

\* No entry of the list has two owners, whatever the order in which threads
\* search, allocate, link, exchange, release and help.
THEOREM ListExclusive == Spec => []ExclusiveEntry
<1>1. ListInv => ExclusiveEntry
  BY DEF ListInv, Exclusive, Owned, ExclusiveEntry, Registry!ExclusiveEntry, Registry!Owns
<1> QED
  BY ListInitInv, ListStep, <1>1, PTL DEF Spec

-----------------------------------------------------------------------------
(* The list as a sequence.                                                 *)

\* c lists, oldest first, the entries that are reached from first, each once.
IsList(first, links, c) ==
  /\ c \in Seq(Entry)
  /\ \A i, j \in 1..Len(c) : c[i] = c[j] => i = j
  /\ first = IF Len(c) = 0 THEN NULL ELSE c[Len(c)]
  /\ \A i \in 1..Len(c) : links[c[i]] = IF i = 1 THEN NULL ELSE c[i - 1]

\* There are no more entries in the list than in the heap.
LEMMA ListIsShort ==
  ASSUME NEW first, NEW links, NEW c, IsList(first, links, c)
  PROVE  /\ Len(c) \in Nat /\ Cardinality(Entry) \in Nat
         /\ Len(c) <= Cardinality(Entry)
<1>1. c \in Seq(Entry) /\ Len(c) \in Nat
  BY DEF IsList
<1>2. c \in Injection(1..Len(c), Entry)
  <2>1. c \in [1..Len(c) -> Entry]
    BY <1>1
  <2> QED
    BY <2>1 DEF IsList, Injection, IsInjective
<1>3. Cardinality(1..Len(c)) = Len(c)
  BY <1>1, IntervalSize
<1>4. IsFiniteSet(Entry) /\ Cardinality(Entry) \in Nat
  BY FiniteAssumption, FS_CardinalityType
<1>5. Cardinality(1..Len(c)) <= Cardinality(Entry)
  BY <1>2, <1>4, FS_Injection
<1> QED
  BY <1>1, <1>3, <1>4, <1>5

\* Whatever lists the entries from first on, each once, is ListFrom(first).
LEMMA ListIsUnique ==
  ASSUME NEW first, NEW links, NEW c, IsList(first, links, c)
  PROVE  ListFrom(first, links) = c
<1> DEFINE N == Cardinality(Entry) + 1
           Follow(e) == IF e = NULL THEN NULL ELSE links[e]
           nth[n \in 1..N] == IF n = 1 THEN first ELSE Follow(nth[n - 1])
           len == Cardinality({n \in DOMAIN nth : nth[n] # NULL})
           g == [n \in 1..N |-> IF n <= Len(c) THEN c[Len(c) + 1 - n] ELSE NULL]
<1>1. ListFrom(first, links) = [i \in 1..len |-> nth[len + 1 - i]]
  BY Zenon DEF ListFrom
<1>2. /\ Len(c) \in Nat /\ N \in Nat /\ Len(c) < N
      /\ c \in Seq(Entry) /\ NULL \notin Entry
  BY ListIsShort, NullIsNoEntry DEF IsList
<1>3. IsWalk(N, first, links, NULL, g)
  <2>1. ASSUME NEW n \in 1..N, n = 1
        PROVE  g[n] = first
    BY <1>2, <2>1 DEF IsList
  <2>2. ASSUME NEW n \in 1..N, n # 1
        PROVE  g[n] = IF g[n - 1] = NULL THEN NULL ELSE links[g[n - 1]]
    <3>1. CASE n <= Len(c)
      <4>1. /\ g[n - 1] = c[Len(c) + 2 - n] /\ g[n] = c[Len(c) + 1 - n]
            /\ Len(c) + 2 - n \in 1..Len(c) /\ Len(c) + 2 - n # 1
        BY <1>2, <2>2, <3>1
      <4>2. links[c[Len(c) + 2 - n]] = c[Len(c) + 1 - n]
        BY <1>2, <4>1 DEF IsList
      <4> QED
        BY <1>2, <4>1, <4>2
    <3>2. CASE n = Len(c) + 1
      <4>1. g[n - 1] = c[1] /\ g[n] = NULL /\ 1 \in 1..Len(c)
        BY <1>2, <2>2, <3>2
      <4>2. links[c[1]] = NULL
        BY <4>1 DEF IsList
      <4> QED
        BY <1>2, <4>1, <4>2
    <3>3. CASE n > Len(c) + 1
      BY <1>2, <3>3
    <3> QED
      BY <1>2, <3>1, <3>2, <3>3
  <2>3. g = [n \in 1..N |-> g[n]]
    OBVIOUS
  <2> HIDE DEF g, N
  <2> QED
    BY <2>1, <2>2, <2>3 DEF IsWalk
<1>4. nth = g
  <2>1. nth = CHOOSE f : IsWalk(N, first, links, NULL, f)
    BY DEF IsWalk
  <2> HIDE DEF nth, g, N
  <2>2. IsWalk(N, first, links, NULL, nth)
    BY <1>3, <2>1, Zenon
  <2> QED
    BY <1>2, <1>3, <2>2, SameWalk
<1>5. len = Len(c)
  <2> HIDE DEF nth
  <2>1. {n \in DOMAIN nth : nth[n] # NULL} = 1..Len(c)
    BY <1>2, <1>4
  <2> QED
    BY <1>2, <2>1, IntervalSize
<1> HIDE DEF nth, len, N
<1>6. \A i \in 1..Len(c) : nth[Len(c) + 1 - i] = c[i]
  BY <1>2, <1>4
<1> QED
  BY <1>1, <1>2, <1>5, <1>6

\* A list keeps its entries when their links stay.
LEMMA ListKept ==
  ASSUME NEW first, NEW links, NEW after, NEW c, IsList(first, links, c),
         \A i \in 1..Len(c) : after[c[i]] = links[c[i]]
  PROVE  IsList(first, after, c)
BY DEF IsList

\* A node that links the first entry makes a list with one entry more.
LEMMA ListGrows ==
  ASSUME NEW first, NEW links, NEW c, NEW e \in Entry, IsList(first, links, c),
         \A i \in 1..Len(c) : c[i] # e,
         links[e] = first
  PROVE  IsList(e, links, Append(c, e))
<1> DEFINE d == Append(c, e)
<1>1. /\ c \in Seq(Entry) /\ Len(c) \in Nat
      /\ d \in Seq(Entry) /\ Len(d) = Len(c) + 1
      /\ \A i \in 1..Len(c) : d[i] = c[i] /\ c[i] \in Entry
      /\ d[Len(c) + 1] = e
  BY DEF IsList
<1> HIDE DEF d
<1>2. \A i, j \in 1..Len(d) : d[i] = d[j] => i = j
  BY <1>1 DEF IsList
<1>3. ASSUME NEW i \in 1..Len(d)
      PROVE  links[d[i]] = IF i = 1 THEN NULL ELSE d[i - 1]
  <2>1. CASE i \in 1..Len(c)
    BY <1>1, <2>1 DEF IsList
  <2>2. CASE i = Len(c) + 1
    BY <1>1, <2>2 DEF IsList
  <2> QED
    BY <1>1, <2>1, <2>2
<1>4. IsList(e, links, d)
  BY <1>1, <1>2, <1>3 DEF IsList
<1> QED
  BY <1>4 DEF d

\* The place of an entry in a list, and of nullptr.
LEMMA IndexOf ==
  ASSUME NEW first, NEW links, NEW c, IsList(first, links, c)
  PROVE  /\ \A i \in 1..Len(c) : Index(c, c[i]) = i
         /\ Index(c, NULL) = 0
         /\ Index(c, first) = Len(c)
<1>1. /\ c \in Seq(Entry) /\ Len(c) \in Nat /\ DOMAIN c = 1..Len(c)
      /\ NULL \notin Entry
  BY NullIsNoEntry DEF IsList
<1>2. ASSUME NEW i \in 1..Len(c)
      PROVE  Index(c, c[i]) = i
  <2>1. {j \in DOMAIN c : c[j] = c[i]} = {i}
    BY <1>1 DEF IsList
  <2> QED
    BY <2>1 DEF Index
<1>3. Index(c, NULL) = 0
  <2>1. {j \in DOMAIN c : c[j] = NULL} = {}
    BY <1>1
  <2> QED
    BY <2>1 DEF Index
<1> QED
  BY <1>1, <1>2, <1>3 DEF IsList

-----------------------------------------------------------------------------
(* How the list changes.                                                   *)

\* The links from head_ list entries, each once.  Cursors and helpers are on
\* listed entries.  A thread that is about to exchange head_ has linked what
\* it has read, and one that has won keeps to that in its second round.
LinkInv ==
  /\ IsList(head, next, Chain)
  /\ Linked \subseteq allocated
  /\ \A t \in Thread :
       /\ cur[t] \in Linked \cup {NULL}
       /\ borrowed[t] \in Linked \cup {NULL}
       /\ borrowed[t] # NULL => stage[t] = "held"
       /\ stage[t] = "cas" => next[entry[t]] = cur[t]
       /\ stage[t] = "link" /\ entry[t] \in Linked => next[entry[t]] = cur[t]

\* The exchange that links the entry of t.
Links(t) ==
  /\ PushExchange(t)
  /\ head = cur[t]
  /\ entry[t] \notin Linked
  /\ Chain' = Append(Chain, entry[t])
  /\ UNCHANGED <<next, allocated, acquired, entry, borrowed, cur>>
  /\ stage' = [stage EXCEPT ![t] = "link"]

LEMMA LinkedEntries ==
  ASSUME IsList(head, next, Chain)
  PROVE  /\ Chain \in Seq(Entry) /\ Len(Chain) \in Nat
         /\ Linked \subseteq Entry
         /\ \A e \in Linked : \E i \in 1..Len(Chain) : Chain[i] = e
         /\ \A i \in 1..Len(Chain) : Chain[i] \in Linked
BY DEF IsList, Linked

LEMMA LinkInit ==
  ASSUME Init
  PROVE  LinkInv
<1>1. IsList(head, next, <<>>)
  BY DEF Init, IsList
<1>2. Chain = <<>>
  BY <1>1, ListIsUnique DEF Chain
<1>3. Linked = {}
  BY <1>2 DEF Linked
<1> QED
  BY <1>1, <1>2, <1>3 DEF Init, LinkInv

\* A thread in the second round of its push has read a head_ that it has
\* itself replaced.
LEMMA SecondRound ==
  ASSUME ListInv, LinkInv, NEW t \in Thread,
         stage[t] = "cas", entry[t] \in Linked
  PROVE  head # cur[t]
<1>1. PICK i \in 1..Len(Chain) : Chain[i] = entry[t]
  BY LinkedEntries DEF LinkInv
<1>2. /\ Chain \in Seq(Entry) /\ Len(Chain) \in Nat /\ NULL \notin Entry
      /\ head = Chain[Len(Chain)] /\ head \in Entry
  BY <1>1, LinkedEntries, NullIsNoEntry DEF LinkInv, IsList
<1>3. cur[t] = IF i = 1 THEN NULL ELSE Chain[i - 1]
  BY <1>1 DEF LinkInv, IsList
<1> QED
  BY <1>1, <1>2, <1>3 DEF LinkInv, IsList

\* The list stays, or a push links one entry more, at its end.
LEMMA ChainStep ==
  ASSUME ListInv, LinkInv, [Next]_vars
  PROVE  /\ IsList(head', next', Chain')
         /\ \A e \in Linked : next'[e] = next[e]
         /\ Chain' = Chain \/ \E t \in Thread : Links(t)
<1>1. IsList(head, next, Chain)
  BY DEF LinkInv
<1>2. ASSUME head' = head, \A e \in Linked : next'[e] = next[e]
      PROVE  IsList(head', next', Chain') /\ Chain' = Chain
  <2>1. IsList(head', next', Chain)
    BY <1>1, <1>2, LinkedEntries, ListKept
  <2> QED
    BY <2>1, ListIsUnique DEF Chain
<1>3. ASSUME UNCHANGED <<head, next>>
      PROVE  /\ IsList(head', next', Chain') /\ Chain' = Chain
             /\ \A e \in Linked : next'[e] = next[e]
  BY <1>2, <1>3
<1>4. ASSUME NEW t \in Thread, PushLink(t)
      PROVE  head' = head /\ \A e \in Linked : next'[e] = next[e]
  <2>1. /\ head' = head /\ next' = [next EXCEPT ![entry[t]] = cur[t]]
        /\ next \in [Entry -> Entry \cup {NULL}]
        /\ Linked \subseteq Entry
        /\ entry[t] \in Linked => next[entry[t]] = cur[t]
    BY <1>1, <1>4, LinkedEntries DEF PushLink, LinkInv, ListInv, TypeOK
  <2> QED
    BY <2>1
<1>5. ASSUME NEW t \in Thread, PushExchange(t), head = cur[t]
      PROVE  /\ IsList(head', next', Chain')
             /\ next' = next
             /\ Links(t)
  <2>1. /\ stage[t] = "cas" /\ head' = entry[t] /\ next' = next
        /\ UNCHANGED <<next, allocated, acquired, entry, borrowed, cur>>
        /\ stage' = [stage EXCEPT ![t] = "link"]
    BY <1>5 DEF PushExchange
  <2>2. entry[t] \in Entry /\ next[entry[t]] = head
    BY <1>5, <2>1 DEF LinkInv, ListInv, TypeOK
  <2>3. entry[t] \notin Linked
    BY <1>5, <2>1, SecondRound
  <2>4. \A i \in 1..Len(Chain) : Chain[i] # entry[t]
    BY <1>1, <2>3, LinkedEntries
  <2>5. IsList(head', next', Append(Chain, entry[t]))
    BY <1>1, <2>1, <2>2, <2>4, ListGrows
  <2>6. Chain' = Append(Chain, entry[t])
    BY <2>5, ListIsUnique DEF Chain
  <2> QED
    BY <1>5, <2>1, <2>3, <2>5, <2>6 DEF Links
<1>6. ASSUME NEW t \in Thread, PushExchange(t), head # cur[t]
      PROVE  UNCHANGED <<head, next>>
  BY <1>6 DEF PushExchange
<1>7. \/ UNCHANGED <<head, next>>
      \/ \E t \in Thread : PushLink(t) \/ PushExchange(t)
  BY DEF Next, Acquiring, Helping, BeginAcquire, FindFree, AllocItem,
         HelpBegin, HelpNext, GiveBack, ReleaseEntry, vars
<1>8. ASSUME NEW t \in Thread, PushLink(t)
      PROVE  /\ IsList(head', next', Chain') /\ Chain' = Chain
             /\ \A e \in Linked : next'[e] = next[e]
  BY <1>2, <1>4, <1>8
<1>9. ASSUME NEW t \in Thread, PushExchange(t)
      PROVE  /\ IsList(head', next', Chain')
             /\ \A e \in Linked : next'[e] = next[e]
             /\ Chain' = Chain \/ Links(t)
  <2>1. CASE head = cur[t]
    BY <1>5, <1>9, <2>1
  <2>2. CASE head # cur[t]
    BY <1>3, <1>6, <1>9, <2>2
  <2> QED
    BY <2>1, <2>2
<1> QED
  BY <1>3, <1>7, <1>8, <1>9

\* What is linked stays linked, at its place.
LEMMA LinkedStep ==
  ASSUME ListInv, LinkInv, [Next]_vars
  PROVE  /\ Chain' = Chain => Linked' = Linked
         /\ \A t \in Thread : Links(t) => Linked' = Linked \cup {entry[t]}
         /\ Linked \subseteq Linked'
         /\ \A e \in Linked \cup {NULL} : Position(e)' = Position(e)
<1>1. /\ IsList(head, next, Chain)
      /\ Chain \in Seq(Entry) /\ Len(Chain) \in Nat
  BY LinkedEntries DEF LinkInv
<1>2. IsList(head', next', Chain')
  BY ChainStep
<1>3. ASSUME Chain' = Chain
      PROVE  /\ Linked' = Linked
             /\ \A e \in Linked \cup {NULL} : Position(e)' = Position(e)
  BY <1>3 DEF Linked, Position
<1>4. ASSUME NEW t \in Thread, Links(t)
      PROVE  /\ Linked' = Linked \cup {entry[t]}
             /\ \A e \in Linked \cup {NULL} : Position(e)' = Position(e)
  <2>1. /\ Chain' = Append(Chain, entry[t]) /\ entry[t] \in Entry
        /\ Chain' \in Seq(Entry) /\ Len(Chain') = Len(Chain) + 1
        /\ \A i \in 1..Len(Chain) : Chain'[i] = Chain[i]
        /\ Chain'[Len(Chain) + 1] = entry[t]
    BY <1>1, <1>4 DEF Links, PushExchange, ListInv, TypeOK
  <2>2. Linked' = Linked \cup {entry[t]}
    BY <1>1, <2>1 DEF Linked
  <2>3. ASSUME NEW e \in Linked
        PROVE  Position(e)' = Position(e)
    <3>1. PICK i \in 1..Len(Chain) : Chain[i] = e
      BY <1>1, LinkedEntries
    <3>2. i \in 1..Len(Chain') /\ Chain'[i] = e
      BY <1>1, <2>1, <3>1
    <3>3. Index(Chain, e) = i /\ Index(Chain', e) = i
      BY <1>1, <1>2, <3>1, <3>2, IndexOf
    <3> QED
      BY <3>3 DEF Position
  <2>4. Position(NULL)' = Position(NULL)
    BY <1>1, <1>2, IndexOf DEF Position
  <2> QED
    BY <2>2, <2>3, <2>4
<1>5. Chain' = Chain \/ \E t \in Thread : Links(t)
  BY ChainStep
<1> QED
  BY <1>3, <1>4, <1>5

\* The list has the entries that head_ and the links lead to.
LEMMA NextIsLinked ==
  ASSUME ListInv, LinkInv
  PROVE  /\ head \in Linked \cup {NULL}
         /\ \A e \in Linked : next[e] \in Linked \cup {NULL}
<1>1. /\ IsList(head, next, Chain)
      /\ Chain \in Seq(Entry) /\ Len(Chain) \in Nat
      /\ \A i \in 1..Len(Chain) : Chain[i] \in Linked
  BY LinkedEntries DEF LinkInv
<1>2. head \in Linked \cup {NULL}
  BY <1>1 DEF IsList
<1>3. ASSUME NEW e \in Linked
      PROVE  next[e] \in Linked \cup {NULL}
  <2>1. PICK i \in 1..Len(Chain) : Chain[i] = e
    BY <1>1, LinkedEntries
  <2> QED
    BY <1>1, <2>1 DEF IsList
<1> QED
  BY <1>2, <1>3

\* What LinkInv says of one thread.
OnList(t) ==
  /\ cur[t] \in Linked \cup {NULL}
  /\ borrowed[t] \in Linked \cup {NULL}
  /\ borrowed[t] # NULL => stage[t] = "held"
  /\ stage[t] = "cas" => next[entry[t]] = cur[t]
  /\ stage[t] = "link" /\ entry[t] \in Linked => next[entry[t]] = cur[t]

LEMMA LinkStep ==
  ASSUME ListInv, LinkInv, [Next]_vars
  PROVE  LinkInv'
<1>1. /\ IsList(head', next', Chain')
      /\ \A e \in Linked : next'[e] = next[e]
      /\ Chain' = Chain \/ \E t \in Thread : Links(t)
      /\ Linked \subseteq Linked'
      /\ Chain' = Chain => Linked' = Linked
      /\ \A t \in Thread : Links(t) => Linked' = Linked \cup {entry[t]}
      /\ head \in Linked \cup {NULL}
      /\ \A e \in Linked : next[e] \in Linked \cup {NULL}
      /\ Linked \subseteq Entry
  BY ChainStep, LinkedStep, NextIsLinked, LinkedEntries DEF LinkInv
<1>2. /\ TypeOK /\ Exclusive /\ NULL \notin Entry
      /\ \A t \in Thread : OnList(t)
      /\ Linked \subseteq allocated
      /\ \A t \in Thread : \A e \in Entry : Owned(t, e) => e \in allocated
  BY NullIsNoEntry DEF ListInv, LinkInv, OnList
<1>3. Linked' \subseteq allocated'
  <2>1. allocated \subseteq allocated'
    BY DEF Next, Acquiring, Helping, BeginAcquire, FindFree, AllocItem,
           PushLink, PushExchange, HelpBegin, HelpNext, GiveBack, ReleaseEntry,
           vars
  <2>2. ASSUME NEW t \in Thread, Links(t)
        PROVE  entry[t] \in allocated
    BY <1>2, <2>2 DEF Links, PushExchange, TypeOK, Owned
  <2> QED
    BY <1>1, <1>2, <2>1, <2>2
<1>4. ASSUME NEW t \in Thread
      PROVE  OnList(t)'
  <2>1. OnList(t)
    BY <1>2
  <2>2. CASE UNCHANGED vars
    BY <1>1, <2>1, <2>2 DEF OnList, vars, Linked, Chain
  <2>3. ASSUME NEW u \in Thread,
               \/ BeginAcquire(u) \/ FindFree(u) \/ HelpBegin(u) \/ HelpNext(u)
               \/ GiveBack(u) \/ ReleaseEntry(u)
        PROVE  OnList(t)'
    <3>1. UNCHANGED <<head, next>> /\ Linked' = Linked
      BY <2>3
      DEF BeginAcquire, FindFree, HelpBegin, HelpNext, GiveBack, ReleaseEntry,
          Linked, Chain
    <3>2. CASE u # t
      BY <1>2, <2>1, <2>3, <3>1, <3>2
      DEF BeginAcquire, FindFree, HelpBegin, HelpNext, GiveBack, ReleaseEntry,
          OnList, TypeOK
    <3>3. CASE u = t
      BY <1>1, <1>2, <2>1, <2>3, <3>1, <3>3
      DEF BeginAcquire, FindFree, HelpBegin, HelpNext, GiveBack, ReleaseEntry,
          OnList, TypeOK
    <3> QED
      BY <3>2, <3>3
  <2>4. ASSUME NEW u \in Thread, AllocItem(u)
        PROVE  OnList(t)'
    <3>1. UNCHANGED <<head, next>> /\ Linked' = Linked
      BY <2>4 DEF AllocItem, Linked, Chain
    <3>2. PICK e \in Entry : /\ e \notin allocated
                             /\ entry' = [entry EXCEPT ![u] = e]
      BY <2>4 DEF AllocItem, TypeOK, ListInv
    <3>3. /\ cur' = [cur EXCEPT ![u] = head]
          /\ stage' = [stage EXCEPT ![u] = "link"]
          /\ stage[u] = "find" /\ UNCHANGED borrowed
      BY <2>4 DEF AllocItem
    <3> QED
      BY <1>1, <1>2, <2>1, <3>1, <3>2, <3>3 DEF OnList, TypeOK
  <2>5. ASSUME NEW u \in Thread, PushLink(u)
        PROVE  OnList(t)'
    <3>1. /\ Linked' = Linked /\ entry[u] \in Entry
          /\ UNCHANGED <<borrowed, cur, entry>>
          /\ stage[u] = "link" /\ stage' = [stage EXCEPT ![u] = "cas"]
          /\ next' = [next EXCEPT ![entry[u]] = cur[u]]
      <4>1. \A w \in Thread : ~ Links(w)
        BY <2>5, <1>2 DEF PushLink, Links, PushExchange, TypeOK
      <4> QED
        BY <1>1, <1>2, <2>5, <4>1 DEF PushLink, TypeOK
    <3>2. CASE u # t
      <4>1. stage[t] \in {"link", "cas"} => entry[t] \in Entry /\ entry[t] # entry[u]
        BY <1>2, <3>1, <3>2 DEF TypeOK, Exclusive, Owned
      <4> QED
        BY <1>2, <2>1, <3>1, <3>2, <4>1 DEF OnList, TypeOK
    <3>3. CASE u = t
      BY <1>2, <2>1, <3>1, <3>3 DEF OnList, TypeOK
    <3> QED
      BY <3>2, <3>3
  <2>6. ASSUME NEW u \in Thread, PushExchange(u)
        PROVE  OnList(t)'
    <3>1. CASE head = cur[u]
      <4>1. /\ next[entry[u]] = cur[u] /\ stage[u] = "cas"
            /\ stage' = [stage EXCEPT ![u] = "link"]
            /\ UNCHANGED <<next, borrowed, cur, entry>>
        BY <1>2, <2>6, <3>1 DEF PushExchange, OnList
      <4>2. \A w \in Thread : Links(w) => w = u
        BY <1>2, <2>6, <3>1 DEF Links, PushExchange, TypeOK
      <4>3. Linked' \subseteq Linked \cup {entry[u]}
        BY <1>1, <4>2
      <4>4. u # t => (stage[t] = "link" => entry[t] # entry[u])
        BY <1>2, <4>1 DEF TypeOK, Exclusive, Owned
      <4> QED
        BY <1>1, <1>2, <2>1, <4>1, <4>3, <4>4 DEF OnList, TypeOK
    <3>2. CASE head # cur[u]
      <4>1. /\ UNCHANGED <<head, next, borrowed, entry>> /\ Linked' = Linked
            /\ stage' = [stage EXCEPT ![u] = "held"]
            /\ cur' = [cur EXCEPT ![u] = NULL]
            /\ stage[u] = "cas"
        BY <2>6, <3>2 DEF PushExchange, Linked, Chain
      <4> QED
        BY <1>2, <2>1, <4>1 DEF OnList, TypeOK
    <3> QED
      BY <3>1, <3>2
  <2> QED
    BY <2>2, <2>3, <2>4, <2>5, <2>6 DEF Next, Acquiring, Helping
<1> QED
  BY <1>1, <1>3, <1>4 DEF LinkInv, OnList

-----------------------------------------------------------------------------
(* The list implements the sequence of EntryRegistry.                      *)

\* What the registry sees of a thread.
StageOf(t) ==
  IF Pushing(t) THEN "push"
  ELSE IF stage[t] \in {"link", "cas"} THEN "held" ELSE stage[t]

AtOf(t) ==
  IF stage[t] = "find" \/ Pushing(t) THEN Index(Chain, cur[t]) ELSE 0

LEMMA MappedThread ==
  /\ RegistryStage = [t \in Thread |-> StageOf(t)]
  /\ RegistryAt = [t \in Thread |-> AtOf(t)]
<1>1. ASSUME NEW t \in Thread
      PROVE  RegistryStage[t] = StageOf(t)
  BY DEF RegistryStage, StageOf, Pushing
<1> QED
  BY <1>1 DEF RegistryStage, RegistryAt, AtOf, Position

LEMMA MappedStep ==
  /\ RegistryStage' = [t \in Thread |-> StageOf(t)']
  /\ RegistryAt' = [t \in Thread |-> AtOf(t)']
<1>1. ASSUME NEW t \in Thread
      PROVE  RegistryStage'[t] = StageOf(t)'
  BY DEF RegistryStage, StageOf, Pushing
<1> QED
  BY <1>1 DEF RegistryStage, RegistryAt, AtOf, Position

\* A step of t changes nothing that the registry sees of other threads.
LEMMA OthersKeep ==
  ASSUME ListInv, LinkInv, [Next]_vars, NEW t \in Thread,
         \A u \in Thread :
           u # t => /\ stage'[u] = stage[u] /\ entry'[u] = entry[u]
                    /\ cur'[u] = cur[u]
  PROVE  /\ RegistryStage' = [RegistryStage EXCEPT ![t] = StageOf(t)']
         /\ RegistryAt' = [RegistryAt EXCEPT ![t] = AtOf(t)']
<1>1. ASSUME NEW u \in Thread, u # t
      PROVE  StageOf(u)' = StageOf(u) /\ AtOf(u)' = AtOf(u)
  <2>1. stage'[u] = stage[u] /\ entry'[u] = entry[u] /\ cur'[u] = cur[u]
    BY <1>1
  <2>2. \A w \in Thread : Links(w) => w = t
    BY DEF Links, ListInv, TypeOK, PushExchange
  <2>3. stage[u] \in {"link", "cas"} => (entry[u] \in Linked' <=> entry[u] \in Linked)
    <3>1. Linked' = Linked \/ (Links(t) /\ Linked' = Linked \cup {entry[t]})
      <4>1. Chain' = Chain \/ Links(t)
        BY <2>2, ChainStep
      <4> QED
        BY <4>1, LinkedStep
    <3>2. Links(t) /\ stage[u] \in {"link", "cas"} => entry[t] # entry[u]
      BY <1>1 DEF Links, PushExchange, ListInv, TypeOK, Exclusive, Owned
    <3> QED
      BY <3>1, <3>2
  <2>4. Pushing(u)' <=> Pushing(u)
    BY <2>1, <2>3 DEF Pushing
  <2>5. Index(Chain', cur[u]) = Index(Chain, cur[u])
    BY LinkedStep DEF Position, LinkInv
  <2> QED
    BY <2>1, <2>4, <2>5 DEF StageOf, AtOf
<1> QED
  BY <1>1, MappedThread, MappedStep

\* The steps between head_ and the link of a new entry, and the walk of
\* helpScan(), are not seen.
LEMMA UnseenStep ==
  ASSUME ListInv, LinkInv, [Next]_vars, NEW t \in Thread,
         \A u \in Thread :
           u # t => /\ stage'[u] = stage[u] /\ entry'[u] = entry[u]
                    /\ cur'[u] = cur[u],
         StageOf(t)' = StageOf(t), AtOf(t)' = AtOf(t)
  PROVE  UNCHANGED <<RegistryStage, RegistryAt>>
BY OthersKeep, MappedThread

LEMMA BeginAcquireMaps ==
  ASSUME ListInv, LinkInv, NEW t \in Thread, BeginAcquire(t)
  PROVE  Registry!BeginAcquire(t)
<1>1. /\ stage[t] = "none" /\ stage' = [stage EXCEPT ![t] = "find"]
      /\ cur' = [cur EXCEPT ![t] = head]
      /\ UNCHANGED <<head, next, allocated, acquired, entry, borrowed>>
  BY DEF BeginAcquire
<1>2. [Next]_vars /\ Chain' = Chain
  BY <1>1 DEF Next, Chain
<1>3. TypeOK /\ IsList(head, next, Chain)
  BY DEF ListInv, LinkInv
<1>4. StageOf(t) = "none" /\ StageOf(t)' = "find"
  BY <1>1, <1>3 DEF StageOf, Pushing, TypeOK
<1>5. AtOf(t)' = Len(Chain)
  BY <1>1, <1>2, <1>3, IndexOf DEF AtOf, TypeOK
<1>6. /\ RegistryStage' = [RegistryStage EXCEPT ![t] = "find"]
      /\ RegistryAt' = [RegistryAt EXCEPT ![t] = Len(Chain)]
  BY <1>1, <1>2, <1>3, <1>4, <1>5, OthersKeep DEF TypeOK
<1> QED
  BY <1>1, <1>2, <1>4, <1>6, MappedThread DEF Registry!BeginAcquire

\* The cursor of a search is at the place of its entry.
LEMMA CursorAt ==
  ASSUME ListInv, LinkInv, NEW t \in Thread, cur[t] # NULL
  PROVE  /\ cur[t] \in Entry
         /\ \E i \in 1..Len(Chain) :
              /\ Chain[i] = cur[t]
              /\ Index(Chain, cur[t]) = i
              /\ Index(Chain, next[cur[t]]) = i - 1
<1>1. cur[t] \in Linked /\ IsList(head, next, Chain)
  BY DEF LinkInv
<1>2. PICK i \in 1..Len(Chain) : Chain[i] = cur[t]
  BY <1>1, LinkedEntries
<1>3. /\ Chain \in Seq(Entry) /\ Len(Chain) \in Nat
      /\ next[cur[t]] = IF i = 1 THEN NULL ELSE Chain[i - 1]
  BY <1>1, <1>2 DEF IsList
<1>4. Index(Chain, cur[t]) = i /\ Index(Chain, next[cur[t]]) = i - 1
  BY <1>1, <1>2, <1>3, IndexOf
<1> QED
  BY <1>2, <1>3, <1>4

LEMMA FindFreeMaps ==
  ASSUME ListInv, LinkInv, NEW t \in Thread, FindFree(t)
  PROVE  Registry!FindFree(t)
<1>1. /\ stage[t] = "find" /\ cur[t] # NULL
      /\ UNCHANGED <<head, next, allocated, borrowed>>
  BY DEF FindFree
<1>2. [Next]_vars /\ Chain' = Chain /\ TypeOK
  BY <1>1 DEF Next, Acquiring, Chain, ListInv
<1>3. PICK i \in 1..Len(Chain) :
        /\ Chain[i] = cur[t]
        /\ Index(Chain, cur[t]) = i
        /\ Index(Chain, next[cur[t]]) = i - 1
  BY <1>1, CursorAt
<1>4. StageOf(t) = "find" /\ AtOf(t) = i /\ i # 0
  BY <1>1, <1>3 DEF StageOf, AtOf, Pushing
<1>5. RegistryStage[t] = "find" /\ RegistryAt[t] = i
  BY <1>4, MappedThread
<1>6. CASE /\ acquired[cur[t]]
           /\ cur' = [cur EXCEPT ![t] = next[cur[t]]]
           /\ UNCHANGED <<acquired, entry, stage>>
  <2>1. StageOf(t)' = StageOf(t) /\ AtOf(t)' = i - 1
    BY <1>1, <1>2, <1>3, <1>6 DEF StageOf, AtOf, Pushing, TypeOK
  <2>2. /\ RegistryStage' = [RegistryStage EXCEPT ![t] = "find"]
        /\ RegistryAt' = [RegistryAt EXCEPT ![t] = i - 1]
    BY <1>2, <1>4, <1>6, <2>1, OthersKeep DEF TypeOK
  <2>3. RegistryStage' = RegistryStage
    BY <1>5, <2>2, MappedThread
  <2> QED
    BY <1>1, <1>2, <1>3, <1>4, <1>5, <1>6, <2>2, <2>3 DEF Registry!FindFree
<1>7. CASE /\ ~ acquired[cur[t]]
           /\ acquired' = [acquired EXCEPT ![cur[t]] = TRUE]
           /\ entry' = [entry EXCEPT ![t] = cur[t]]
           /\ stage' = [stage EXCEPT ![t] = "held"]
           /\ cur' = [cur EXCEPT ![t] = NULL]
  <2>1. StageOf(t)' = "held" /\ AtOf(t)' = 0
    BY <1>2, <1>7 DEF StageOf, AtOf, Pushing, TypeOK
  <2>2. /\ RegistryStage' = [RegistryStage EXCEPT ![t] = "held"]
        /\ RegistryAt' = [RegistryAt EXCEPT ![t] = 0]
    BY <1>2, <1>7, <2>1, OthersKeep DEF TypeOK
  <2> QED
    BY <1>1, <1>2, <1>3, <1>4, <1>5, <1>7, <2>2 DEF Registry!FindFree
<1> QED
  BY <1>6, <1>7 DEF FindFree

LEMMA AllocItemMaps ==
  ASSUME ListInv, LinkInv, NEW t \in Thread, AllocItem(t)
  PROVE  Registry!AllocItem(t)
<1>1. PICK e \in Entry \ allocated :
        /\ allocated' = allocated \cup {e}
        /\ acquired' = [acquired EXCEPT ![e] = TRUE]
        /\ entry' = [entry EXCEPT ![t] = e]
  BY DEF AllocItem, ListInv, TypeOK
<1>2. /\ stage[t] = "find" /\ cur[t] = NULL
      /\ stage' = [stage EXCEPT ![t] = "link"]
      /\ cur' = [cur EXCEPT ![t] = head]
      /\ UNCHANGED <<head, next, borrowed>>
  BY DEF AllocItem
<1>3. [Next]_vars /\ Chain' = Chain /\ TypeOK /\ IsList(head, next, Chain)
  BY <1>2 DEF Next, Acquiring, Chain, ListInv, LinkInv
<1>4. StageOf(t) = "find" /\ AtOf(t) = 0
  BY <1>2, <1>3, IndexOf DEF StageOf, AtOf, Pushing
<1>5. e \notin Linked' /\ entry'[t] = e /\ stage'[t] = "link" /\ cur'[t] = head
  BY <1>1, <1>2, <1>3 DEF LinkInv, Linked, TypeOK
<1>6. StageOf(t)' = "push" /\ AtOf(t)' = Len(Chain)
  BY <1>3, <1>5, IndexOf DEF StageOf, AtOf, Pushing
<1>7. /\ RegistryStage' = [RegistryStage EXCEPT ![t] = "push"]
      /\ RegistryAt' = [RegistryAt EXCEPT ![t] = Len(Chain)]
  BY <1>1, <1>2, <1>3, <1>6, OthersKeep DEF TypeOK
<1>8. RegistryStage[t] = "find" /\ RegistryAt[t] = 0
  BY <1>4, MappedThread
<1> QED
  BY <1>1, <1>2, <1>3, <1>7, <1>8 DEF Registry!AllocItem

\* An exchange that succeeds links the entry: the list changes with head_.
LEMMA PushLinks ==
  ASSUME ListInv, LinkInv, NEW t \in Thread, PushExchange(t), Pushing(t),
         head = cur[t]
  PROVE  Links(t)
<1>1. /\ stage[t] = "cas" /\ stage' = [stage EXCEPT ![t] = "link"]
      /\ head' = entry[t]
      /\ UNCHANGED <<next, allocated, acquired, entry, borrowed, cur>>
  BY DEF PushExchange
<1>2. [Next]_vars /\ TypeOK /\ IsList(head, next, Chain)
  BY DEF Next, Acquiring, ListInv, LinkInv
<1>3. \A w \in Thread : Links(w) => w = t
  BY <1>1, <1>2 DEF Links, PushExchange, TypeOK
<1>4. entry[t] \in Entry /\ entry[t] \notin Linked
  BY <1>1, <1>2 DEF Pushing, TypeOK
<1>5. Chain' # Chain
  <2>1. Chain' = Chain => IsList(head', next', Chain)
    BY <1>2, ChainStep
  <2>2. IsList(head', next', Chain) => entry[t] \in Linked
    BY <1>1, <1>2, <1>4, NullIsNoEntry, LinkedEntries DEF IsList
  <2> QED
    BY <1>4, <2>1, <2>2
<1> QED
  BY <1>2, <1>3, <1>5, ChainStep

LEMMA PushExchangeMaps ==
  ASSUME ListInv, LinkInv, NEW t \in Thread, PushExchange(t), Pushing(t)
  PROVE  Registry!InternalPush(t)
<1>1. /\ stage[t] = "cas"
      /\ UNCHANGED <<next, allocated, acquired, entry, borrowed>>
  BY DEF PushExchange
<1>2. [Next]_vars /\ TypeOK /\ IsList(head, next, Chain)
  BY DEF Next, Acquiring, ListInv, LinkInv
<1>3. \A u \in Thread :
        u # t => /\ stage'[u] = stage[u] /\ entry'[u] = entry[u]
                 /\ cur'[u] = cur[u]
  BY <1>2 DEF PushExchange, TypeOK
<1>4. StageOf(t) = "push" /\ AtOf(t) = Index(Chain, cur[t])
  BY DEF StageOf, AtOf
<1>5. RegistryStage[t] = "push" /\ RegistryAt[t] = Index(Chain, cur[t])
  BY <1>4, MappedThread
<1>6. StageOf(t)' = "held" /\ AtOf(t)' = 0
      => /\ RegistryStage' = [RegistryStage EXCEPT ![t] = "held"]
         /\ RegistryAt' = [RegistryAt EXCEPT ![t] = 0]
  BY <1>2, <1>3, OthersKeep
<1>7. CASE head = cur[t]
  <2>1. Links(t)
    BY <1>7, PushLinks
  <2>2. Index(Chain, cur[t]) = Len(Chain)
    BY <1>2, <1>7, IndexOf
  <2>3. entry[t] \in Linked'
    BY <1>2, <2>1, LinkedStep
  <2>4. StageOf(t)' = "held" /\ AtOf(t)' = 0
    BY <1>1, <1>2, <2>1, <2>3 DEF Links, StageOf, AtOf, Pushing, TypeOK
  <2> QED
    BY <1>1, <1>5, <1>6, <2>1, <2>2, <2>4 DEF Links, Registry!InternalPush
<1>8. CASE head # cur[t]
  <2>1. /\ UNCHANGED head
        /\ stage' = [stage EXCEPT ![t] = "held"]
        /\ cur' = [cur EXCEPT ![t] = NULL]
    BY <1>8 DEF PushExchange
  <2>2. Chain' = Chain
    BY <1>1, <2>1 DEF Chain
  <2>3. Index(Chain, cur[t]) # Len(Chain)
    <3>1. CASE cur[t] = NULL
      <4>1. Index(Chain, cur[t]) = 0
        BY <1>2, <3>1, IndexOf
      <4>2. Len(Chain) # 0
        BY <1>2, <1>8, <3>1 DEF IsList
      <4> QED
        BY <4>1, <4>2
    <3>2. CASE cur[t] # NULL
      <4>1. PICK i \in 1..Len(Chain) :
              Chain[i] = cur[t] /\ Index(Chain, cur[t]) = i
        BY <3>2, CursorAt
      <4>2. Chain \in Seq(Entry) /\ Len(Chain) \in Nat
        BY <1>2, LinkedEntries
      <4>3. head = Chain[Len(Chain)]
        BY <1>2, <4>1, <4>2 DEF IsList
      <4> QED
        BY <1>8, <4>1, <4>3
    <3> QED
      BY <3>1, <3>2
  <2>4. StageOf(t)' = "held" /\ AtOf(t)' = 0
    BY <1>2, <2>1 DEF StageOf, AtOf, Pushing, TypeOK
  <2> QED
    BY <1>1, <1>5, <1>6, <2>2, <2>3, <2>4 DEF Registry!InternalPush
<1> QED
  BY <1>7, <1>8

\* The second round of a push, whose exchange fails, is not seen; nor is the
\* link of an entry before the exchange.
LEMMA RoundsUnseen ==
  ASSUME ListInv, LinkInv, NEW t \in Thread,
         PushLink(t) \/ (PushExchange(t) /\ ~ Pushing(t))
  PROVE  UNCHANGED Registry!registryVars
<1>1. [Next]_vars /\ TypeOK /\ stage[t] \in {"link", "cas"}
  BY DEF Next, Acquiring, ListInv, PushLink, PushExchange
<1>2. \A u \in Thread :
        u # t => /\ stage'[u] = stage[u] /\ entry'[u] = entry[u]
                 /\ cur'[u] = cur[u]
  BY <1>1 DEF PushLink, PushExchange, TypeOK
<1>3. UNCHANGED <<allocated, acquired, entry, borrowed>>
  BY DEF PushLink, PushExchange
<1>4. CASE PushLink(t)
  <2>1. /\ stage'[t] = "cas" /\ cur'[t] = cur[t] /\ entry'[t] = entry[t]
        /\ stage[t] = "link"
    BY <1>1, <1>4 DEF PushLink, TypeOK
  <2>2. Chain' = Chain
    <3>1. \A w \in Thread : ~ Links(w)
      BY <1>1, <1>4 DEF PushLink, Links, PushExchange, TypeOK
    <3> QED
      BY <1>1, <3>1, ChainStep
  <2>3. Linked' = Linked
    BY <2>2 DEF Linked
  <2>4. StageOf(t)' = StageOf(t) /\ AtOf(t)' = AtOf(t)
    BY <2>1, <2>2, <2>3 DEF StageOf, AtOf, Pushing
  <2> QED
    BY <1>1, <1>2, <1>3, <2>2, <2>4, UnseenStep DEF Registry!registryVars
<1>5. CASE PushExchange(t) /\ ~ Pushing(t)
  <2>1. stage[t] = "cas" /\ entry[t] \in Linked
    BY <1>5 DEF PushExchange, Pushing
  <2>2. head # cur[t]
    BY <2>1, SecondRound
  <2>3. /\ UNCHANGED <<head, next>>
        /\ stage'[t] = "held" /\ cur'[t] = NULL /\ entry'[t] = entry[t]
    BY <1>1, <1>5, <2>2 DEF PushExchange, TypeOK
  <2>4. Chain' = Chain /\ Linked' = Linked
    BY <2>3 DEF Chain, Linked
  <2>5. StageOf(t)' = StageOf(t) /\ AtOf(t)' = AtOf(t)
    BY <1>5, <2>1, <2>3, <2>4 DEF StageOf, AtOf, Pushing
  <2> QED
    BY <1>1, <1>2, <1>3, <2>4, <2>5, UnseenStep DEF Registry!registryVars
<1> QED
  BY <1>4, <1>5

\* The walk of helpScan() is seen when it borrows an entry or gives it back.
LEMMA HelpMaps ==
  ASSUME ListInv, LinkInv, NEW t \in Thread,
         HelpBegin(t) \/ HelpNext(t) \/ GiveBack(t)
  PROVE  \/ \E e \in Registry!Linked : Registry!Borrow(t, e)
         \/ Registry!GiveBack(t)
         \/ UNCHANGED Registry!registryVars
<1>1. /\ UNCHANGED <<head, next, allocated, entry, stage>>
      /\ stage[t] = "held"
  BY DEF HelpBegin, HelpNext, GiveBack, LinkInv
<1>2. [Next]_vars /\ TypeOK /\ Chain' = Chain
  BY <1>1 DEF Next, Helping, ListInv, Chain
<1>3. \A u \in Thread :
        u # t => /\ stage'[u] = stage[u] /\ entry'[u] = entry[u]
                 /\ cur'[u] = cur[u]
  BY <1>1, <1>2 DEF HelpBegin, HelpNext, GiveBack, TypeOK
<1>4. /\ StageOf(t) = "held" /\ StageOf(t)' = "held"
      /\ AtOf(t) = 0 /\ AtOf(t)' = 0
  BY <1>1 DEF StageOf, AtOf, Pushing
<1>5. UNCHANGED <<RegistryStage, RegistryAt>> /\ RegistryStage[t] = "held"
  BY <1>2, <1>3, <1>4, UnseenStep, MappedThread
<1>6. CASE UNCHANGED <<acquired, borrowed>>
  BY <1>1, <1>2, <1>5, <1>6 DEF Registry!registryVars
<1>7. CASE /\ HelpNext(t)
           /\ ~ acquired[cur[t]]
           /\ acquired' = [acquired EXCEPT ![cur[t]] = TRUE]
           /\ borrowed' = [borrowed EXCEPT ![t] = cur[t]]
  <2>1. cur[t] \in Linked /\ borrowed[t] = NULL
    BY <1>7 DEF HelpNext, LinkInv
  <2>2. cur[t] \in Registry!Linked
    <3>1. PICK i \in 1..Len(Chain) : Chain[i] = cur[t]
      BY <2>1, LinkedEntries DEF LinkInv
    <3> QED
      BY <3>1 DEF Registry!Linked
  <2>3. cur[t] # entry[t]
    <3>1. entry[t] \in Entry /\ acquired[entry[t]]
      BY <1>1, NullIsNoEntry DEF ListInv, TypeOK, Owned
    <3> QED
      BY <1>7, <3>1
  <2>4. Registry!Borrow(t, cur[t])
    BY <1>1, <1>2, <1>5, <1>7, <2>1, <2>3 DEF Registry!Borrow
  <2> QED
    BY <2>2, <2>4
<1>8. CASE GiveBack(t)
  BY <1>1, <1>2, <1>5, <1>8 DEF GiveBack, Registry!GiveBack
<1> QED
  BY <1>6, <1>7, <1>8 DEF HelpBegin, HelpNext

LEMMA ReleaseEntryMaps ==
  ASSUME ListInv, LinkInv, NEW t \in Thread, ReleaseEntry(t), cur[t] = NULL
  PROVE  Registry!ReleaseEntry(t) /\ borrowed[t] = NULL
<1>1. /\ stage[t] = "held" /\ stage' = [stage EXCEPT ![t] = "none"]
      /\ entry' = [entry EXCEPT ![t] = NULL] /\ borrowed[t] = NULL
      /\ acquired' = [acquired EXCEPT ![entry[t]] = FALSE]
      /\ UNCHANGED <<head, next, allocated, borrowed, cur>>
  BY DEF ReleaseEntry
<1>2. [Next]_vars /\ TypeOK /\ Chain' = Chain
  BY <1>1 DEF Next, ListInv, Chain
<1>3. /\ StageOf(t) = "held" /\ StageOf(t)' = "none"
      /\ AtOf(t) = 0 /\ AtOf(t)' = 0
  BY <1>1, <1>2 DEF StageOf, AtOf, Pushing, TypeOK
<1>4. /\ RegistryStage' = [RegistryStage EXCEPT ![t] = "none"]
      /\ RegistryAt' = [RegistryAt EXCEPT ![t] = 0]
  BY <1>1, <1>2, <1>3, OthersKeep DEF TypeOK
<1>5. RegistryStage[t] = "held" /\ RegistryAt' = RegistryAt
  BY <1>3, <1>4, MappedThread
<1> QED
  BY <1>1, <1>2, <1>4, <1>5 DEF Registry!ReleaseEntry

LEMMA RegistryRefined ==
  ASSUME ListInv, LinkInv, [Next]_vars
  PROVE  [Registry!RegistryNext]_(Registry!registryVars)
<1>1. CASE UNCHANGED vars
  BY <1>1, MappedThread, MappedStep
  DEF vars, Registry!registryVars, Chain, StageOf, AtOf, Pushing, Linked
<1>2. ASSUME NEW t \in Thread,
             BeginAcquire(t) \/ Acquiring(t) \/ HelpBegin(t) \/ Helping(t)
             \/ (ReleaseEntry(t) /\ cur[t] = NULL)
      PROVE  \/ Registry!BeginAcquire(t) \/ Registry!AcquireStep(t)
             \/ (Registry!ReleaseEntry(t) /\ borrowed[t] = NULL)
             \/ \E e \in Registry!Linked : Registry!Borrow(t, e)
             \/ Registry!GiveBack(t)
             \/ UNCHANGED Registry!registryVars
  <2>1. CASE BeginAcquire(t)
    BY <2>1, BeginAcquireMaps
  <2>2. CASE FindFree(t)
    BY <2>2, FindFreeMaps DEF Registry!AcquireStep
  <2>3. CASE AllocItem(t)
    BY <2>3, AllocItemMaps DEF Registry!AcquireStep
  <2>4. CASE PushLink(t)
    BY <2>4, RoundsUnseen
  <2>5. CASE PushExchange(t)
    BY <2>5, RoundsUnseen, PushExchangeMaps DEF Registry!AcquireStep
  <2>6. CASE HelpBegin(t) \/ Helping(t)
    BY <2>6, HelpMaps DEF Helping
  <2>7. CASE ReleaseEntry(t) /\ cur[t] = NULL
    BY <2>7, ReleaseEntryMaps
  <2> QED
    BY <1>2, <2>1, <2>2, <2>3, <2>4, <2>5, <2>6, <2>7 DEF Acquiring
<1> QED
  BY <1>1, <1>2 DEF Next, Registry!RegistryNext

LEMMA RegistryInits ==
  ASSUME Init
  PROVE  Registry!RegistryInit
<1>1. IsList(head, next, <<>>)
  BY DEF Init, IsList
<1>2. Chain = <<>>
  BY <1>1, ListIsUnique DEF Chain
<1>3. \A t \in Thread : StageOf(t) = "none" /\ AtOf(t) = 0
  BY DEF Init, StageOf, AtOf, Pushing
<1>4. /\ RegistryStage = [t \in Thread |-> "none"]
      /\ RegistryAt = [t \in Thread |-> 0]
  BY <1>3, MappedThread
<1> QED
  BY <1>2, <1>4 DEF Init, Registry!RegistryInit

LEMMA LinkInvariant == Spec => [](ListInv /\ LinkInv)
BY ListInitInv, ListStep, LinkInit, LinkStep, PTL DEF Spec

\* Pointer by pointer, with its inverted exchange loop, the list behaves as
\* the sequence on which the domain rests: it has no cycle, it grows at its
\* head only, a push links its entry at most once, and a cursor finds the
\* entries one after the other.
THEOREM RegistryImplemented == Spec => ImplementsRegistry
<1>1. ListInv /\ LinkInv /\ [Next]_vars
        => [Registry!RegistryNext]_(Registry!registryVars)
  BY RegistryRefined
<1> QED
  BY LinkInvariant, RegistryInits, <1>1, PTL
  DEF Spec, ImplementsRegistry, Registry!RegistrySpec

\* A walk that no lock protects misses no entry that was linked when it began:
\* the link of a published entry never changes, and nothing is unlinked.
THEOREM LinksStay == Spec => LinksAreStable
<1>1. ListInv /\ LinkInv /\ [Next]_vars
        => [\A e \in Linked : e \in Linked' /\ next'[e] = next[e]]_vars
  BY ChainStep, LinkedStep
<1> QED
  BY LinkInvariant, <1>1, PTL DEF Spec, LinksAreStable

-----------------------------------------------------------------------------
(* How many entries are lost.                                              *)

\* Every loss is charged to a thread and to an entry that another thread has
\* linked: winner[k] has linked the entry at place k, and loser[e] has lost e
\* to the entry at place[e].  A thread that is pushing has neither won nor lost
\* a place beyond the head_ that it has read.
Charged(winner, loser, place) ==
  /\ winner \in [1..Len(Chain) -> Thread]
  /\ loser \in [Lost -> Thread]
  /\ place \in [Lost -> 1..Len(Chain)]
  /\ \A d, e \in Lost : loser[d] = loser[e] /\ place[d] = place[e] => d = e
  /\ \A e \in Lost : winner[place[e]] # loser[e]
  /\ \A t \in Thread : Pushing(t) =>
       /\ \A e \in Lost : loser[e] = t => place[e] <= Position(cur[t])
       /\ \A k \in 1..Len(Chain) : k > Position(cur[t]) => winner[k] # t

LossInv == \E winner, loser, place : Charged(winner, loser, place)

LEMMA LossInit ==
  ASSUME Init
  PROVE  LossInv
<1>1. IsList(head, next, <<>>)
  BY DEF Init, IsList
<1>2. Chain = <<>> /\ Len(Chain) = 0
  BY <1>1, ListIsUnique DEF Chain
<1>3. Lost = {} /\ \A t \in Thread : ~ Pushing(t)
  BY DEF Init, Lost, Pushing
<1> DEFINE none == [x \in {} |-> x]
<1>4. none \in [1..Len(Chain) -> Thread]
  BY <1>2
<1>5. none \in [Lost -> Thread] /\ none \in [Lost -> 1..Len(Chain)]
  BY <1>3
<1> HIDE DEF none
<1>6. Charged(none, none, none)
  BY <1>3, <1>4, <1>5 DEF Charged
<1> QED
  BY <1>6 DEF LossInv

\* A step in which no push begins or ends charges nothing.
LEMMA ChargesKept ==
  ASSUME LossInv, Chain' = Chain, Linked' = Linked, allocated' = allocated,
         \A t \in Thread : Pushing(t)' <=> Pushing(t),
         \A t \in Thread : Pushing(t) => entry'[t] = entry[t] /\ cur'[t] = cur[t]
  PROVE  LossInv'
<1>1. PICK winner, loser, place : Charged(winner, loser, place)
  BY DEF LossInv
<1>2. Lost' = Lost
  BY DEF Lost
<1>3. \A t \in Thread : Pushing(t) => Position(cur[t])' = Position(cur[t])
  BY DEF Position
<1>4. Charged(winner, loser, place)'
  BY <1>1, <1>2, <1>3 DEF Charged
<1> QED
  BY <1>4 DEF LossInv

\* A push that begins reads the last place of the list.
LEMMA PushBegins ==
  ASSUME ListInv, LinkInv, LossInv, NEW t \in Thread, AllocItem(t)
  PROVE  LossInv'
<1>1. PICK winner, loser, place : Charged(winner, loser, place)
  BY DEF LossInv
<1>2. PICK e \in Entry \ allocated :
        /\ allocated' = allocated \cup {e}
        /\ entry' = [entry EXCEPT ![t] = e]
  BY DEF AllocItem, ListInv, TypeOK
<1>3. /\ UNCHANGED <<head, next>> /\ stage[t] = "find"
      /\ stage' = [stage EXCEPT ![t] = "link"]
      /\ cur' = [cur EXCEPT ![t] = head]
  BY DEF AllocItem
<1>4. /\ Chain' = Chain /\ Linked' = Linked /\ TypeOK
      /\ IsList(head, next, Chain) /\ Linked \subseteq allocated
      /\ Len(Chain) \in Nat
  BY <1>3, LinkedEntries DEF Chain, Linked, ListInv, LinkInv
<1>5. /\ Pushing(t)' /\ entry'[t] = e
      /\ \A u \in Thread : u # t => /\ Pushing(u)' <=> Pushing(u)
                                    /\ entry'[u] = entry[u] /\ cur'[u] = cur[u]
      /\ ~ Pushing(t)
  BY <1>2, <1>3, <1>4 DEF Pushing, TypeOK
<1>6. Lost' = Lost
  BY <1>2, <1>4, <1>5 DEF Lost
<1>7. Position(cur[t])' = Len(Chain)
  BY <1>3, <1>4, IndexOf DEF Position, TypeOK
<1>8. \A u \in Thread : u # t => Position(cur[u])' = Position(cur[u])
  BY <1>4, <1>5 DEF Position
<1>9. Charged(winner, loser, place)'
  BY <1>1, <1>4, <1>5, <1>6, <1>7, <1>8 DEF Charged
<1> QED
  BY <1>9 DEF LossInv

\* A push that links its entry wins the new place.
LEMMA PushWins ==
  ASSUME ListInv, LinkInv, LossInv, NEW t \in Thread, Links(t)
  PROVE  LossInv'
<1>1. PICK winner, loser, place : Charged(winner, loser, place)
  BY DEF LossInv
<1>2. /\ [Next]_vars /\ TypeOK /\ IsList(head, next, Chain)
      /\ \A u \in Thread : cur[u] \in Linked \cup {NULL}
  BY DEF Links, Next, Acquiring, ListInv, LinkInv
<1>3. /\ Chain \in Seq(Entry) /\ Len(Chain) \in Nat /\ entry[t] \in Entry
      /\ stage[t] = "cas"
      /\ Linked' = Linked \cup {entry[t]} /\ entry[t] \notin Linked
      /\ \A x \in Linked \cup {NULL} : Position(x)' = Position(x)
  BY <1>2, LinkedEntries, LinkedStep DEF Links, PushExchange, TypeOK
<1>4. Len(Chain') = Len(Chain) + 1
  BY <1>3 DEF Links
<1>5. /\ UNCHANGED <<allocated, entry, cur>> /\ ~ Pushing(t)'
      /\ Pushing(t)
      /\ \A u \in Thread : u # t => (Pushing(u)' => Pushing(u))
  BY <1>2, <1>3 DEF Links, Pushing, TypeOK
<1>6. \A u \in Thread : u # t /\ Pushing(u) => Pushing(u)'
  <2> SUFFICES ASSUME NEW u \in Thread, u # t, Pushing(u)
               PROVE  Pushing(u)'
    OBVIOUS
  <2>1. entry[u] # entry[t] /\ stage'[u] = stage[u]
    BY <1>2, <1>3 DEF Links, Pushing, TypeOK, ListInv, Exclusive, Owned
  <2> QED
    BY <1>3, <1>5, <2>1 DEF Pushing
<1>7. Lost' = Lost
  BY <1>3, <1>5, <1>6 DEF Lost
<1>8. \A u \in Thread : Position(cur[u])' = Position(cur[u])
  BY <1>2, <1>3, <1>5 DEF Position
<1>9. PICK won \in [1..Len(Chain') -> Thread] :
        /\ won[Len(Chain) + 1] = t
        /\ \A k \in 1..Len(Chain) : won[k] = winner[k]
  <2> DEFINE w == [k \in 1..Len(Chain') |->
                     IF k = Len(Chain) + 1 THEN t ELSE winner[k]]
  <2>1. w \in [1..Len(Chain') -> Thread]
    BY <1>1, <1>3, <1>4 DEF Charged
  <2>2. /\ w[Len(Chain) + 1] = t
        /\ \A k \in 1..Len(Chain) : w[k] = winner[k]
    BY <1>3, <1>4
  <2> QED
    BY <2>1, <2>2
<1>10. Charged(won, loser, place)'
  <2>1. /\ loser \in [Lost' -> Thread] /\ place \in [Lost' -> 1..Len(Chain')]
        /\ \A d, e \in Lost' : loser[d] = loser[e] /\ place[d] = place[e] => d = e
        /\ \A e \in Lost' : won[place[e]] # loser[e]
    BY <1>1, <1>3, <1>4, <1>7, <1>9 DEF Charged
  <2>2. ASSUME NEW u \in Thread, Pushing(u)'
        PROVE  /\ \A e \in Lost' : loser[e] = u => place[e] <= Position(cur[u])'
               /\ \A k \in 1..Len(Chain') : k > Position(cur[u])' => won[k] # u
    <3>1. u # t /\ Pushing(u) /\ Position(cur[u])' = Position(cur[u])
      BY <1>5, <1>8, <2>2
    <3>2. /\ \A e \in Lost : loser[e] = u => place[e] <= Position(cur[u])
          /\ \A k \in 1..Len(Chain) : k > Position(cur[u]) => winner[k] # u
      BY <1>1, <3>1 DEF Charged
    <3> QED
      BY <1>3, <1>4, <1>7, <1>9, <3>1, <3>2
  <2> QED
    BY <1>9, <2>1, <2>2 DEF Charged
<1> QED
  BY <1>10 DEF LossInv

\* A push that finds another head_ than the one it has read is charged to the
\* first place that was linked meanwhile.
LEMMA PushLoses ==
  ASSUME ListInv, LinkInv, LossInv, NEW t \in Thread,
         PushExchange(t), Pushing(t), head # cur[t]
  PROVE  LossInv'
<1>1. PICK winner, loser, place : Charged(winner, loser, place)
  BY DEF LossInv
<1>2. /\ stage[t] = "cas" /\ stage' = [stage EXCEPT ![t] = "held"]
      /\ cur' = [cur EXCEPT ![t] = NULL]
      /\ UNCHANGED <<head, next, allocated, acquired, entry, borrowed>>
  BY DEF PushExchange
<1>3. /\ TypeOK /\ IsList(head, next, Chain) /\ Len(Chain) \in Nat
      /\ Chain' = Chain /\ Linked' = Linked
  BY <1>2, LinkedEntries DEF Chain, Linked, ListInv, LinkInv
<1>4. /\ entry[t] \in allocated \ Linked /\ entry[t] \notin Lost
      /\ \A u \in Thread : Pushing(u) /\ u # t => entry[u] # entry[t]
  BY <1>3 DEF Pushing, Lost, ListInv, TypeOK, Exclusive, Owned
<1>5. /\ ~ Pushing(t)'
      /\ \A u \in Thread : u # t => /\ Pushing(u)' <=> Pushing(u)
                                    /\ entry'[u] = entry[u] /\ cur'[u] = cur[u]
  BY <1>2, <1>3 DEF Pushing, TypeOK
<1>6. Lost' = Lost \cup {entry[t]}
  BY <1>2, <1>3, <1>4, <1>5 DEF Lost
<1> DEFINE p == Position(cur[t])
<1>7. p \in Nat /\ p < Len(Chain)
  <2>1. CASE cur[t] = NULL
    BY <1>3, <2>1, IndexOf DEF Position, IsList
  <2>2. CASE cur[t] # NULL
    <3>1. PICK i \in 1..Len(Chain) :
            Chain[i] = cur[t] /\ Index(Chain, cur[t]) = i
      BY <2>2, CursorAt
    <3>2. head = Chain[Len(Chain)]
      BY <1>3, <3>1 DEF IsList
    <3> QED
      BY <1>3, <3>1, <3>2 DEF Position
  <2> QED
    BY <2>1, <2>2
<1> HIDE DEF p
<1>8. PICK k \in 1..Len(Chain) : k = p + 1
  BY <1>3, <1>7
<1>9. PICK losers \in [Lost' -> Thread], places \in [Lost' -> 1..Len(Chain)] :
        /\ losers[entry[t]] = t /\ places[entry[t]] = k
        /\ \A e \in Lost : losers[e] = loser[e] /\ places[e] = place[e]
  <2> DEFINE l == [e \in Lost' |-> IF e = entry[t] THEN t ELSE loser[e]]
             m == [e \in Lost' |-> IF e = entry[t] THEN k ELSE place[e]]
  <2>1. l \in [Lost' -> Thread] /\ m \in [Lost' -> 1..Len(Chain)]
    BY <1>1, <1>6 DEF Charged
  <2>2. /\ l[entry[t]] = t /\ m[entry[t]] = k
        /\ \A e \in Lost : l[e] = loser[e] /\ m[e] = place[e]
    BY <1>4, <1>6
  <2> HIDE DEF l, m
  <2> QED
    BY <2>1, <2>2
<1>10. /\ \A e \in Lost : loser[e] = t => place[e] <= p
       /\ winner[k] # t
       /\ \A e \in Lost : place[e] \in Nat
  BY <1>1, <1>3, <1>7, <1>8 DEF Charged, p
<1>11. /\ \A d, e \in Lost' : losers[d] = losers[e] /\ places[d] = places[e] => d = e
       /\ \A e \in Lost' : winner[places[e]] # losers[e]
  <2>1. \A d, e \in Lost : loser[d] = loser[e] /\ place[d] = place[e] => d = e
    BY <1>1 DEF Charged
  <2>2. \A e \in Lost : winner[place[e]] # loser[e]
    BY <1>1 DEF Charged
  <2>3. \A e \in Lost : ~ (loser[e] = t /\ place[e] = k)
    BY <1>7, <1>8, <1>10
  <2> QED
    BY <1>6, <1>9, <1>10, <2>1, <2>2, <2>3
<1>12. Charged(winner, losers, places)'
  <2>1. ASSUME NEW u \in Thread, Pushing(u)'
        PROVE  /\ \A e \in Lost' : losers[e] = u => places[e] <= Position(cur[u])'
               /\ \A i \in 1..Len(Chain') : i > Position(cur[u])' => winner[i] # u
    <3>1. u # t /\ Pushing(u) /\ Position(cur[u])' = Position(cur[u])
      BY <1>3, <1>5, <2>1 DEF Position
    <3>2. /\ \A e \in Lost : loser[e] = u => place[e] <= Position(cur[u])
          /\ \A i \in 1..Len(Chain) : i > Position(cur[u]) => winner[i] # u
      BY <1>1, <3>1 DEF Charged
    <3> QED
      BY <1>3, <1>6, <1>9, <3>1, <3>2
  <2>2. winner \in [1..Len(Chain') -> Thread] /\ places \in [Lost' -> 1..Len(Chain')]
    BY <1>1, <1>3, <1>9 DEF Charged
  <2> QED
    BY <1>9, <1>11, <2>1, <2>2 DEF Charged
<1> QED
  BY <1>12 DEF LossInv

LEMMA LossStep ==
  ASSUME ListInv, LinkInv, LossInv, [Next]_vars
  PROVE  LossInv'
<1>1. TypeOK
  BY DEF ListInv
<1>2. CASE UNCHANGED vars
  BY <1>2, ChargesKept DEF vars, Chain, Linked, Pushing
<1>3. ASSUME NEW t \in Thread,
             \/ BeginAcquire(t) \/ FindFree(t) \/ HelpBegin(t) \/ HelpNext(t)
             \/ GiveBack(t) \/ ReleaseEntry(t)
      PROVE  LossInv'
  <2>1. /\ Chain' = Chain /\ Linked' = Linked /\ allocated' = allocated
        /\ stage[t] \notin {"link", "cas"} /\ stage'[t] \notin {"link", "cas"}
    BY <1>1, <1>3
    DEF BeginAcquire, FindFree, HelpBegin, HelpNext, GiveBack, ReleaseEntry,
        Chain, Linked, TypeOK, LinkInv
  <2>2. \A u \in Thread :
          u # t => /\ stage'[u] = stage[u] /\ entry'[u] = entry[u]
                   /\ cur'[u] = cur[u]
    BY <1>1, <1>3
    DEF BeginAcquire, FindFree, HelpBegin, HelpNext, GiveBack, ReleaseEntry,
        TypeOK
  <2>3. /\ \A u \in Thread : Pushing(u)' <=> Pushing(u)
        /\ \A u \in Thread : Pushing(u) => entry'[u] = entry[u] /\ cur'[u] = cur[u]
    BY <2>1, <2>2 DEF Pushing
  <2> QED
    BY <2>1, <2>3, ChargesKept
<1>4. ASSUME NEW t \in Thread, PushLink(t)
      PROVE  LossInv'
  <2>1. /\ UNCHANGED <<allocated, entry, cur>>
        /\ stage[t] = "link" /\ stage' = [stage EXCEPT ![t] = "cas"]
    BY <1>4 DEF PushLink
  <2>2. Chain' = Chain /\ Linked' = Linked
    <3>1. \A w \in Thread : ~ Links(w)
      BY <1>1, <2>1 DEF Links, PushExchange, TypeOK
    <3> QED
      BY <3>1, ChainStep DEF Linked
  <2>3. \A u \in Thread : Pushing(u)' <=> Pushing(u)
    BY <1>1, <2>1, <2>2 DEF Pushing, TypeOK
  <2> QED
    BY <2>1, <2>2, <2>3, ChargesKept
<1>5. ASSUME NEW t \in Thread, PushExchange(t), ~ Pushing(t)
      PROVE  LossInv'
  <2>1. head # cur[t] /\ stage[t] = "cas"
    BY <1>5, SecondRound DEF PushExchange, Pushing
  <2>2. /\ UNCHANGED <<head, next, allocated, entry>>
        /\ stage' = [stage EXCEPT ![t] = "held"]
        /\ cur' = [cur EXCEPT ![t] = NULL]
    BY <1>5, <2>1 DEF PushExchange
  <2>3. Chain' = Chain /\ Linked' = Linked
    BY <2>2 DEF Chain, Linked
  <2>4. /\ \A u \in Thread : Pushing(u)' <=> Pushing(u)
        /\ \A u \in Thread : Pushing(u) => cur'[u] = cur[u]
    BY <1>1, <1>5, <2>2, <2>3 DEF Pushing, TypeOK
  <2> QED
    BY <2>2, <2>3, <2>4, ChargesKept
<1>6. ASSUME NEW t \in Thread, PushExchange(t), Pushing(t)
      PROVE  LossInv'
  BY <1>6, PushLoses, PushWins, PushLinks
<1>7. ASSUME NEW t \in Thread, AllocItem(t)
      PROVE  LossInv'
  BY <1>7, PushBegins
<1> QED
  BY <1>2, <1>3, <1>4, <1>5, <1>6, <1>7 DEF Next, Acquiring, Helping

\* The charges bound the losses: of the threads that raced for a place one has
\* linked its entry.
LEMMA LossBound ==
  ASSUME ListInv, LinkInv, LossInv
  PROVE  LossesAreBounded
<1>1. PICK winner, loser, place : Charged(winner, loser, place)
  BY DEF LossInv
<1>2. /\ Chain \in Seq(Entry) /\ Len(Chain) \in Nat
      /\ winner \in [1..Len(Chain) -> Thread]
      /\ loser \in [Lost -> Thread]
      /\ place \in [Lost -> 1..Len(Chain)]
      /\ \A e \in Lost : winner[place[e]] # loser[e]
      /\ \A d, e \in Lost : loser[d] = loser[e] /\ place[d] = place[e] => d = e
  BY <1>1, LinkedEntries DEF Charged, LinkInv
<1>3. Cardinality(Linked) = Len(Chain)
  <2>1. Chain \in Bijection(1..Len(Chain), Linked)
    <3>1. Chain \in [1..Len(Chain) -> Linked]
      BY <1>2 DEF Linked
    <3>2. Chain \in Injection(1..Len(Chain), Linked)
      BY <1>2, <3>1 DEF Injection, IsInjective, LinkInv, IsList
    <3>3. Chain \in Surjection(1..Len(Chain), Linked)
      BY <1>2, <3>1 DEF Surjection, Linked
    <3> QED
      BY <3>2, <3>3 DEF Bijection
  <2>2. ExistsBijection(1..Len(Chain), Linked)
    BY <2>1 DEF ExistsBijection
  <2> QED
    BY <1>2, <2>2, IntervalSize, FS_Bijection
<1>4. IsFiniteSet(Thread) /\ Cardinality(Thread) \in Nat
  BY FiniteAssumption, FS_CardinalityType
<1>5. CASE Thread = {}
  <2>1. Len(Chain) = 0
    <3>1. 1 \notin 1..Len(Chain)
      BY <1>2, <1>5
    <3> QED
      BY <1>2, <3>1
  <2>2. Lost = {}
    BY <1>2, <1>5
  <2>3. Cardinality(Thread) = 0 /\ Cardinality(Lost) = 0
    BY <1>5, <2>2, FS_EmptySet
  <2> QED
    BY <1>3, <2>1, <2>3 DEF LossesAreBounded
<1>6. ASSUME NEW u \in Thread
      PROVE  LossesAreBounded
  <2> DEFINE Others == Thread \ {u}
             charge == [e \in Lost |->
                          <<IF loser[e] = u THEN winner[place[e]] ELSE loser[e],
                            place[e]>>]
  <2>1. IsFiniteSet(Others) /\ Cardinality(Others) = Cardinality(Thread) - 1
    BY <1>4, FS_RemoveElement
  <2>2. charge \in Injection(Lost, Others \X (1..Len(Chain)))
    <3>1. charge \in [Lost -> Others \X (1..Len(Chain))]
      BY <1>2
    <3>2. ASSUME NEW d \in Lost, NEW e \in Lost, charge[d] = charge[e]
          PROVE  d = e
      BY <1>2, <3>2
    <3> HIDE DEF charge
    <3> QED
      BY <3>1, <3>2 DEF Injection, IsInjective
  <2>3. /\ IsFiniteSet(Others \X (1..Len(Chain)))
        /\ Cardinality(Others \X (1..Len(Chain)))
             = Cardinality(Others) * Cardinality(1..Len(Chain))
    BY <1>2, <2>1, IntervalSize, FS_Product
  <2>4. Cardinality(Lost) <= Cardinality(Others \X (1..Len(Chain)))
    BY <2>2, <2>3, FS_Injection
  <2> QED
    BY <1>2, <1>3, <2>1, <2>3, <2>4, IntervalSize DEF LossesAreBounded
<1> QED
  BY <1>5, <1>6

\* A push loses its entry only to a push that wins: at most T - 1 entries are
\* lost for each one that is linked, for any number of threads and pushes.
THEOREM LossesBounded == Spec => []LossesAreBounded
<1>1. ListInv /\ LinkInv /\ LossInv => LossesAreBounded
  BY LossBound
<1>2. Spec => []LossInv
  BY LinkInvariant, LossInit, LossStep, PTL DEF Spec
<1> QED
  BY LinkInvariant, <1>1, <1>2, PTL
=============================================================================
