--------------------------- MODULE ThreadDataProofs ---------------------------
(***************************************************************************)
(* The arrays of a thread hold what the sets of the domain model say, for  *)
(* any number of slots and places, any announced pointers and any clients. *)
(*                                                                         *)
(* The inductive invariant follows the compaction of scan(): the places    *)
(* from ret_insert to it are empty, and what will be in the list is in the *)
(* places before them and in those behind that scan() will keep.           *)
(***************************************************************************)
EXTENDS ThreadData, Counting

\* The places whose records are in the list when the scan under way ends.
Kept == (1..(insert - 1)) \cup ((it..last) \cap (marked \cup (end + 1)..last))

InList(p) == NumberOf(1..last, retires, p)
InSource(p) == NumberOf(1..sourceLast, source, p)
InKept(p) == NumberOf(Kept, retires, p)

\* The references of p that records own: in the list, and in the other list,
\* less the one whose disposer is running.
Owned(p) ==
  InList(p) + InSource(p)
    - (IF pc = "busy" /\ retires[it] = p THEN 1 ELSE 0)

\* The thread is at l, or in a scan that returns to l.
Towards(l) == pc = l \/ (pc \in {"begin", "scan", "busy"} /\ cont = l)

Helping == Towards("move") \/ Towards("scanned")

Stages ==
  /\ pc \in {"idle", "begin", "scan", "busy", "retire", "helpScan", "move", "scanned", "end"}
  /\ cont \in {"idle", "helpScan", "retire", "scanned"}
  /\ Towards("retire") => record \in Ptr
  /\ pc = "busy" => it \in (1..end) \ marked
  /\ pc \notin {"scan", "busy"} => it = 1 /\ insert = 1 /\ end = 0 /\ marked = {}

\* Where the lists are empty: the gap of the compaction, and the places from
\* which helpScan() has moved the records.
Gaps ==
  /\ \A i \in 1..last : retires[i] = 0 <=> i \in insert..(it - 1)
  /\ Helping => \A i \in 1..sourceLast : source[i] = 0 <=> i > hit
  /\ ~ Helping => hit = 0 /\ \A i \in 1..sourceLast : source[i] # 0

SlotInv ==
  /\ next \in [Slot -> Slot \cup {0}] /\ free \in Slot \cup {0} /\ held \subseteq Slot
  /\ FreeListIsExact

ArrayTypes ==
  /\ retires \in [Place -> Ptr \cup {0}] /\ source \in [Place -> Ptr \cup {0}]
  /\ last \in 0..MaxRetired /\ sourceLast \in 0..MaxRetired /\ hit \in 0..sourceLast
  /\ insert \in 1..it /\ it \in 1..(last + 1) /\ end \in 0..last
  /\ marked \subseteq 1..end

ListInv ==
  /\ ArrayTypes
  /\ Stages
  /\ Gaps
  /\ live = [p \in Ptr |-> Owned(p)]
  /\ due = [p \in Ptr |-> InKept(p)]

IInv == SlotInv /\ ListInv

-----------------------------------------------------------------------------
(* How the counts follow the arrays.                                       *)

\* Places are numbers, and 0 is no pointer.
LEMMA Ranges ==
  /\ MaxHP \in Nat /\ MaxHP >= 1 /\ MaxRetired \in Nat /\ MaxRetired >= 1
  /\ Slot = 1..MaxHP /\ Place = 1..MaxRetired
  /\ \A p \in Ptr : p \in Nat /\ p # 0
BY ArrayAssumption DEF Slot, Place

LEMMA CountIsNumber ==
  ASSUME NEW list, NEW n, NEW p
  PROVE  Count(list, n, p) = NumberOf(1..n, list, p)
BY DEF Count, NumberOf

LEMMA NumberSame ==
  ASSUME NEW I, NEW f, NEW g, NEW v, \A i \in I : g[i] = f[i]
  PROVE  NumberOf(I, g, v) = NumberOf(I, f, v)
<1>1. {i \in I : g[i] = v} = {i \in I : f[i] = v}
  OBVIOUS
<1> QED
  BY <1>1 DEF NumberOf

\* One place more.
LEMMA NumberGrows ==
  ASSUME NEW I, IsFiniteSet(I), NEW i, i \notin I, NEW J, J = I \cup {i},
         NEW f, NEW g, NEW v, \A j \in I : g[j] = f[j]
  PROVE  /\ NumberOf(I, f, v) \in Nat /\ NumberOf(J, g, v) \in Nat
         /\ NumberOf(J, g, v) = NumberOf(I, f, v) + (IF g[i] = v THEN 1 ELSE 0)
<1> DEFINE A == {j \in I : f[j] = v}
           B == {j \in J : g[j] = v}
<1>1. A \in SUBSET I /\ i \notin A /\ (B = IF g[i] = v THEN A \cup {i} ELSE A)
  OBVIOUS
<1>2. NumberOf(I, f, v) = Cardinality(A) /\ NumberOf(J, g, v) = Cardinality(B)
  BY DEF NumberOf
<1> HIDE DEF A, B
<1>3. IsFiniteSet(A) /\ Cardinality(A) \in Nat
  BY <1>1, CountIsNat
<1>4. Cardinality(A \cup {i}) = Cardinality(A) + 1
  BY <1>1, <1>3, FS_AddElement
<1> QED
  BY <1>1, <1>2, <1>3, <1>4

\* A change at one place, in the form the proofs below use.
LEMMA NumberAt ==
  \A I, f, g, v, i :
    IsFiniteSet(I) /\ i \in I /\ (\A j \in I : j # i => g[j] = f[j])
    => /\ NumberOf(I, f, v) \in Nat /\ NumberOf(I, g, v) \in Nat
       /\ NumberOf(I, g, v) + (IF f[i] = v THEN 1 ELSE 0)
            = NumberOf(I, f, v) + (IF g[i] = v THEN 1 ELSE 0)
BY NumberChange

\* Places that have other values do not count.
LEMMA NumberWithin ==
  ASSUME NEW I, NEW J, I \subseteq J, NEW f, NEW v, \A j \in J \ I : f[j] # v
  PROVE  NumberOf(J, f, v) = NumberOf(I, f, v)
<1>1. {j \in J : f[j] = v} = {i \in I : f[i] = v}
  OBVIOUS
<1> QED
  BY <1>1 DEF NumberOf

\* The places of the arrays, and of what will be kept, can be counted.
LEMMA PlacesFinite ==
  ASSUME ArrayTypes
  PROVE  /\ \A m, n \in Nat : IsFiniteSet(m..n)
         /\ Kept \subseteq 1..last /\ IsFiniteSet(Kept)
<1>1. \A m, n \in Nat : IsFiniteSet(m..n)
  BY FS_Interval
<1>2. Kept \subseteq 1..last
  BY Ranges DEF ArrayTypes, Kept
<1>3. last \in Nat
  BY Ranges DEF ArrayTypes
<1> QED
  BY <1>1, <1>2, <1>3, FS_Subset

LEMMA CountsAreNumbers ==
  ASSUME ArrayTypes, NEW p
  PROVE  InList(p) \in Nat /\ InSource(p) \in Nat /\ InKept(p) \in Nat
<1>1. last \in Nat /\ sourceLast \in Nat
  BY Ranges DEF ArrayTypes
<1>2. IsFiniteSet(1..last) /\ IsFiniteSet(1..sourceLast) /\ IsFiniteSet(Kept)
  BY <1>1, PlacesFinite
<1> QED
  BY <1>2, NumberPositive DEF InList, InSource, InKept

\* While nothing but the control changes, the counts stay.
LEMMA OnlyControl ==
  ASSUME ListInv, UNCHANGED <<retires, last, sourceVars, scanVars, live, due>>,
         pc # "busy", pc' # "busy"
  PROVE  /\ ArrayTypes'
         /\ live' = [p \in Ptr |-> Owned(p)']
         /\ due' = [p \in Ptr |-> InKept(p)']
         /\ (Helping' <=> Helping) => Gaps'
<1>1. ArrayTypes'
  BY DEF ListInv, ArrayTypes, sourceVars, scanVars
<1>2. \A p : Owned(p)' = Owned(p)
  BY DEF Owned, InList, InSource, sourceVars, scanVars
<1>3. \A p : InKept(p)' = InKept(p)
  BY DEF InKept, Kept, scanVars
<1>4. (Helping' <=> Helping) => Gaps'
  BY DEF ListInv, Gaps, sourceVars, scanVars
<1> QED
  BY <1>1, <1>2, <1>3, <1>4 DEF ListInv
-----------------------------------------------------------------------------
(* The slots.                                                              *)

\* Initially, and after clear(), the list runs from the first slot to the last.
LEMMA AllSlotsFree == next = Linked /\ free = 1 /\ held = {} => SlotInv
<1> SUFFICES ASSUME next = Linked, free = 1, held = {}
             PROVE  SlotInv
  OBVIOUS
<1> DEFINE list == [i \in 1..MaxHP |-> i]
<1>1. list \in [1..MaxHP -> Slot] /\ MaxHP \in 0..MaxHP
  BY Ranges
<1>2. {list[i] : i \in 1..MaxHP} = Slot
  BY Ranges
<1>3. FreeSlots(list, MaxHP)
  BY <1>2, Ranges DEF FreeSlots, Linked
<1>4. FreeListIsExact
  BY <1>1, <1>3 DEF FreeListIsExact
<1> QED
  BY <1>4, Ranges DEF SlotInv, Linked

LEMMA AcquireKeepsSlots ==
  ASSUME SlotInv, AcquireHP
  PROVE  SlotInv'
<1>1. /\ free # 0 /\ held' = held \cup {free} /\ free' = next[free] /\ next' = next
  BY DEF AcquireHP
<1>2. PICK n \in 0..MaxHP : \E list \in [1..n -> Slot] : FreeSlots(list, n)
  BY DEF SlotInv, FreeListIsExact
<1>3. PICK list \in [1..n -> Slot] : FreeSlots(list, n)
  BY <1>2
<1>4. n \in Nat /\ n # 0 /\ free = list[1] /\ n <= MaxHP
  BY <1>1, <1>2, <1>3, Ranges DEF FreeSlots
<1> DEFINE m == n - 1
           rest == [i \in 1..m |-> list[i + 1]]
<1>5. m \in 0..MaxHP /\ rest \in [1..m -> Slot]
  BY <1>4, Ranges
<1>6. {rest[i] : i \in 1..m} = Slot \ held'
  <2>1. ASSUME NEW s \in Slot \ held'
        PROVE  \E i \in 1..m : rest[i] = s
    <3>1. PICK j \in 1..n : list[j] = s
      BY <1>1, <1>3, <2>1 DEF FreeSlots
    <3>2. j # 1
      BY <1>1, <1>4, <2>1, <3>1
    <3>3. j - 1 \in 1..m /\ rest[j - 1] = s
      BY <1>4, <3>1, <3>2
    <3> QED
      BY <3>3
  <2>2. ASSUME NEW i \in 1..m
        PROVE  rest[i] \in Slot \ held'
    <3>1. i + 1 \in 1..n /\ rest[i] = list[i + 1] /\ i + 1 # 1 /\ 1 \in 1..n
      BY <1>4
    <3>2. list[i + 1] # list[1] /\ list[i + 1] \in Slot \ held
      BY <1>3, <3>1 DEF FreeSlots
    <3> QED
      BY <1>1, <1>4, <3>1, <3>2
  <2> HIDE DEF rest, m
  <2> QED
    BY <2>1, <2>2
<1>7. \A i, j \in 1..m : rest[i] = rest[j] => i = j
  <2>1. ASSUME NEW i \in 1..m, NEW j \in 1..m, rest[i] = rest[j]
        PROVE  i = j
    <3>1. i + 1 \in 1..n /\ j + 1 \in 1..n /\ list[i + 1] = list[j + 1]
      BY <1>4, <2>1
    <3>2. i + 1 = j + 1
      BY <1>3, <3>1 DEF FreeSlots
    <3> QED
      BY <3>2
  <2> QED
    BY <2>1
<1>8. free' = IF m = 0 THEN 0 ELSE rest[1]
  <2>1. next[list[1]] = IF 1 = n THEN 0 ELSE list[2]
    BY <1>3, <1>4 DEF FreeSlots
  <2> QED
    BY <1>1, <1>4, <2>1
<1>9. \A i \in 1..m : next'[rest[i]] = IF i = m THEN 0 ELSE rest[i + 1]
  <2>1. ASSUME NEW i \in 1..m
        PROVE  next'[rest[i]] = IF i = m THEN 0 ELSE rest[i + 1]
    <3>1. i + 1 \in 1..n /\ rest[i] = list[i + 1]
      BY <1>4
    <3>2. next[list[i + 1]] = IF i + 1 = n THEN 0 ELSE list[i + 2]
      BY <1>3, <3>1 DEF FreeSlots
    <3> QED
      BY <1>1, <1>4, <3>1, <3>2
  <2> QED
    BY <2>1
<1>10. FreeListIsExact'
  <2> HIDE DEF rest, m
  <2>1. FreeSlots(rest, m)'
    BY <1>6, <1>7, <1>8, <1>9 DEF FreeSlots
  <2> QED
    BY <1>5, <2>1 DEF FreeListIsExact
<1>11. free \in Slot /\ next[free] \in Slot \cup {0}
  BY <1>1 DEF SlotInv
<1> QED
  BY <1>1, <1>10, <1>11 DEF SlotInv

LEMMA ReleaseKeepsSlots ==
  ASSUME SlotInv, NEW s \in Slot, ReleaseHP(s)
  PROVE  SlotInv'
<1>1. /\ s \in held /\ held' = held \ {s} /\ free' = s
      /\ next' = [next EXCEPT ![s] = free]
  BY DEF ReleaseHP
<1>2. PICK n \in 0..MaxHP : \E list \in [1..n -> Slot] : FreeSlots(list, n)
  BY DEF SlotInv, FreeListIsExact
<1>3. PICK list \in [1..n -> Slot] : FreeSlots(list, n)
  BY <1>2
<1>4. n \in Nat /\ \A i \in 1..n : list[i] \in Slot /\ list[i] # s
  BY <1>1, <1>2, <1>3, Ranges DEF FreeSlots
<1> DEFINE m == n + 1
           more == [i \in 1..m |-> IF i = 1 THEN s ELSE list[i - 1]]
<1>5. more \in [1..m -> Slot]
  BY <1>4
<1>6. \A i, j \in 1..m : more[i] = more[j] => i = j
  <2>1. \A i \in 2..m : i - 1 \in 1..n /\ more[i] = list[i - 1] /\ more[i] # s
    BY <1>4
  <2>2. more[1] = s /\ \A i \in 1..m : i = 1 \/ i \in 2..m
    BY <1>4
  <2>3. ASSUME NEW i \in 2..m, NEW j \in 2..m, more[i] = more[j]
        PROVE  i = j
    <3>1. list[i - 1] = list[j - 1] /\ i - 1 \in 1..n /\ j - 1 \in 1..n
      BY <2>1, <2>3
    <3>2. i - 1 = j - 1
      BY <1>3, <3>1 DEF FreeSlots
    <3> QED
      BY <1>4, <3>2
  <2> HIDE DEF more, m
  <2> QED
    BY <2>1, <2>2, <2>3
<1>7. m \in 0..MaxHP
  <2>1. IsFiniteSet(1..MaxHP) /\ Cardinality(1..MaxHP) = MaxHP
    BY Ranges, FS_Interval
  <2>2. IsFiniteSet(1..m) /\ Cardinality(1..m) = m
    BY <1>4, FS_Interval
  <2>3. more \in Injection(1..m, Slot)
    <3> HIDE DEF more, m
    <3> QED
      BY <1>5, <1>6 DEF Injection, IsInjective
  <2> HIDE DEF more, m
  <2>4. Cardinality(1..m) <= Cardinality(Slot)
    BY <2>1, <2>3, FS_Injection, Ranges
  <2> QED
    BY <1>4, <2>1, <2>2, <2>4, Ranges DEF m
<1>8. {more[i] : i \in 1..m} = Slot \ held'
  <2>1. ASSUME NEW u \in Slot \ held'
        PROVE  \E i \in 1..m : more[i] = u
    <3>1. CASE u = s
      BY <1>4, <3>1
    <3>2. CASE u # s
      <4>1. PICK j \in 1..n : list[j] = u
        BY <1>1, <1>3, <2>1, <3>2 DEF FreeSlots
      <4>2. j + 1 \in 1..m /\ more[j + 1] = u
        BY <1>4, <4>1
      <4> QED
        BY <4>2
    <3> QED
      BY <3>1, <3>2
  <2>2. ASSUME NEW i \in 1..m
        PROVE  more[i] \in Slot \ held'
    <3>1. \A j \in 1..n : list[j] \in Slot \ held
      BY <1>3 DEF FreeSlots
    <3>2. i = 1 \/ i - 1 \in 1..n
      BY <1>4
    <3> QED
      BY <1>1, <3>1, <3>2
  <2> HIDE DEF more, m
  <2> QED
    BY <2>1, <2>2
<1>9. free' = IF m = 0 THEN 0 ELSE more[1]
  BY <1>1, <1>4
<1>10. \A i \in 1..m : next'[more[i]] = IF i = m THEN 0 ELSE more[i + 1]
  <2>1. free = IF n = 0 THEN 0 ELSE list[1]
    BY <1>3 DEF FreeSlots
  <2>2. next'[s] = free /\ \A u \in Slot : u # s => next'[u] = next[u]
    BY <1>1 DEF SlotInv
  <2>3. ASSUME NEW i \in 1..m
        PROVE  next'[more[i]] = IF i = m THEN 0 ELSE more[i + 1]
    <3>1. CASE i = 1
      BY <1>4, <2>1, <2>2, <3>1
    <3>2. CASE i # 1
      <4>1. i - 1 \in 1..n /\ more[i] = list[i - 1]
        BY <1>4, <3>2
      <4>2. next[list[i - 1]] = IF i - 1 = n THEN 0 ELSE list[i]
        BY <1>3, <4>1 DEF FreeSlots
      <4> QED
        BY <1>4, <2>2, <4>1, <4>2
    <3> QED
      BY <3>1, <3>2
  <2> QED
    BY <2>3
<1>11. FreeListIsExact'
  <2> HIDE DEF more, m
  <2>1. FreeSlots(more, m)'
    BY <1>6, <1>8, <1>9, <1>10 DEF FreeSlots
  <2> QED
    BY <1>5, <1>7, <2>1 DEF FreeListIsExact
<1> QED
  BY <1>1, <1>11 DEF SlotInv
-----------------------------------------------------------------------------
(* The retired records: what comes into the list.                          *)

LEMMA ListInitInv ==
  ASSUME Init
  PROVE  ListInv
<1>1. /\ retires = [i \in Place |-> 0] /\ source = retires
      /\ last = 0 /\ sourceLast = 0 /\ hit = 0
      /\ it = 1 /\ insert = 1 /\ end = 0 /\ marked = {}
      /\ pc = "idle" /\ cont = "idle"
      /\ live = [p \in Ptr |-> 0] /\ due = live
  BY DEF Init
<1>2. ArrayTypes
  BY <1>1, Ranges DEF ArrayTypes
<1>3. Stages /\ Gaps
  BY <1>1 DEF Stages, Gaps, Towards, Helping
<1>4. 1..0 = {} /\ Kept = {}
  BY <1>1 DEF Kept
<1>5. \A f, p : NumberOf({}, f, p) = 0
  <2>1. \A f, p : {i \in {} : f[i] = p} = {}
    OBVIOUS
  <2> QED
    BY <2>1, FS_EmptySet DEF NumberOf
<1>6. \A p \in Ptr : Owned(p) = 0
  BY <1>1, <1>4, <1>5 DEF Owned, InList, InSource
<1>7. \A p \in Ptr : InKept(p) = 0
  BY <1>1, <1>4, <1>5 DEF InKept
<1> QED
  BY <1>1, <1>2, <1>3, <1>6, <1>7 DEF ListInv

\* A record is pushed.
LEMMA Pushed ==
  ASSUME ListInv, NEW p \in Ptr, last < MaxRetired,
         retires' = [retires EXCEPT ![last + 1] = p], last' = last + 1,
         UNCHANGED scanVars
  PROVE  /\ retires' \in [Place -> Ptr \cup {0}] /\ last' \in 0..MaxRetired
         /\ insert' \in 1..it' /\ it' \in 1..(last' + 1) /\ end' \in 0..last'
         /\ marked' \subseteq 1..end'
         /\ \A i \in 1..last' : retires'[i] = 0 <=> i \in insert'..(it' - 1)
         /\ it \in 1..last => retires'[it'] = retires[it]
         /\ \A q \in Ptr :
              /\ InList(q) \in Nat /\ InKept(q) \in Nat
              /\ InList(q)' = InList(q) + (IF p = q THEN 1 ELSE 0)
              /\ InKept(q)' = InKept(q) + (IF p = q THEN 1 ELSE 0)
<1>1. /\ retires \in [Place -> Ptr \cup {0}] /\ last \in Nat /\ last + 1 \in Place
      /\ insert \in Nat /\ it \in Nat /\ end \in Nat
      /\ insert \in 1..it /\ it \in 1..(last + 1) /\ end \in 0..last
      /\ marked \subseteq 1..end
      /\ UNCHANGED <<insert, it, end, marked>>
  BY Ranges DEF ListInv, ArrayTypes, scanVars
<1>2. /\ retires'[last + 1] = p
      /\ \A i \in 1..last : i \in Place /\ retires'[i] = retires[i]
  BY <1>1, Ranges
<1>3. Kept' = Kept \cup {last + 1} /\ Kept \subseteq 1..last
  BY <1>1 DEF Kept
<1>4. 1..last' = (1..last) \cup {last + 1} /\ last + 1 \notin 1..last
  BY <1>1
<1>5. IsFiniteSet(1..last) /\ IsFiniteSet(Kept)
  BY <1>1, PlacesFinite DEF ListInv
<1>6. \A i \in 1..last' : retires'[i] = 0 <=> i \in insert'..(it' - 1)
  <2>1. \A i \in 1..last : retires[i] = 0 <=> i \in insert..(it - 1)
    BY DEF ListInv, Gaps
  <2>2. p # 0 /\ last + 1 \notin insert..(it - 1)
    BY <1>1, Ranges
  <2> QED
    BY <1>1, <1>2, <1>4, <2>1, <2>2
<1>7. ASSUME NEW q \in Ptr
      PROVE  /\ InList(q) \in Nat /\ InKept(q) \in Nat
             /\ InList(q)' = InList(q) + (IF p = q THEN 1 ELSE 0)
             /\ InKept(q)' = InKept(q) + (IF p = q THEN 1 ELSE 0)
  <2> DEFINE n == last + 1
             r == retires'
             I == 1..last
             J == 1..last'
  <2>1. /\ IsFiniteSet(Kept) /\ n \notin Kept /\ \A i \in Kept : r[i] = retires[i]
        /\ IsFiniteSet(I) /\ n \notin I /\ \A i \in I : r[i] = retires[i]
    BY <1>2, <1>3, <1>4, <1>5
  <2>2. Kept' = Kept \cup {n} /\ J = I \cup {n} /\ r[n] = p
    BY <1>2, <1>3, <1>4
  <2>3. /\ InList(q) = NumberOf(I, retires, q) /\ InList(q)' = NumberOf(J, r, q)
        /\ InKept(q) = NumberOf(Kept, retires, q) /\ InKept(q)' = NumberOf(Kept', r, q)
    BY DEF InList, InKept
  <2> HIDE DEF n, r, I, J
  <2>4. /\ NumberOf(Kept, retires, q) \in Nat
        /\ NumberOf(Kept', r, q) = NumberOf(Kept, retires, q) + (IF r[n] = q THEN 1 ELSE 0)
    BY <2>1, <2>2, NumberGrows
  <2>5. /\ NumberOf(I, retires, q) \in Nat
        /\ NumberOf(J, r, q) = NumberOf(I, retires, q) + (IF r[n] = q THEN 1 ELSE 0)
    BY <2>1, <2>2, NumberGrows
  <2> QED
    BY <2>2, <2>3, <2>4, <2>5
<1>8. /\ retires' \in [Place -> Ptr \cup {0}] /\ last' \in 0..MaxRetired
      /\ insert' \in 1..it' /\ it' \in 1..(last' + 1) /\ end' \in 0..last'
      /\ marked' \subseteq 1..end'
  BY <1>1, Ranges
<1>9. it \in 1..last => retires'[it'] = retires[it]
  BY <1>1, <1>2
<1>10. \A q \in Ptr : /\ InList(q) \in Nat /\ InKept(q) \in Nat
                      /\ InList(q)' = InList(q) + (IF p = q THEN 1 ELSE 0)
                      /\ InKept(q)' = InKept(q) + (IF p = q THEN 1 ELSE 0)
  BY <1>7
<1> QED
  BY <1>6, <1>8, <1>9, <1>10

\* retire() with room, by a client or by a disposer.
LEMMA PushKeepsLists ==
  ASSUME ListInv, NEW p \in Ptr, PushBack(p), UNCHANGED <<sourceVars, scanVars>>,
         Stages', pc' = "busy" <=> pc = "busy", Helping' <=> Helping
  PROVE  ListInv'
<1>1. /\ last < MaxRetired
      /\ retires' = [retires EXCEPT ![last + 1] = p] /\ last' = last + 1
      /\ live' = [live EXCEPT ![p] = @ + 1] /\ due' = [due EXCEPT ![p] = @ + 1]
      /\ UNCHANGED <<source, sourceLast, hit>>
  BY DEF PushBack, sourceVars
<1>2. ArrayTypes'
  BY <1>1, Pushed DEF ListInv, ArrayTypes
<1>3. Gaps'
  BY <1>1, Pushed DEF ListInv, Gaps
<1>4. \A q : InSource(q)' = InSource(q)
  BY <1>1 DEF InSource
<1>5. \A q \in Ptr : /\ InList(q) \in Nat /\ InKept(q) \in Nat
                     /\ InList(q)' = InList(q) + (IF p = q THEN 1 ELSE 0)
                     /\ InKept(q)' = InKept(q) + (IF p = q THEN 1 ELSE 0)
  BY <1>1, Pushed, Zenon
<1>6. pc = "busy" => it \in 1..last
  BY Ranges DEF ListInv, ArrayTypes, Stages
<1>7. ASSUME NEW q \in Ptr
      PROVE  /\ Owned(q) \in Int
             /\ Owned(q)' = Owned(q) + (IF p = q THEN 1 ELSE 0)
  <2>1. InSource(q) \in Nat
    BY CountsAreNumbers DEF ListInv
  <2>2. (pc' = "busy" /\ retires'[it'] = q) <=> (pc = "busy" /\ retires[it] = q)
    BY <1>1, <1>6, Pushed
  <2> QED
    BY <1>1, <1>4, <1>5, <2>1, <2>2 DEF Owned
<1>8. live' = [q \in Ptr |-> Owned(q)']
  <2>1. live' = [q \in Ptr |-> IF q = p THEN live[p] + 1 ELSE live[q]]
    BY <1>1 DEF ListInv
  <2>2. \A q \in Ptr : live[q] = Owned(q)
    BY DEF ListInv
  <2>3. \A q \in Ptr : (IF q = p THEN live[p] + 1 ELSE live[q]) = Owned(q)'
    BY <1>7, <2>2
  <2> QED
    BY <2>1, <2>3
<1>9. due' = [q \in Ptr |-> InKept(q)']
  <2>1. due' = [q \in Ptr |-> IF q = p THEN due[p] + 1 ELSE due[q]]
    BY <1>1 DEF ListInv
  <2>2. \A q \in Ptr : due[q] = InKept(q)
    BY DEF ListInv
  <2>3. \A q \in Ptr : (IF q = p THEN due[p] + 1 ELSE due[q]) = InKept(q)'
    BY <1>1, <1>5, <2>2
  <2> QED
    BY <2>1, <2>3
<1> QED
  BY <1>2, <1>3, <1>8, <1>9 DEF ListInv
-----------------------------------------------------------------------------
(* scan(): the sort and the marks.                                         *)

\* A search for what is in a sorted list finds it.
LEMMA LowerBoundFinds ==
  ASSUME NEW n \in Nat, NEW list, \A i \in 1..n : list[i] \in Nat,
         Ascending(list, n), NEW k \in 1..n
  PROVE  LowerBound(list, n, list[k]) \in 1..n
         /\ list[LowerBound(list, n, list[k])] = list[k]
<1> DEFINE p == list[k]
           First(i) == /\ \A j \in 1..(i - 1) : list[j] < p
                       /\ i <= n => list[i] >= p
           A == {i \in 1..n : list[i] >= p}
<1>1. p \in Nat
  OBVIOUS
<1>2. PICK m \in A : \A i \in A : m <= i
  <2>1. A \in SUBSET Nat /\ k \in A
    BY <1>1
  <2> HIDE DEF A
  <2> QED
    BY <2>1, LeastNumber
<1>3. m \in 1..(n + 1) /\ First(m)
  BY <1>1, <1>2
<1>4. LowerBound(list, n, p) = CHOOSE i \in 1..(n + 1) : First(i)
  BY DEF LowerBound
<1> HIDE DEF First
<1>5. PICK l \in 1..(n + 1) : l = LowerBound(list, n, p) /\ First(l)
  BY <1>3, <1>4
<1>6. l <= k
  <2>1. \A j \in 1..(l - 1) : list[j] < p
    BY <1>5 DEF First
  <2>2. ~ (k \in 1..(l - 1))
    BY <1>1, <2>1
  <2> QED
    BY <2>2
<1>7. l \in 1..n /\ list[l] >= p
  BY <1>5, <1>6 DEF First
<1>8. list[l] <= p
  BY <1>1, <1>6, <1>7 DEF Ascending
<1> QED
  BY <1>1, <1>5, <1>7, <1>8

\* For each announced pointer that is in the list, one record is marked.
LEMMA OneMark ==
  ASSUME NEW n \in Nat, NEW list, \A i \in 1..n : list[i] \in Nat,
         Ascending(list, n), NEW announced, NEW p,
         NEW marks,
         \A i : i \in marks <=> /\ i \in 1..n /\ list[i] \in announced
                                /\ LowerBound(list, n, list[i]) = i
  PROVE  NumberOf(marks, list, p)
           = IF p \in announced /\ \E k \in 1..n : list[k] = p THEN 1 ELSE 0
<1> DEFINE M == {i \in marks : list[i] = p}
           l == LowerBound(list, n, p)
<1>1. \A i \in M : p \in announced /\ i \in 1..n /\ list[i] = p /\ i = l
  OBVIOUS
<1>2. CASE p \in announced /\ \E k \in 1..n : list[k] = p
  <2>1. l \in 1..n /\ list[l] = p
    BY <1>2, LowerBoundFinds
  <2>2. M = {l}
    BY <1>1, <1>2, <2>1
  <2> QED
    BY <1>2, <2>2, FS_Singleton DEF NumberOf
<1>3. CASE ~ (p \in announced /\ \E k \in 1..n : list[k] = p)
  <2>1. M = {}
    BY <1>1, <1>3
  <2> QED
    BY <1>3, <2>1, FS_EmptySet DEF NumberOf
<1> QED
  BY <1>2, <1>3

LEMMA ScanBeginKeepsLists ==
  ASSUME ListInv, NEW announced \in SUBSET Ptr, ScanBegin(announced)
  PROVE  ListInv'
<1>1. PICK sorted \in Sortings(retires, last) :
        /\ retires' = [i \in Place |-> IF i <= last THEN sorted[i] ELSE retires[i]]
        /\ marked' = {i \in 1..last :
                        \E p \in announced : sorted[i] = p /\ LowerBound(sorted, last, p) = i}
  BY DEF ScanBegin
<1>2. /\ pc = "begin" /\ pc' = "scan" /\ last > 0
      /\ it' = 1 /\ insert' = 1 /\ end' = last
      /\ due' = [p \in Ptr |-> IF p \in announced /\ due[p] > 0 THEN 1 ELSE 0]
      /\ UNCHANGED <<last, source, sourceLast, hit, cont, record, live>>
  BY DEF ScanBegin, sourceVars
<1>3. /\ retires \in [Place -> Ptr \cup {0}] /\ last \in Nat /\ 1..last \subseteq Place
      /\ \A i \in 1..last : retires[i] \in Ptr
      /\ Kept = 1..last
  BY <1>2, Ranges DEF ListInv, ArrayTypes, Stages, Gaps, Kept
<1>4. /\ sorted \in [1..last -> {retires[i] : i \in 1..last}]
      /\ Ascending(sorted, last)
      /\ \A p \in Ptr : Count(sorted, last, p) = Count(retires, last, p)
  BY DEF Sortings
<1>5. /\ \A i \in 1..last : sorted[i] \in Ptr /\ sorted[i] \in Nat
      /\ \A i \in 1..last : retires'[i] = sorted[i]
      /\ retires' \in [Place -> Ptr \cup {0}]
  BY <1>1, <1>3, <1>4, Ranges
<1>6. ArrayTypes'
  BY <1>1, <1>2, <1>5, Ranges DEF ListInv, ArrayTypes
<1>7. Helping' <=> Helping
  BY <1>2 DEF Helping, Towards
<1>8. Stages'
  BY <1>2 DEF ListInv, Stages, Towards
<1>9. Gaps'
  <2>1. \A i \in 1..last : retires'[i] # 0 /\ i \notin 1..0
    BY <1>5, Ranges
  <2> QED
    BY <1>2, <1>7, <2>1 DEF ListInv, Gaps
<1>10. Kept' = marked'
  BY <1>1, <1>2, <1>3 DEF Kept
<1>11. ASSUME NEW p \in Ptr
       PROVE  InList(p)' = InList(p) /\ InKept(p) = InList(p)
  <2>1. NumberOf(1..last, retires', p) = NumberOf(1..last, sorted, p)
    BY <1>5, NumberSame
  <2>2. NumberOf(1..last, sorted, p) = NumberOf(1..last, retires, p)
    BY <1>4, CountIsNumber
  <2> QED
    BY <1>2, <1>3, <2>1, <2>2 DEF InList, InKept
<1>12. live' = [p \in Ptr |-> Owned(p)']
  <2>1. \A p \in Ptr : Owned(p)' = Owned(p)
    BY <1>2, <1>11 DEF Owned, InSource
  <2> QED
    BY <1>2, <2>1 DEF ListInv
<1>13. ASSUME NEW p \in Ptr
       PROVE  InKept(p)' = IF p \in announced /\ due[p] > 0 THEN 1 ELSE 0
  <2>1. NumberOf(marked', retires', p) = NumberOf(marked', sorted, p)
    <3>1. \A i \in marked' : retires'[i] = sorted[i]
      BY <1>1, <1>5
    <3> QED
      BY <3>1, NumberSame, Zenon
  <2>2. NumberOf(marked', sorted, p)
          = IF p \in announced /\ \E k \in 1..last : sorted[k] = p THEN 1 ELSE 0
    <3> DEFINE M == marked'
    <3>1. last \in Nat /\ \A i \in 1..last : sorted[i] \in Nat
      BY <1>3, <1>5
    <3>2. \A i : i \in M <=> /\ i \in 1..last /\ sorted[i] \in announced
                             /\ LowerBound(sorted, last, sorted[i]) = i
      BY <1>1
    <3> HIDE DEF M
    <3>3. \A q : NumberOf(M, sorted, q)
                   = IF q \in announced /\ \E k \in 1..last : sorted[k] = q THEN 1 ELSE 0
      BY <1>4, <3>1, <3>2, OneMark
    <3> QED
      BY <3>3 DEF M
  <2>3. due[p] = NumberOf(1..last, sorted, p)
    BY <1>3, <1>4, CountIsNumber DEF ListInv, InKept
  <2>4. /\ NumberOf(1..last, sorted, p) \in Nat
        /\ NumberOf(1..last, sorted, p) > 0 <=> \E k \in 1..last : sorted[k] = p
    <3> DEFINE I == 1..last
    <3>1. IsFiniteSet(I)
      BY <1>3, IntervalSize
    <3> HIDE DEF I
    <3>2. /\ NumberOf(I, sorted, p) \in Nat
          /\ \A i \in I : sorted[i] = p => NumberOf(I, sorted, p) > 0
          /\ (\A i \in I : sorted[i] # p) => NumberOf(I, sorted, p) = 0
      BY <3>1, NumberPositive
    <3> QED
      BY <3>2 DEF I
  <2> QED
    BY <1>10, <2>1, <2>2, <2>3, <2>4 DEF InKept
<1>14. due' = [p \in Ptr |-> InKept(p)']
  BY <1>2, <1>13
<1> QED
  BY <1>6, <1>8, <1>9, <1>12, <1>14 DEF ListInv
-----------------------------------------------------------------------------
(* scan(): the compaction.                                                 *)

\* Where a scan is.
LEMMA ScanTypes ==
  ASSUME ListInv
  PROVE  /\ retires \in [Place -> Ptr \cup {0}] /\ 1..last \subseteq Place
         /\ last \in Nat /\ sourceLast \in Nat /\ hit \in Nat
         /\ insert \in Nat /\ it \in Nat /\ end \in Nat
         /\ 1 <= insert /\ insert <= it /\ it <= last + 1 /\ end <= last
         /\ last <= MaxRetired /\ marked \subseteq 1..end
         /\ \A i \in 1..last : retires[i] = 0 <=> insert <= i /\ i < it
         /\ \A i \in 1..last : retires[i] # 0 => retires[i] \in Ptr
BY Ranges DEF ListInv, ArrayTypes, Gaps

LEMMA ScanDisposeKeepsLists ==
  ASSUME ListInv, ScanDispose
  PROVE  ListInv'
<1>1. /\ pc = "scan" /\ pc' = "busy" /\ it \in (1..end) \ marked
      /\ live' = [live EXCEPT ![retires[it]] = @ - 1]
      /\ UNCHANGED <<retires, last, source, sourceLast, hit, cont, record,
                     it, insert, end, marked, due>>
  BY DEF ScanDispose, sourceVars, scanVars
<1>2. ArrayTypes' /\ Stages' /\ Gaps'
  BY <1>1 DEF ListInv, ArrayTypes, Stages, Gaps, Towards, Helping
<1>3. \A p : InList(p)' = InList(p) /\ InSource(p)' = InSource(p) /\ InKept(p)' = InKept(p)
  BY <1>1 DEF InList, InSource, InKept, Kept
<1>4. PICK q \in Ptr : q = retires[it]
  BY <1>1, ScanTypes
<1>5. \A p \in Ptr : /\ live[p] = InList(p) + InSource(p)
                     /\ InList(p) \in Nat /\ InSource(p) \in Nat
  BY <1>1, CountsAreNumbers DEF ListInv, Owned
<1>6. \A p \in Ptr : Owned(p)' = live[p] - (IF p = q THEN 1 ELSE 0)
  BY <1>1, <1>3, <1>4, <1>5 DEF Owned
<1>7. live' = [p \in Ptr |-> Owned(p)']
  <2>1. live' = [p \in Ptr |-> IF p = q THEN live[q] - 1 ELSE live[p]]
    BY <1>1, <1>4 DEF ListInv
  <2>2. \A p \in Ptr : (IF p = q THEN live[q] - 1 ELSE live[p]) = Owned(p)'
    BY <1>5, <1>6
  <2> QED
    BY <2>1, <2>2
<1>8. due' = [p \in Ptr |-> InKept(p)']
  BY <1>1, <1>3 DEF ListInv
<1> QED
  BY <1>2, <1>7, <1>8 DEF ListInv

LEMMA ScanDisposedKeepsLists ==
  ASSUME ListInv, ScanDisposed
  PROVE  ListInv'
<1>1. /\ pc = "busy" /\ pc' = "scan" /\ it' = it + 1
      /\ retires' = [retires EXCEPT ![it] = 0]
      /\ UNCHANGED <<last, source, sourceLast, hit, cont, record,
                     insert, end, marked, live, due>>
  BY DEF ScanDisposed, sourceVars
<1>2. it \in 1..end /\ it \notin marked /\ it \in 1..last /\ it \in Place
  BY <1>1, ScanTypes DEF ListInv, Stages
<1>3. /\ retires' \in [Place -> Ptr \cup {0}] /\ retires'[it] = 0
      /\ \A i \in 1..last : i # it => retires'[i] = retires[i]
  BY <1>1, <1>2, ScanTypes
<1>4. ArrayTypes'
  BY <1>1, <1>2, <1>3, ScanTypes DEF ListInv, ArrayTypes
<1>5. Helping' <=> Helping
  BY <1>1 DEF Helping, Towards
<1>6. Stages'
  BY <1>1 DEF ListInv, Stages, Towards
<1>7. Gaps'
  <2>1. \A i \in 1..last : retires'[i] = 0 <=> i \in insert..it
    BY <1>2, <1>3, ScanTypes
  <2>2. it = it' - 1
    BY <1>1, ScanTypes
  <2> QED
    BY <1>1, <1>5, <2>1, <2>2 DEF ListInv, Gaps
<1>8. Kept' = Kept /\ it \notin Kept /\ Kept \subseteq 1..last
  BY <1>1, <1>2, ScanTypes DEF Kept
<1>9. ASSUME NEW p \in Ptr
      PROVE  /\ InKept(p)' = InKept(p)
             /\ InSource(p)' = InSource(p)
             /\ InList(p)' = InList(p) - (IF retires[it] = p THEN 1 ELSE 0)
  <2> DEFINE I == 1..last
             r == retires'
  <2>1. \A i \in Kept : r[i] = retires[i]
    BY <1>3, <1>8
  <2>2. IsFiniteSet(I) /\ it \in I /\ \A i \in I : i # it => r[i] = retires[i]
    BY <1>2, <1>3, IntervalSize, ScanTypes
  <2>3. /\ InKept(p) = NumberOf(Kept, retires, p) /\ InKept(p)' = NumberOf(Kept, r, p)
        /\ InList(p) = NumberOf(I, retires, p) /\ InList(p)' = NumberOf(I, r, p)
        /\ InSource(p)' = InSource(p)
    BY <1>1, <1>8 DEF InKept, InList, InSource
  <2>4. r[it] # p
    BY <1>3, Ranges
  <2> HIDE DEF I, r
  <2>5. NumberOf(Kept, r, p) = NumberOf(Kept, retires, p)
    BY <2>1, NumberSame
  <2>6. /\ NumberOf(I, retires, p) \in Nat /\ NumberOf(I, r, p) \in Nat
        /\ NumberOf(I, r, p) + (IF retires[it] = p THEN 1 ELSE 0)
             = NumberOf(I, retires, p) + (IF r[it] = p THEN 1 ELSE 0)
    BY <2>2, NumberAt
  <2> QED
    BY <2>3, <2>4, <2>5, <2>6
<1>10. \A p \in Ptr : Owned(p)' = Owned(p)
  <2>1. \A p \in Ptr : InList(p) \in Nat /\ InSource(p) \in Nat
    BY CountsAreNumbers DEF ListInv
  <2> QED
    BY <1>1, <1>9, <2>1 DEF Owned
<1>11. live' = [p \in Ptr |-> Owned(p)'] /\ due' = [p \in Ptr |-> InKept(p)']
  BY <1>1, <1>9, <1>10 DEF ListInv
<1> QED
  BY <1>4, <1>6, <1>7, <1>11 DEF ListInv

LEMMA ScanEndKeepsLists ==
  ASSUME ListInv, ScanEnd
  PROVE  ListInv'
<1>1. /\ pc = "scan" /\ it > last /\ last' = insert - 1 /\ pc' = cont
      /\ it' = 1 /\ insert' = 1 /\ end' = 0 /\ marked' = {}
      /\ UNCHANGED <<retires, source, sourceLast, hit, cont, record, live, due>>
  BY DEF ScanEnd, sourceVars
<1>2. it = last + 1 /\ last' \in Nat /\ last' <= last
  BY <1>1, ScanTypes
<1>3. \A i \in 1..last : retires[i] = 0 <=> i > last'
  BY <1>1, <1>2, ScanTypes
<1>4. ArrayTypes'
  BY <1>1, <1>2, ScanTypes, Ranges DEF ListInv, ArrayTypes
<1>5. Stages'
  BY <1>1 DEF ListInv, Stages, Towards
<1>6. Helping' <=> Helping
  BY <1>1 DEF ListInv, Stages, Helping, Towards
<1>7. Gaps'
  <2>1. \A i \in 1..last' : retires'[i] # 0 /\ i \notin 1..0
    BY <1>1, <1>2, <1>3, ScanTypes
  <2> QED
    BY <1>1, <1>6, <2>1 DEF ListInv, Gaps
<1>8. Kept = 1..last' /\ Kept' = 1..last'
  BY <1>1, <1>2, ScanTypes DEF Kept
<1>9. ASSUME NEW p \in Ptr
      PROVE  /\ InKept(p)' = InKept(p)
             /\ InSource(p)' = InSource(p)
             /\ InList(p)' = InList(p)
  <2> DEFINE I == 1..last'
             J == 1..last
  <2>1. I \subseteq J /\ \A i \in J \ I : retires[i] # p
    BY <1>2, <1>3, Ranges, ScanTypes
  <2>2. /\ InKept(p)' = InKept(p) /\ InSource(p)' = InSource(p)
        /\ InList(p) = NumberOf(J, retires, p) /\ InList(p)' = NumberOf(I, retires, p)
    BY <1>1, <1>8 DEF InKept, InSource, InList
  <2> HIDE DEF I, J
  <2>3. NumberOf(J, retires, p) = NumberOf(I, retires, p)
    BY <2>1, NumberWithin
  <2> QED
    BY <2>2, <2>3
<1>10. \A p \in Ptr : Owned(p)' = Owned(p)
  BY <1>1, <1>9 DEF Owned, ListInv, Stages
<1>11. live' = [p \in Ptr |-> Owned(p)'] /\ due' = [p \in Ptr |-> InKept(p)']
  BY <1>1, <1>9, <1>10 DEF ListInv
<1> QED
  BY <1>4, <1>5, <1>7, <1>11 DEF ListInv
\* A record that is kept moves up to the gap.
LEMMA ScanKeepKeepsLists ==
  ASSUME ListInv, ScanKeep
  PROVE  ListInv'
<1>1. /\ pc = "scan" /\ it \in marked \cup (end + 1)..last
      /\ retires' = IF insert = it THEN retires
                    ELSE [[retires EXCEPT ![it] = 0] EXCEPT ![insert] = retires[it]]
      /\ it' = it + 1 /\ insert' = insert + 1
      /\ UNCHANGED <<last, source, sourceLast, hit, pc, cont, record, end, marked,
                     live, due>>
  BY DEF ScanKeep, MovedFrom, sourceVars
<1>2. it \in 1..last /\ insert \in 1..last /\ it \in Place /\ insert \in Place
  BY <1>1, ScanTypes
<1>3. retires[it] # 0 /\ retires[it] \in Ptr /\ it \in Kept
  BY <1>1, <1>2, ScanTypes DEF Kept
<1>4. /\ retires' \in [Place -> Ptr \cup {0}]
      /\ retires'[insert] = retires[it]
      /\ insert # it => retires'[it] = 0 /\ retires[insert] = 0
      /\ \A i \in Place : i # it /\ i # insert => retires'[i] = retires[i]
  BY <1>1, <1>2, <1>3, ScanTypes
<1>5. ArrayTypes'
  BY <1>1, <1>2, <1>4, ScanTypes DEF ListInv, ArrayTypes
<1>6. Stages'
  BY <1>1 DEF ListInv, Stages, Towards
<1>7. Helping' <=> Helping
  BY <1>1 DEF Helping, Towards
<1>8. Gaps'
  <2>1. ASSUME NEW i \in 1..last
        PROVE  retires'[i] = 0 <=> insert < i /\ i <= it
    <3>1. retires[i] = 0 <=> insert <= i /\ i < it
      BY ScanTypes
    <3>2. CASE i = insert
      BY <1>3, <1>4, <3>2, ScanTypes
    <3>3. CASE i = it /\ i # insert
      BY <1>4, <3>3, ScanTypes
    <3>4. CASE i # it /\ i # insert
      BY <1>4, <3>1, <3>4, ScanTypes
    <3> QED
      BY <3>2, <3>3, <3>4
  <2>2. \A i \in 1..last : (insert < i /\ i <= it) <=> i \in insert'..(it' - 1)
    BY <1>1, ScanTypes
  <2> QED
    BY <1>1, <1>7, <2>1, <2>2 DEF ListInv, Gaps
<1>9. CASE insert = it
  <2>1. Kept' = Kept
    BY <1>1, <1>3, <1>9, ScanTypes DEF Kept
  <2>2. \A p : Owned(p)' = Owned(p) /\ InKept(p)' = InKept(p)
    BY <1>1, <1>9, <2>1 DEF Owned, InList, InSource, InKept
  <2> QED
    BY <1>1, <1>5, <1>6, <1>8, <2>2 DEF ListInv
<1>10. CASE insert # it
  <2> DEFINE K == Kept \ {it}
             I == 1..last
             r == retires'
  <2>1. PICK h : h = [retires EXCEPT ![it] = 0]
    OBVIOUS
  <2>2. Kept = K \cup {it} /\ Kept' = K \cup {insert} /\ insert \notin K /\ it \notin K
    BY <1>1, <1>3, <1>10, ScanTypes DEF Kept
  <2>3. /\ \A i \in K : r[i] = retires[i]
        /\ r[insert] = retires[it]
    BY <1>2, <1>4, <2>2, PlacesFinite, ScanTypes DEF ListInv
  <2>4. IsFiniteSet(K)
    BY <2>2, PlacesFinite, FS_Subset DEF ListInv
  <2>5. /\ IsFiniteSet(I) /\ it \in I
        /\ \A i \in I : i # it => h[i] = retires[i]
    BY <1>2, <1>4, <1>10, <2>1, IntervalSize, ScanTypes
  <2>6. /\ IsFiniteSet(I) /\ insert \in I
        /\ \A i \in I : i # insert => r[i] = h[i]
    BY <1>2, <1>4, <1>10, <2>1, IntervalSize, ScanTypes
  <2>7. h[it] = 0 /\ h[insert] = 0
    BY <1>2, <1>4, <1>10, <2>1, ScanTypes
  <2>8. ASSUME NEW p \in Ptr
        PROVE  InKept(p)' = InKept(p) /\ InList(p)' = InList(p) /\ InSource(p)' = InSource(p)
    <3>1. /\ InKept(p) = NumberOf(Kept, retires, p) /\ InKept(p)' = NumberOf(Kept', r, p)
          /\ InList(p) = NumberOf(I, retires, p) /\ InList(p)' = NumberOf(I, r, p)
          /\ InSource(p)' = InSource(p)
      BY <1>1 DEF InKept, InList, InSource
    <3>2. p # 0
      BY Ranges
    <3> HIDE DEF K, I, r
    <3>3. /\ NumberOf(K, retires, p) \in Nat
          /\ NumberOf(Kept, retires, p)
               = NumberOf(K, retires, p) + (IF retires[it] = p THEN 1 ELSE 0)
      BY <2>2, <2>4, NumberGrows
    <3>4. NumberOf(Kept', r, p)
            = NumberOf(K, retires, p) + (IF r[insert] = p THEN 1 ELSE 0)
      BY <2>2, <2>3, <2>4, NumberGrows
    <3>5. /\ NumberOf(I, retires, p) \in Nat /\ NumberOf(I, h, p) \in Nat
          /\ NumberOf(I, h, p) + (IF retires[it] = p THEN 1 ELSE 0)
               = NumberOf(I, retires, p) + (IF h[it] = p THEN 1 ELSE 0)
      BY <2>5, NumberAt
    <3>6. /\ NumberOf(I, r, p) \in Nat
          /\ NumberOf(I, r, p) + (IF h[insert] = p THEN 1 ELSE 0)
               = NumberOf(I, h, p) + (IF r[insert] = p THEN 1 ELSE 0)
      BY <2>6, NumberAt
    <3> QED
      BY <2>3, <2>7, <3>1, <3>2, <3>3, <3>4, <3>5, <3>6
  <2>9. \A p \in Ptr : Owned(p)' = Owned(p)
    BY <1>1, <2>8 DEF Owned
  <2>10. live' = [p \in Ptr |-> Owned(p)'] /\ due' = [p \in Ptr |-> InKept(p)']
    BY <1>1, <2>8, <2>9 DEF ListInv
  <2> QED
    BY <1>5, <1>6, <1>8, <2>10 DEF ListInv
<1> QED
  BY <1>9, <1>10
-----------------------------------------------------------------------------
(* The records of another entry.                                           *)

\* With no scan under way, and no disposer running, what is kept is the list.
LEMMA OutsideScan ==
  ASSUME ListInv, pc \notin {"scan", "busy"}
  PROVE  /\ Kept = 1..last
         /\ \A i \in 1..last : retires[i] # 0
         /\ \A p \in Ptr : /\ live[p] = InList(p) + InSource(p)
                           /\ due[p] = InList(p)
                           /\ InList(p) \in Nat /\ InSource(p) \in Nat
<1>1. it = 1 /\ insert = 1 /\ end = 0 /\ marked = {} /\ last \in Nat
  BY ScanTypes DEF ListInv, Stages
<1>2. Kept = 1..last
  BY <1>1 DEF Kept
<1>3. \A i \in 1..last : retires[i] # 0
  BY <1>1, ScanTypes
<1>4. ASSUME NEW p \in Ptr
      PROVE  /\ live[p] = InList(p) + InSource(p)
             /\ due[p] = InList(p)
             /\ InList(p) \in Nat /\ InSource(p) \in Nat
  <2>1. InList(p) \in Nat /\ InSource(p) \in Nat
    BY CountsAreNumbers DEF ListInv
  <2> QED
    BY <1>2, <2>1 DEF ListInv, Owned, InKept, InList
<1> QED
  BY <1>2, <1>3, <1>4

LEMMA SourceIsLeftKeepsLists ==
  ASSUME ListInv, NEW n \in Place, NEW left \in [1..n -> Ptr], SourceIsLeft(left, n)
  PROVE  ListInv'
<1>1. /\ pc = "idle" /\ sourceLast = 0 /\ sourceLast' = n
      /\ source' = [i \in Place |-> IF i <= n THEN left[i] ELSE 0]
      /\ live' = [p \in Ptr |-> live[p] + Count(left, n, p)]
      /\ UNCHANGED <<retires, last, hit, pc, cont, record, scanVars, due>>
  BY DEF SourceIsLeft
<1>2. n \in Nat /\ n <= MaxRetired
  BY Ranges
<1>3. /\ \A i \in 1..n : source'[i] = left[i] /\ source'[i] \in Ptr /\ source'[i] # 0
      /\ source' \in [Place -> Ptr \cup {0}]
  BY <1>1, <1>2, Ranges
<1>4. ArrayTypes'
  BY <1>1, <1>2, <1>3, Ranges DEF ListInv, ArrayTypes, scanVars
<1>5. Stages'
  BY <1>1 DEF ListInv, Stages, Towards, scanVars
<1>6. Gaps'
  BY <1>1, <1>3 DEF ListInv, Gaps, Helping, Towards, scanVars
<1>7. \A p : InList(p)' = InList(p) /\ InKept(p)' = InKept(p)
  BY <1>1 DEF InList, InKept, Kept, scanVars
<1>8. ASSUME NEW p \in Ptr
      PROVE  Owned(p)' = live[p] + Count(left, n, p)
  <2>1. InSource(p) = 0
    <3>1. {i \in 1..sourceLast : source[i] = p} = {}
      BY <1>1
    <3> QED
      BY <3>1, FS_EmptySet DEF InSource, NumberOf
  <2>2. InSource(p)' = Count(left, n, p)
    <3>1. NumberOf(1..n, source', p) = NumberOf(1..n, left, p)
      <4> DEFINE I == 1..n
                 g == source'
      <4>1. \A i \in I : g[i] = left[i]
        BY <1>3
      <4> HIDE DEF I, g
      <4>2. NumberOf(I, g, p) = NumberOf(I, left, p)
        BY <4>1, NumberSame
      <4> QED
        BY <4>2 DEF I, g
    <3>2. InSource(p)' = NumberOf(1..n, source', p)
      BY <1>1 DEF InSource
    <3> QED
      BY <3>1, <3>2, CountIsNumber
  <2>3. live[p] = InList(p) /\ InList(p) \in Nat
    BY <1>1, <2>1, OutsideScan
  <2>4. Count(left, n, p) \in Nat
    BY <1>2, IntervalSize, NumberPositive, CountIsNumber
  <2> QED
    BY <1>1, <1>7, <2>2, <2>3, <2>4 DEF Owned
<1>9. live' = [p \in Ptr |-> Owned(p)'] /\ due' = [p \in Ptr |-> InKept(p)']
  BY <1>1, <1>7, <1>8 DEF ListInv
<1> QED
  BY <1>4, <1>5, <1>6, <1>9 DEF ListInv

LEMMA HelpMoveKeepsLists ==
  ASSUME ListInv, HelpMove
  PROVE  ListInv'
<1>1. /\ pc \in {"move", "scanned"} /\ pc' = "move"
      /\ hit > 0 /\ last < MaxRetired
      /\ retires' = [retires EXCEPT ![last + 1] = source[hit]] /\ last' = last + 1
      /\ source' = [source EXCEPT ![hit] = 0] /\ hit' = hit - 1
      /\ due' = [due EXCEPT ![source[hit]] = @ + 1]
      /\ UNCHANGED <<sourceLast, cont, record, scanVars, live>>
  BY DEF HelpMove, MovedFrom
<1>2. Helping /\ Helping'
  BY <1>1 DEF Helping, Towards
<1>3. /\ hit \in 1..sourceLast /\ hit \in Place /\ hit \in Nat /\ sourceLast \in Nat
      /\ 1..sourceLast \subseteq Place
      /\ source \in [Place -> Ptr \cup {0}]
      /\ \A i \in 1..sourceLast : source[i] = 0 <=> i > hit
  BY <1>1, <1>2, Ranges DEF ListInv, ArrayTypes, Gaps
<1>4. PICK q \in Ptr : q = source[hit]
  BY <1>3
<1>5. retires' = [retires EXCEPT ![last + 1] = q]
  BY <1>1, <1>4
<1>6. /\ source'[hit] = 0
      /\ \A i \in 1..sourceLast : i # hit => source'[i] = source[i]
      /\ source' \in [Place -> Ptr \cup {0}]
  BY <1>1, <1>3
<1>7. ArrayTypes'
  <2>1. hit' \in 0..sourceLast'
    BY <1>1, <1>3
  <2> QED
    BY <1>1, <1>5, <1>6, <2>1, Pushed DEF ListInv, ArrayTypes
<1>8. Stages'
  BY <1>1 DEF ListInv, Stages, Towards, scanVars
<1>9. Gaps'
  <2>1. \A i \in 1..sourceLast : source'[i] = 0 <=> i > hit - 1
    BY <1>3, <1>6
  <2>2. \A i \in 1..last' : retires'[i] = 0 <=> i \in insert'..(it' - 1)
    BY <1>1, <1>5, Pushed
  <2> QED
    BY <1>1, <1>2, <2>1, <2>2 DEF Gaps
<1>10. \A p \in Ptr : /\ InList(p) \in Nat /\ InKept(p) \in Nat
                      /\ InList(p)' = InList(p) + (IF q = p THEN 1 ELSE 0)
                      /\ InKept(p)' = InKept(p) + (IF q = p THEN 1 ELSE 0)
  BY <1>1, <1>5, Pushed, Zenon
<1>11. \A p \in Ptr : /\ InSource(p)' \in Nat
                      /\ InSource(p) = InSource(p)' + (IF q = p THEN 1 ELSE 0)
  <2> DEFINE I == 1..sourceLast
             g == source'
  <2>1. /\ IsFiniteSet(I) /\ hit \in I
        /\ \A i \in I : i # hit => g[i] = source[i]
    BY <1>3, <1>6, IntervalSize
  <2>2. \A p : InSource(p) = NumberOf(I, source, p) /\ InSource(p)' = NumberOf(I, g, p)
    BY <1>1 DEF InSource
  <2>3. g[hit] = 0 /\ source[hit] = q /\ \A p \in Ptr : p # 0
    BY <1>4, <1>6, Ranges
  <2> HIDE DEF I, g
  <2>4. \A p : /\ NumberOf(I, source, p) \in Nat /\ NumberOf(I, g, p) \in Nat
               /\ NumberOf(I, g, p) + (IF source[hit] = p THEN 1 ELSE 0)
                    = NumberOf(I, source, p) + (IF g[hit] = p THEN 1 ELSE 0)
    BY <2>1, NumberAt
  <2> QED
    BY <2>2, <2>3, <2>4
<1>12. live' = [p \in Ptr |-> Owned(p)']
  <2>1. \A p \in Ptr : Owned(p)' = InList(p)' + InSource(p)' /\ Owned(p) = InList(p) + InSource(p)
    <3>1. \A p \in Ptr : InList(p)' \in Nat
      BY <1>10
    <3> QED
      BY <1>1, <1>10, <1>11, <3>1 DEF Owned
  <2>2. \A p \in Ptr : Owned(p)' = Owned(p)
    BY <1>10, <1>11, <2>1
  <2> QED
    BY <1>1, <2>2 DEF ListInv
<1>13. due' = [p \in Ptr |-> InKept(p)']
  <2>1. due' = [p \in Ptr |-> IF p = q THEN due[q] + 1 ELSE due[p]]
    BY <1>1, <1>4 DEF ListInv
  <2>2. \A p \in Ptr : due[p] = InKept(p)
    BY DEF ListInv
  <2>3. \A p \in Ptr : (IF p = q THEN due[q] + 1 ELSE due[p]) = InKept(p)'
    BY <1>10, <2>2
  <2> QED
    BY <2>1, <2>3
<1> QED
  BY <1>7, <1>8, <1>9, <1>12, <1>13 DEF ListInv
\* No count changes when a list is cut behind its last record.
LEMMA SourceCut ==
  ASSUME ListInv, Helping, hit > 0 \/ sourceLast' = 0, hit = sourceLast',
         UNCHANGED source
  PROVE  /\ sourceLast' \in 0..MaxRetired
         /\ \A i \in 1..sourceLast' : source[i] # 0
         /\ \A p \in Ptr : InSource(p)' = InSource(p)
<1>1. /\ sourceLast \in Nat /\ sourceLast' \in Nat /\ sourceLast' <= sourceLast
      /\ sourceLast <= MaxRetired
      /\ \A i \in 1..sourceLast : source[i] = 0 <=> i > sourceLast'
  BY Ranges DEF ListInv, ArrayTypes, Gaps
<1>2. ASSUME NEW p \in Ptr
      PROVE  InSource(p)' = InSource(p)
  <2> DEFINE I == 1..sourceLast'
             J == 1..sourceLast
  <2>1. I \subseteq J /\ \A i \in J \ I : source[i] # p
    BY <1>1, Ranges
  <2>2. InSource(p) = NumberOf(J, source, p) /\ InSource(p)' = NumberOf(I, source, p)
    BY DEF InSource
  <2> HIDE DEF I, J
  <2>3. NumberOf(J, source, p) = NumberOf(I, source, p)
    BY <2>1, NumberWithin
  <2> QED
    BY <2>2, <2>3
<1> QED
  BY <1>1, <1>2, Ranges

LEMMA HelpStopKeepsLists ==
  ASSUME ListInv, HelpStop
  PROVE  ListInv'
<1>1. /\ pc = "scanned" /\ pc' = "idle" /\ sourceLast' = hit /\ hit' = 0
      /\ UNCHANGED <<retires, last, source, cont, record, scanVars, live, due>>
  BY DEF HelpStop
<1>2. Helping /\ ~ Helping'
  BY <1>1 DEF Helping, Towards
<1>3. hit \in Nat
  BY ScanTypes
<1>4. /\ sourceLast' \in 0..MaxRetired
      /\ \A i \in 1..sourceLast' : source[i] # 0
      /\ \A p \in Ptr : InSource(p)' = InSource(p)
  <2>1. hit > 0 \/ sourceLast' = 0
    BY <1>1, <1>3
  <2> QED
    BY <1>1, <1>2, <2>1, SourceCut
<1>5. ArrayTypes'
  BY <1>1, <1>4 DEF ListInv, ArrayTypes, scanVars
<1>6. Stages'
  BY <1>1 DEF ListInv, Stages, Towards, scanVars
<1>7. Gaps'
  BY <1>1, <1>2, <1>4 DEF ListInv, Gaps, scanVars
<1>8. \A p \in Ptr : Owned(p)' = Owned(p) /\ InKept(p)' = InKept(p)
  BY <1>1, <1>4 DEF Owned, InList, InKept, Kept, scanVars
<1> QED
  BY <1>1, <1>5, <1>6, <1>7, <1>8 DEF ListInv

LEMMA HelpDrainedKeepsLists ==
  ASSUME ListInv, HelpDrained
  PROVE  ListInv'
<1>1. /\ pc = "move" /\ pc' = "begin" /\ cont' = "idle"
      /\ hit = 0 /\ hit' = 0 /\ sourceLast' = 0
      /\ live' = Cleared(source, sourceLast)
      /\ UNCHANGED <<retires, last, source, record, scanVars, due>>
  BY DEF HelpDrained, CallScan
<1>2. Helping /\ ~ Helping'
  BY <1>1 DEF Helping, Towards
<1>3. \A i \in 1..sourceLast' : source[i] # 0
  BY <1>1
<1>4. \A p \in Ptr : InSource(p)' = InSource(p) /\ InSource(p)' = 0
  <2>1. \A p \in Ptr : InSource(p)' = InSource(p)
    BY <1>1, <1>2, SourceCut
  <2>2. \A p \in Ptr : InSource(p)' = 0
    <3>1. \A p : {i \in 1..sourceLast' : source'[i] = p} = {}
      BY <1>1
    <3> QED
      BY <3>1, FS_EmptySet DEF InSource, NumberOf
  <2> QED
    BY <2>1, <2>2
<1>5. ArrayTypes'
  BY <1>1, Ranges DEF ListInv, ArrayTypes, scanVars
<1>6. Stages'
  BY <1>1 DEF ListInv, Stages, Towards, scanVars
<1>7. Gaps'
  BY <1>1, <1>2, <1>3 DEF ListInv, Gaps, scanVars
<1>8. \A p \in Ptr : /\ InList(p)' = InList(p) /\ InKept(p)' = InKept(p)
                     /\ live[p] = InList(p) + InSource(p)
                     /\ InList(p) \in Nat
  BY <1>1, OutsideScan DEF InList, InKept, Kept, scanVars
<1>9. live' = [p \in Ptr |-> live[p] - InSource(p)]
  BY <1>1, CountIsNumber DEF Cleared, InSource
<1>10. \A p \in Ptr : live[p] - InSource(p) = Owned(p)'
  BY <1>1, <1>4, <1>8 DEF Owned
<1>11. live' = [p \in Ptr |-> Owned(p)'] /\ due' = [p \in Ptr |-> InKept(p)']
  BY <1>1, <1>8, <1>9, <1>10 DEF ListInv
<1> QED
  BY <1>5, <1>6, <1>7, <1>11 DEF ListInv

LEMMA ClearKeepsLists ==
  ASSUME ListInv, Clear
  PROVE  ListInv'
<1>1. /\ pc = "idle" /\ pc' = "end" /\ last' = 0 /\ sourceLast' = 0
      /\ live' = [p \in Ptr |-> Cleared(retires, last)[p] - Count(source, sourceLast, p)]
      /\ due' = [p \in Ptr |-> 0]
      /\ UNCHANGED <<retires, source, hit, cont, record, scanVars>>
  BY DEF Clear
<1>2. it = 1 /\ insert = 1 /\ end = 0 /\ marked = {} /\ hit = 0
  BY <1>1 DEF ListInv, Stages, Gaps, Helping, Towards
<1>3. ArrayTypes'
  BY <1>1, <1>2, Ranges DEF ListInv, ArrayTypes, scanVars
<1>4. Stages'
  BY <1>1 DEF ListInv, Stages, Towards, scanVars
<1>5. Gaps'
  BY <1>1, <1>2 DEF Gaps, Helping, Towards, scanVars
<1>6. \A p : InList(p)' = 0 /\ InSource(p)' = 0 /\ InKept(p)' = 0
  <2>1. 1..last' = {} /\ 1..sourceLast' = {} /\ Kept' = {}
    BY <1>1, <1>2 DEF Kept, scanVars
  <2>2. \A f, p : NumberOf({}, f, p) = 0
    <3>1. \A f, p : {i \in {} : f[i] = p} = {}
      OBVIOUS
    <3> QED
      BY <3>1, FS_EmptySet DEF NumberOf
  <2> QED
    BY <2>1, <2>2 DEF InList, InSource, InKept
<1>7. \A p \in Ptr : Owned(p)' = 0
  BY <1>1, <1>6 DEF Owned
<1>8. \A p \in Ptr : Cleared(retires, last)[p] - Count(source, sourceLast, p) = 0
  <2>1. \A p \in Ptr : /\ live[p] = InList(p) + InSource(p)
                       /\ InList(p) \in Nat /\ InSource(p) \in Nat
    BY <1>1, OutsideScan
  <2>2. \A p \in Ptr : Cleared(retires, last)[p] = live[p] - InList(p)
    BY CountIsNumber DEF Cleared, InList
  <2>3. \A p : Count(source, sourceLast, p) = InSource(p)
    BY CountIsNumber DEF InSource
  <2> QED
    BY <2>1, <2>2, <2>3
<1>9. live' = [p \in Ptr |-> Owned(p)'] /\ due' = [p \in Ptr |-> InKept(p)']
  BY <1>1, <1>6, <1>7, <1>8
<1> QED
  BY <1>3, <1>4, <1>5, <1>9 DEF ListInv
-----------------------------------------------------------------------------
(* The steps.                                                              *)

\* A slot is taken, and nothing else happens.
LEMMA ListsStay ==
  ASSUME ListInv,
         UNCHANGED <<retires, last, sourceVars, pc, cont, record, scanVars, live, due>>
  PROVE  ListInv'
<1>1. \A p : Owned(p)' = Owned(p) /\ InKept(p)' = InKept(p)
  BY DEF Owned, InList, InSource, InKept, Kept, sourceVars, scanVars
<1>2. ArrayTypes' /\ Stages' /\ Gaps'
  BY DEF ListInv, ArrayTypes, Stages, Gaps, Helping, Towards, sourceVars, scanVars
<1> QED
  BY <1>1, <1>2 DEF ListInv

LEMMA ControlKeepsLists ==
  ASSUME ListInv,
         \/ \E s \in Slot : ReleaseHP(s)
         \/ DestructThreadEntry \/ \E p \in Ptr : RetireFull(p)
         \/ ScanNothing \/ HelpFull
  PROVE  ListInv'
<1>1. CASE \E s \in Slot : ReleaseHP(s) /\ UNCHANGED <<pc, cont>>
  BY <1>1, ListsStay DEF ReleaseHP
<1>2. CASE \/ \E s \in Slot : ReleaseHP(s) /\ pc = "idle" /\ CallScan("helpScan")
           \/ DestructThreadEntry \/ \E p \in Ptr : RetireFull(p)
           \/ ScanNothing \/ HelpFull
  <2>1. /\ UNCHANGED <<retires, last, sourceVars, scanVars, live, due>>
        /\ pc # "busy" /\ pc' # "busy"
        /\ Helping' <=> Helping
        /\ Stages'
    <3>1. CASE (\E s \in Slot : ReleaseHP(s) /\ pc = "idle" /\ CallScan("helpScan"))
               \/ DestructThreadEntry
      BY <3>1 DEF ReleaseHP, DestructThreadEntry, CallScan, ListInv, Stages,
                  Helping, Towards, scanVars
    <3>2. CASE \E p \in Ptr : RetireFull(p)
      BY <3>2 DEF RetireFull, CallScan, ListInv, Stages, Helping, Towards, scanVars
    <3>3. CASE ScanNothing
      BY <3>3 DEF ScanNothing, ListInv, Stages, Helping, Towards, scanVars
    <3>4. CASE HelpFull
      BY <3>4 DEF HelpFull, CallScan, ListInv, Stages, Helping, Towards, scanVars
    <3> QED
      BY <1>2, <3>1, <3>2, <3>3, <3>4
  <2> QED
    BY <2>1, OnlyControl DEF ListInv
<1> QED
  BY <1>1, <1>2 DEF ReleaseHP

LEMMA RetireKeepsLists ==
  ASSUME ListInv, RetireGoesOn \/ \E p \in Ptr : Retire(p)
  PROVE  ListInv'
<1>1. ASSUME NEW p \in Ptr, Retire(p)
      PROVE  ListInv'
  <2>1. /\ PushBack(p)
        /\ UNCHANGED <<sourceVars, pc, cont, record, scanVars>>
    BY <1>1 DEF Retire
  <2>2. Stages' /\ (Helping' <=> Helping) /\ (pc' = "busy" <=> pc = "busy")
    BY <2>1 DEF ListInv, Stages, Helping, Towards, scanVars
  <2> QED
    BY <2>1, <2>2, PushKeepsLists
<1>2. ASSUME RetireGoesOn, last = MaxRetired /\ CallScan("retire"),
             UNCHANGED <<retires, last, record, live, due>>
      PROVE  ListInv'
  <2>1. pc = "retire" /\ pc' = "begin" /\ cont' = "retire" /\ UNCHANGED <<sourceVars, scanVars>>
    BY <1>2 DEF RetireGoesOn, CallScan
  <2>2. Stages' /\ (Helping' <=> Helping)
    BY <1>2, <2>1 DEF ListInv, Stages, Helping, Towards, scanVars
  <2> QED
    BY <1>2, <2>1, <2>2, OnlyControl DEF ListInv
<1>3. ASSUME RetireGoesOn, PushBack(record), record' = 0, pc' = "idle", UNCHANGED cont
      PROVE  ListInv'
  <2>1. pc = "retire" /\ record \in Ptr /\ UNCHANGED <<sourceVars, scanVars>>
    BY <1>3 DEF RetireGoesOn, ListInv, Stages, Towards
  <2>2. Stages' /\ (Helping' <=> Helping) /\ (pc' = "busy" <=> pc = "busy")
    BY <1>3, <2>1 DEF ListInv, Stages, Helping, Towards, scanVars
  <2> QED
    BY <1>3, <2>1, <2>2, PushKeepsLists
<1> QED
  BY <1>1, <1>2, <1>3 DEF RetireGoesOn

LEMMA HelpBeginKeepsLists ==
  ASSUME ListInv, HelpBegin
  PROVE  ListInv'
<1>1. /\ pc = "helpScan" /\ UNCHANGED <<retires, last, source, sourceLast, cont, record,
                                        scanVars, live, due>>
      /\ \/ pc' = "idle" /\ hit' = hit
         \/ pc' = "move" /\ hit' = sourceLast
  BY DEF HelpBegin
<1>2. /\ ~ Helping /\ hit = 0 /\ \A i \in 1..sourceLast : source[i] # 0
      /\ (pc' = "idle" => ~ Helping') /\ (pc' = "move" => Helping')
  BY <1>1 DEF ListInv, Gaps, Helping, Towards
<1>3. ArrayTypes'
  BY <1>1, Ranges DEF ListInv, ArrayTypes, scanVars
<1>4. Stages'
  BY <1>1 DEF ListInv, Stages, Towards, scanVars
<1>5. Gaps'
  <2>1. \A i \in 1..sourceLast : ~ (i > sourceLast)
    BY ScanTypes
  <2> QED
    BY <1>1, <1>2, <2>1 DEF ListInv, Gaps, scanVars
<1>6. \A p : Owned(p)' = Owned(p) /\ InKept(p)' = InKept(p)
  BY <1>1 DEF Owned, InList, InSource, InKept, Kept, scanVars
<1> QED
  BY <1>1, <1>3, <1>4, <1>5, <1>6 DEF ListInv

LEMMA ListStep ==
  ASSUME ListInv, [Next]_vars
  PROVE  ListInv'
<1>1. CASE UNCHANGED vars
  BY <1>1, ListsStay DEF vars
<1>2. CASE AcquireHP
  BY <1>2, ListsStay DEF AcquireHP
<1> QED
  BY <1>1, <1>2, ControlKeepsLists, RetireKeepsLists, ScanBeginKeepsLists,
     ScanDisposeKeepsLists, ScanDisposedKeepsLists, ScanKeepKeepsLists,
     ScanEndKeepsLists, SourceIsLeftKeepsLists, HelpBeginKeepsLists,
     HelpMoveKeepsLists, HelpStopKeepsLists, HelpDrainedKeepsLists,
     ClearKeepsLists
  DEF Next

LEMMA SlotStep ==
  ASSUME SlotInv, [Next]_vars
  PROVE  SlotInv'
<1>1. CASE UNCHANGED slotVars
  BY <1>1 DEF SlotInv, FreeListIsExact, FreeSlots, slotVars
<1>2. CASE DestructThreadEntry
  <2>1. next' = Linked /\ free' = 1 /\ held' = {}
    BY <1>2 DEF DestructThreadEntry
  <2>2. Linked' = Linked
    BY DEF Linked
  <2>3. (next = Linked /\ free = 1 /\ held = {})'
    BY <2>1, <2>2
  <2>4. (next = Linked /\ free = 1 /\ held = {} => SlotInv)'
    BY AllSlotsFree, PTL
  <2> QED
    BY <2>3, <2>4
<1>3. UNCHANGED slotVars \/ AcquireHP \/ (\E s \in Slot : ReleaseHP(s)) \/ DestructThreadEntry
  BY DEF Next, vars, Retire, RetireFull, RetireGoesOn, ScanNothing, ScanBegin,
         ScanDispose, ScanDisposed, ScanKeep, ScanEnd, SourceIsLeft, HelpBegin,
         HelpMove, HelpFull, HelpStop, HelpDrained, Clear
<1> QED
  BY <1>1, <1>2, <1>3, AcquireKeepsSlots, ReleaseKeepsSlots

LEMMA InitInv ==
  ASSUME Init
  PROVE  IInv
<1>1. SlotInv
  BY AllSlotsFree DEF Init
<1> QED
  BY <1>1, ListInitInv DEF IInv

LEMMA NextInv ==
  ASSUME IInv, [Next]_vars
  PROVE  IInv'
BY SlotStep, ListStep DEF IInv

-----------------------------------------------------------------------------
\* The variables keep their types: no array is read or written outside of its
\* places, in no step of scan() and helpScan().
THEOREM TypeCorrect == Spec => []TypeOK
<1>1. IInv => TypeOK
  BY DEF IInv, SlotInv, ListInv, ArrayTypes, TypeOK
<1> QED
  BY InitInv, NextInv, <1>1, PTL DEF Spec

\* The free list that runs through the slots has exactly the slots that no
\* guard holds, whatever the order in which guards are released.
THEOREM FreeListCorrect == Spec => []FreeListIsExact
<1>1. IInv => FreeListIsExact
  BY DEF IInv, SlotInv
<1> QED
  BY InitInv, NextInv, <1>1, PTL DEF Spec

\* Sorting, compaction and adoption lose no record and dispose of none twice.
THEOREM RecordsCorrect == Spec => []RecordsAreKept
<1>1. IInv => RecordsAreKept
  BY CountIsNumber DEF IInv, ListInv, RecordsAreKept, Owned, InList, InSource
<1> QED
  BY InitInv, NextInv, <1>1, PTL DEF Spec

\* A scan leaves one record for each announced pointer and whatever has come
\* since then, as the sets of the domain model have it.
THEOREM DueCorrect == Spec => []KeepsWhatIsDue
<1>1. ASSUME IInv
      PROVE  KeepsWhatIsDue
  <2>1. SUFFICES ASSUME pc \notin {"begin", "scan", "busy"}
                 PROVE  /\ \A p \in Ptr : due[p] = Count(retires, last, p)
                        /\ \A i \in 1..last : retires[i] # 0
    BY DEF KeepsWhatIsDue
  <2>2. \A p : Count(retires, last, p) = InList(p)
    BY CountIsNumber DEF InList
  <2> QED
    BY <1>1, <2>1, <2>2, OutsideScan DEF IInv
<1> QED
  BY InitInv, NextInv, <1>1, PTL DEF Spec
-----------------------------------------------------------------------------
(* A sorting exists.                                                       *)

\* Above the place k the elements move up by one: as many of them are p.
LEMMA NumberInserted ==
  ASSUME NEW m \in Nat, NEW k \in 1..(m + 1), NEW s, NEW t, NEW p,
         \A i \in 1..(m + 1) : /\ i < k => t[i] = s[i]
                               /\ i > k => t[i] = s[i - 1]
  PROVE  NumberOf(1..(m + 1), t, p) = NumberOf(1..m, s, p) + (IF t[k] = p THEN 1 ELSE 0)
<1> DEFINE A == {i \in 1..m : s[i] = p}
           B == {i \in 1..(m + 1) : i # k /\ t[i] = p}
           g == [i \in A |-> IF i < k THEN i ELSE i + 1]
<1>1. IsFiniteSet(A) /\ IsFiniteSet(B)
  <2>1. A \subseteq 1..m /\ B \subseteq 1..(m + 1) /\ m + 1 \in Nat
    OBVIOUS
  <2> HIDE DEF A, B
  <2> QED
    BY <2>1, IntervalSize, FS_Subset
<1>2. g \in [A -> B]
  <2>1. ASSUME NEW i \in A
        PROVE  (IF i < k THEN i ELSE i + 1) \in B
    <3>1. i \in 1..m /\ s[i] = p
      OBVIOUS
    <3>2. CASE i < k
      <4>1. i \in 1..(m + 1) /\ i # k /\ t[i] = s[i]
        BY <3>1, <3>2
      <4> QED
        BY <3>1, <3>2, <4>1
    <3>3. CASE ~ (i < k)
      <4>1. i + 1 \in 1..(m + 1) /\ i + 1 > k /\ (i + 1) - 1 = i
        BY <3>1, <3>3
      <4>2. t[i + 1] = s[i]
        BY <4>1
      <4> QED
        BY <3>1, <3>3, <4>1, <4>2
    <3> QED
      BY <3>2, <3>3
  <2> QED
    BY <2>1
<1>3. \A a, b \in A : g[a] = g[b] => a = b
  OBVIOUS
<1>4. ASSUME NEW j \in B
      PROVE  \E i \in A : g[i] = j
  <2>1. CASE j < k
    <3>1. j \in 1..m /\ s[j] = p
      BY <2>1
    <3> QED
      BY <2>1, <3>1
  <2>2. CASE j > k
    <3>1. j - 1 \in 1..m /\ s[j - 1] = p /\ ~ (j - 1 < k) /\ (j - 1) + 1 = j
      BY <2>2
    <3> QED
      BY <3>1
  <2> QED
    BY <2>1, <2>2
<1>5. Cardinality(A) = Cardinality(B)
  <2> HIDE DEF A, B, g
  <2>1. g \in Bijection(A, B)
    BY <1>2, <1>3, <1>4 DEF Bijection, Injection, Surjection, IsInjective
  <2>2. ExistsBijection(A, B)
    BY <2>1 DEF ExistsBijection
  <2> QED
    BY <1>1, <2>2, FS_Bijection
<1>6. {i \in 1..(m + 1) : t[i] = p} = IF t[k] = p THEN B \cup {k} ELSE B
  OBVIOUS
<1>7. k \notin B
  OBVIOUS
<1>8. NumberOf(1..m, s, p) = Cardinality(A)
  BY DEF NumberOf
<1>9. NumberOf(1..(m + 1), t, p) = Cardinality(IF t[k] = p THEN B \cup {k} ELSE B)
  BY <1>6 DEF NumberOf
<1> HIDE DEF A, B, g
<1>10. Cardinality(B \cup {k}) = Cardinality(B) + 1 /\ Cardinality(B) \in Nat
  BY <1>1, <1>7, FS_AddElement, FS_CardinalityType
<1> QED
  BY <1>5, <1>8, <1>9, <1>10

\* One more record finds its place in what is sorted.
LEMMA InsertSorted ==
  ASSUME NEW m \in Nat, NEW list, \A i \in 1..(m + 1) : list[i] \in Ptr,
         NEW s \in Sortings(list, m)
  PROVE  \E t : t \in Sortings(list, m + 1)
<1> DEFINE x == list[m + 1]
           Above == {i \in 1..(m + 1) : i = m + 1 \/ s[i] > x}
<1>1. /\ s \in [1..m -> {list[i] : i \in 1..m}]
      /\ \A i, j \in 1..m : i < j => s[i] <= s[j]
      /\ \A p \in Ptr : NumberOf(1..m, s, p) = NumberOf(1..m, list, p)
  BY CountIsNumber DEF Sortings, Ascending
<1>2. x \in Nat /\ (\A i \in 1..m : s[i] \in Nat /\ s[i] \in {list[j] : j \in 1..m})
  <2>1. \A i \in 1..m : list[i] \in Nat
    BY Ranges
  <2>2. \A i \in 1..m : s[i] \in {list[j] : j \in 1..m}
    BY <1>1
  <2>3. \A y \in {list[j] : j \in 1..m} : y \in Nat
    BY <2>1
  <2>4. m + 1 \in 1..(m + 1)
    OBVIOUS
  <2>5. x \in Nat
    BY <2>4, Ranges
  <2> QED
    BY <2>2, <2>3, <2>5
<1>3. PICK k \in Above : \A i \in Above : k <= i
  <2>1. Above \in SUBSET Nat /\ m + 1 \in Above
    OBVIOUS
  <2> HIDE DEF Above
  <2> QED
    BY <2>1, LeastNumber
<1>4. /\ k \in 1..(m + 1)
      /\ \A i \in 1..m : i < k => s[i] <= x
      /\ \A i \in 1..m : i >= k => s[i] >= x
  <2>1. k \in 1..(m + 1) /\ (k = m + 1 \/ s[k] > x)
    BY <1>3
  <2>2. ASSUME NEW i \in 1..m, i < k
        PROVE  s[i] <= x
    <3>1. i \notin Above
      BY <1>3, <2>1, <2>2
    <3> QED
      BY <1>2, <3>1
  <2>3. ASSUME NEW i \in 1..m, i >= k
        PROVE  s[i] >= x
    <3>1. k \in 1..m /\ s[k] > x
      BY <2>1, <2>3
    <3>2. s[k] <= s[i]
      BY <1>1, <1>2, <2>3, <3>1
    <3> QED
      BY <1>2, <3>1, <3>2
  <2> QED
    BY <2>1, <2>2, <2>3
<1> HIDE DEF Above
<1> DEFINE t == [i \in 1..(m + 1) |-> IF i < k THEN s[i] ELSE IF i = k THEN x ELSE s[i - 1]]
<1>5. /\ t[k] = x
      /\ \A i \in 1..(m + 1) : i < k => t[i] = s[i] /\ i \in 1..m
      /\ \A i \in 1..(m + 1) : i > k => t[i] = s[i - 1] /\ i - 1 \in 1..m
  BY <1>4
<1>6. t \in [1..(m + 1) -> {list[i] : i \in 1..(m + 1)}]
  <2>1. ASSUME NEW i \in 1..(m + 1)
        PROVE  t[i] \in {list[j] : j \in 1..(m + 1)}
    <3>1. i = k \/ \E j \in 1..m : t[i] = s[j]
      BY <1>4, <1>5
    <3>2. {list[j] : j \in 1..m} \subseteq {list[j] : j \in 1..(m + 1)}
      OBVIOUS
    <3>3. x \in {list[j] : j \in 1..(m + 1)}
      OBVIOUS
    <3> HIDE DEF t, x
    <3> QED
      BY <1>2, <1>5, <3>1, <3>2, <3>3
  <2>2. t = [i \in 1..(m + 1) |-> t[i]]
    OBVIOUS
  <2> HIDE DEF t
  <2> QED
    BY <2>1, <2>2
<1> HIDE DEF t, x
<1>7. Ascending(t, m + 1)
  <2> SUFFICES ASSUME NEW i \in 1..(m + 1), NEW j \in 1..(m + 1), i < j
               PROVE  t[i] <= t[j]
    BY DEF Ascending
  <2>1. CASE j < k
    BY <1>1, <1>4, <1>5, <2>1
  <2>2. CASE j = k
    BY <1>2, <1>4, <1>5, <2>2
  <2>3. CASE j > k /\ i < k
    <3>1. t[i] = s[i] /\ i \in 1..m /\ t[j] = s[j - 1] /\ j - 1 \in 1..m /\ i < j - 1 + 1
      BY <1>4, <1>5, <2>3
    <3>2. i = j - 1 \/ s[i] <= s[j - 1]
      BY <1>1, <3>1
    <3> QED
      BY <1>2, <3>1, <3>2
  <2>4. CASE j > k /\ i = k
    <3>1. t[j] = s[j - 1] /\ j - 1 \in 1..m /\ j - 1 >= k
      BY <1>4, <1>5, <2>4
    <3> QED
      BY <1>2, <1>4, <1>5, <2>4, <3>1
  <2>5. CASE i > k
    <3>1. /\ t[i] = s[i - 1] /\ i - 1 \in 1..m /\ t[j] = s[j - 1] /\ j - 1 \in 1..m
          /\ i - 1 < j - 1
      BY <1>4, <1>5, <2>5
    <3> QED
      BY <1>1, <3>1
  <2> QED
    BY <1>4, <2>1, <2>2, <2>3, <2>4, <2>5
<1>8. ASSUME NEW p \in Ptr
      PROVE  NumberOf(1..(m + 1), t, p) = NumberOf(1..(m + 1), list, p)
  <2>1. NumberOf(1..(m + 1), t, p)
          = NumberOf(1..m, s, p) + (IF x = p THEN 1 ELSE 0)
    BY <1>4, <1>5, NumberInserted
  <2>2. NumberOf(1..(m + 1), list, p)
          = NumberOf(1..m, list, p) + (IF x = p THEN 1 ELSE 0)
    <3>1. m + 1 \in 1..(m + 1) /\ list[m + 1] = x
      BY DEF x
    <3> QED
      BY <3>1, NumberInserted
  <2> QED
    BY <1>1, <2>1, <2>2
<1> QED
  BY <1>6, <1>7, <1>8, CountIsNumber DEF Sortings

\* Whatever is retired, std::sort() returns: scan() always goes on.
THEOREM SortingExists ==
  ASSUME NEW n \in Nat, NEW list, \A i \in 1..n : list[i] \in Ptr
  PROVE  Sortings(list, n) # {}
<1> DEFINE Bad == {m \in 0..n : Sortings(list, m) = {}}
<1>1. SUFFICES Bad = {}
  <2>1. n \in 0..n
    OBVIOUS
  <2> QED
    BY <1>1, <2>1
<1>2. SUFFICES ASSUME Bad # {}
               PROVE  FALSE
  OBVIOUS
<1>3. PICK m \in Bad : \A i \in Bad : m <= i
  <2>1. Bad \in SUBSET Nat
    OBVIOUS
  <2> HIDE DEF Bad
  <2> QED
    BY <1>2, <2>1, LeastNumber
<1>4. m \in 0..n /\ Sortings(list, m) = {}
  BY <1>3
<1>5. CASE m = 0
  <2> DEFINE none == [i \in 1..0 |-> list[i]]
  <2>1. 1..0 = {}
    OBVIOUS
  <2>2. none \in [1..0 -> {list[i] : i \in 1..0}]
    OBVIOUS
  <2>3. Ascending(none, 0)
    BY <2>1 DEF Ascending
  <2>4. \A p : Count(none, 0, p) = Count(list, 0, p)
    BY <2>1 DEF Count
  <2> HIDE DEF none
  <2>5. none \in Sortings(list, 0)
    BY <2>2, <2>3, <2>4 DEF Sortings
  <2> QED
    BY <1>4, <1>5, <2>5
<1>6. CASE m # 0
  <2>1. m - 1 \in 0..n /\ (m - 1) + 1 = m /\ ~ (m <= m - 1) /\ m - 1 \in Nat
    BY <1>4, <1>6
  <2>2. m - 1 \notin Bad
    BY <1>3, <2>1
  <2>3. PICK s : s \in Sortings(list, m - 1)
    BY <2>1, <2>2
  <2>4. \A i \in 1..m : list[i] \in Ptr
    BY <1>4
  <2>5. \E t : t \in Sortings(list, m)
    BY <2>1, <2>3, <2>4, InsertSorted
  <2> QED
    BY <1>4, <2>5
<1> QED
  BY <1>5, <1>6
=============================================================================
