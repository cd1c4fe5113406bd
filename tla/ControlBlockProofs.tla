------------------------- MODULE ControlBlockProofs -------------------------
(***************************************************************************)
(* The counters of control blocks are exact, handles keep what they point  *)
(* to, and nothing is queued twice or forgotten, for any number of threads *)
(* and blocks.                                                             *)
(*                                                                         *)
(* The inductive invariant joins the counts to what they mean: a strong    *)
(* counter above zero has its value alive (Lives), a weak counter above    *)
(* zero its block.  Whoever finds a handle then finds a counter above      *)
(* zero, and whoever takes a counter to zero knows that no handle is left. *)
(***************************************************************************)
EXTENDS ControlBlock, Counting

\* The owners of references, by where they are.
InMembers(b) == Cardinality({c \in Block : b \in member[c]})
InTodo(b) == Cardinality({t \in Thread : b \in todo[t]})
InFresh(b) == Cardinality({t \in Thread : b \in fresh[t]})
InLocks(b) == Cardinality({t \in Thread : locked[t] = b})
OfValue(b) == IF life[b] = "alive" \/ \E t \in Thread : popped[t] = b THEN 1 ELSE 0

Counts(b) ==
  /\ ref[b] = shared[b] + InMembers(b) + InTodo(b) + InFresh(b)
  /\ weak[b] = weaks[b] + InLocks(b) + OfValue(b)

\* The variables that are in use where a thread is.
Stages(t) ==
  /\ locked[t] # NULL <=> pc[t] = "lock"
  /\ popped[t] # NULL <=> pc[t] = "destroy"
  /\ todo[t] # {} => pc[t] = "destroy"
  /\ queue[t] # <<>> => pc[t] \in {"loop", "destroy"}
  /\ fresh[t] # {} => pc[t] \in {"create", "construct", "undo", "loop", "destroy"}
  /\ pointer[t] # NULL <=> pc[t] = "construct"

Queued(t) == {queue[t][i] : i \in 1..Len(queue[t])}

\* What the counters say of a block.
Lives(b) ==
  /\ ref[b] > 0 => life[b] = "alive"
  /\ weak[b] > 0 <=> life[b] \in {"alive", "destroyed"}
  /\ member[b] # {} => life[b] = "alive"
  /\ life[b] = "alive" /\ ref[b] = 0 => \E t \in Thread : b \in Queued(t)

\* The blocks that are being destroyed are different ones.
PoppedOnce ==
  /\ \A t \in Thread : popped[t] # NULL => life[popped[t]] = "destroyed"
  /\ \A t, u \in Thread : popped[t] = popped[u] => t = u \/ popped[t] = NULL

\* The memory in which a block is about to be constructed has one guard.
Allocated ==
  /\ \A t \in Thread : pointer[t] # NULL => life[pointer[t]] = "raw"
  /\ \A t, u \in Thread : pointer[t] = pointer[u] => t = u \/ pointer[t] = NULL
  /\ \A b \in Block : life[b] = "raw" => \E t \in Thread : pointer[t] = b

IInv ==
  /\ TypeOK
  /\ \A b \in Block : Counts(b) /\ Lives(b)
  /\ \A t \in Thread : Stages(t)
  /\ PoppedOnce
  /\ Allocated
  /\ QueuedOnce

-----------------------------------------------------------------------------
(* How the counts follow the variables.                                    *)

\* They are numbers, and are above zero when there is an owner.
LEMMA CountsAreNat ==
  ASSUME NEW b \in Block
  PROVE  /\ InMembers(b) \in Nat /\ InTodo(b) \in Nat
         /\ InFresh(b) \in Nat /\ InLocks(b) \in Nat /\ OfValue(b) \in Nat
         /\ \A c \in Block : b \in member[c] => InMembers(b) > 0
         /\ \A t \in Thread : b \in todo[t] => InTodo(b) > 0
         /\ \A t \in Thread : b \in fresh[t] => InFresh(b) > 0
         /\ \A t \in Thread : locked[t] = b => InLocks(b) > 0
<1>1. /\ InMembers(b) \in Nat
      /\ \A c \in Block : b \in member[c] => InMembers(b) > 0
  <2> DEFINE A == {c \in Block : b \in member[c]}
  <2>1. A \in SUBSET Block
    OBVIOUS
  <2>2. Cardinality(A) \in Nat /\ (Cardinality(A) = 0 <=> A = {})
    BY <2>1, CountIsNat, FiniteAssumption
  <2> QED
    BY <2>2 DEF InMembers
<1>2. /\ InTodo(b) \in Nat
      /\ \A t \in Thread : b \in todo[t] => InTodo(b) > 0
  <2> DEFINE A == {t \in Thread : b \in todo[t]}
  <2>1. A \in SUBSET Thread
    OBVIOUS
  <2>2. Cardinality(A) \in Nat /\ (Cardinality(A) = 0 <=> A = {})
    BY <2>1, CountIsNat, FiniteAssumption
  <2> QED
    BY <2>2 DEF InTodo
<1>3. /\ InFresh(b) \in Nat
      /\ \A t \in Thread : b \in fresh[t] => InFresh(b) > 0
  <2> DEFINE A == {t \in Thread : b \in fresh[t]}
  <2>1. A \in SUBSET Thread
    OBVIOUS
  <2>2. Cardinality(A) \in Nat /\ (Cardinality(A) = 0 <=> A = {})
    BY <2>1, CountIsNat, FiniteAssumption
  <2> QED
    BY <2>2 DEF InFresh
<1>4. /\ InLocks(b) \in Nat
      /\ \A t \in Thread : locked[t] = b => InLocks(b) > 0
  <2> DEFINE A == {t \in Thread : locked[t] = b}
  <2>1. A \in SUBSET Thread
    OBVIOUS
  <2>2. Cardinality(A) \in Nat /\ (Cardinality(A) = 0 <=> A = {})
    BY <2>1, CountIsNat, FiniteAssumption
  <2> QED
    BY <2>2 DEF InLocks
<1>5. OfValue(b) \in Nat
  BY DEF OfValue
<1> QED
  BY <1>1, <1>2, <1>3, <1>4, <1>5

\* A value takes over or gives up SharedPtrs.
LEMMA MembersChange ==
  ASSUME NEW b \in Block, NEW c \in Block,
         \A d \in Block : d # c => member'[d] = member[d]
  PROVE  /\ InMembers(b)' \in Nat
         /\ InMembers(b)' + (IF b \in member[c] THEN 1 ELSE 0)
              = InMembers(b) + (IF b \in member'[c] THEN 1 ELSE 0)
<1> DEFINE A == {d \in Block : b \in member[d]}
           B == {d \in Block : b \in member'[d]}
<1>1. /\ A \in SUBSET Block /\ B \in SUBSET Block
      /\ \A d \in Block : d # c => (d \in A <=> d \in B)
      /\ c \in A <=> b \in member[c]
      /\ c \in B <=> b \in member'[c]
  OBVIOUS
<1>2. InMembers(b) = Cardinality(A) /\ InMembers(b)' = Cardinality(B)
  BY DEF InMembers
<1> HIDE DEF A, B
<1>3. /\ Cardinality(B) \in Nat
      /\ Cardinality(B) + (IF c \in A THEN 1 ELSE 0)
           = Cardinality(A) + (IF c \in B THEN 1 ELSE 0)
  BY <1>1, CountChange, FiniteAssumption
<1> QED
  BY <1>1, <1>2, <1>3

\* A thread changes the SharedPtrs it has to drop.
LEMMA TodoChange ==
  ASSUME NEW b \in Block, NEW t \in Thread,
         \A u \in Thread : u # t => todo'[u] = todo[u]
  PROVE  /\ InTodo(b)' \in Nat
         /\ InTodo(b)' + (IF b \in todo[t] THEN 1 ELSE 0)
              = InTodo(b) + (IF b \in todo'[t] THEN 1 ELSE 0)
<1> DEFINE A == {u \in Thread : b \in todo[u]}
           B == {u \in Thread : b \in todo'[u]}
<1>1. /\ A \in SUBSET Thread /\ B \in SUBSET Thread
      /\ \A u \in Thread : u # t => (u \in A <=> u \in B)
      /\ t \in A <=> b \in todo[t]
      /\ t \in B <=> b \in todo'[t]
  OBVIOUS
<1>2. InTodo(b) = Cardinality(A) /\ InTodo(b)' = Cardinality(B)
  BY DEF InTodo
<1> HIDE DEF A, B
<1>3. /\ Cardinality(B) \in Nat
      /\ Cardinality(B) + (IF t \in A THEN 1 ELSE 0)
           = Cardinality(A) + (IF t \in B THEN 1 ELSE 0)
  BY <1>1, CountChange, FiniteAssumption
<1> QED
  BY <1>1, <1>2, <1>3

\* A thread changes the SharedPtrs of the value it makes.
LEMMA FreshChange ==
  ASSUME NEW b \in Block, NEW t \in Thread,
         \A u \in Thread : u # t => fresh'[u] = fresh[u]
  PROVE  /\ InFresh(b)' \in Nat
         /\ InFresh(b)' + (IF b \in fresh[t] THEN 1 ELSE 0)
              = InFresh(b) + (IF b \in fresh'[t] THEN 1 ELSE 0)
<1> DEFINE A == {u \in Thread : b \in fresh[u]}
           B == {u \in Thread : b \in fresh'[u]}
<1>1. /\ A \in SUBSET Thread /\ B \in SUBSET Thread
      /\ \A u \in Thread : u # t => (u \in A <=> u \in B)
      /\ t \in A <=> b \in fresh[t]
      /\ t \in B <=> b \in fresh'[t]
  OBVIOUS
<1>2. InFresh(b) = Cardinality(A) /\ InFresh(b)' = Cardinality(B)
  BY DEF InFresh
<1> HIDE DEF A, B
<1>3. /\ Cardinality(B) \in Nat
      /\ Cardinality(B) + (IF t \in A THEN 1 ELSE 0)
           = Cardinality(A) + (IF t \in B THEN 1 ELSE 0)
  BY <1>1, CountChange, FiniteAssumption
<1> QED
  BY <1>1, <1>2, <1>3

\* A thread enters lock() or leaves it.
LEMMA LocksChange ==
  ASSUME NEW b \in Block, NEW t \in Thread,
         \A u \in Thread : u # t => locked'[u] = locked[u]
  PROVE  /\ InLocks(b)' \in Nat
         /\ InLocks(b)' + (IF locked[t] = b THEN 1 ELSE 0)
              = InLocks(b) + (IF locked'[t] = b THEN 1 ELSE 0)
<1> DEFINE A == {u \in Thread : locked[u] = b}
           B == {u \in Thread : locked'[u] = b}
<1>1. /\ A \in SUBSET Thread /\ B \in SUBSET Thread
      /\ \A u \in Thread : u # t => (u \in A <=> u \in B)
      /\ t \in A <=> locked[t] = b
      /\ t \in B <=> locked'[t] = b
  OBVIOUS
<1>2. InLocks(b) = Cardinality(A) /\ InLocks(b)' = Cardinality(B)
  BY DEF InLocks
<1> HIDE DEF A, B
<1>3. /\ Cardinality(B) \in Nat
      /\ Cardinality(B) + (IF t \in A THEN 1 ELSE 0)
           = Cardinality(A) + (IF t \in B THEN 1 ELSE 0)
  BY <1>1, CountChange, FiniteAssumption
<1> QED
  BY <1>1, <1>2, <1>3

\* What a step leaves alone keeps its count.
LEMMA CountsFrame ==
  ASSUME NEW b \in Block
  PROVE  /\ member' = member => InMembers(b)' = InMembers(b)
         /\ todo' = todo => InTodo(b)' = InTodo(b)
         /\ fresh' = fresh => InFresh(b)' = InFresh(b)
         /\ locked' = locked => InLocks(b)' = InLocks(b)
         /\ life' = life /\ popped' = popped => OfValue(b)' = OfValue(b)
BY DEF InMembers, InTodo, InFresh, InLocks, OfValue

-----------------------------------------------------------------------------
(* What the invariant says of the handles.                                 *)

\* An owner of a strong reference has a counter above zero and a value that
\* is alive; an owner of a weak one has a block that is not freed.
LEMMA Owners ==
  ASSUME TypeOK, NEW b \in Block, Counts(b), Lives(b)
  PROVE  /\ \/ shared[b] > 0
            \/ \E c \in Block : b \in member[c]
            \/ \E t \in Thread : b \in todo[t] \cup fresh[t]
           => ref[b] > 0 /\ life[b] = "alive"
         /\ \/ weaks[b] > 0
            \/ \E t \in Thread : locked[t] = b \/ popped[t] = b
           => weak[b] > 0 /\ life[b] \in {"alive", "destroyed"}
<1>1. /\ ref[b] \in Nat /\ weak[b] \in Nat
      /\ shared[b] \in Nat /\ weaks[b] \in Nat
  BY DEF TypeOK
<1>2. /\ ref[b] = shared[b] + InMembers(b) + InTodo(b) + InFresh(b)
      /\ weak[b] = weaks[b] + InLocks(b) + OfValue(b)
  BY DEF Counts
<1>3. ASSUME \/ shared[b] > 0
             \/ \E c \in Block : b \in member[c]
             \/ \E t \in Thread : b \in todo[t] \cup fresh[t]
      PROVE  ref[b] > 0 /\ life[b] = "alive"
  <2>1. ref[b] > 0
    BY <1>1, <1>2, <1>3, CountsAreNat
  <2> QED
    BY <2>1 DEF Lives
<1>4. ASSUME \/ weaks[b] > 0
             \/ \E t \in Thread : locked[t] = b \/ popped[t] = b
      PROVE  weak[b] > 0 /\ life[b] \in {"alive", "destroyed"}
  <2>1. (\E t \in Thread : popped[t] = b) => OfValue(b) = 1
    BY DEF OfValue
  <2>2. weak[b] > 0
    BY <1>1, <1>2, <1>4, <2>1, CountsAreNat
  <2> QED
    BY <2>2 DEF Lives
<1> QED
  BY <1>3, <1>4

\* Nothing is left of a block that is freed, nor there yet of one that is
\* not constructed.
LEMMA FreeBlock ==
  ASSUME TypeOK, NEW b \in Block, Counts(b), Lives(b), life[b] \in {"free", "raw"}
  PROVE  /\ ref[b] = 0 /\ weak[b] = 0 /\ member[b] = {}
         /\ shared[b] = 0 /\ weaks[b] = 0
         /\ InMembers(b) = 0 /\ InTodo(b) = 0 /\ InFresh(b) = 0
         /\ InLocks(b) = 0 /\ OfValue(b) = 0
<1>1. ref[b] = 0 /\ weak[b] = 0 /\ member[b] = {}
  BY DEF TypeOK, Lives
<1>2. /\ InMembers(b) \in Nat /\ InTodo(b) \in Nat
      /\ InFresh(b) \in Nat /\ InLocks(b) \in Nat /\ OfValue(b) \in Nat
      /\ shared[b] \in Nat /\ weaks[b] \in Nat /\ 0 \in Nat
  BY CountsAreNat DEF TypeOK
<1>3. shared[b] = 0 /\ InMembers(b) = 0 /\ InTodo(b) = 0 /\ InFresh(b) = 0
  <2>1. shared[b] + InMembers(b) + InTodo(b) + InFresh(b) = 0
    BY <1>1 DEF Counts
  <2> QED
    BY <1>2, <2>1, SumIsZero
<1>4. weaks[b] = 0 /\ InLocks(b) = 0 /\ OfValue(b) = 0
  <2>1. weaks[b] + InLocks(b) + OfValue(b) = 0
    BY <1>1 DEF Counts
  <2> QED
    BY <1>2, <2>1
<1> QED
  BY <1>1, <1>3, <1>4

-----------------------------------------------------------------------------
(* The list of safetyDestroy().                                            *)

\* queue[t] gets a block at its head.
LEMMA Pushed ==
  ASSUME TypeOK, QueuedOnce, NEW t \in Thread, NEW b \in Block,
         queue' = [queue EXCEPT ![t] = <<b>> \o @],
         \A u \in Thread : b \notin Queued(u)
  PROVE  /\ queue' \in [Thread -> Seq(Block)]
         /\ Queued(t)' = Queued(t) \cup {b}
         /\ \A u \in Thread : u # t => Queued(u)' = Queued(u)
         /\ \A u, v \in Thread :
              \A i \in 1..Len(queue'[u]), j \in 1..Len(queue'[v]) :
                queue'[u][i] = queue'[v][j] => u = v /\ i = j
<1>1. queue \in [Thread -> Seq(Block)]
  BY DEF TypeOK
<1> DEFINE q == <<b>> \o queue[t]
<1>2. /\ q \in Seq(Block) /\ Len(q) = Len(queue[t]) + 1 /\ q[1] = b
      /\ \A i \in 1..Len(queue[t]) : q[i + 1] = queue[t][i]
      /\ \A i \in 2..Len(q) : i - 1 \in 1..Len(queue[t]) /\ q[i] = queue[t][i - 1]
      /\ Len(queue[t]) \in Nat
  BY <1>1
<1> HIDE DEF q
<1>3. queue' = [queue EXCEPT ![t] = q]
  BY DEF q
<1>4. /\ queue' \in [Thread -> Seq(Block)] /\ queue'[t] = q
      /\ \A u \in Thread : u # t => queue'[u] = queue[u]
  BY <1>1, <1>2, <1>3
<1>5. {q[i] : i \in 1..Len(q)} = Queued(t) \cup {b}
  <2>1. ASSUME NEW i \in 1..Len(q)
        PROVE  q[i] \in Queued(t) \cup {b}
    <3>1. CASE i = 1
      BY <1>2, <3>1
    <3>2. CASE i # 1
      <4>1. i \in 2..Len(q)
        BY <1>2, <3>2
      <4> QED
        BY <1>2, <4>1 DEF Queued
    <3> QED
      BY <3>1, <3>2
  <2>2. ASSUME NEW i \in 1..Len(queue[t])
        PROVE  queue[t][i] \in {q[j] : j \in 1..Len(q)}
    <3>1. i + 1 \in 1..Len(q) /\ q[i + 1] = queue[t][i]
      BY <1>2
    <3> QED
      BY <3>1
  <2>3. b \in {q[j] : j \in 1..Len(q)}
    <3>1. 1 \in 1..Len(q)
      BY <1>2
    <3> QED
      BY <1>2, <3>1
  <2> QED
    BY <2>1, <2>2, <2>3 DEF Queued
<1>6. \A u \in Thread : u # t => Queued(u)' = Queued(u)
  BY <1>4 DEF Queued
<1>7. Queued(t)' = Queued(t) \cup {b}
  BY <1>4, <1>5 DEF Queued
<1>8. ASSUME NEW u \in Thread, NEW v \in Thread,
             NEW i \in 1..Len(queue'[u]), NEW j \in 1..Len(queue'[v]),
             queue'[u][i] = queue'[v][j]
      PROVE  u = v /\ i = j
  <2>1. \A w \in Thread : \A k \in 1..Len(queue[w]) : queue[w][k] # b
    BY DEF Queued
  <2>2. \A w, x \in Thread :
          \A k \in 1..Len(queue[w]), l \in 1..Len(queue[x]) :
            queue[w][k] = queue[x][l] => w = x /\ k = l
    BY DEF QueuedOnce
  <2>3. \A w \in Thread : queue[w] \in Seq(Block) /\ Len(queue[w]) \in Nat
    BY <1>1
  <2>4. \A k \in 1..Len(q) : k = 1 \/ k \in 2..Len(q)
    BY <1>2
  <2>5. CASE u = t /\ v = t
    <3>1. i \in 1..Len(q) /\ j \in 1..Len(q) /\ q[i] = q[j]
      BY <1>4, <1>8, <2>5
    <3>2. CASE i = 1 /\ j = 1
      BY <2>5, <3>2
    <3>3. CASE i = 1 /\ j \in 2..Len(q)
      <4>1. j - 1 \in 1..Len(queue[t]) /\ queue[t][j - 1] = b
        BY <1>2, <3>1, <3>3
      <4> QED
        BY <2>1, <4>1, Zenon
    <3>4. CASE i \in 2..Len(q) /\ j = 1
      <4>1. i - 1 \in 1..Len(queue[t]) /\ queue[t][i - 1] = b
        BY <1>2, <3>1, <3>4
      <4> QED
        BY <2>1, <4>1, Zenon
    <3>5. CASE i \in 2..Len(q) /\ j \in 2..Len(q)
      <4>1. /\ i - 1 \in 1..Len(queue[t]) /\ j - 1 \in 1..Len(queue[t])
            /\ queue[t][i - 1] = queue[t][j - 1]
        BY <1>2, <3>1, <3>5
      <4>2. \A k, l \in 1..Len(queue[t]) : queue[t][k] = queue[t][l] => k = l
        BY <2>2
      <4>4. i - 1 = j - 1
        BY <4>2, <4>1, Zenon
      <4>3. i \in Int /\ j \in Int
        BY <1>2, <3>1
      <4> QED
        BY <2>5, <4>4, <4>3
    <3> QED
      BY <2>4, <3>1, <3>2, <3>3, <3>4, <3>5
  <2>6. CASE u = t /\ v # t
    <3>1. i \in 1..Len(q) /\ j \in 1..Len(queue[v]) /\ q[i] = queue[v][j]
      BY <1>4, <1>8, <2>6
    <3>2. CASE i = 1
      BY <1>2, <2>1, <3>1, <3>2
    <3>3. CASE i \in 2..Len(q)
      <4>1. i - 1 \in 1..Len(queue[t]) /\ queue[t][i - 1] = queue[v][j]
        BY <1>2, <3>1, <3>3
      <4> QED
        BY <2>2, <2>6, <3>1, <4>1
    <3> QED
      BY <2>4, <3>1, <3>2, <3>3
  <2>7. CASE u # t /\ v = t
    <3>1. i \in 1..Len(queue[u]) /\ j \in 1..Len(q) /\ queue[u][i] = q[j]
      BY <1>4, <1>8, <2>7
    <3>2. CASE j = 1
      BY <1>2, <2>1, <3>1, <3>2
    <3>3. CASE j \in 2..Len(q)
      <4>1. j - 1 \in 1..Len(queue[t]) /\ queue[u][i] = queue[t][j - 1]
        BY <1>2, <3>1, <3>3
      <4> QED
        BY <2>2, <2>7, <3>1, <4>1
    <3> QED
      BY <2>4, <3>1, <3>2, <3>3
  <2>8. CASE u # t /\ v # t
    BY <1>4, <1>8, <2>2, <2>8
  <2> QED
    BY <2>5, <2>6, <2>7, <2>8
<1> QED
  BY <1>4, <1>6, <1>7, <1>8

\* queue[t] loses its head.
LEMMA TakenOff ==
  ASSUME TypeOK, QueuedOnce, NEW t \in Thread, queue[t] # <<>>,
         queue' = [queue EXCEPT ![t] = Tail(@)]
  PROVE  /\ queue' \in [Thread -> Seq(Block)]
         /\ Head(queue[t]) \in Block
         /\ Head(queue[t]) \in Queued(t)
         /\ Queued(t)' = Queued(t) \ {Head(queue[t])}
         /\ \A u \in Thread : u # t =>
              Queued(u)' = Queued(u) /\ Head(queue[t]) \notin Queued(u)
         /\ \A u, v \in Thread :
              \A i \in 1..Len(queue'[u]), j \in 1..Len(queue'[v]) :
                queue'[u][i] = queue'[v][j] => u = v /\ i = j
<1>1. queue \in [Thread -> Seq(Block)]
  BY DEF TypeOK
<1> DEFINE b == Head(queue[t])
           q == Tail(queue[t])
<1>2. /\ q \in Seq(Block) /\ Len(q) = Len(queue[t]) - 1 /\ b = queue[t][1]
      /\ b \in Block /\ 1 \in 1..Len(queue[t])
      /\ \A i \in 1..Len(q) : i + 1 \in 1..Len(queue[t]) /\ q[i] = queue[t][i + 1]
      /\ \A i \in 2..Len(queue[t]) : i - 1 \in 1..Len(q) /\ q[i - 1] = queue[t][i]
      /\ Len(queue[t]) \in Nat
  BY <1>1
<1>3. queue' = [queue EXCEPT ![t] = q]
  OBVIOUS
<1> HIDE DEF b, q
<1>4. /\ queue' \in [Thread -> Seq(Block)] /\ queue'[t] = q
      /\ \A u \in Thread : u # t => queue'[u] = queue[u]
  BY <1>1, <1>2, <1>3
<1>5. \A w, x \in Thread :
        \A k \in 1..Len(queue[w]), l \in 1..Len(queue[x]) :
          queue[w][k] = queue[x][l] => w = x /\ k = l
  BY DEF QueuedOnce
<1>6. {q[i] : i \in 1..Len(q)} = Queued(t) \ {b}
  <2>1. ASSUME NEW i \in 1..Len(q)
        PROVE  q[i] \in Queued(t) \ {b}
    <3>1. i + 1 \in 1..Len(queue[t]) /\ q[i] = queue[t][i + 1] /\ i + 1 # 1
      BY <1>2
    <3> QED
      BY <1>2, <1>5, <3>1 DEF Queued
  <2>2. ASSUME NEW i \in 1..Len(queue[t]), queue[t][i] # b
        PROVE  queue[t][i] \in {q[j] : j \in 1..Len(q)}
    <3>1. i \in 2..Len(queue[t])
      BY <1>2, <2>2
    <3> QED
      BY <1>2, <3>1
  <2> QED
    BY <2>1, <2>2 DEF Queued
<1>7. b \in Queued(t)
  BY <1>2 DEF Queued
<1>8. \A u \in Thread : u # t => Queued(u)' = Queued(u) /\ b \notin Queued(u)
  BY <1>2, <1>4, <1>5 DEF Queued
<1>9. Queued(t)' = Queued(t) \ {b}
  BY <1>4, <1>6 DEF Queued
<1>10. ASSUME NEW u \in Thread, NEW v \in Thread,
              NEW i \in 1..Len(queue'[u]), NEW j \in 1..Len(queue'[v]),
              queue'[u][i] = queue'[v][j]
       PROVE  u = v /\ i = j
  <2>1. CASE u = t /\ v = t
    <3>1. i \in 1..Len(q) /\ j \in 1..Len(q) /\ q[i] = q[j]
      BY <1>4, <1>10, <2>1
    <3>2. i + 1 = j + 1
      BY <1>2, <1>5, <3>1
    <3> QED
      BY <2>1, <3>2
  <2>2. CASE u = t /\ v # t
    <3>1. i \in 1..Len(q) /\ j \in 1..Len(queue[v]) /\ q[i] = queue[v][j]
      BY <1>4, <1>10, <2>2
    <3> QED
      BY <1>2, <1>5, <2>2, <3>1
  <2>3. CASE u # t /\ v = t
    <3>1. i \in 1..Len(queue[u]) /\ j \in 1..Len(q) /\ queue[u][i] = q[j]
      BY <1>4, <1>10, <2>3
    <3> QED
      BY <1>2, <1>5, <2>3, <3>1
  <2>4. CASE u # t /\ v # t
    BY <1>4, <1>10, <1>5, <2>4
  <2> QED
    BY <2>1, <2>2, <2>3, <2>4
<1> QED
  BY <1>2, <1>4, <1>7, <1>8, <1>9, <1>10 DEF b

\* Steps that leave memory without a block alone.
LEMMA AllocatedFrame ==
  ASSUME Allocated, pointer' = pointer, TypeOK,
         \A b \in Block : life[b] = "raw" <=> life'[b] = "raw"
  PROVE  Allocated'
BY DEF Allocated, TypeOK

\* What is queued has no references, and its value is still there.
LEMMA QueuedDead ==
  ASSUME TypeOK, QueuedOnce, NEW t \in Thread, NEW b \in Queued(t)
  PROVE  b \in Block /\ ref[b] = 0 /\ life[b] = "alive"
<1>1. PICK i \in 1..Len(queue[t]) : b = queue[t][i]
  BY DEF Queued
<1>2. queue[t] \in Seq(Block)
  BY DEF TypeOK
<1>3. queue[t][i] \in Block
  BY <1>2
<1> QED
  BY <1>1, <1>3 DEF QueuedOnce

\* The lists stay as they are, and so does what is queued.
LEMMA QueueFrame ==
  ASSUME TypeOK, QueuedOnce, queue' = queue,
         \A b \in Block : ref[b] = 0 /\ life[b] = "alive" =>
                            ref'[b] = 0 /\ life'[b] = "alive"
  PROVE  QueuedOnce' /\ \A t \in Thread : Queued(t)' = Queued(t)
<1>1. ASSUME NEW t \in Thread, NEW i \in 1..Len(queue[t])
      PROVE  ref'[queue[t][i]] = 0 /\ life'[queue[t][i]] = "alive"
  <2>1. queue[t][i] \in Queued(t)
    BY DEF Queued
  <2> QED
    BY <2>1, QueuedDead
<1>2. \A t, u \in Thread :
        \A i \in 1..Len(queue[t]), j \in 1..Len(queue[u]) :
          queue[t][i] = queue[u][j] => t = u /\ i = j
  BY DEF QueuedOnce
<1> QED
  BY <1>1, <1>2 DEF QueuedOnce, Queued

-----------------------------------------------------------------------------
(* Each action keeps the invariant.                                        *)

\* A new block, around a value with the SharedPtrs fresh[t].
LEMMA ConstructKeeps ==
  ASSUME IInv, NEW t \in Thread, Construct(t)
  PROVE  IInv'
<1> DEFINE b == pointer[t]
<1>1. /\ TypeOK /\ PoppedOnce /\ QueuedOnce /\ Allocated
      /\ \A c \in Block : Counts(c) /\ Lives(c)
      /\ \A u \in Thread : Stages(u)
  BY DEF IInv
<1>2. /\ pc[t] = "construct"
      /\ fresh' = [fresh EXCEPT ![t] = {}]
      /\ pointer' = [pointer EXCEPT ![t] = NULL]
      /\ pc' = [pc EXCEPT ![t] = "idle"]
      /\ life' = [life EXCEPT ![b] = "alive"]
      /\ ref' = [ref EXCEPT ![b] = 1]
      /\ weak' = [weak EXCEPT ![b] = 1]
      /\ member' = [member EXCEPT ![b] = fresh[t]]
      /\ shared' = [shared EXCEPT ![b] = 1]
      /\ UNCHANGED <<weaks, locked, count, queue, popped, todo>>
  BY DEF Construct, Goto, NewBlock, lockVars, destroyVars
<1>0. b \in Block /\ life[b] = "raw"
  BY <1>1, <1>2 DEF TypeOK, Stages, Allocated
<1> HIDE DEF b
<1>3. TypeOK'
  BY <1>0, <1>1, <1>2 DEF TypeOK
<1>4. /\ ref[b] = 0 /\ weak[b] = 0 /\ member[b] = {}
      /\ shared[b] = 0 /\ weaks[b] = 0
      /\ InMembers(b) = 0 /\ InTodo(b) = 0 /\ InFresh(b) = 0
      /\ InLocks(b) = 0 /\ OfValue(b) = 0
  BY <1>0, <1>1, FreeBlock
<1>5. b \notin fresh[t]
  BY <1>0, <1>1, Owners
<1>6. ASSUME NEW c \in Block
      PROVE  Counts(c)'
  <2>1. /\ InTodo(c)' = InTodo(c) /\ InLocks(c)' = InLocks(c)
        /\ InTodo(c) \in Nat /\ InLocks(c) \in Nat
        /\ InMembers(c) \in Nat /\ InFresh(c) \in Nat /\ OfValue(c) \in Nat
    BY <1>2, CountsFrame, CountsAreNat
  <2>2. /\ \A d \in Block : d # b => member'[d] = member[d]
        /\ member'[b] = fresh[t] /\ fresh'[t] = {}
        /\ \A u \in Thread : u # t => fresh'[u] = fresh[u]
    BY <1>0, <1>1, <1>2 DEF TypeOK
  <2>3. /\ InMembers(c)' \in Nat
        /\ InMembers(c)' = InMembers(c) + (IF c \in fresh[t] THEN 1 ELSE 0)
    <3>1. /\ InMembers(c)' \in Nat
          /\ InMembers(c)' + (IF c \in member[b] THEN 1 ELSE 0)
               = InMembers(c) + (IF c \in member'[b] THEN 1 ELSE 0)
      BY <1>0, <2>2, MembersChange
    <3> QED
      BY <1>4, <2>1, <2>2, <3>1
  <2>4. /\ InFresh(c)' \in Nat
        /\ InFresh(c)' + (IF c \in fresh[t] THEN 1 ELSE 0) = InFresh(c)
    <3>1. /\ InFresh(c)' \in Nat
          /\ InFresh(c)' + (IF c \in fresh[t] THEN 1 ELSE 0)
               = InFresh(c) + (IF c \in fresh'[t] THEN 1 ELSE 0)
      BY <2>2, FreshChange
    <3> QED
      BY <2>1, <2>2, <3>1
  <2>5. OfValue(c)' = IF c = b THEN 1 ELSE OfValue(c)
    BY <1>0, <1>1, <1>2 DEF OfValue, TypeOK
  <2>6. /\ ref[c] \in Nat /\ weak[c] \in Nat /\ shared[c] \in Nat /\ weaks[c] \in Nat
        /\ ref'[c] = IF c = b THEN 1 ELSE ref[c]
        /\ weak'[c] = IF c = b THEN 1 ELSE weak[c]
        /\ shared'[c] = IF c = b THEN 1 ELSE shared[c]
        /\ weaks'[c] = weaks[c]
    BY <1>0, <1>1, <1>2 DEF TypeOK
  <2>7. CASE c = b
    BY <1>4, <1>5, <2>1, <2>3, <2>4, <2>5, <2>6, <2>7 DEF Counts
  <2>8. CASE c # b
    BY <1>1, <2>1, <2>3, <2>4, <2>5, <2>6, <2>8 DEF Counts
  <2> QED
    BY <2>7, <2>8
<1>7. QueuedOnce' /\ \A u \in Thread : Queued(u)' = Queued(u)
  <2>1. \A c \in Block : ref[c] = 0 /\ life[c] = "alive" =>
                           ref'[c] = 0 /\ life'[c] = "alive"
    BY <1>0, <1>1, <1>2 DEF TypeOK
  <2> QED
    BY <1>1, <1>2, <2>1, QueueFrame
<1>8. ASSUME NEW c \in Block
      PROVE  Lives(c)'
  <2>1. CASE c = b
    BY <1>1, <1>2, <2>1 DEF TypeOK, Lives
  <2>2. CASE c # b
    <3>1. /\ ref'[c] = ref[c] /\ weak'[c] = weak[c]
          /\ life'[c] = life[c] /\ member'[c] = member[c]
      BY <1>1, <1>2, <2>2 DEF TypeOK
    <3> QED
      BY <1>1, <1>7, <3>1 DEF Lives
  <2> QED
    BY <2>1, <2>2
<1>9. ASSUME NEW u \in Thread
      PROVE  Stages(u)'
  BY <1>1, <1>2 DEF TypeOK, Stages
<1>10. PoppedOnce'
  BY <1>0, <1>1, <1>2 DEF TypeOK, PoppedOnce
<1>11. Allocated'
  <2>1. /\ pointer'[t] = NULL /\ life'[b] = "alive"
        /\ \A u \in Thread : u # t => pointer'[u] = pointer[u]
        /\ \A c \in Block : c # b => life'[c] = life[c]
    BY <1>0, <1>1, <1>2 DEF TypeOK
  <2>2. \A u \in Thread : u # t => pointer[u] # b
    BY <1>0, <1>1, NullIsNoBlock DEF Allocated, b
  <2>3. \A u \in Thread : pointer[u] \in Block \cup {NULL}
    BY <1>1 DEF TypeOK
  <2>4. ASSUME NEW u \in Thread, pointer'[u] # NULL
        PROVE  life'[pointer'[u]] = "raw"
    BY <1>1, <2>1, <2>2, <2>3, <2>4 DEF Allocated
  <2>5. ASSUME NEW u \in Thread, NEW v \in Thread, pointer'[u] = pointer'[v]
        PROVE  u = v \/ pointer'[u] = NULL
    BY <1>1, <2>1, <2>5 DEF Allocated
  <2>6. ASSUME NEW c \in Block, life'[c] = "raw"
        PROVE  \E u \in Thread : pointer'[u] = c
    <3>1. c # b /\ life[c] = "raw"
      BY <2>1, <2>6
    <3>2. PICK u \in Thread : pointer[u] = c
      BY <1>1, <3>1 DEF Allocated
    <3> QED
      BY <2>1, <3>1, <3>2 DEF b
  <2> QED
    BY <2>4, <2>5, <2>6 DEF Allocated
<1> QED
  BY <1>3, <1>6, <1>7, <1>8, <1>9, <1>10, <1>11 DEF IInv

\* Memory is allocated or given back: no block comes or goes.
LEMMA MemoryFrame ==
  ASSUME IInv,
         UNCHANGED <<ref, weak, member, shared, weaks, fresh, locked, queue,
                     popped, todo>>,
         \A c \in Block : \/ life'[c] = life[c]
                          \/ life[c] \in {"free", "raw"} /\ life'[c] \in {"free", "raw"}
  PROVE  /\ PoppedOnce' /\ QueuedOnce'
         /\ \A c \in Block : Counts(c)' /\ Lives(c)'
<1>1. /\ TypeOK /\ PoppedOnce /\ QueuedOnce /\ Allocated
      /\ \A c \in Block : Counts(c) /\ Lives(c)
      /\ \A u \in Thread : Stages(u)
  BY DEF IInv
<1>2. \A c \in Block : /\ life[c] = "alive" <=> life'[c] = "alive"
                       /\ life[c] = "destroyed" <=> life'[c] = "destroyed"
  OBVIOUS
<1>3. QueuedOnce' /\ \A u \in Thread : Queued(u)' = Queued(u)
  BY <1>1, <1>2, QueueFrame
<1>4. ASSUME NEW c \in Block
      PROVE  Counts(c)'
  <2>1. /\ InMembers(c)' = InMembers(c) /\ InTodo(c)' = InTodo(c)
        /\ InFresh(c)' = InFresh(c) /\ InLocks(c)' = InLocks(c)
    BY CountsFrame
  <2>2. OfValue(c)' = OfValue(c)
    BY <1>2 DEF OfValue
  <2> QED
    BY <1>1, <2>1, <2>2 DEF Counts
<1>5. ASSUME NEW c \in Block
      PROVE  Lives(c)'
  BY <1>1, <1>2, <1>3 DEF Lives
<1>6. PoppedOnce'
  BY <1>1, <1>2 DEF PoppedOnce, TypeOK
<1> QED
  BY <1>3, <1>4, <1>5, <1>6

LEMMA AllocateKeeps ==
  ASSUME IInv, NEW t \in Thread, Allocate(t)
  PROVE  IInv'
<1>1. /\ TypeOK /\ PoppedOnce /\ QueuedOnce /\ Allocated
      /\ \A c \in Block : Counts(c) /\ Lives(c)
      /\ \A u \in Thread : Stages(u)
  BY DEF IInv
<1>2. PICK b \in Block : /\ life[b] = "free"
                        /\ life' = [life EXCEPT ![b] = "raw"]
                        /\ pointer' = [pointer EXCEPT ![t] = b]
  BY DEF Allocate
<1>3. /\ pc[t] = "create" /\ pc' = [pc EXCEPT ![t] = "construct"]
      /\ UNCHANGED <<ref, weak, member, shared, weaks, fresh, locked, count,
                     queue, popped, todo>>
  BY DEF Allocate, Goto, counterVars, handleVars, lockVars, destroyVars
<1>4. /\ pointer'[t] = b /\ life'[b] = "raw" /\ b # NULL
      /\ \A u \in Thread : u # t => pointer'[u] = pointer[u]
      /\ \A c \in Block : c # b => life'[c] = life[c]
      /\ \A u \in Thread : pointer[u] # b
  BY <1>1, <1>2, NullIsNoBlock DEF TypeOK, Allocated
<1>5. PoppedOnce' /\ QueuedOnce' /\ \A c \in Block : Counts(c)' /\ Lives(c)'
  BY <1>2, <1>3, <1>4, MemoryFrame
<1>6. TypeOK'
  BY <1>1, <1>2, <1>3 DEF TypeOK
<1>7. ASSUME NEW u \in Thread
      PROVE  Stages(u)'
  BY <1>1, <1>3, <1>4 DEF TypeOK, Stages
<1>8. Allocated'
  <2>1. ASSUME NEW u \in Thread, pointer'[u] # NULL
        PROVE  life'[pointer'[u]] = "raw"
    <3>1. u # t => pointer[u] \in Block /\ pointer[u] # b /\ life[pointer[u]] = "raw"
      BY <1>1, <1>4, <2>1 DEF TypeOK, Allocated
    <3> QED
      BY <1>4, <3>1
  <2>2. ASSUME NEW u \in Thread, NEW v \in Thread, pointer'[u] = pointer'[v]
        PROVE  u = v \/ pointer'[u] = NULL
    BY <1>1, <1>4, <2>2 DEF Allocated
  <2>3. ASSUME NEW c \in Block, life'[c] = "raw"
        PROVE  \E u \in Thread : pointer'[u] = c
    <3>1. CASE c = b
      BY <1>4, <3>1
    <3>2. CASE c # b
      <4>1. PICK u \in Thread : pointer[u] = c
        BY <1>1, <1>4, <2>3, <3>2 DEF Allocated
      <4>2. u # t
        BY <1>1, <1>3, <4>1, NullIsNoBlock DEF Stages
      <4> QED
        BY <1>4, <4>1, <4>2
    <3> QED
      BY <3>1, <3>2
  <2> QED
    BY <2>1, <2>2, <2>3 DEF Allocated
<1> QED
  BY <1>5, <1>6, <1>7, <1>8 DEF IInv

\* The guard gives the memory back.
LEMMA ConstructFailsKeeps ==
  ASSUME IInv, NEW t \in Thread, ConstructFails(t)
  PROVE  IInv'
<1> DEFINE b == pointer[t]
<1>1. /\ TypeOK /\ PoppedOnce /\ QueuedOnce /\ Allocated
      /\ \A c \in Block : Counts(c) /\ Lives(c)
      /\ \A u \in Thread : Stages(u)
  BY DEF IInv
<1>2. /\ pc[t] = "construct" /\ pc' = [pc EXCEPT ![t] = "undo"]
      /\ life' = [life EXCEPT ![b] = "free"]
      /\ pointer' = [pointer EXCEPT ![t] = NULL]
      /\ UNCHANGED <<ref, weak, member, shared, weaks, fresh, locked, count,
                     queue, popped, todo>>
  BY DEF ConstructFails, Goto, counterVars, handleVars, lockVars, destroyVars
<1>3. b \in Block /\ b # NULL /\ life[b] = "raw"
  BY <1>1, <1>2 DEF TypeOK, Stages, Allocated
<1>4. \A u \in Thread : u # t => pointer[u] # b
  BY <1>1, <1>3 DEF Allocated
<1> HIDE DEF b
<1>5. /\ pointer'[t] = NULL /\ life'[b] = "free"
      /\ \A u \in Thread : u # t => pointer'[u] = pointer[u]
      /\ \A c \in Block : c # b => life'[c] = life[c]
  BY <1>1, <1>2, <1>3 DEF TypeOK
<1>6. PoppedOnce' /\ QueuedOnce' /\ \A c \in Block : Counts(c)' /\ Lives(c)'
  BY <1>2, <1>3, <1>5, MemoryFrame
<1>7. TypeOK'
  BY <1>1, <1>2, <1>3 DEF TypeOK
<1>8. ASSUME NEW u \in Thread
      PROVE  Stages(u)'
  BY <1>1, <1>2, <1>5 DEF TypeOK, Stages
<1>9. Allocated'
  <2>1. ASSUME NEW u \in Thread, pointer'[u] # NULL
        PROVE  life'[pointer'[u]] = "raw"
    <3>1. u # t /\ pointer[u] \in Block /\ pointer[u] # b /\ life[pointer[u]] = "raw"
      BY <1>1, <1>4, <1>5, <2>1 DEF TypeOK, Allocated
    <3> QED
      BY <1>5, <3>1
  <2>2. ASSUME NEW u \in Thread, NEW v \in Thread, pointer'[u] = pointer'[v]
        PROVE  u = v \/ pointer'[u] = NULL
    BY <1>1, <1>5, <2>2 DEF Allocated
  <2>3. ASSUME NEW c \in Block, life'[c] = "raw"
        PROVE  \E u \in Thread : pointer'[u] = c
    <3>1. c # b /\ life[c] = "raw"
      BY <1>5, <2>3
    <3>2. PICK u \in Thread : pointer[u] = c
      BY <1>1, <3>1 DEF Allocated
    <3> QED
      BY <1>5, <3>1, <3>2 DEF b
  <2> QED
    BY <2>1, <2>2, <2>3 DEF Allocated
<1> QED
  BY <1>6, <1>7, <1>8, <1>9 DEF IInv


\* The client moves its SharedPtrs of S into a value.
LEMMA WrapValueKeeps ==
  ASSUME IInv, NEW t \in Thread, WrapValue(t)
  PROVE  IInv'
<1>1. /\ TypeOK /\ PoppedOnce /\ QueuedOnce /\ Allocated
      /\ \A c \in Block : Counts(c) /\ Lives(c)
      /\ \A u \in Thread : Stages(u)
  BY DEF IInv
<1>2. /\ pc[t] = "idle" /\ pc' = [pc EXCEPT ![t] = "create"]
      /\ UNCHANGED <<ref, weak, life, member, weaks, pointer, locked, count, queue,
                     popped, todo>>
  BY DEF WrapValue, Goto, counterVars, lockVars, destroyVars
<1>3. PICK S \in (SUBSET {c \in Block : shared[c] > 0}) \ {{}} :
        /\ fresh' = [fresh EXCEPT ![t] = S]
        /\ shared' = [c \in Block |-> IF c \in S THEN shared[c] - 1 ELSE shared[c]]
  BY DEF WrapValue
<1>4. /\ S \in SUBSET Block
      /\ \A c \in S : shared[c] > 0
  OBVIOUS
<1>5. TypeOK'
  <2>1. shared' \in [Block -> Nat]
    BY <1>1, <1>3, <1>4 DEF TypeOK
  <2> QED
    BY <1>1, <1>2, <1>3, <1>4, <2>1 DEF TypeOK
<1>6. ASSUME NEW c \in Block
      PROVE  Counts(c)'
  <2>1. /\ InMembers(c) \in Nat /\ InTodo(c) \in Nat /\ InFresh(c) \in Nat
        /\ InLocks(c) \in Nat /\ OfValue(c) \in Nat
        /\ ref[c] \in Nat /\ weak[c] \in Nat /\ shared[c] \in Nat /\ weaks[c] \in Nat
    BY <1>1, CountsAreNat DEF TypeOK
  <2>2. /\ InMembers(c)' = InMembers(c) /\ InTodo(c)' = InTodo(c)
        /\ InLocks(c)' = InLocks(c) /\ OfValue(c)' = OfValue(c)
    BY <1>2, CountsFrame
  <2>3. /\ fresh[t] = {} /\ fresh'[t] = S
        /\ \A u \in Thread : u # t => fresh'[u] = fresh[u]
    BY <1>1, <1>2, <1>3 DEF TypeOK, Stages
  <2>4. InFresh(c)' = InFresh(c) + (IF c \in S THEN 1 ELSE 0)
    <3>1. /\ InFresh(c)' \in Nat
          /\ InFresh(c)' + (IF c \in fresh[t] THEN 1 ELSE 0)
               = InFresh(c) + (IF c \in fresh'[t] THEN 1 ELSE 0)
      BY <2>3, FreshChange
    <3> QED
      BY <2>1, <2>3, <3>1
  <2>5. /\ shared'[c] = IF c \in S THEN shared[c] - 1 ELSE shared[c]
        /\ c \in S => shared[c] > 0
    BY <1>3, <1>4
  <2> QED
    BY <1>1, <1>2, <2>1, <2>2, <2>4, <2>5 DEF Counts
<1>7. QueuedOnce' /\ \A u \in Thread : Queued(u)' = Queued(u)
  BY <1>1, <1>2, QueueFrame
<1>8. ASSUME NEW c \in Block
      PROVE  Lives(c)'
  BY <1>1, <1>2, <1>7 DEF Lives
<1>9. ASSUME NEW u \in Thread
      PROVE  Stages(u)'
  BY <1>1, <1>2, <1>3 DEF TypeOK, Stages
<1>10. PoppedOnce' /\ Allocated'
  BY <1>1, <1>2, AllocatedFrame DEF PoppedOnce
<1> QED
  BY <1>5, <1>6, <1>7, <1>8, <1>9, <1>10 DEF IInv

\* Steps that move a thread and nothing else.
LEMMA GotoKeeps ==
  ASSUME IInv, NEW t \in Thread, NEW l,
         \/ l = "create" /\ pc[t] = "idle"
         \/ l = "undo" /\ pc[t] = "create"
         \/ l = "idle" /\ pc[t] \in {"loop", "undo"} /\ queue[t] = <<>> /\ fresh[t] = {}
         \/ l = "undo" /\ pc[t] = "loop" /\ queue[t] = <<>>,
         pc' = [pc EXCEPT ![t] = l],
         UNCHANGED <<counterVars, life, member, handleVars, fresh, pointer, lockVars, destroyVars>>
  PROVE  IInv'
<1>1. /\ TypeOK /\ PoppedOnce /\ QueuedOnce /\ Allocated
      /\ \A c \in Block : Counts(c) /\ Lives(c)
      /\ \A u \in Thread : Stages(u)
  BY DEF IInv
<1>2. UNCHANGED <<ref, weak, life, member, shared, weaks, fresh, pointer,
                  locked, count, queue, popped, todo>>
  BY DEF counterVars, handleVars, createVars, lockVars, destroyVars
<1>3. TypeOK'
  BY <1>1, <1>2 DEF TypeOK
<1>4. ASSUME NEW c \in Block
      PROVE  Counts(c)'
  BY <1>1, <1>2, CountsFrame DEF Counts
<1>5. QueuedOnce' /\ \A u \in Thread : Queued(u)' = Queued(u)
  BY <1>1, <1>2, QueueFrame
<1>6. ASSUME NEW c \in Block
      PROVE  Lives(c)'
  BY <1>1, <1>2, <1>5 DEF Lives
<1>7. ASSUME NEW u \in Thread
      PROVE  Stages(u)'
  BY <1>1, <1>2 DEF TypeOK, Stages
<1>8. PoppedOnce' /\ Allocated'
  BY <1>1, <1>2, AllocatedFrame DEF PoppedOnce
<1> QED
  BY <1>3, <1>4, <1>5, <1>6, <1>7, <1>8 DEF IInv

LEMMA MakeSharedKeeps ==
  ASSUME IInv, NEW t \in Thread, MakeShared(t)
  PROVE  IInv'
BY GotoKeeps DEF MakeShared, Goto, createVars

LEMMA AllocateFailsKeeps ==
  ASSUME IInv, NEW t \in Thread, AllocateFails(t)
  PROVE  IInv'
BY GotoKeeps DEF AllocateFails, Goto, createVars

LEMMA EndLoopKeeps ==
  ASSUME IInv, NEW t \in Thread, EndLoop(t)
  PROVE  IInv'
<1>1. CASE fresh[t] = {}
  BY <1>1, GotoKeeps DEF EndLoop, Goto, createVars
<1>2. CASE fresh[t] # {}
  BY <1>2, GotoKeeps DEF EndLoop, Goto, createVars
<1> QED
  BY <1>1, <1>2

LEMMA CopySharedKeeps ==
  ASSUME IInv, NEW t \in Thread, NEW b \in Block, CopyShared(t, b)
  PROVE  IInv'
<1>1. /\ TypeOK /\ PoppedOnce /\ QueuedOnce /\ Allocated
      /\ \A c \in Block : Counts(c) /\ Lives(c)
      /\ \A u \in Thread : Stages(u)
  BY DEF IInv
<1>2. /\ shared[b] > 0
      /\ ref' = [ref EXCEPT ![b] = @ + 1]
      /\ shared' = [shared EXCEPT ![b] = @ + 1]
      /\ UNCHANGED <<weak, life, member, weaks, fresh, pointer, pc,
                     locked, count, queue, popped, todo>>
  BY <1>1, FiniteAssumption DEF CopyShared, createVars, lockVars, destroyVars
<1>3. TypeOK'
  BY <1>1, <1>2 DEF TypeOK
<1>4. ref[b] > 0 /\ life[b] = "alive"
  BY <1>1, <1>2, Owners
<1>5. ASSUME NEW c \in Block
      PROVE  Counts(c)'
  <2>1. /\ InMembers(c) \in Nat /\ InTodo(c) \in Nat /\ InFresh(c) \in Nat
        /\ InLocks(c) \in Nat /\ OfValue(c) \in Nat
        /\ ref[c] \in Nat /\ weak[c] \in Nat /\ shared[c] \in Nat /\ weaks[c] \in Nat
    BY <1>1, CountsAreNat DEF TypeOK
  <2>2. /\ InMembers(c)' = InMembers(c) /\ InTodo(c)' = InTodo(c)
        /\ InFresh(c)' = InFresh(c)
        /\ InLocks(c)' = InLocks(c) /\ OfValue(c)' = OfValue(c)
    BY <1>2, CountsFrame
  <2>3. /\ ref'[c] = ref[c] + (IF c = b THEN 1 ELSE 0)
        /\ shared'[c] = shared[c] + (IF c = b THEN 1 ELSE 0)
    BY <1>1, <1>2, <2>1 DEF TypeOK
  <2>4. ref[c] = shared[c] + InMembers(c) + InTodo(c) + InFresh(c)
    BY <1>1 DEF Counts
  <2>5. ref'[c] = shared'[c] + InMembers(c)' + InTodo(c)' + InFresh(c)'
    BY <2>1, <2>2, <2>3, <2>4
  <2> QED
    BY <1>1, <1>2, <2>2, <2>5 DEF Counts
<1>6. QueuedOnce' /\ \A u \in Thread : Queued(u)' = Queued(u)
  <2>1. \A c \in Block : ref[c] = 0 /\ life[c] = "alive" =>
                           ref'[c] = 0 /\ life'[c] = "alive"
    BY <1>1, <1>2, <1>4 DEF TypeOK
  <2> QED
    BY <1>1, <1>2, <2>1, QueueFrame
<1>7. ASSUME NEW c \in Block
      PROVE  Lives(c)'
  <2>1. c # b => ref'[c] = ref[c]
    BY <1>1, <1>2 DEF TypeOK
  <2>2. ref'[b] > 0
    BY <1>1, <1>2, <1>4 DEF TypeOK
  <2> QED
    BY <1>1, <1>2, <1>4, <1>6, <2>1, <2>2 DEF Lives
<1>8. ASSUME NEW u \in Thread
      PROVE  Stages(u)'
  BY <1>1, <1>2 DEF Stages
<1>9. PoppedOnce' /\ Allocated'
  BY <1>1, <1>2, AllocatedFrame DEF PoppedOnce
<1> QED
  BY <1>3, <1>5, <1>6, <1>7, <1>8, <1>9 DEF IInv

LEMMA MakeWeakKeeps ==
  ASSUME IInv, NEW t \in Thread, NEW b \in Block, MakeWeak(t, b)
  PROVE  IInv'
<1>1. /\ TypeOK /\ PoppedOnce /\ QueuedOnce /\ Allocated
      /\ \A c \in Block : Counts(c) /\ Lives(c)
      /\ \A u \in Thread : Stages(u)
  BY DEF IInv
<1>2. /\ shared[b] > 0 \/ weaks[b] > 0
      /\ weak' = [weak EXCEPT ![b] = @ + 1]
      /\ weaks' = [weaks EXCEPT ![b] = @ + 1]
      /\ UNCHANGED <<ref, life, member, shared, fresh, pointer, pc,
                     locked, count, queue, popped, todo>>
  BY DEF MakeWeak, createVars, lockVars, destroyVars
<1>3. TypeOK'
  BY <1>1, <1>2 DEF TypeOK
<1>4. life[b] \in {"alive", "destroyed"}
  BY <1>1, <1>2, Owners
<1>5. ASSUME NEW c \in Block
      PROVE  Counts(c)'
  <2>1. /\ InMembers(c) \in Nat /\ InTodo(c) \in Nat /\ InFresh(c) \in Nat
        /\ InLocks(c) \in Nat /\ OfValue(c) \in Nat
        /\ ref[c] \in Nat /\ weak[c] \in Nat /\ shared[c] \in Nat /\ weaks[c] \in Nat
    BY <1>1, CountsAreNat DEF TypeOK
  <2>2. /\ InMembers(c)' = InMembers(c) /\ InTodo(c)' = InTodo(c)
        /\ InFresh(c)' = InFresh(c)
        /\ InLocks(c)' = InLocks(c) /\ OfValue(c)' = OfValue(c)
    BY <1>2, CountsFrame
  <2>3. /\ weak'[c] = weak[c] + (IF c = b THEN 1 ELSE 0)
        /\ weaks'[c] = weaks[c] + (IF c = b THEN 1 ELSE 0)
    BY <1>1, <1>2, <2>1 DEF TypeOK
  <2> QED
    BY <1>1, <1>2, <2>1, <2>2, <2>3 DEF Counts
<1>6. QueuedOnce' /\ \A u \in Thread : Queued(u)' = Queued(u)
  BY <1>1, <1>2, QueueFrame
<1>7. ASSUME NEW c \in Block
      PROVE  Lives(c)'
  <2>1. /\ c # b => weak'[c] = weak[c]
        /\ weak'[b] > 0
    BY <1>1, <1>2 DEF TypeOK
  <2> QED
    BY <1>1, <1>2, <1>4, <1>6, <2>1 DEF Lives
<1>8. ASSUME NEW u \in Thread
      PROVE  Stages(u)'
  BY <1>1, <1>2 DEF Stages
<1>9. PoppedOnce' /\ Allocated'
  BY <1>1, <1>2, AllocatedFrame DEF PoppedOnce
<1> QED
  BY <1>3, <1>5, <1>6, <1>7, <1>8, <1>9 DEF IInv
LEMMA LockKeeps ==
  ASSUME IInv, NEW t \in Thread, NEW b \in Block, Lock(t, b)
  PROVE  IInv'
<1>1. /\ TypeOK /\ PoppedOnce /\ QueuedOnce /\ Allocated
      /\ \A c \in Block : Counts(c) /\ Lives(c)
      /\ \A u \in Thread : Stages(u)
  BY DEF IInv
<1>2. /\ pc[t] = "idle" /\ weaks[b] > 0
      /\ weaks' = [weaks EXCEPT ![b] = @ - 1]
      /\ locked' = [locked EXCEPT ![t] = b]
      /\ count' = [count EXCEPT ![t] = ref[b]]
      /\ pc' = [pc EXCEPT ![t] = "lock"]
      /\ UNCHANGED <<ref, weak, life, member, shared, fresh, pointer, queue, popped, todo>>
  BY DEF Lock, Goto, counterVars, createVars, destroyVars
<1>3. TypeOK'
  BY <1>1, <1>2 DEF TypeOK
<1>4. b # NULL /\ locked[t] = NULL
  BY <1>1, <1>2, NullIsNoBlock DEF Stages
<1>5. ASSUME NEW c \in Block
      PROVE  Counts(c)'
  <2>1. /\ InMembers(c) \in Nat /\ InTodo(c) \in Nat /\ InFresh(c) \in Nat
        /\ InLocks(c) \in Nat /\ OfValue(c) \in Nat
        /\ ref[c] \in Nat /\ weak[c] \in Nat /\ shared[c] \in Nat /\ weaks[c] \in Nat
    BY <1>1, CountsAreNat DEF TypeOK
  <2>2. /\ InMembers(c)' = InMembers(c) /\ InTodo(c)' = InTodo(c)
        /\ InFresh(c)' = InFresh(c) /\ OfValue(c)' = OfValue(c)
    BY <1>2, CountsFrame
  <2>3. /\ locked'[t] = b
        /\ \A u \in Thread : u # t => locked'[u] = locked[u]
    BY <1>1, <1>2 DEF TypeOK
  <2>4. InLocks(c)' = InLocks(c) + (IF c = b THEN 1 ELSE 0)
    <3>1. /\ InLocks(c)' \in Nat
          /\ InLocks(c)' + (IF locked[t] = c THEN 1 ELSE 0)
               = InLocks(c) + (IF locked'[t] = c THEN 1 ELSE 0)
      BY <2>3, LocksChange
    <3>2. locked[t] # c
      BY <1>4, NullIsNoBlock
    <3> QED
      BY <2>1, <2>3, <3>1, <3>2
  <2>5. weaks'[c] = weaks[c] - (IF c = b THEN 1 ELSE 0)
    BY <1>1, <1>2, <2>1 DEF TypeOK
  <2>6. weak[c] = weaks[c] + InLocks(c) + OfValue(c)
    BY <1>1 DEF Counts
  <2>7. weak[c] = weaks'[c] + InLocks(c)' + OfValue(c)'
    BY <2>1, <2>2, <2>4, <2>5, <2>6
  <2> QED
    BY <1>1, <1>2, <2>2, <2>7 DEF Counts
<1>6. QueuedOnce' /\ \A u \in Thread : Queued(u)' = Queued(u)
  BY <1>1, <1>2, QueueFrame
<1>7. ASSUME NEW c \in Block
      PROVE  Lives(c)'
  BY <1>1, <1>2, <1>6 DEF Lives
<1>8. ASSUME NEW u \in Thread
      PROVE  Stages(u)'
  BY <1>1, <1>2, <1>4 DEF TypeOK, Stages
<1>9. PoppedOnce' /\ Allocated'
  BY <1>1, <1>2, AllocatedFrame DEF PoppedOnce
<1> QED
  BY <1>3, <1>5, <1>6, <1>7, <1>8, <1>9 DEF IInv

\* The weak reference of lock() becomes the handle's again.
LEMMA LockCounts ==
  ASSUME IInv, NEW t \in Thread, pc[t] = "lock", LockReturns(t, locked[t]),
         UNCHANGED <<weak, life, popped>>, NEW c \in Block
  PROVE  weak'[c] = weaks'[c] + InLocks(c)' + OfValue(c)'
<1>1. /\ TypeOK /\ PoppedOnce /\ QueuedOnce /\ Allocated
      /\ \A b \in Block : Counts(b) /\ Lives(b)
      /\ \A u \in Thread : Stages(u)
  BY DEF IInv
<1>2. /\ locked[t] # NULL /\ locked[t] \in Block
      /\ weaks' = [weaks EXCEPT ![locked[t]] = @ + 1]
      /\ locked' = [locked EXCEPT ![t] = NULL]
      /\ c # NULL
  BY <1>1, NullIsNoBlock DEF LockReturns, Stages, TypeOK
<1>3. /\ InLocks(c) \in Nat /\ OfValue(c) \in Nat /\ OfValue(c)' = OfValue(c)
      /\ weak[c] \in Nat /\ weaks[c] \in Nat
  BY <1>1, CountsFrame, CountsAreNat DEF TypeOK
<1>4. /\ locked'[t] = NULL
      /\ \A u \in Thread : u # t => locked'[u] = locked[u]
  BY <1>1, <1>2 DEF TypeOK
<1>5. /\ InLocks(c)' \in Nat
      /\ InLocks(c)' + (IF locked[t] = c THEN 1 ELSE 0)
           = InLocks(c) + (IF locked'[t] = c THEN 1 ELSE 0)
  BY <1>4, LocksChange
<1>6. InLocks(c)' + (IF locked[t] = c THEN 1 ELSE 0) = InLocks(c)
  BY <1>2, <1>3, <1>4, <1>5
<1>7. weaks'[c] = weaks[c] + (IF locked[t] = c THEN 1 ELSE 0)
  BY <1>1, <1>2, <1>3 DEF TypeOK
<1>8. weak[c] = weaks[c] + InLocks(c) + OfValue(c)
  BY <1>1 DEF Counts
<1>9. weak[c] = weaks'[c] + InLocks(c)' + OfValue(c)'
  BY <1>3, <1>5, <1>6, <1>7, <1>8
<1> QED
  BY <1>9

LEMMA LockFailsKeeps ==
  ASSUME IInv, NEW t \in Thread, LockFails(t)
  PROVE  IInv'
<1>1. /\ TypeOK /\ PoppedOnce /\ QueuedOnce /\ Allocated
      /\ \A c \in Block : Counts(c) /\ Lives(c)
      /\ \A u \in Thread : Stages(u)
  BY DEF IInv
<1>2. /\ pc[t] = "lock" /\ LockReturns(t, locked[t])
      /\ UNCHANGED <<ref, weak, life, member, shared, fresh, pointer, queue, popped, todo>>
  BY DEF LockFails, counterVars, createVars, destroyVars
<1>3. /\ locked[t] \in Block
      /\ weaks' = [weaks EXCEPT ![locked[t]] = @ + 1]
      /\ locked' = [locked EXCEPT ![t] = NULL]
      /\ count' = [count EXCEPT ![t] = 0]
      /\ pc' = [pc EXCEPT ![t] = "idle"]
  BY <1>1, <1>2 DEF LockReturns, Goto, Stages, TypeOK
<1>4. TypeOK'
  <2>1. /\ weaks' \in [Block -> Nat] /\ count' \in [Thread -> Nat]
        /\ locked' \in [Thread -> Block \cup {NULL}]
    BY <1>1, <1>3 DEF TypeOK
  <2> QED
    BY <1>1, <1>2, <1>3, <2>1 DEF TypeOK
<1>5. ASSUME NEW c \in Block
      PROVE  Counts(c)'
  <2>1. /\ InMembers(c)' = InMembers(c) /\ InTodo(c)' = InTodo(c)
        /\ InFresh(c)' = InFresh(c)
    BY <1>2, CountsFrame
  <2>2. weak'[c] = weaks'[c] + InLocks(c)' + OfValue(c)'
    BY <1>2, LockCounts
  <2> QED
    BY <1>1, <1>2, <2>1, <2>2 DEF Counts
<1>6. QueuedOnce' /\ \A u \in Thread : Queued(u)' = Queued(u)
  BY <1>1, <1>2, QueueFrame
<1>7. ASSUME NEW c \in Block
      PROVE  Lives(c)'
  BY <1>1, <1>2, <1>6 DEF Lives
<1>8. ASSUME NEW u \in Thread
      PROVE  Stages(u)'
  BY <1>1, <1>2, <1>3 DEF TypeOK, Stages
<1>9. PoppedOnce' /\ Allocated'
  BY <1>1, <1>2, AllocatedFrame DEF PoppedOnce
<1> QED
  BY <1>4, <1>5, <1>6, <1>7, <1>8, <1>9 DEF IInv

LEMMA LockExchangeKeeps ==
  ASSUME IInv, NEW t \in Thread, LockExchange(t)
  PROVE  IInv'
<1>1. /\ TypeOK /\ PoppedOnce /\ QueuedOnce /\ Allocated
      /\ \A c \in Block : Counts(c) /\ Lives(c)
      /\ \A u \in Thread : Stages(u)
  BY DEF IInv
<1> DEFINE b == locked[t]
<1>2. /\ pc[t] = "lock" /\ count[t] # 0
      /\ UNCHANGED <<weak, life, member, fresh, pointer, queue, popped, todo>>
      /\ b \in Block /\ b # NULL
  BY <1>1 DEF LockExchange, createVars, destroyVars, TypeOK, Stages
<1>3. CASE ref[b] = count[t]
  <2>1. /\ ref' = [ref EXCEPT ![b] = @ + 1]
        /\ shared' = [shared EXCEPT ![b] = @ + 1]
        /\ LockReturns(t, b)
    BY <1>3 DEF LockExchange
  <2>2. /\ weaks' = [weaks EXCEPT ![b] = @ + 1]
        /\ locked' = [locked EXCEPT ![t] = NULL]
        /\ count' = [count EXCEPT ![t] = 0]
        /\ pc' = [pc EXCEPT ![t] = "idle"]
    BY <2>1 DEF LockReturns, Goto
  <2>3. TypeOK'
    <3>1. /\ ref' \in [Block -> Nat] /\ shared' \in [Block -> Nat]
          /\ weaks' \in [Block -> Nat] /\ count' \in [Thread -> Nat]
          /\ locked' \in [Thread -> Block \cup {NULL}]
      BY <1>1, <1>2, <2>1, <2>2 DEF TypeOK
    <3> QED
      BY <1>1, <1>2, <2>2, <3>1 DEF TypeOK
  <2>4. ref[b] > 0 /\ life[b] = "alive"
    BY <1>1, <1>2, <1>3 DEF TypeOK, Lives
  <2>5. ASSUME NEW c \in Block
        PROVE  Counts(c)'
    <3>1. /\ InMembers(c)' = InMembers(c) /\ InTodo(c)' = InTodo(c)
          /\ InFresh(c)' = InFresh(c)
          /\ InMembers(c) \in Nat /\ InTodo(c) \in Nat /\ InFresh(c) \in Nat
      BY <1>2, CountsFrame, CountsAreNat
    <3>2. weak'[c] = weaks'[c] + InLocks(c)' + OfValue(c)'
      BY <1>2, <2>1, LockCounts
    <3>3. /\ ref[c] \in Nat /\ shared[c] \in Nat
          /\ ref'[c] = ref[c] + (IF c = b THEN 1 ELSE 0)
          /\ shared'[c] = shared[c] + (IF c = b THEN 1 ELSE 0)
      BY <1>1, <1>2, <2>1 DEF TypeOK
    <3>4. ref[c] = shared[c] + InMembers(c) + InTodo(c) + InFresh(c)
      BY <1>1 DEF Counts
    <3>5. ref'[c] = shared'[c] + InMembers(c)' + InTodo(c)' + InFresh(c)'
      BY <3>1, <3>3, <3>4
    <3> QED
      BY <3>2, <3>5 DEF Counts
  <2>6. QueuedOnce' /\ \A u \in Thread : Queued(u)' = Queued(u)
    <3>1. \A c \in Block : ref[c] = 0 /\ life[c] = "alive" =>
                             ref'[c] = 0 /\ life'[c] = "alive"
      BY <1>1, <1>2, <2>1, <2>4 DEF TypeOK
    <3> QED
      BY <1>1, <1>2, <3>1, QueueFrame
  <2>7. ASSUME NEW c \in Block
        PROVE  Lives(c)'
    <3>1. /\ c # b => ref'[c] = ref[c]
          /\ ref'[b] > 0
      BY <1>1, <1>2, <2>1, <2>4 DEF TypeOK
    <3> QED
      BY <1>1, <1>2, <2>4, <2>6, <3>1 DEF Lives
  <2>8. ASSUME NEW u \in Thread
        PROVE  Stages(u)'
    BY <1>1, <1>2, <2>2 DEF TypeOK, Stages
  <2>9. PoppedOnce' /\ Allocated'
    BY <1>1, <1>2, AllocatedFrame DEF PoppedOnce
  <2> QED
    BY <2>3, <2>5, <2>6, <2>7, <2>8, <2>9 DEF IInv
<1>4. CASE ref[b] # count[t]
  <2>1. /\ count' = [count EXCEPT ![t] = ref[b]]
        /\ UNCHANGED <<ref, weaks, shared, pc, locked>>
    BY <1>4 DEF LockExchange, handleVars
  <2>2. TypeOK'
    BY <1>1, <1>2, <2>1 DEF TypeOK
  <2>3. ASSUME NEW c \in Block
        PROVE  Counts(c)'
    BY <1>1, <1>2, <2>1, CountsFrame DEF Counts
  <2>4. QueuedOnce' /\ \A u \in Thread : Queued(u)' = Queued(u)
    BY <1>1, <1>2, <2>1, QueueFrame
  <2>5. ASSUME NEW c \in Block
        PROVE  Lives(c)'
    BY <1>1, <1>2, <2>1, <2>4 DEF Lives
  <2>6. ASSUME NEW u \in Thread
        PROVE  Stages(u)'
    BY <1>1, <1>2, <2>1 DEF Stages
  <2>7. PoppedOnce' /\ Allocated'
    BY <1>1, <1>2, AllocatedFrame DEF PoppedOnce
  <2> QED
    BY <2>2, <2>3, <2>4, <2>5, <2>6, <2>7 DEF IInv
<1> QED
  BY <1>3, <1>4
\* A reference is dropped: the last one queues the block.
LEMMA RefDropped ==
  ASSUME IInv, NEW t \in Thread, NEW b \in Block, ref[b] > 0,
         ref' = [ref EXCEPT ![b] = @ - 1],
         ref[b] <= 1 => queue' = [queue EXCEPT ![t] = <<b>> \o @],
         ~(ref[b] <= 1) => queue' = queue,
         UNCHANGED <<weak, life, member>>
  PROVE  /\ ref' \in [Block -> Nat]
         /\ \A c \in Block : ref'[c] = ref[c] - (IF c = b THEN 1 ELSE 0)
         /\ queue' \in [Thread -> Seq(Block)]
         /\ \A u \in Thread : u # t => queue'[u] = queue[u]
         /\ QueuedOnce'
         /\ \A c \in Block : Lives(c)'
<1>1. /\ TypeOK /\ PoppedOnce /\ QueuedOnce /\ Allocated
      /\ \A c \in Block : Counts(c) /\ Lives(c)
      /\ \A u \in Thread : Stages(u)
  BY DEF IInv
<1>2. /\ ref' \in [Block -> Nat]
      /\ \A c \in Block : ref'[c] = ref[c] - (IF c = b THEN 1 ELSE 0)
  BY <1>1 DEF TypeOK
<1>3. life[b] = "alive"
  BY <1>1 DEF Lives
<1>4. /\ ref \in [Block -> Nat] /\ queue \in [Thread -> Seq(Block)]
  BY <1>1 DEF TypeOK
<1>5. CASE ref[b] <= 1
  <2>1. ref'[b] = 0
    BY <1>2, <1>4, <1>5
  <2>2. \A u \in Thread : b \notin Queued(u)
    BY <1>1, QueuedDead
  <2>3. /\ queue' \in [Thread -> Seq(Block)]
        /\ Queued(t)' = Queued(t) \cup {b}
        /\ \A u \in Thread : u # t => Queued(u)' = Queued(u)
        /\ \A u, v \in Thread :
             \A i \in 1..Len(queue'[u]), j \in 1..Len(queue'[v]) :
               queue'[u][i] = queue'[v][j] => u = v /\ i = j
    BY <1>1, <1>5, <2>2, Pushed
  <2>4. ASSUME NEW u \in Thread, NEW c \in Queued(u)'
        PROVE  ref'[c] = 0 /\ life'[c] = "alive"
    <3>1. c = b \/ c \in Queued(u)
      BY <2>3, <2>4
    <3>2. CASE c = b
      BY <1>3, <2>1, <3>2
    <3>3. CASE c \in Queued(u) /\ c # b
      <4>1. c \in Block /\ ref[c] = 0 /\ life[c] = "alive"
        BY <1>1, <3>3, QueuedDead
      <4> QED
        BY <3>3, <4>1
    <3> QED
      BY <3>1, <3>2, <3>3
  <2>5. QueuedOnce'
    <3>1. \A u \in Thread : \A i \in 1..Len(queue'[u]) : queue'[u][i] \in Queued(u)'
      BY DEF Queued
    <3> QED
      BY <2>3, <2>4, <3>1 DEF QueuedOnce
  <2>6. ASSUME NEW c \in Block
        PROVE  Lives(c)'
    <3>1. CASE c = b
      BY <1>1, <1>3, <2>1, <2>3, <3>1 DEF Lives
    <3>2. CASE c # b
      <4>1. ref'[c] = ref[c]
        BY <1>4, <3>2
      <4>2. \A u \in Thread : c \in Queued(u) => c \in Queued(u)'
        BY <2>3
      <4> QED
        BY <1>1, <4>1, <4>2 DEF Lives
    <3> QED
      BY <3>1, <3>2
  <2> QED
    BY <1>2, <1>5, <2>3, <2>5, <2>6
<1>6. CASE ~(ref[b] <= 1)
  <2>1. ref'[b] > 0
    BY <1>2, <1>4, <1>6
  <2>2. QueuedOnce' /\ \A u \in Thread : Queued(u)' = Queued(u)
    <3>1. \A c \in Block : ref[c] = 0 /\ life[c] = "alive" =>
                             ref'[c] = 0 /\ life'[c] = "alive"
      BY <1>4
    <3> QED
      BY <1>1, <1>6, <3>1, QueueFrame
  <2>3. ASSUME NEW c \in Block
        PROVE  Lives(c)'
    <3>1. c # b => ref'[c] = ref[c]
      BY <1>4
    <3> QED
      BY <1>1, <1>3, <2>1, <2>2, <3>1 DEF Lives
  <2> QED
    BY <1>2, <1>4, <1>6, <2>2, <2>3
<1> QED
  BY <1>5, <1>6

LEMMA DropSharedKeeps ==
  ASSUME IInv, NEW t \in Thread, NEW b \in Block, DropShared(t, b)
  PROVE  IInv'
<1>1. /\ TypeOK /\ PoppedOnce /\ QueuedOnce /\ Allocated
      /\ \A c \in Block : Counts(c) /\ Lives(c)
      /\ \A u \in Thread : Stages(u)
  BY DEF IInv
<1>2. /\ pc[t] = "idle" /\ shared[b] > 0
      /\ shared' = [shared EXCEPT ![b] = @ - 1]
      /\ ref' = [ref EXCEPT ![b] = @ - 1]
      /\ ref[b] <= 1 => queue' = [queue EXCEPT ![t] = <<b>>]
                        /\ pc' = [pc EXCEPT ![t] = "loop"]
      /\ ~(ref[b] <= 1) => queue' = queue /\ pc' = pc
      /\ UNCHANGED <<fresh, pointer, weak, life, member, weaks, locked, count, popped, todo>>
  BY DEF DropShared, Goto, createVars, lockVars
<1>3. ref[b] > 0 /\ queue[t] = <<>>
  BY <1>1, <1>2, Owners DEF Stages
<1>4. ref[b] <= 1 => queue' = [queue EXCEPT ![t] = <<b>> \o @]
  <2>1. <<b>> \o queue[t] = <<b>>
    BY <1>3
  <2> QED
    BY <1>2, <2>1
<1>5. /\ ref' \in [Block -> Nat]
      /\ \A c \in Block : ref'[c] = ref[c] - (IF c = b THEN 1 ELSE 0)
      /\ queue' \in [Thread -> Seq(Block)]
      /\ \A u \in Thread : u # t => queue'[u] = queue[u]
      /\ QueuedOnce'
      /\ \A c \in Block : Lives(c)'
  BY <1>2, <1>3, <1>4, RefDropped
<1>6. TypeOK'
  <2>1. shared' \in [Block -> Nat]
    BY <1>1, <1>2 DEF TypeOK
  <2> QED
    BY <1>1, <1>2, <1>5, <2>1 DEF TypeOK
<1>7. ASSUME NEW c \in Block
      PROVE  Counts(c)'
  <2>1. /\ InMembers(c) \in Nat /\ InTodo(c) \in Nat /\ InFresh(c) \in Nat
        /\ InLocks(c) \in Nat /\ OfValue(c) \in Nat
        /\ ref[c] \in Nat /\ weak[c] \in Nat /\ shared[c] \in Nat /\ weaks[c] \in Nat
    BY <1>1, CountsAreNat DEF TypeOK
  <2>2. /\ InMembers(c)' = InMembers(c) /\ InTodo(c)' = InTodo(c)
        /\ InFresh(c)' = InFresh(c)
        /\ InLocks(c)' = InLocks(c) /\ OfValue(c)' = OfValue(c)
    BY <1>2, CountsFrame
  <2>3. shared'[c] = shared[c] - (IF c = b THEN 1 ELSE 0)
    BY <1>1, <1>2 DEF TypeOK
  <2>4. ref[c] = shared[c] + InMembers(c) + InTodo(c) + InFresh(c)
    BY <1>1 DEF Counts
  <2>5. ref'[c] = shared'[c] + InMembers(c)' + InTodo(c)' + InFresh(c)'
    BY <1>5, <2>1, <2>2, <2>3, <2>4
  <2> QED
    BY <1>1, <1>2, <2>2, <2>5 DEF Counts
<1>8. ASSUME NEW u \in Thread
      PROVE  Stages(u)'
  <2>1. CASE u = t
    BY <1>1, <1>2, <2>1 DEF TypeOK, Stages
  <2>2. CASE u # t
    <3>1. pc'[u] = pc[u] /\ queue'[u] = queue[u]
      BY <1>1, <1>2, <1>5, <2>2 DEF TypeOK
    <3> QED
      BY <1>1, <1>2, <3>1 DEF Stages
  <2> QED
    BY <2>1, <2>2
<1>9. PoppedOnce' /\ Allocated'
  BY <1>1, <1>2, AllocatedFrame DEF PoppedOnce
<1> QED
  BY <1>5, <1>6, <1>7, <1>8, <1>9 DEF IInv

LEMMA UndoValueKeeps ==
  ASSUME IInv, NEW t \in Thread, UndoValue(t)
  PROVE  IInv'
<1>1. /\ TypeOK /\ PoppedOnce /\ QueuedOnce /\ Allocated
      /\ \A c \in Block : Counts(c) /\ Lives(c)
      /\ \A u \in Thread : Stages(u)
  BY DEF IInv
<1>2. /\ pc[t] = "undo"
      /\ UNCHANGED <<weak, life, member, shared, weaks, pointer, locked, count, popped,
                     todo>>
  BY DEF UndoValue, handleVars, lockVars
<1>3. queue[t] = <<>>
  BY <1>1, <1>2 DEF Stages
<1>4. CASE fresh[t] = {} /\ Goto(t, "idle") /\ UNCHANGED <<fresh, ref, queue>>
  BY <1>2, <1>3, <1>4, GotoKeeps
     DEF Goto, counterVars, handleVars, createVars, lockVars, destroyVars
<1>5. ASSUME NEW b \in fresh[t],
             fresh' = [fresh EXCEPT ![t] = @ \ {b}],
             ref' = [ref EXCEPT ![b] = @ - 1],
             ref[b] <= 1 => queue' = [queue EXCEPT ![t] = <<b>>]
                            /\ pc' = [pc EXCEPT ![t] = "loop"],
             ~(ref[b] <= 1) => queue' = queue /\ pc' = pc
      PROVE  IInv'
  <2>1. b \in Block
    BY <1>1 DEF TypeOK
  <2>2. ref[b] > 0
    BY <1>1, <2>1, Owners
  <2>3. ref[b] <= 1 => queue' = [queue EXCEPT ![t] = <<b>> \o @]
    <3>1. <<b>> \o queue[t] = <<b>>
      BY <1>3
    <3> QED
      BY <1>5, <3>1
  <2>4. /\ ref' \in [Block -> Nat]
        /\ \A c \in Block : ref'[c] = ref[c] - (IF c = b THEN 1 ELSE 0)
        /\ queue' \in [Thread -> Seq(Block)]
        /\ \A u \in Thread : u # t => queue'[u] = queue[u]
        /\ QueuedOnce'
        /\ \A c \in Block : Lives(c)'
    BY <1>2, <1>5, <2>1, <2>2, <2>3, RefDropped
  <2>5. /\ fresh' \in [Thread -> SUBSET Block] /\ fresh'[t] = fresh[t] \ {b}
        /\ \A u \in Thread : u # t => fresh'[u] = fresh[u]
    BY <1>1, <1>5 DEF TypeOK
  <2>6. TypeOK'
    BY <1>1, <1>2, <1>5, <2>4, <2>5 DEF TypeOK
  <2>7. ASSUME NEW c \in Block
        PROVE  Counts(c)'
    <3>1. /\ InMembers(c)' = InMembers(c) /\ InTodo(c)' = InTodo(c)
          /\ InLocks(c)' = InLocks(c) /\ OfValue(c)' = OfValue(c)
          /\ InMembers(c) \in Nat /\ InTodo(c) \in Nat /\ InFresh(c) \in Nat
          /\ ref[c] \in Nat /\ shared[c] \in Nat
      BY <1>1, <1>2, CountsFrame, CountsAreNat DEF TypeOK
    <3>2. /\ InFresh(c)' \in Nat
          /\ InFresh(c)' + (IF c \in fresh[t] THEN 1 ELSE 0)
               = InFresh(c) + (IF c \in fresh'[t] THEN 1 ELSE 0)
      BY <2>5, FreshChange
    <3>3. InFresh(c)' + (IF c = b THEN 1 ELSE 0) = InFresh(c)
      BY <2>5, <3>1, <3>2
    <3>4. ref[c] = shared[c] + InMembers(c) + InTodo(c) + InFresh(c)
      BY <1>1 DEF Counts
    <3>5. ref'[c] = shared[c] + InMembers(c) + InTodo(c) + InFresh(c)'
      <4>1. ref'[c] = ref[c] - (IF c = b THEN 1 ELSE 0)
        BY <2>4
      <4> QED
        BY <3>1, <3>2, <3>3, <3>4, <4>1
    <3> QED
      BY <1>1, <1>2, <3>1, <3>5 DEF Counts
  <2>8. ASSUME NEW u \in Thread
        PROVE  Stages(u)'
    BY <1>1, <1>2, <1>5, <2>4, <2>5 DEF TypeOK, Stages
  <2>9. PoppedOnce' /\ Allocated'
    BY <1>1, <1>2, AllocatedFrame DEF PoppedOnce
  <2> QED
    BY <2>4, <2>6, <2>7, <2>8, <2>9 DEF IInv
<1> QED
  BY <1>4, <1>5 DEF UndoValue, Goto

LEMMA DropMemberKeeps ==
  ASSUME IInv, NEW t \in Thread, NEW b \in Block, DropMember(t, b)
  PROVE  IInv'
<1>1. /\ TypeOK /\ PoppedOnce /\ QueuedOnce /\ Allocated
      /\ \A c \in Block : Counts(c) /\ Lives(c)
      /\ \A u \in Thread : Stages(u)
  BY DEF IInv
<1>2. /\ pc[t] = "destroy" /\ b \in todo[t]
      /\ todo' = [todo EXCEPT ![t] = @ \ {b}]
      /\ ref' = [ref EXCEPT ![b] = @ - 1]
      /\ ref[b] <= 1 => queue' = [queue EXCEPT ![t] = <<b>> \o @]
      /\ ~(ref[b] <= 1) => queue' = queue
      /\ UNCHANGED <<fresh, pointer, weak, life, member, shared, weaks, pc, locked, count, popped>>
  BY DEF DropMember, handleVars, createVars, lockVars
<1>3. ref[b] > 0
  BY <1>1, <1>2, Owners
<1>4. /\ ref' \in [Block -> Nat]
      /\ \A c \in Block : ref'[c] = ref[c] - (IF c = b THEN 1 ELSE 0)
      /\ queue' \in [Thread -> Seq(Block)]
      /\ \A u \in Thread : u # t => queue'[u] = queue[u]
      /\ QueuedOnce'
      /\ \A c \in Block : Lives(c)'
  BY <1>2, <1>3, RefDropped
<1>5. /\ todo' \in [Thread -> SUBSET Block] /\ todo'[t] = todo[t] \ {b}
      /\ \A u \in Thread : u # t => todo'[u] = todo[u]
  BY <1>1, <1>2 DEF TypeOK
<1>6. TypeOK'
  BY <1>1, <1>2, <1>4, <1>5 DEF TypeOK
<1>7. ASSUME NEW c \in Block
      PROVE  Counts(c)'
  <2>1. /\ InMembers(c)' = InMembers(c) /\ InFresh(c)' = InFresh(c)
        /\ InLocks(c)' = InLocks(c) /\ OfValue(c)' = OfValue(c)
        /\ InMembers(c) \in Nat /\ InTodo(c) \in Nat /\ InFresh(c) \in Nat
        /\ ref[c] \in Nat /\ shared[c] \in Nat
    BY <1>1, <1>2, CountsFrame, CountsAreNat DEF TypeOK
  <2>2. /\ InTodo(c)' \in Nat
        /\ InTodo(c)' + (IF c \in todo[t] THEN 1 ELSE 0)
             = InTodo(c) + (IF c \in todo'[t] THEN 1 ELSE 0)
    BY <1>5, TodoChange
  <2>3. InTodo(c)' + (IF c = b THEN 1 ELSE 0) = InTodo(c)
    BY <1>2, <1>5, <2>1, <2>2
  <2>4. ref[c] = shared[c] + InMembers(c) + InTodo(c) + InFresh(c)
    BY <1>1 DEF Counts
  <2>5. ref'[c] = shared[c] + InMembers(c) + InTodo(c)' + InFresh(c)
    <3>1. ref'[c] = ref[c] - (IF c = b THEN 1 ELSE 0)
      BY <1>4
    <3> QED
      BY <2>1, <2>2, <2>3, <2>4, <3>1
  <2> QED
    BY <1>1, <1>2, <2>1, <2>5 DEF Counts
<1>8. ASSUME NEW u \in Thread
      PROVE  Stages(u)'
  BY <1>1, <1>2, <1>4, <1>5 DEF TypeOK, Stages
<1>9. PoppedOnce' /\ Allocated'
  BY <1>1, <1>2, AllocatedFrame DEF PoppedOnce
<1> QED
  BY <1>4, <1>6, <1>7, <1>8, <1>9 DEF IInv
LEMMA PopKeeps ==
  ASSUME IInv, NEW t \in Thread, Pop(t)
  PROVE  IInv'
<1>1. /\ TypeOK /\ PoppedOnce /\ QueuedOnce /\ Allocated
      /\ \A c \in Block : Counts(c) /\ Lives(c)
      /\ \A u \in Thread : Stages(u)
  BY DEF IInv
<1> DEFINE b == Head(queue[t])
<1>2. /\ pc[t] = "loop" /\ queue[t] # <<>>
      /\ popped' = [popped EXCEPT ![t] = b]
      /\ life' = [life EXCEPT ![b] = "destroyed"]
      /\ todo' = [todo EXCEPT ![t] = member[b]]
      /\ member' = [member EXCEPT ![b] = {}]
      /\ queue' = [queue EXCEPT ![t] = Tail(@)]
      /\ pc' = [pc EXCEPT ![t] = "destroy"]
      /\ UNCHANGED <<fresh, pointer, ref, weak, shared, weaks, locked, count>>
  BY DEF Pop, Goto, counterVars, handleVars, createVars, lockVars
<1>3. /\ queue' \in [Thread -> Seq(Block)]
      /\ b \in Block
      /\ b \in Queued(t)
      /\ Queued(t)' = Queued(t) \ {b}
      /\ \A u \in Thread : u # t => Queued(u)' = Queued(u) /\ b \notin Queued(u)
      /\ \A u, v \in Thread :
           \A i \in 1..Len(queue'[u]), j \in 1..Len(queue'[v]) :
             queue'[u][i] = queue'[v][j] => u = v /\ i = j
  BY <1>1, <1>2, TakenOff
<1>4. ref[b] = 0 /\ life[b] = "alive"
  BY <1>1, <1>3, QueuedDead
<1> HIDE DEF b
<1>5. todo[t] = {} /\ popped[t] = NULL
  BY <1>1, <1>2 DEF Stages
<1>6. TypeOK'
  BY <1>1, <1>2, <1>3 DEF TypeOK
<1>7. ASSUME NEW c \in Block
      PROVE  Counts(c)'
  <2>1. /\ InMembers(c) \in Nat /\ InTodo(c) \in Nat /\ InFresh(c) \in Nat
        /\ InLocks(c) \in Nat /\ OfValue(c) \in Nat
        /\ ref[c] \in Nat /\ weak[c] \in Nat /\ shared[c] \in Nat /\ weaks[c] \in Nat
    BY <1>1, CountsAreNat DEF TypeOK
  <2>2. InFresh(c)' = InFresh(c) /\ InLocks(c)' = InLocks(c)
    BY <1>2, CountsFrame
  <2>3. /\ \A d \in Block : d # b => member'[d] = member[d]
        /\ \A u \in Thread : u # t => todo'[u] = todo[u]
        /\ member'[b] = {} /\ todo'[t] = member[b]
    BY <1>1, <1>2, <1>3 DEF TypeOK
  <2>4. /\ InMembers(c)' \in Nat
        /\ InMembers(c)' + (IF c \in member[b] THEN 1 ELSE 0) = InMembers(c)
    <3>1. /\ InMembers(c)' \in Nat
          /\ InMembers(c)' + (IF c \in member[b] THEN 1 ELSE 0)
               = InMembers(c) + (IF c \in member'[b] THEN 1 ELSE 0)
      BY <1>3, <2>3, MembersChange
    <3> QED
      BY <2>1, <2>3, <3>1
  <2>5. /\ InTodo(c)' \in Nat
        /\ InTodo(c)' = InTodo(c) + (IF c \in member[b] THEN 1 ELSE 0)
    <3>1. /\ InTodo(c)' \in Nat
          /\ InTodo(c)' + (IF c \in todo[t] THEN 1 ELSE 0)
               = InTodo(c) + (IF c \in todo'[t] THEN 1 ELSE 0)
      BY <2>3, TodoChange
    <3> QED
      BY <1>5, <2>1, <2>3, <3>1
  <2>6. OfValue(c)' = OfValue(c)
    <3>1. CASE c = b
      BY <1>1, <1>2, <1>4, <3>1 DEF OfValue, TypeOK
    <3>2. CASE c # b
      <4>1. life'[c] = life[c]
        BY <1>1, <1>2, <3>2 DEF TypeOK
      <4>2. \A u \in Thread : popped'[u] = c <=> popped[u] = c
        BY <1>1, <1>2, <1>5, <3>2, NullIsNoBlock DEF TypeOK
      <4> QED
        BY <4>1, <4>2 DEF OfValue
    <3> QED
      BY <3>1, <3>2
  <2>7. ref[c] = shared[c] + InMembers(c) + InTodo(c) + InFresh(c)
    BY <1>1 DEF Counts
  <2>8. ref[c] = shared[c] + InMembers(c)' + InTodo(c)' + InFresh(c)
    BY <2>1, <2>4, <2>5, <2>7
  <2> QED
    BY <1>1, <1>2, <2>2, <2>6, <2>8 DEF Counts
<1>8. \A c \in Block : c # b => life'[c] = life[c] /\ member'[c] = member[c]
  BY <1>1, <1>2 DEF TypeOK
<1>9. life'[b] = "destroyed" /\ member'[b] = {}
  BY <1>1, <1>2, <1>3 DEF TypeOK
<1>10. QueuedOnce'
  <2>1. ASSUME NEW u \in Thread, NEW c \in Queued(u)'
        PROVE  ref'[c] = 0 /\ life'[c] = "alive"
    <3>1. c \in Queued(u) /\ c # b
      BY <1>3, <2>1
    <3>2. c \in Block /\ ref[c] = 0 /\ life[c] = "alive"
      BY <1>1, <3>1, QueuedDead
    <3> QED
      BY <1>2, <1>8, <3>1, <3>2
  <2>2. \A u \in Thread : \A i \in 1..Len(queue'[u]) : queue'[u][i] \in Queued(u)'
    BY DEF Queued
  <2> QED
    BY <1>3, <2>1, <2>2 DEF QueuedOnce
<1>11. ASSUME NEW c \in Block
       PROVE  Lives(c)'
  <2>1. CASE c = b
    BY <1>1, <1>2, <1>4, <1>9, <2>1 DEF Lives
  <2>2. CASE c # b
    <3>1. \A u \in Thread : c \in Queued(u) => c \in Queued(u)'
      BY <1>3, <2>2
    <3> QED
      BY <1>1, <1>2, <1>8, <2>2, <3>1 DEF Lives
  <2> QED
    BY <2>1, <2>2
<1>12. ASSUME NEW u \in Thread
       PROVE  Stages(u)'
  <2>1. CASE u = t
    <3>1. pc'[t] = "destroy" /\ popped'[t] = b /\ b # NULL
      BY <1>1, <1>2, <1>3, NullIsNoBlock DEF TypeOK
    <3> QED
      BY <1>1, <1>2, <2>1, <3>1 DEF Stages
  <2>2. CASE u # t
    <3>1. /\ pc'[u] = pc[u] /\ popped'[u] = popped[u] /\ todo'[u] = todo[u]
          /\ queue'[u] = queue[u]
      BY <1>1, <1>2, <2>2 DEF TypeOK
    <3> QED
      BY <1>1, <1>2, <3>1 DEF Stages
  <2> QED
    BY <2>1, <2>2
<1>13. PoppedOnce'
  <2>1. /\ popped'[t] = b
        /\ \A u \in Thread : u # t => popped'[u] = popped[u]
    BY <1>1, <1>2 DEF TypeOK
  <2>2. \A u \in Thread : popped[u] # b
    BY <1>1, <1>3, <1>4, NullIsNoBlock DEF PoppedOnce
  <2>3. \A u \in Thread : popped[u] # NULL =>
          popped[u] \in Block /\ life'[popped[u]] = "destroyed"
    BY <1>1, <1>8, <2>2 DEF TypeOK, PoppedOnce
  <2> QED
    BY <1>1, <1>9, <2>1, <2>2, <2>3 DEF PoppedOnce
<1>14. Allocated'
  BY <1>1, <1>2, <1>4, <1>8, <1>9, AllocatedFrame
<1> QED
  BY <1>6, <1>7, <1>10, <1>11, <1>12, <1>13, <1>14 DEF IInv

\* A weak reference is given up; the last one frees the block, whose value
\* is gone by then.
LEMMA WeakDropped ==
  ASSUME IInv, NEW b \in Block, weak[b] > 0, DecrementWeakRef(b),
         UNCHANGED <<ref, member, queue>>,
         weak[b] <= 1 => life[b] = "destroyed"
  PROVE  /\ weak' \in [Block -> Nat]
         /\ \A c \in Block : weak'[c] = weak[c] - (IF c = b THEN 1 ELSE 0)
         /\ life' \in [Block -> {"free", "raw", "alive", "destroyed"}]
         /\ \A c \in Block : c # b => life'[c] = life[c]
         /\ life'[b] = IF weak[b] <= 1 THEN "free" ELSE life[b]
         /\ QueuedOnce'
         /\ \A c \in Block : Lives(c)'
<1>1. /\ TypeOK /\ PoppedOnce /\ QueuedOnce /\ Allocated
      /\ \A c \in Block : Counts(c) /\ Lives(c)
      /\ \A u \in Thread : Stages(u)
  BY DEF IInv
<1>2. /\ weak' \in [Block -> Nat]
      /\ \A c \in Block : weak'[c] = weak[c] - (IF c = b THEN 1 ELSE 0)
      /\ \A c \in Block : weak[c] \in Nat
  BY <1>1 DEF TypeOK, DecrementWeakRef
<1>3. /\ life' \in [Block -> {"free", "raw", "alive", "destroyed"}]
      /\ \A c \in Block : c # b => life'[c] = life[c]
      /\ life'[b] = IF weak[b] <= 1 THEN "free" ELSE life[b]
  BY <1>1 DEF TypeOK, DecrementWeakRef
<1>4. \A c \in Block : life[c] = "alive" <=> life'[c] = "alive"
  BY <1>3
<1>5. QueuedOnce' /\ \A u \in Thread : Queued(u)' = Queued(u)
  <2>1. \A c \in Block : ref[c] = 0 /\ life[c] = "alive" =>
                           ref'[c] = 0 /\ life'[c] = "alive"
    BY <1>4
  <2> QED
    BY <1>1, <2>1, QueueFrame
<1>6. ASSUME NEW c \in Block
      PROVE  Lives(c)'
  <2>1. weak'[c] > 0 <=> life'[c] \in {"alive", "destroyed"}
    <3>1. CASE c = b /\ weak[b] <= 1
      <4>1. weak'[b] = 0
        BY <1>2, <3>1
      <4> QED
        BY <1>3, <3>1, <4>1
    <3>2. CASE c = b /\ ~(weak[b] <= 1)
      <4>1. weak'[b] > 0 /\ life'[b] = life[b]
        BY <1>2, <1>3, <3>2
      <4> QED
        BY <1>1, <3>2, <4>1 DEF Lives
    <3>3. CASE c # b
      <4>1. weak'[c] = weak[c] /\ life'[c] = life[c]
        BY <1>2, <1>3, <3>3
      <4> QED
        BY <1>1, <4>1 DEF Lives
    <3> QED
      BY <3>1, <3>2, <3>3
  <2> QED
    BY <1>1, <1>4, <1>5, <2>1 DEF Lives
<1> QED
  BY <1>2, <1>3, <1>5, <1>6

LEMMA DropWeakKeeps ==
  ASSUME IInv, NEW t \in Thread, NEW b \in Block, DropWeak(t, b)
  PROVE  IInv'
<1>1. /\ TypeOK /\ PoppedOnce /\ QueuedOnce /\ Allocated
      /\ \A c \in Block : Counts(c) /\ Lives(c)
      /\ \A u \in Thread : Stages(u)
  BY DEF IInv
<1>2. /\ pc[t] = "idle" /\ weaks[b] > 0
      /\ weaks' = [weaks EXCEPT ![b] = @ - 1]
      /\ DecrementWeakRef(b)
      /\ UNCHANGED <<fresh, pointer, ref, member, shared, pc, locked, count, queue, popped, todo>>
  BY DEF DropWeak, createVars, lockVars, destroyVars
<1>3. weak[b] > 0 /\ life[b] \in {"alive", "destroyed"}
  BY <1>1, <1>2, Owners
<1>4. weak[b] <= 1 => OfValue(b) = 0
  <2>1. /\ InLocks(b) \in Nat /\ OfValue(b) \in Nat
        /\ weak[b] \in Nat /\ weaks[b] \in Nat
        /\ weak[b] = weaks[b] + InLocks(b) + OfValue(b)
    BY <1>1, CountsAreNat DEF TypeOK, Counts
  <2> QED
    BY <1>2, <2>1
<1>5. weak[b] <= 1 =>
        life[b] = "destroyed" /\ \A u \in Thread : popped[u] # b
  BY <1>1, <1>3, <1>4 DEF OfValue, TypeOK
<1>6. /\ weak' \in [Block -> Nat]
      /\ \A c \in Block : weak'[c] = weak[c] - (IF c = b THEN 1 ELSE 0)
      /\ life' \in [Block -> {"free", "raw", "alive", "destroyed"}]
      /\ \A c \in Block : c # b => life'[c] = life[c]
      /\ life'[b] = IF weak[b] <= 1 THEN "free" ELSE life[b]
      /\ QueuedOnce'
      /\ \A c \in Block : Lives(c)'
  BY <1>2, <1>3, <1>5, WeakDropped
<1>7. TypeOK'
  <2>1. weaks' \in [Block -> Nat]
    BY <1>1, <1>2 DEF TypeOK
  <2> QED
    BY <1>1, <1>2, <1>6, <2>1 DEF TypeOK
<1>8. ASSUME NEW c \in Block
      PROVE  Counts(c)'
  <2>1. /\ InMembers(c) \in Nat /\ InTodo(c) \in Nat /\ InFresh(c) \in Nat
        /\ InLocks(c) \in Nat /\ OfValue(c) \in Nat
        /\ ref[c] \in Nat /\ weak[c] \in Nat /\ shared[c] \in Nat /\ weaks[c] \in Nat
    BY <1>1, CountsAreNat DEF TypeOK
  <2>2. /\ InMembers(c)' = InMembers(c) /\ InTodo(c)' = InTodo(c)
        /\ InFresh(c)' = InFresh(c) /\ InLocks(c)' = InLocks(c)
    BY <1>2, CountsFrame
  <2>3. OfValue(c)' = OfValue(c)
    <3>1. life'[c] = "alive" <=> life[c] = "alive"
      BY <1>5, <1>6
    <3> QED
      BY <1>2, <3>1 DEF OfValue
  <2>4. /\ weaks'[c] = weaks[c] - (IF c = b THEN 1 ELSE 0)
        /\ weak'[c] = weak[c] - (IF c = b THEN 1 ELSE 0)
    BY <1>1, <1>2, <1>6 DEF TypeOK
  <2>5. weak[c] = weaks[c] + InLocks(c) + OfValue(c)
    BY <1>1 DEF Counts
  <2>6. weak'[c] = weaks'[c] + InLocks(c) + OfValue(c)
    BY <2>1, <2>4, <2>5
  <2> QED
    BY <1>1, <1>2, <2>2, <2>3, <2>6 DEF Counts
<1>9. ASSUME NEW u \in Thread
      PROVE  Stages(u)'
  BY <1>1, <1>2 DEF Stages
<1>10. PoppedOnce'
  <2>1. \A u \in Thread : popped[u] # NULL =>
          popped[u] \in Block /\ life'[popped[u]] = "destroyed"
    BY <1>1, <1>5, <1>6 DEF TypeOK, PoppedOnce
  <2> QED
    BY <1>1, <1>2, <2>1 DEF PoppedOnce
<1>11. Allocated'
  BY <1>1, <1>2, <1>3, <1>6, AllocatedFrame
<1> QED
  BY <1>6, <1>7, <1>8, <1>9, <1>10, <1>11 DEF IInv

LEMMA ReleasePoppedKeeps ==
  ASSUME IInv, NEW t \in Thread, ReleasePopped(t)
  PROVE  IInv'
<1>1. /\ TypeOK /\ PoppedOnce /\ QueuedOnce /\ Allocated
      /\ \A c \in Block : Counts(c) /\ Lives(c)
      /\ \A u \in Thread : Stages(u)
  BY DEF IInv
<1> DEFINE b == popped[t]
<1>2. /\ pc[t] = "destroy" /\ todo[t] = {}
      /\ DecrementWeakRef(b)
      /\ popped' = [popped EXCEPT ![t] = NULL]
      /\ pc' = [pc EXCEPT ![t] = "loop"]
      /\ UNCHANGED <<fresh, pointer, ref, member, shared, weaks, locked, count, queue, todo>>
  BY DEF ReleasePopped, Goto, handleVars, createVars, lockVars
<1>3. /\ b # NULL /\ b \in Block /\ life[b] = "destroyed"
  BY <1>1, <1>2 DEF TypeOK, Stages, PoppedOnce
<1>4. weak[b] > 0
  BY <1>1, <1>3, Owners
<1>5. \A u \in Thread : u # t => popped[u] # b
  BY <1>1, <1>3 DEF PoppedOnce
<1>6. /\ weak' \in [Block -> Nat]
      /\ \A c \in Block : weak'[c] = weak[c] - (IF c = b THEN 1 ELSE 0)
      /\ life' \in [Block -> {"free", "raw", "alive", "destroyed"}]
      /\ \A c \in Block : c # b => life'[c] = life[c]
      /\ life'[b] = IF weak[b] <= 1 THEN "free" ELSE life[b]
      /\ QueuedOnce'
      /\ \A c \in Block : Lives(c)'
  BY <1>2, <1>3, <1>4, WeakDropped
<1>7. TypeOK'
  BY <1>1, <1>2, <1>6 DEF TypeOK
<1>8. /\ popped'[t] = NULL
      /\ \A u \in Thread : u # t => popped'[u] = popped[u]
  BY <1>1, <1>2 DEF TypeOK
<1>9. ASSUME NEW c \in Block
      PROVE  Counts(c)'
  <2>1. /\ InMembers(c) \in Nat /\ InTodo(c) \in Nat /\ InFresh(c) \in Nat
        /\ InLocks(c) \in Nat /\ OfValue(c) \in Nat
        /\ ref[c] \in Nat /\ weak[c] \in Nat /\ shared[c] \in Nat /\ weaks[c] \in Nat
    BY <1>1, CountsAreNat DEF TypeOK
  <2>2. /\ InMembers(c)' = InMembers(c) /\ InTodo(c)' = InTodo(c)
        /\ InFresh(c)' = InFresh(c) /\ InLocks(c)' = InLocks(c)
    BY <1>2, CountsFrame
  <2>3. OfValue(c)' = OfValue(c) - (IF c = b THEN 1 ELSE 0)
    <3>1. CASE c = b
      <4>1. OfValue(c) = 1
        BY <3>1 DEF OfValue
      <4>2. OfValue(c)' = 0
        BY <1>3, <1>5, <1>6, <1>8, <3>1 DEF OfValue
      <4> QED
        BY <3>1, <4>1, <4>2
    <3>2. CASE c # b
      <4>1. \A u \in Thread : popped'[u] = c <=> popped[u] = c
        BY <1>8, <3>2, NullIsNoBlock
      <4>2. OfValue(c)' = OfValue(c)
        BY <1>6, <3>2, <4>1 DEF OfValue
      <4> QED
        BY <2>1, <3>2, <4>2
    <3> QED
      BY <3>1, <3>2
  <2>4. weak'[c] = weak[c] - (IF c = b THEN 1 ELSE 0)
    BY <1>6
  <2>5. weak[c] = weaks[c] + InLocks(c) + OfValue(c)
    BY <1>1 DEF Counts
  <2>6. weak'[c] = weaks[c] + InLocks(c) + OfValue(c)'
    BY <2>1, <2>3, <2>4, <2>5
  <2> QED
    BY <1>1, <1>2, <2>2, <2>6 DEF Counts
<1>10. ASSUME NEW u \in Thread
       PROVE  Stages(u)'
  <2>1. CASE u = t
    BY <1>1, <1>2, <1>8, <2>1 DEF TypeOK, Stages
  <2>2. CASE u # t
    BY <1>1, <1>2, <1>8, <2>2 DEF TypeOK, Stages
  <2> QED
    BY <2>1, <2>2
<1>11. PoppedOnce'
  <2>1. \A u \in Thread : u # t /\ popped[u] # NULL =>
          popped[u] \in Block /\ life'[popped[u]] = "destroyed"
    BY <1>1, <1>5, <1>6 DEF TypeOK, PoppedOnce
  <2> QED
    BY <1>1, <1>8, <2>1 DEF PoppedOnce
<1>12. Allocated'
  BY <1>1, <1>2, <1>3, <1>6, AllocatedFrame
<1> QED
  BY <1>6, <1>7, <1>9, <1>10, <1>11, <1>12 DEF IInv
-----------------------------------------------------------------------------
(* The invariant, and what follows from it.                                *)

LEMMA InitInv == Init => IInv
<1> SUFFICES ASSUME Init
             PROVE  IInv
  OBVIOUS
<1>1. TypeOK
  BY DEF Init, TypeOK
<1>2. ASSUME NEW b \in Block
      PROVE  Counts(b) /\ Lives(b)
  <2>1. {c \in Block : b \in member[c]} = {}
    BY DEF Init
  <2>2. {t \in Thread : b \in todo[t]} = {} /\ {t \in Thread : b \in fresh[t]} = {}
    BY DEF Init
  <2>3. {t \in Thread : locked[t] = b} = {}
    BY NullIsNoBlock DEF Init
  <2>4. /\ InMembers(b) = 0 /\ InTodo(b) = 0 /\ InFresh(b) = 0 /\ InLocks(b) = 0
    BY <2>1, <2>2, <2>3, FS_EmptySet DEF InMembers, InTodo, InFresh, InLocks
  <2>5. OfValue(b) = 0
    BY NullIsNoBlock DEF Init, OfValue
  <2>6. ref[b] = 0 /\ weak[b] = 0 /\ shared[b] = 0 /\ weaks[b] = 0
    BY DEF Init
  <2>7. Counts(b)
    BY <2>4, <2>5, <2>6 DEF Counts
  <2> QED
    BY <2>6, <2>7 DEF Init, Lives
<1>3. \A t \in Thread : Stages(t)
  BY DEF Init, Stages
<1>4. PoppedOnce /\ QueuedOnce /\ Allocated
  BY DEF Init, PoppedOnce, QueuedOnce, Allocated
<1> QED
  BY <1>1, <1>2, <1>3, <1>4 DEF IInv

LEMMA NextInv == IInv /\ [Next]_vars => IInv'
<1> SUFFICES ASSUME IInv, [Next]_vars
             PROVE  IInv'
  OBVIOUS
<1>1. CASE UNCHANGED vars
  BY <1>1, CountsFrame, QueueFrame
     DEF vars, counterVars, handleVars, createVars, lockVars, destroyVars, IInv, TypeOK,
         Counts, Lives, Stages, PoppedOnce, QueuedOnce, Allocated
<1>2. ASSUME NEW t \in Thread,
             \/ MakeShared(t) \/ WrapValue(t) \/ Allocate(t) \/ Construct(t)
             \/ AllocateFails(t) \/ ConstructFails(t) \/ UndoValue(t)
             \/ LockFails(t) \/ LockExchange(t) \/ Destroying(t)
      PROVE  IInv'
  BY <1>2, MakeSharedKeeps, WrapValueKeeps, AllocateKeeps, ConstructKeeps,
     AllocateFailsKeeps, ConstructFailsKeeps, UndoValueKeeps, LockFailsKeeps, LockExchangeKeeps, PopKeeps,
     ReleasePoppedKeeps, EndLoopKeeps, DropMemberKeeps DEF Destroying
<1>3. ASSUME NEW t \in Thread, NEW b \in Block,
             \/ CopyShared(t, b) \/ MakeWeak(t, b) \/ Lock(t, b)
             \/ DropShared(t, b) \/ DropWeak(t, b)
      PROVE  IInv'
  BY <1>3, CopySharedKeeps, MakeWeakKeeps, LockKeeps, DropSharedKeeps, DropWeakKeeps
<1> QED
  BY <1>1, <1>2, <1>3 DEF Next

LEMMA Invariance == Spec => []IInv
<1>1. Init => IInv
  BY InitInv
<1>2. IInv /\ [Next]_vars => IInv'
  BY NextInv
<1> QED
  BY <1>1, <1>2, PTL DEF Spec

\* The variables have their types: no counter goes below zero.
THEOREM TypeCorrect == Spec => []TypeOK
<1>1. IInv => TypeOK
  BY DEF IInv
<1> QED
  BY <1>1, Invariance, PTL

\* Both counters of every block are the numbers of their owners, whoever
\* else copies, drops, locks or destroys, and whatever fails while a block is
\* made.
THEOREM CountersCorrect == Spec => []CountersAreExact
<1>1. IInv => CountersAreExact
  BY DEF IInv, CountersAreExact, Counts, InMembers, InTodo, InFresh, InLocks, OfValue
<1> QED
  BY <1>1, Invariance, PTL

\* A handle keeps what it points to: a SharedPtr the value, a WeakPtr the
\* block.
THEOREM HandlesCorrect == Spec => []HandlesKeep
<1>1. IInv => HandlesKeep
  BY Owners DEF IInv, HandlesKeep
<1> QED
  BY <1>1, Invariance, PTL

\* A block is in one list of blocks to destroy, and there once.
THEOREM QueueCorrect == Spec => []QueuedOnce
<1>1. IInv => QueuedOnce
  BY DEF IInv
<1> QED
  BY <1>1, Invariance, PTL

\* What nobody refers to is about to be destroyed or freed.
THEOREM NoLeak == Spec => []NothingLeaks
<1>1. ASSUME IInv
      PROVE  NothingLeaks
  <2>1. /\ TypeOK /\ \A t \in Thread : Stages(t)
        /\ \A b \in Block : Counts(b) /\ Lives(b)
    BY <1>1 DEF IInv
  <2>2. ASSUME NEW b \in Block, life[b] = "alive", ref[b] = 0
        PROVE  \E t \in Thread :
                 /\ pc[t] \in {"loop", "destroy"}
                 /\ \E i \in 1..Len(queue[t]) : queue[t][i] = b
    <3>1. PICK t \in Thread : b \in Queued(t)
      BY <2>1, <2>2 DEF Lives
    <3>2. PICK i \in 1..Len(queue[t]) : queue[t][i] = b
      BY <3>1 DEF Queued
    <3>3. queue[t] # <<>>
      BY <3>2
    <3>4. pc[t] \in {"loop", "destroy"}
      BY <2>1, <3>3 DEF Stages
    <3> QED
      BY <3>2, <3>4
  <2>3. ASSUME NEW b \in Block, life[b] = "destroyed"
        PROVE  \/ weaks[b] > 0
               \/ \E t \in Thread : locked[t] = b \/ popped[t] = b
    <3> SUFFICES ASSUME ~(weaks[b] > 0), \A t \in Thread : locked[t] # b,
                        \A t \in Thread : popped[t] # b
                 PROVE  FALSE
      OBVIOUS
    <3>1. weak[b] > 0 /\ weaks[b] = 0
      BY <2>1, <2>3 DEF Lives, TypeOK
    <3>2. {t \in Thread : locked[t] = b} = {}
      OBVIOUS
    <3>3. InLocks(b) = 0
      BY <3>2, FS_EmptySet DEF InLocks
    <3>4. OfValue(b) = 0
      BY <2>3 DEF OfValue
    <3>5. weak[b] = weaks[b] + InLocks(b) + OfValue(b)
      BY <2>1 DEF Counts
    <3> QED
      BY <3>1, <3>3, <3>4, <3>5
  <2>4. ASSUME NEW b \in Block, life[b] = "raw"
        PROVE  \E t \in Thread : pc[t] = "construct" /\ pointer[t] = b
    <3>1. PICK t \in Thread : pointer[t] = b
      BY <1>1, <2>4 DEF IInv, Allocated
    <3>2. pc[t] = "construct"
      BY <2>1, <3>1, NullIsNoBlock DEF Stages
    <3> QED
      BY <3>1, <3>2
  <2> QED
    BY <2>2, <2>3, <2>4 DEF NothingLeaks
<1> QED
  BY <1>1, Invariance, PTL

\* The memory of a block goes after its value is destroyed: the strong
\* references together hold a weak one until then.
THEOREM FreeingCorrect == Spec => FreedAfterDestroyed
<1>1. ASSUME IInv, [Next]_vars, NEW b \in Block, life[b] = "alive"
      PROVE  life'[b] \in {"alive", "destroyed"}
  <2>1. /\ TypeOK /\ PoppedOnce /\ Allocated
        /\ Counts(b) /\ \A t \in Thread : Stages(t)
    BY <1>1 DEF IInv
  <2>2. weak[b] = weaks[b] + InLocks(b) + 1
    BY <1>1, <2>1 DEF Counts, OfValue
  <2>3. ASSUME NEW t \in Thread, NEW c \in Block, DropWeak(t, c)
        PROVE  life'[b] \in {"alive", "destroyed"}
    <3>1. /\ weaks[c] > 0
          /\ life' = IF weak[c] <= 1 THEN [life EXCEPT ![c] = "free"] ELSE life
      BY <2>3 DEF DropWeak, DecrementWeakRef
    <3>2. c = b => ~(weak[b] <= 1)
      <4>1. InLocks(b) \in Nat /\ weaks[b] \in Nat /\ weak[b] \in Nat
        BY <2>1, CountsAreNat DEF TypeOK
      <4> QED
        BY <2>2, <3>1, <4>1
    <3> QED
      BY <1>1, <2>1, <3>1, <3>2 DEF TypeOK
  <2>4. ASSUME NEW t \in Thread, ReleasePopped(t)
        PROVE  life'[b] \in {"alive", "destroyed"}
    <3>1. /\ popped[t] # NULL /\ popped[t] # b
      BY <1>1, <2>1, <2>4 DEF ReleasePopped, Stages, PoppedOnce
    <3>2. life' = IF weak[popped[t]] <= 1
                    THEN [life EXCEPT ![popped[t]] = "free"] ELSE life
      BY <2>4 DEF ReleasePopped, DecrementWeakRef
    <3> QED
      BY <1>1, <2>1, <3>1, <3>2 DEF TypeOK
  <2>5. ASSUME NEW t \in Thread, Allocate(t) \/ Construct(t) \/ ConstructFails(t)
        PROVE  life'[b] \in {"alive", "destroyed"}
    <3>1. CASE Allocate(t)
      BY <1>1, <2>1, <3>1 DEF Allocate, TypeOK
    <3>2. CASE Construct(t) \/ ConstructFails(t)
      <4>1. pc[t] = "construct"
        BY <3>2 DEF Construct, ConstructFails
      <4>2. pointer[t] # b
        BY <1>1, <2>1, <4>1 DEF Stages, Allocated
      <4>3. life'[b] = life[b]
        BY <2>1, <3>2, <4>2 DEF Construct, ConstructFails, NewBlock, TypeOK
      <4> QED
        BY <1>1, <4>3
    <3> QED
      BY <2>5, <3>1, <3>2
  <2>6. ASSUME NEW t \in Thread, Pop(t)
        PROVE  life'[b] \in {"alive", "destroyed"}
    BY <1>1, <2>1, <2>6 DEF Pop, TypeOK
  <2>7. CASE life' = life
    BY <1>1, <2>7
  <2>8. ASSUME NEW t \in Thread,
               \/ MakeShared(t) \/ WrapValue(t) \/ Allocate(t) \/ Construct(t)
               \/ AllocateFails(t) \/ ConstructFails(t) \/ UndoValue(t)
               \/ LockFails(t) \/ LockExchange(t) \/ Destroying(t)
        PROVE  life'[b] \in {"alive", "destroyed"}
    <3>1. \/ Allocate(t) \/ Construct(t) \/ ConstructFails(t)
          \/ Pop(t) \/ ReleasePopped(t)
          \/ life' = life
      BY <2>8 DEF MakeShared, WrapValue, AllocateFails, UndoValue,
         LockFails, LockExchange, Destroying, EndLoop, DropMember
    <3> QED
      BY <2>4, <2>5, <2>6, <2>7, <3>1
  <2>9. ASSUME NEW t \in Thread, NEW c \in Block,
               \/ CopyShared(t, c) \/ MakeWeak(t, c) \/ Lock(t, c)
               \/ DropShared(t, c) \/ DropWeak(t, c)
        PROVE  life'[b] \in {"alive", "destroyed"}
    <3>1. DropWeak(t, c) \/ life' = life
      BY <2>9 DEF CopyShared, MakeWeak, Lock, DropShared
    <3> QED
      BY <2>3, <2>7, <3>1
  <2>10. CASE UNCHANGED vars
    BY <2>7, <2>10 DEF vars
  <2> QED
    BY <1>1, <2>8, <2>9, <2>10 DEF Next
<1>2. IInv /\ [Next]_vars =>
        [\A b \in Block : life[b] = "alive" => life'[b] \in {"alive", "destroyed"}]_vars
  BY <1>1
<1> QED
  BY <1>2, Invariance, PTL DEF Spec, FreedAfterDestroyed
=============================================================================
