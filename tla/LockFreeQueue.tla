--------------------------- MODULE LockFreeQueue ---------------------------
(***************************************************************************)
(* LockFreeQueue: push and pop, one action per operation on head_, tail_   *)
(* and Node::next, AtomicSharedPtrs whose load and compareExchange take    *)
(* effect at one moment.  head_ points to a dummy node in front of the     *)
(* values.  The SharedPtrs of nodes are in head_, tail_, in live nodes and *)
(* in the variables of running calls.                                      *)
(***************************************************************************)
EXTENDS Nodes

CONSTANTS Thread, Value, None

VARIABLES
  head,       \* head_
  tail,       \* tail_
  next,       \* Node::next
  value,      \* Node::value, None in a dummy and once it is moved out
  pc,         \* idle or the operation that a call does next
  new,        \* new_node in push
  cur,        \* cur_tail in push, cur_head in pop
  curNext,    \* cur_head_next in pop
  answer      \* what the latest pop of a thread has returned

vars == <<head, tail, next, value, pc, new, cur, curNext, answer>>

Goto(t, l) == pc' = [pc EXCEPT ![t] = l]

Init ==
  /\ LET dummy == CHOOSE n \in Node : TRUE IN head = dummy /\ tail = dummy
  /\ next = [n \in Node |-> NULL]
  /\ value = [n \in Node |-> None]
  /\ pc = [t \in Thread |-> "idle"]
  /\ new = [t \in Thread |-> NULL]
  /\ cur = [t \in Thread |-> NULL]
  /\ curNext = [t \in Thread |-> NULL]
  /\ answer = [t \in Thread |-> None]

\* The nodes that are not free.
Live == KeptBy(next, {head, tail} \cup UNION {{new[t], cur[t], curNext[t]} : t \in Thread})

\* A call returns, and its variables go.
Return(t) ==
  /\ Goto(t, "idle")
  /\ new' = [new EXCEPT ![t] = NULL]
  /\ cur' = [cur EXCEPT ![t] = NULL]
  /\ curNext' = [curNext EXCEPT ![t] = NULL]

-----------------------------------------------------------------------------
\* Mutant: the variables of the calls keep no node alive.
PushRaw(t, v) ==
  /\ pc[t] = "idle"
  /\ LET n == CHOOSE n \in Node : n \notin KeptBy(next, {head, tail}) IN
       /\ value' = [value EXCEPT ![n] = v]
       /\ next' = [next EXCEPT ![n] = NULL]
       /\ new' = [new EXCEPT ![t] = n]
  /\ answer' = [answer EXCEPT ![t] = None]
  /\ Goto(t, "pushLoad")
  /\ UNCHANGED <<head, tail, cur, curNext>>

\* push(): new_node = makeShared<Node>(value)
Push(t, v) ==
  /\ pc[t] = "idle"
  /\ Live # Node
  /\ LET n == CHOOSE n \in Node : n \notin Live IN
       /\ value' = [value EXCEPT ![n] = v]
       /\ next' = [next EXCEPT ![n] = NULL]
       /\ new' = [new EXCEPT ![t] = n]
  /\ answer' = [answer EXCEPT ![t] = None]
  /\ Goto(t, "pushLoad")
  /\ UNCHANGED <<head, tail, cur, curNext>>

\* cur_tail = tail_.load()
PushLoad(t) ==
  /\ pc[t] = "pushLoad"
  /\ cur' = [cur EXCEPT ![t] = tail]
  /\ Goto(t, "pushPeek")
  /\ UNCHANGED <<head, tail, next, value, new, curNext, answer>>

\* Mutant: a push waits for the one that has linked a node to swing tail_.
PushPeekWaits(t) ==
  /\ pc[t] = "pushPeek"
  /\ Goto(t, IF next[cur[t]] # NULL THEN "pushLoad" ELSE "pushLink")
  /\ UNCHANGED <<head, tail, next, value, new, cur, curNext, answer>>

\* if (cur_tail->next.load())
PushPeek(t) ==
  /\ pc[t] = "pushPeek"
  /\ Goto(t, IF next[cur[t]] # NULL THEN "pushHelp" ELSE "pushLink")
  /\ UNCHANGED <<head, tail, next, value, new, cur, curNext, answer>>

\* tail_.compareExchange(cur_tail, cur_tail->next.load()).  The next of a
\* linked node changes once, so that this load finds what the one before has
\* found.  What a failed exchange loads is overwritten at the top of the loop.
PushHelp(t) ==
  /\ pc[t] = "pushHelp"
  /\ tail' = IF tail = cur[t] THEN next[cur[t]] ELSE tail
  /\ Goto(t, "pushLoad")
  /\ UNCHANGED <<head, next, value, new, cur, curNext, answer>>

\* if (cur_tail->next.compareExchange(null, new_node)) break
PushLink(t) ==
  /\ pc[t] = "pushLink"
  /\ IF next[cur[t]] = NULL
       THEN /\ next' = [next EXCEPT ![cur[t]] = new[t]]
            /\ Goto(t, "pushSwing")
       ELSE Goto(t, "pushLoad") /\ UNCHANGED next
  /\ UNCHANGED <<head, tail, value, new, cur, curNext, answer>>

\* Mutant: tail_ is stored instead of exchanged.
PushSwingStore(t) ==
  /\ pc[t] = "pushSwing"
  /\ tail' = new[t]
  /\ Return(t)
  /\ UNCHANGED <<head, next, value, answer>>

\* tail_.compareExchange(cur_tail, new_node), which fails if another push has
\* helped.
PushSwing(t) ==
  /\ pc[t] = "pushSwing"
  /\ tail' = IF tail = cur[t] THEN new[t] ELSE tail
  /\ Return(t)
  /\ UNCHANGED <<head, next, value, answer>>

-----------------------------------------------------------------------------
Pop(t) ==
  /\ pc[t] = "idle"
  /\ answer' = [answer EXCEPT ![t] = None]
  /\ Goto(t, "popLoad")
  /\ UNCHANGED <<head, tail, next, value, new, cur, curNext>>

\* cur_head = head_.load()
PopLoad(t) ==
  /\ pc[t] = "popLoad"
  /\ cur' = [cur EXCEPT ![t] = head]
  /\ Goto(t, "popPeek")
  /\ UNCHANGED <<head, tail, next, value, new, curNext, answer>>

\* cur_head_next = cur_head->next.load(); if (!cur_head_next) return std::nullopt
PopPeek(t) ==
  /\ pc[t] = "popPeek"
  /\ IF next[cur[t]] = NULL
       THEN answer' = [answer EXCEPT ![t] = None] /\ Return(t)
       ELSE /\ curNext' = [curNext EXCEPT ![t] = next[cur[t]]]
            /\ Goto(t, "popExchange")
            /\ UNCHANGED <<new, cur, answer>>
  /\ UNCHANGED <<head, tail, next, value>>

\* if (head_.compareExchange(cur_head, cur_head_next)).  cur_head_next ends
\* with the iteration.
PopExchange(t) ==
  /\ pc[t] = "popExchange"
  /\ IF head = cur[t]
       THEN /\ head' = curNext[t]
            /\ Goto(t, "popTake")
            /\ UNCHANGED curNext
       ELSE /\ curNext' = [curNext EXCEPT ![t] = NULL]
            /\ Goto(t, "popLoad")
            /\ UNCHANGED head
  /\ UNCHANGED <<tail, next, value, new, cur, answer>>

\* return {std::move(cur_head_next->value)}
PopTake(t) ==
  /\ pc[t] = "popTake"
  /\ answer' = [answer EXCEPT ![t] = value[curNext[t]]]
  /\ value' = [value EXCEPT ![curNext[t]] = None]
  /\ Return(t)
  /\ UNCHANGED <<head, tail, next>>

-----------------------------------------------------------------------------
Running(t) ==
  \/ PushLoad(t) \/ PushPeek(t) \/ PushHelp(t) \/ PushLink(t) \/ PushSwing(t)
  \/ PopLoad(t) \/ PopPeek(t) \/ PopExchange(t) \/ PopTake(t)

Next ==
  \E t \in Thread :
    \/ \E v \in Value : Push(t, v)
    \/ Pop(t)
    \/ Running(t)

Spec == Init /\ [][Next]_vars

\* Some call goes on while there is one; every other can stop anywhere.
FairSpec == Spec /\ WF_vars(\E t \in Thread : Running(t))

-----------------------------------------------------------------------------
\* The values behind the dummy.
Contents ==
  LET nodes == ListFrom(next, head)
  IN  [i \in 1..(Len(nodes) - 1) |-> value[nodes[i + 1]]]

Pushing(t) == pc[t] \in {"pushLoad", "pushPeek", "pushHelp", "pushLink"}
Popping(t) == pc[t] \in {"popLoad", "popPeek", "popExchange"}

Queue == INSTANCE Container WITH
  Inserted <- Append,
  contents <- Contents,
  op <- [t \in Thread |-> CASE Pushing(t) -> "push"
                            [] Popping(t) -> "pop"
                            [] OTHER -> "none"],
  arg <- [t \in Thread |-> IF Pushing(t) THEN value[new[t]] ELSE None],
  answer <- [t \in Thread |-> IF pc[t] = "popTake" THEN value[curNext[t]]
                                                   ELSE answer[t]]

\* Pushes and pops are those of a FIFO queue.  A push takes effect when it
\* links its node and a pop when it moves head_ or finds no next node, also
\* when head_ has overtaken tail_.
ImplementsQueue == Queue!ContainerSpec

\* tail_ points to the last node or to the one before it, although every push
\* may stop between the link and the swing: nobody links a second node behind
\* a tail_ that lags, and no late exchange moves tail_ back.
TailIsNearTheEnd == next[tail] = NULL \/ next[next[tail]] = NULL

\* As long as some call takes steps, calls complete, wherever the others have
\* stopped: a push does not wait for one that has linked its node and left
\* tail_ behind.
LockFree ==
  \/ []<><<\E t \in Thread : pc[t] # "idle" /\ pc'[t] = "idle">>_vars
  \/ <>[](\A t \in Thread : pc[t] = "idle")
=============================================================================
