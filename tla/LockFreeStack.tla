--------------------------- MODULE LockFreeStack ---------------------------
(***************************************************************************)
(* LockFreeStack: push and pop, one action per operation on head_, an      *)
(* AtomicSharedPtr whose load and compareExchange take effect at one       *)
(* moment.  The SharedPtrs of nodes are in head_, in live nodes and in the *)
(* variables of running calls.                                             *)
(***************************************************************************)
EXTENDS Nodes

CONSTANTS Thread, Value, None

VARIABLES
  head,       \* head_
  next,       \* Node::next
  value,      \* Node::value
  pc,         \* idle, pushLoad, pushExchange, popLoad, popExchange
  held,       \* new_node in push, head in pop
  answer      \* what the latest pop of a thread has returned

vars == <<head, next, value, pc, held, answer>>

Goto(t, l) == pc' = [pc EXCEPT ![t] = l]

Init ==
  /\ head = NULL
  /\ next = [n \in Node |-> NULL]
  /\ value = [n \in Node |-> None]
  /\ pc = [t \in Thread |-> "idle"]
  /\ held = [t \in Thread |-> NULL]
  /\ answer = [t \in Thread |-> None]

\* The nodes that are not free.
Live == KeptBy(next, {head} \cup {held[t] : t \in Thread})

-----------------------------------------------------------------------------
\* Mutant: the variables of the calls keep no node alive.
PushRaw(t, v) ==
  /\ pc[t] = "idle"
  /\ LET n == CHOOSE n \in Node : n \notin KeptBy(next, {head}) IN
       /\ value' = [value EXCEPT ![n] = v]
       /\ next' = [next EXCEPT ![n] = NULL]
       /\ held' = [held EXCEPT ![t] = n]
  /\ answer' = [answer EXCEPT ![t] = None]
  /\ Goto(t, "pushLoad")
  /\ UNCHANGED head

\* push(): new_node = makeShared<Node>(value)
Push(t, v) ==
  /\ pc[t] = "idle"
  /\ Live # Node
  /\ LET n == CHOOSE n \in Node : n \notin Live IN
       /\ value' = [value EXCEPT ![n] = v]
       /\ next' = [next EXCEPT ![n] = NULL]
       /\ held' = [held EXCEPT ![t] = n]
  /\ answer' = [answer EXCEPT ![t] = None]
  /\ Goto(t, "pushLoad")
  /\ UNCHANGED head

\* new_node->next = head_.load()
PushLoad(t) ==
  /\ pc[t] = "pushLoad"
  /\ next' = [next EXCEPT ![held[t]] = head]
  /\ Goto(t, "pushExchange")
  /\ UNCHANGED <<head, value, held, answer>>

\* Mutant: the loop goes on with an expected head that it has not read again.
PushExchangeStale(t) ==
  /\ pc[t] = "pushExchange"
  /\ head = next[held[t]]
  /\ head' = held[t]
  /\ held' = [held EXCEPT ![t] = NULL]
  /\ Goto(t, "idle")
  /\ UNCHANGED <<next, value, answer>>

\* head_.compareExchange(new_node->next, new_node).  The head that a failed
\* exchange loads is overwritten by the load at the top of the loop.
PushExchange(t) ==
  /\ pc[t] = "pushExchange"
  /\ IF head = next[held[t]]
       THEN /\ head' = held[t]
            /\ held' = [held EXCEPT ![t] = NULL]
            /\ Goto(t, "idle")
       ELSE Goto(t, "pushLoad") /\ UNCHANGED <<head, held>>
  /\ UNCHANGED <<next, value, answer>>

-----------------------------------------------------------------------------
Pop(t) ==
  /\ pc[t] = "idle"
  /\ answer' = [answer EXCEPT ![t] = None]
  /\ Goto(t, "popLoad")
  /\ UNCHANGED <<head, next, value, held>>

\* head = head_.load(); if (!head) return std::nullopt
PopLoad(t) ==
  /\ pc[t] = "popLoad"
  /\ held' = [held EXCEPT ![t] = head]
  /\ IF head = NULL
       THEN answer' = [answer EXCEPT ![t] = None] /\ Goto(t, "idle")
       ELSE Goto(t, "popExchange") /\ UNCHANGED answer
  /\ UNCHANGED <<head, next, value>>

\* head_.compareExchange(head, head->next); return {head->value}.  The next
\* of a node that has been pushed does not change.
PopExchange(t) ==
  /\ pc[t] = "popExchange"
  /\ IF head = held[t]
       THEN /\ head' = next[held[t]]
            /\ answer' = [answer EXCEPT ![t] = value[held[t]]]
            /\ Goto(t, "idle")
       ELSE Goto(t, "popLoad") /\ UNCHANGED <<head, answer>>
  /\ held' = [held EXCEPT ![t] = NULL]
  /\ UNCHANGED <<next, value>>

-----------------------------------------------------------------------------
Running(t) == PushLoad(t) \/ PushExchange(t) \/ PopLoad(t) \/ PopExchange(t)

Next ==
  \E t \in Thread :
    \/ \E v \in Value : Push(t, v)
    \/ Pop(t)
    \/ Running(t)

Spec == Init /\ [][Next]_vars

\* Some call goes on while there is one; every other can stop anywhere.
FairSpec == Spec /\ WF_vars(\E t \in Thread : Running(t))

-----------------------------------------------------------------------------
\* The values from head_ on.
Contents ==
  LET nodes == ListFrom(next, head)
  IN  [i \in 1..Len(nodes) |-> value[nodes[i]]]

Pushed(s, v) == <<v>> \o s

Stack == INSTANCE Container WITH
  Inserted <- Pushed,
  contents <- Contents,
  op <- [t \in Thread |-> CASE pc[t] \in {"pushLoad", "pushExchange"} -> "push"
                            [] pc[t] \in {"popLoad", "popExchange"} -> "pop"
                            [] OTHER -> "none"],
  arg <- [t \in Thread |-> IF pc[t] \in {"pushLoad", "pushExchange"}
                             THEN value[held[t]] ELSE None]

\* Pushes and pops are those of a stack, each of which takes effect at one
\* moment of its call: no value is lost, duplicated or taken out of turn,
\* although nodes are freed and their addresses used again.
ImplementsStack == Stack!ContainerSpec

\* As long as some call takes steps, calls complete, wherever the others have
\* stopped: a loop repeats only because another call has completed.
LockFree ==
  \/ []<><<\E t \in Thread : pc[t] # "idle" /\ pc'[t] = "idle">>_vars
  \/ <>[](\A t \in Thread : pc[t] = "idle")
=============================================================================
