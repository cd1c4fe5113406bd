-------------------------- MODULE ThreadEntryList --------------------------
(***************************************************************************)
(* ThreadEntryList and EntriesHolder at the level of their pointers: the   *)
(* lock-free list that only grows, its acquired_ flags, and the cursors    *)
(* that walk it.  One action per access to head_, next_ or acquired_.      *)
(* It implements EntryRegistry, the list the hazard pointer domain relies  *)
(* on, where the list is a sequence.                                       *)
(***************************************************************************)
EXTENDS Naturals, FiniteSets

CONSTANTS Thread, Entry, NULL

ASSUME NullIsNoEntry == NULL \notin Entry

\* A process has finitely many threads, and a heap with room for finitely
\* many entries.
ASSUME FiniteAssumption == IsFiniteSet(Thread) /\ IsFiniteSet(Entry)

VARIABLES
  head,         \* head_
  next,         \* Entry::next_
  allocated,    \* the entries allocItem has returned
  acquired,     \* Entry::acquired_
  entry,        \* EntryHolder::entry_, or acquired_entry before its return
  borrowed,     \* the entry helpScan has acquired
  stage,        \* none, find, link, cas, held
  cur           \* current in findFree, head in internalPush

vars == <<head, next, allocated, acquired, entry, borrowed, stage, cur>>

Init ==
  /\ head = NULL
  /\ next = [e \in Entry |-> NULL]
  /\ allocated = {}
  /\ acquired = [e \in Entry |-> FALSE]
  /\ entry = [t \in Thread |-> NULL]
  /\ borrowed = [t \in Thread |-> NULL]
  /\ stage = [t \in Thread |-> "none"]
  /\ cur = [t \in Thread |-> NULL]

-----------------------------------------------------------------------------
(* acquireEntry()                                                          *)

\* findFree(): Entry *current = head_.load()
BeginAcquire(t) ==
  /\ stage[t] = "none"
  /\ stage' = [stage EXCEPT ![t] = "find"]
  /\ cur' = [cur EXCEPT ![t] = head]
  /\ UNCHANGED <<head, next, allocated, acquired, entry, borrowed>>

\* Mutant: acquired_ is set without a look at its old value.
FindFreeUnlocked(t) ==
  /\ stage[t] = "find"
  /\ cur[t] # NULL
  /\ \/ /\ acquired[cur[t]]
        /\ cur' = [cur EXCEPT ![t] = next[cur[t]]]
        /\ UNCHANGED <<acquired, entry, stage>>
     \/ /\ acquired' = [acquired EXCEPT ![cur[t]] = TRUE]
        /\ entry' = [entry EXCEPT ![t] = cur[t]]
        /\ stage' = [stage EXCEPT ![t] = "held"]
        /\ cur' = [cur EXCEPT ![t] = NULL]
  /\ UNCHANGED <<head, next, allocated, borrowed>>

\* findFree(): if (current->tryAcquire()) return current;
\* current = current->next_
FindFree(t) ==
  /\ stage[t] = "find"
  /\ cur[t] # NULL
  /\ \/ /\ acquired[cur[t]]
        /\ cur' = [cur EXCEPT ![t] = next[cur[t]]]
        /\ UNCHANGED <<acquired, entry, stage>>
     \/ /\ ~ acquired[cur[t]]
        /\ acquired' = [acquired EXCEPT ![cur[t]] = TRUE]
        /\ entry' = [entry EXCEPT ![t] = cur[t]]
        /\ stage' = [stage EXCEPT ![t] = "held"]
        /\ cur' = [cur EXCEPT ![t] = NULL]
  /\ UNCHANGED <<head, next, allocated, borrowed>>

\* allocItem(), and the load of head_ in internalPush().  Addresses that are
\* still free differ in nothing, so any of them stands for all.
AllocItem(t) ==
  /\ stage[t] = "find"
  /\ cur[t] = NULL
  /\ allocated # Entry
  /\ LET e == CHOOSE e \in Entry : e \notin allocated IN
       /\ allocated' = allocated \cup {e}
       /\ acquired' = [acquired EXCEPT ![e] = TRUE]
       /\ entry' = [entry EXCEPT ![t] = e]
  /\ stage' = [stage EXCEPT ![t] = "link"]
  /\ cur' = [cur EXCEPT ![t] = head]
  /\ UNCHANGED <<head, next, borrowed>>

\* internalPush(): node->next_ = head
PushLink(t) ==
  /\ stage[t] = "link"
  /\ next' = [next EXCEPT ![entry[t]] = cur[t]]
  /\ stage' = [stage EXCEPT ![t] = "cas"]
  /\ UNCHANGED <<head, allocated, acquired, entry, borrowed, cur>>

\* Mutant: the expected head of the next round is the entry just linked.
PushReload(t) ==
  /\ stage[t] = "cas"
  /\ head' = (IF head = cur[t] THEN entry[t] ELSE head)
  /\ IF head = cur[t]
       THEN /\ stage' = [stage EXCEPT ![t] = "link"]
            /\ cur' = [cur EXCEPT ![t] = entry[t]]
       ELSE /\ stage' = [stage EXCEPT ![t] = "held"]
            /\ cur' = [cur EXCEPT ![t] = NULL]
  /\ UNCHANGED <<next, allocated, acquired, entry, borrowed>>

\* Mutant: the exchange is a weak one, which can fail for no reason.
PushExchangeWeak(t) ==
  /\ stage[t] = "cas"
  /\ \/ /\ head = cur[t]
        /\ head' = entry[t]
        /\ stage' = [stage EXCEPT ![t] = "link"]
        /\ UNCHANGED cur
     \/ /\ stage' = [stage EXCEPT ![t] = "held"]
        /\ cur' = [cur EXCEPT ![t] = NULL]
        /\ UNCHANGED head
  /\ UNCHANGED <<next, allocated, acquired, entry, borrowed>>

\* internalPush(): while (head_.compare_exchange_strong(head, node)).  The
\* loop goes on after a success, with the expected head unchanged, and ends
\* after a failure.
PushExchange(t) ==
  /\ stage[t] = "cas"
  /\ IF head = cur[t]
       THEN /\ head' = entry[t]
            /\ stage' = [stage EXCEPT ![t] = "link"]
            /\ UNCHANGED cur
       ELSE /\ stage' = [stage EXCEPT ![t] = "held"]
            /\ cur' = [cur EXCEPT ![t] = NULL]
            /\ UNCHANGED head
  /\ UNCHANGED <<next, allocated, acquired, entry, borrowed>>

-----------------------------------------------------------------------------
(* The other users of the list.                                            *)

\* Mutant: the holder goes on to use the entry it has released.
ReleaseEntryKept(t) ==
  /\ stage[t] = "held"
  /\ borrowed[t] = NULL
  /\ acquired' = [acquired EXCEPT ![entry[t]] = FALSE]
  /\ stage' = [stage EXCEPT ![t] = "none"]
  /\ UNCHANGED <<head, next, allocated, entry, borrowed, cur>>

\* ~EntryHolder(): entry_->release()
ReleaseEntry(t) ==
  /\ stage[t] = "held"
  /\ borrowed[t] = NULL
  /\ acquired' = [acquired EXCEPT ![entry[t]] = FALSE]
  /\ entry' = [entry EXCEPT ![t] = NULL]
  /\ stage' = [stage EXCEPT ![t] = "none"]
  /\ UNCHANGED <<head, next, allocated, borrowed, cur>>

\* helpScan() iterates from begin(), which loads head_: next is its cursor.
HelpBegin(t) ==
  /\ stage[t] = "held"
  /\ borrowed[t] = NULL
  /\ cur[t] = NULL
  /\ cur' = [cur EXCEPT ![t] = head]
  /\ UNCHANGED <<head, next, allocated, acquired, entry, borrowed, stage>>

\* helpScan(): the entry under the iterator is its own, or tryAcquire()
\* fails, or it is borrowed.
HelpNext(t) ==
  /\ stage[t] = "held"
  /\ borrowed[t] = NULL
  /\ cur[t] # NULL
  /\ \/ /\ acquired[cur[t]]
        /\ cur' = [cur EXCEPT ![t] = next[cur[t]]]
        /\ UNCHANGED <<acquired, borrowed>>
     \/ /\ ~ acquired[cur[t]]
        /\ acquired' = [acquired EXCEPT ![cur[t]] = TRUE]
        /\ borrowed' = [borrowed EXCEPT ![t] = cur[t]]
        /\ UNCHANGED cur
  /\ UNCHANGED <<head, next, allocated, entry, stage>>

\* helpScan(): thread_it->release(), and ++thread_it or the return
GiveBack(t) ==
  /\ borrowed[t] # NULL
  /\ acquired' = [acquired EXCEPT ![borrowed[t]] = FALSE]
  /\ borrowed' = [borrowed EXCEPT ![t] = NULL]
  /\ cur' \in {[cur EXCEPT ![t] = next[borrowed[t]]], [cur EXCEPT ![t] = NULL]}
  /\ UNCHANGED <<head, next, allocated, entry, stage>>

Acquiring(t) == FindFree(t) \/ AllocItem(t) \/ PushLink(t) \/ PushExchange(t)
Helping(t) == HelpNext(t) \/ GiveBack(t)

Next ==
  \E t \in Thread :
    \/ BeginAcquire(t) \/ Acquiring(t)
    \/ HelpBegin(t) \/ Helping(t)
    \/ ReleaseEntry(t) /\ cur[t] = NULL

Spec == Init /\ [][Next]_vars

\* acquireEntry() and the walk of helpScan() run to their ends.
FairSpec == Spec /\ \A t \in Thread : WF_vars(Acquiring(t) \/ Helping(t))

-----------------------------------------------------------------------------
(* The list as a sequence of entries.                                      *)

\* The list whose first entry is first, from its tail, the oldest entry, on.
ListFrom(first, links) ==
  LET Follow(e) == IF e = NULL THEN NULL ELSE links[e]
      nth[n \in 1..(Cardinality(Entry) + 1)] ==
        IF n = 1 THEN first ELSE Follow(nth[n - 1])
      len == Cardinality({n \in DOMAIN nth : nth[n] # NULL})
  IN  [i \in 1..len |-> nth[len + 1 - i]]

Chain == ListFrom(head, next)

Linked == {Chain[i] : i \in DOMAIN Chain}

\* The place of e in the list c, 0 for nullptr.
Index(c, e) ==
  LET found == {i \in DOMAIN c : c[i] = e}
  IN  IF found = {} THEN 0 ELSE CHOOSE i \in found : TRUE

Position(e) == Index(Chain, e)

\* A thread whose entry is already linked is in the round of the loop that
\* fails, which changes nothing that others read.
Pushing(t) == stage[t] \in {"link", "cas"} /\ entry[t] \notin Linked

RegistryStage ==
  [t \in Thread |->
     CASE Pushing(t) -> "push"
       [] stage[t] \in {"link", "cas"} /\ ~ Pushing(t) -> "held"
       [] OTHER -> stage[t]]

RegistryAt ==
  [t \in Thread |->
     IF stage[t] = "find" \/ Pushing(t) THEN Position(cur[t]) ELSE 0]

Registry == INSTANCE EntryRegistry
              WITH chain <- Chain, stage <- RegistryStage, at <- RegistryAt

-----------------------------------------------------------------------------
(* Properties.                                                             *)

\* The types, and a thread has an entry exactly from the capture or the
\* allocation of one on until the end of ~EntryHolder().
TypeOK ==
  /\ head \in Entry \cup {NULL}
  /\ next \in [Entry -> Entry \cup {NULL}]
  /\ allocated \subseteq Entry
  /\ acquired \in [Entry -> BOOLEAN]
  /\ entry \in [Thread -> Entry \cup {NULL}]
  /\ borrowed \in [Thread -> Entry \cup {NULL}]
  /\ stage \in [Thread -> {"none", "find", "link", "cas", "held"}]
  /\ cur \in [Thread -> Entry \cup {NULL}]
  /\ \A t \in Thread : entry[t] = NULL <=> stage[t] \in {"none", "find"}

\* The pointer list implements the sequence of EntryRegistry: the list stays
\* acyclic, is only extended at its head, and a push succeeds at most once
\* although its loop repeats after a success.
ImplementsRegistry == Registry!RegistrySpec

\* The link of a published entry never changes, so an iterator that walks
\* the list unsynchronised (scan, helpScan, findFree) misses no entry that was
\* linked when it started.
LinksAreStable ==
  [][\A e \in Linked : e \in Linked' /\ next'[e] = next[e]]_vars

\* No entry has two owners: not two threads, nor a thread and a helper.
ExclusiveEntry == Registry!ExclusiveEntry

\* The entries that a push has left out of the list.
Lost == {e \in allocated \ Linked : ~ \E t \in Thread : Pushing(t) /\ entry[t] = e}

\* A push loses its entry only to one that has linked its own meanwhile, and a
\* thread loses once to each of them: of racing pushes one wins, and threads
\* that do not race lose nothing.
LossesAreBounded ==
  Cardinality(Lost) <= (Cardinality(Thread) - 1) * Cardinality(Linked)

\* The heap of this instance is too small for t.
HeapExhausted(t) == stage[t] = "find" /\ cur[t] = NULL /\ allocated = Entry

\* acquireEntry() returns whatever the other threads do: the push loop with
\* its inverted condition ends too.
AcquireReturns ==
  \A t \in Thread : stage[t] = "find" ~> stage[t] = "held" \/ HeapExhausted(t)
=============================================================================
