--------------------------- MODULE EntryRegistry ---------------------------
(***************************************************************************)
(* The registry of per-thread entries as the hazard pointer domain uses    *)
(* it: the linked list of ThreadEntryList seen as the sequence of its      *)
(* entries, oldest first.  Links are only ever added at the head, so the   *)
(* head_ pointer is the last element of the sequence, next_ of chain[i] is *)
(* chain[i - 1], and a position in the sequence never changes.             *)
(* ThreadEntryList.tla is the pointer-level version, which implements this *)
(* one.                                                                    *)
(***************************************************************************)
EXTENDS Naturals, Sequences

CONSTANTS
  Thread,       \* the running threads; an identifier is reused by the next
                \* thread when its thread has exited
  Entry,        \* the heap: the entries allocItem can return
  NULL

ASSUME NullIsNoEntry == NULL \notin Entry

VARIABLES
  chain,        \* the entries linked from head_, oldest first
  allocated,    \* the entries allocItem has returned
  acquired,     \* Entry::acquired_
  entry,        \* EntryHolder::entry_, thread_local
  borrowed,     \* the entry of an exited thread that helpScan has acquired
  stage,        \* how far the thread's acquireEntry() has got
  at            \* the position of findFree's cursor, or of the head_ that
                \* internalPush has read; 0 is nullptr

registryVars == <<chain, allocated, acquired, entry, borrowed, stage, at>>

Linked == {chain[i] : i \in 1..Len(chain)}

RegistryInit ==
  /\ chain = <<>>
  /\ allocated = {}
  /\ acquired = [e \in Entry |-> FALSE]
  /\ entry = [t \in Thread |-> NULL]
  /\ borrowed = [t \in Thread |-> NULL]
  /\ stage = [t \in Thread |-> "none"]
  /\ at = [t \in Thread |-> 0]

-----------------------------------------------------------------------------
(* acquireEntry(), called by the first getValue() of a thread.             *)

\* findFree() loads head_.
BeginAcquire(t) ==
  /\ stage[t] = "none"
  /\ stage' = [stage EXCEPT ![t] = "find"]
  /\ at' = [at EXCEPT ![t] = Len(chain)]
  /\ UNCHANGED <<chain, allocated, acquired, entry, borrowed>>

\* The body of findFree()'s loop: take the entry under the cursor if it is
\* free, step to next_ otherwise.
FindFree(t) ==
  /\ stage[t] = "find"
  /\ at[t] # 0
  /\ LET e == chain[at[t]] IN
       \/ /\ acquired[e]
          /\ at' = [at EXCEPT ![t] = at[t] - 1]
          /\ UNCHANGED <<acquired, entry, stage>>
       \/ /\ ~ acquired[e]
          /\ acquired' = [acquired EXCEPT ![e] = TRUE]
          /\ entry' = [entry EXCEPT ![t] = e]
          /\ stage' = [stage EXCEPT ![t] = "held"]
          /\ at' = [at EXCEPT ![t] = 0]
  /\ UNCHANGED <<chain, allocated, borrowed>>

\* findFree() found none: allocItem() makes an entry that is born acquired,
\* and internalPush() loads head_.
AllocItem(t) ==
  /\ stage[t] = "find"
  /\ at[t] = 0
  /\ \E e \in Entry \ allocated :
       /\ allocated' = allocated \cup {e}
       /\ acquired' = [acquired EXCEPT ![e] = TRUE]
       /\ entry' = [entry EXCEPT ![t] = e]
  /\ stage' = [stage EXCEPT ![t] = "push"]
  /\ at' = [at EXCEPT ![t] = Len(chain)]
  /\ UNCHANGED <<chain, borrowed>>

\* internalPush(): the loop runs on while the exchange succeeds and ends when
\* it fails.  An exchange that succeeds links the entry (the next one then
\* fails, because head_ is the entry itself); one that fails because another
\* thread has moved head_ ends the loop with the entry in no list.
InternalPush(t) ==
  /\ stage[t] = "push"
  /\ IF at[t] = Len(chain) THEN chain' = Append(chain, entry[t])
                           ELSE UNCHANGED chain
  /\ stage' = [stage EXCEPT ![t] = "held"]
  /\ at' = [at EXCEPT ![t] = 0]
  /\ UNCHANGED <<allocated, acquired, entry, borrowed>>

-----------------------------------------------------------------------------
(* The end of a thread, and the entries of exited threads.                 *)

\* ~EntryHolder(): entry_->release().
ReleaseEntry(t) ==
  /\ stage[t] = "held"
  /\ acquired' = [acquired EXCEPT ![entry[t]] = FALSE]
  /\ entry' = [entry EXCEPT ![t] = NULL]
  /\ stage' = [stage EXCEPT ![t] = "none"]
  /\ UNCHANGED <<chain, allocated, borrowed, at>>

\* Mutant: acquired_ is set without a look at its old value.
BorrowAny(t, e) ==
  /\ stage[t] = "held"
  /\ e # entry[t]
  /\ borrowed[t] = NULL
  /\ acquired' = [acquired EXCEPT ![e] = TRUE]
  /\ borrowed' = [borrowed EXCEPT ![t] = e]
  /\ UNCHANGED <<chain, allocated, entry, stage, at>>

\* helpScan()'s tryAcquire() of the entry e of another thread, when it succeeds.
Borrow(t, e) ==
  /\ stage[t] = "held"
  /\ e # entry[t]
  /\ borrowed[t] = NULL
  /\ ~ acquired[e]
  /\ acquired' = [acquired EXCEPT ![e] = TRUE]
  /\ borrowed' = [borrowed EXCEPT ![t] = e]
  /\ UNCHANGED <<chain, allocated, entry, stage, at>>

\* helpScan()'s release() of the entry it has borrowed.
GiveBack(t) ==
  /\ borrowed[t] # NULL
  /\ acquired' = [acquired EXCEPT ![borrowed[t]] = FALSE]
  /\ borrowed' = [borrowed EXCEPT ![t] = NULL]
  /\ UNCHANGED <<chain, allocated, entry, stage, at>>

AcquireStep(t) == FindFree(t) \/ AllocItem(t) \/ InternalPush(t)

RegistryNext ==
  \E t \in Thread :
    \/ BeginAcquire(t) \/ AcquireStep(t)
    \/ ReleaseEntry(t) /\ borrowed[t] = NULL
    \/ \E e \in Linked : Borrow(t, e)
    \/ GiveBack(t)

RegistrySpec == RegistryInit /\ [][RegistryNext]_registryVars

-----------------------------------------------------------------------------
\* The types of the registry's variables.
RegistryTypeOK ==
  /\ chain \in Seq(Entry)
  /\ allocated \subseteq Entry
  /\ acquired \in [Entry -> BOOLEAN]
  /\ entry \in [Thread -> Entry \cup {NULL}]
  /\ borrowed \in [Thread -> Entry \cup {NULL}]
  /\ stage \in [Thread -> {"none", "find", "push", "held"}]
  /\ at \in [Thread -> Nat]

Owns(t, e) == e # NULL /\ (entry[t] = e \/ borrowed[t] = e)

\* The unsynchronised fields of an entry (ticks, the free list, retires) are
\* touched by one thread at a time: its thread, or the one thread that helps
\* it after its exit, and never two of them at once.
ExclusiveEntry ==
  /\ \A t, u \in Thread : \A e \in Entry : Owns(t, e) /\ Owns(u, e) => t = u
  /\ \A t \in Thread : entry[t] = borrowed[t] => entry[t] = NULL

\* Every allocated entry is in the list, or is about to be linked by the
\* thread that has allocated it.  Once false it stays false: nothing links an
\* entry later on.
NoLostEntry ==
  \A e \in allocated :
    e \in Linked \/ \E t \in Thread : stage[t] = "push" /\ entry[t] = e
=============================================================================
