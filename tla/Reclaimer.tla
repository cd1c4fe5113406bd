----------------------------- MODULE Reclaimer -----------------------------
(***************************************************************************)
(* What HazardPointerDomain promises to AtomicSharedPtr and AtomicWeakPtr, *)
(* without slots that are announced, lists that are scanned or threads     *)
(* that exit: protect() is one step, and a retired record is disposed of   *)
(* at some later moment.  Of the records of a pointer one at least stays   *)
(* as long as a guard that is older than the latest of them exists.        *)
(***************************************************************************)
EXTENDS Naturals

CONSTANTS
  Thread,
  Slot,         \* what tells the guards of a thread apart
  Ptr,          \* addresses of control blocks
  Cell,         \* the client's atomic pointers
  Disposer,     \* decrementRef, decrementWeakRef
  DisposerOf,   \* the disposer each cell retires with
  NULL

ASSUME ReclaimerAssumption ==
  /\ NULL \notin Ptr
  /\ DisposerOf \in [Cell -> Disposer]

VARIABLES
  cell,         \* the client's atomic pointers
  inflight,     \* the record a thread has yet to retire, NoRecord if none
  guards,       \* the GuardedPtr objects of a thread
  retired,      \* the bag of retired records
  blockers      \* the guards older than the latest record of a pointer

reclaimerVars == <<cell, inflight, guards, retired, blockers>>

Retired == [pointer : Ptr, disposer : Disposer]
NoRecord == [pointer |-> NULL, disposer |-> NULL]
Guard == [slot : Slot, value : Ptr \cup {NULL}]

\* The guards that hold the pointer p.
GuardsOn(p) ==
  {ts \in Thread \X Slot : [slot |-> ts[2], value |-> p] \in guards[ts[1]]}

ReclaimerInit ==
  /\ cell = [c \in Cell |-> NULL]
  /\ inflight = [t \in Thread |-> NoRecord]
  /\ guards = [t \in Thread |-> {}]
  /\ retired = [r \in Retired |-> 0]
  /\ blockers = [p \in Ptr |-> {}]

\* protect(): the pointer the guard gets is in the cell at one moment of the
\* call.
Protect(t, c) ==
  /\ \E s \in Slot :
       /\ \A g \in guards[t] : g.slot # s
       /\ guards' = [guards EXCEPT ![t] =
                       @ \cup {[slot |-> s, value |-> cell[c]]}]
  /\ UNCHANGED <<cell, inflight, retired, blockers>>

\* ~GuardedPtr()
ReleaseGuard(t, g) ==
  /\ g \in guards[t]
  /\ guards' = [guards EXCEPT ![t] = @ \ {g}]
  /\ blockers' = [p \in Ptr |-> blockers[p] \ {<<t, g.slot>>}]
  /\ UNCHANGED <<cell, inflight, retired>>

\* control_block_.exchange(new_ptr) in store(), or the exchange of a
\* compareExchange() that succeeds.
Overwrite(t, c, p) ==
  /\ inflight[t] = NoRecord
  /\ cell' = [cell EXCEPT ![c] = p]
  /\ IF cell[c] # NULL
       THEN inflight' = [inflight EXCEPT ![t] =
                           [pointer |-> cell[c], disposer |-> DisposerOf[c]]]
       ELSE UNCHANGED inflight
  /\ UNCHANGED <<guards, retired, blockers>>

\* retire() has found room in the thread's list.
Retire(t) ==
  /\ inflight[t] # NoRecord
  /\ retired' = [retired EXCEPT ![inflight[t]] = @ + 1]
  /\ blockers' = [blockers EXCEPT
                    ![inflight[t].pointer] = GuardsOn(inflight[t].pointer)]
  /\ inflight' = [inflight EXCEPT ![t] = NoRecord]
  /\ UNCHANGED <<cell, guards>>

\* A record of p is left.
StillRetired(p) == \E d \in Disposer : retired[[pointer |-> p, disposer |-> d]] > 0

\* A scan disposes of the record r.
Dispose(r) ==
  /\ retired[r] > 0
  /\ retired' = [retired EXCEPT ![r] = @ - 1]
  /\ blockers[r.pointer] = {} \/ StillRetired(r.pointer)'
  /\ UNCHANGED <<cell, inflight, guards, blockers>>

ReclaimerNext ==
  \/ \E t \in Thread :
       \/ \E c \in Cell : Protect(t, c)
       \/ \E g \in guards[t] : ReleaseGuard(t, g)
       \/ \E c \in Cell, p \in Ptr \cup {NULL} : Overwrite(t, c, p)
       \/ Retire(t)
  \/ \E r \in Retired : Dispose(r)

ReclaimerSpec == ReclaimerInit /\ [][ReclaimerNext]_reclaimerVars

-----------------------------------------------------------------------------
\* The types of the variables, a record is retired with its pointer, and a
\* blocker is a guard of the pointer it blocks.
ReclaimerTypeOK ==
  /\ cell \in [Cell -> Ptr \cup {NULL}]
  /\ inflight \in [Thread -> Retired \cup {NoRecord}]
  /\ guards \in [Thread -> SUBSET Guard]
  /\ retired \in [Retired -> Nat]
  /\ blockers \in [Ptr -> SUBSET (Thread \X Slot)]
  /\ \A p \in Ptr : blockers[p] \subseteq GuardsOn(p)

\* A reference of the control block p in a cell, on its way to retire(), or
\* retired and not yet dropped.
Referenced(p) ==
  \/ \E c \in Cell : cell[c] = p
  \/ \E t \in Thread : inflight[t].pointer = p
  \/ StillRetired(p)

\* A guarded pointer keeps a reference: between protect() and the release of
\* the guard the last one is not dropped, whoever overwrites, retires and
\* scans meanwhile.
GuardedIsReferenced ==
  \A t \in Thread : \A g \in guards[t] : g.value # NULL => Referenced(g.value)
=============================================================================
