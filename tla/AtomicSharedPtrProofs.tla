----------------------- MODULE AtomicSharedPtrProofs -----------------------
(***************************************************************************)
(* The counter of a control block is the number of its owners, a load      *)
(* finds a block that is alive, and so the operations are those of an      *)
(* atomic pointer, for any threads, cells, blocks and guards.              *)
(*                                                                         *)
(* The inductive invariant adds to the counts where a guarded pointer has  *)
(* its reference: still in the cell that it has been read from, unless an  *)
(* exchange() has overtaken the guard, or deferred for it.  The reference  *)
(* in any other cell does not help, since that cell can be destroyed.      *)
(*                                                                         *)
(* Every operation is proved to keep the invariant of its class without    *)
(* the assumption that the class is alone: AtomicWeakPtrProofs puts two of *)
(* them on one reclaimer.                                                  *)
(***************************************************************************)
EXTENDS AtomicSharedPtr, Counting

-----------------------------------------------------------------------------
(* The reclaimer.                                                          *)

\* A thread has one guard per slot, so that the release of a guard unblocks
\* no record that another guard of the thread blocks.
OneGuardPerSlot ==
  \A t \in Thread : \A g, h \in guards[t] : g.slot = h.slot => g = h

ReclaimerTypes == ReclaimerTypeOK /\ OneGuardPerSlot

\* A reference of p that is in no cell any more, and does not go away while
\* the guard in the slot s of the thread t exists: it is on its way to
\* retire(), with one of the disposers D, or it is retired and the guard
\* blocks it.
Deferred(D, t, s, p) ==
  \/ \E u \in Thread : inflight[u].pointer = p /\ inflight[u].disposer \in D
  \/ StillRetired(p) /\ <<t, s>> \in blockers[p]

KeptFor(t, s, p) == (\E c \in Cell : cell[c] = p) \/ Deferred(Disposer, t, s, p)

GuardsKeep ==
  \A t \in Thread : \A g \in guards[t] :
    g.value # NULL => KeptFor(t, g.slot, g.value)

ReclaimerInv == ReclaimerTypes /\ GuardsKeep

-----------------------------------------------------------------------------
\* A guard, taken apart.
LEMMA GuardParts ==
  ASSUME ReclaimerTypes, NEW t \in Thread, NEW g \in guards[t]
  PROVE  /\ g \in Guard /\ g.slot \in Slot /\ g.value \in Ptr \cup {NULL}
         /\ g = [slot |-> g.slot, value |-> g.value]
BY DEF ReclaimerTypes, ReclaimerTypeOK, Guard

\* Initially there are no guards.
LEMMA ReclaimerInitInv == ReclaimerInit => ReclaimerInv
<1>1. SUFFICES ASSUME ReclaimerInit PROVE ReclaimerInv
  OBVIOUS
<1>2. ReclaimerTypeOK
  <2>1. cell \in [Cell -> Ptr \cup {NULL}] /\ inflight \in [Thread -> Retired \cup {NoRecord}]
    BY <1>1 DEF ReclaimerInit
  <2>2. guards \in [Thread -> SUBSET Guard] /\ retired \in [Retired -> Nat]
    BY <1>1 DEF ReclaimerInit
  <2>3. blockers \in [Ptr -> SUBSET (Thread \X Slot)]
        /\ \A p \in Ptr : blockers[p] \subseteq GuardsOn(p)
    BY <1>1 DEF ReclaimerInit
  <2>4. QED
    BY <2>1, <2>2, <2>3 DEF ReclaimerTypeOK
<1>3. OneGuardPerSlot /\ GuardsKeep
  BY <1>1 DEF ReclaimerInit, OneGuardPerSlot, GuardsKeep
<1>4. QED
  BY <1>2, <1>3 DEF ReclaimerInv, ReclaimerTypes

-----------------------------------------------------------------------------
(* Every action keeps the types.                                           *)

LEMMA ProtectTypes ==
  ASSUME ReclaimerTypes, NEW t \in Thread, NEW c \in Cell, Protect(t, c)
  PROVE  ReclaimerTypes'
<1>1. PICK s \in Slot :
        /\ \A g \in guards[t] : g.slot # s
        /\ guards' = [guards EXCEPT ![t] = @ \cup {[slot |-> s, value |-> cell[c]]}]
  BY DEF Protect
<1>2. UNCHANGED <<cell, inflight, retired, blockers>>
  BY DEF Protect
<1> DEFINE new == [slot |-> s, value |-> cell[c]]
<1>3. new \in Guard /\ new.slot = s
  BY DEF Guard, ReclaimerTypes, ReclaimerTypeOK
<1>4. /\ guards \in [Thread -> SUBSET Guard]
      /\ guards'[t] = guards[t] \cup {new}
      /\ \A u \in Thread : u # t => guards'[u] = guards[u]
  BY <1>1 DEF ReclaimerTypes, ReclaimerTypeOK
<1> HIDE DEF new
<1>5. guards' \in [Thread -> SUBSET Guard]
  BY <1>1, <1>3, <1>4 DEF new
<1>6. ASSUME NEW p \in Ptr
      PROVE  GuardsOn(p) \subseteq GuardsOn(p)'
  BY <1>4 DEF GuardsOn
<1>7. OneGuardPerSlot'
  BY <1>1, <1>3, <1>4 DEF ReclaimerTypes, OneGuardPerSlot
<1>8. QED
  BY <1>2, <1>5, <1>6, <1>7 DEF ReclaimerTypes, ReclaimerTypeOK

\* The release of a guard leaves the other guards and what they block.
LEMMA ReleaseTypes ==
  ASSUME ReclaimerTypes, NEW t \in Thread, NEW g \in guards[t], ReleaseGuard(t, g)
  PROVE  ReclaimerTypes'
<1>1. /\ guards' = [guards EXCEPT ![t] = @ \ {g}]
      /\ blockers' = [p \in Ptr |-> blockers[p] \ {<<t, g.slot>>}]
      /\ UNCHANGED <<cell, inflight, retired>>
  BY DEF ReleaseGuard
<1>2. /\ guards \in [Thread -> SUBSET Guard]
      /\ guards'[t] = guards[t] \ {g}
      /\ \A u \in Thread : u # t => guards'[u] = guards[u]
  BY <1>1 DEF ReclaimerTypes, ReclaimerTypeOK
<1>3. guards' \in [Thread -> SUBSET Guard]
  BY <1>1, <1>2
<1>4. blockers' \in [Ptr -> SUBSET (Thread \X Slot)]
  BY <1>1 DEF ReclaimerTypes, ReclaimerTypeOK
<1>5. ASSUME NEW p \in Ptr
      PROVE  blockers'[p] \subseteq GuardsOn(p)'
  <2>1. SUFFICES ASSUME NEW ts \in blockers[p], ts # <<t, g.slot>>
                 PROVE  ts \in GuardsOn(p)'
    BY <1>1
  <2>2. /\ ts \in Thread \X Slot
        /\ [slot |-> ts[2], value |-> p] \in guards[ts[1]]
    BY DEF ReclaimerTypes, ReclaimerTypeOK, GuardsOn
  <2>3. [slot |-> ts[2], value |-> p] \in guards'[ts[1]]
    <3>1. CASE ts[1] = t
      <4>1. ts[2] # g.slot
        BY <2>1, <2>2, <3>1
      <4>2. [slot |-> ts[2], value |-> p] # g
        BY <4>1
      <4>3. QED
        BY <1>2, <2>2, <3>1, <4>2
    <3>2. CASE ts[1] # t
      BY <1>2, <2>2, <3>2
    <3>3. QED
      BY <3>1, <3>2
  <2>4. QED
    BY <2>2, <2>3 DEF GuardsOn
<1>6. OneGuardPerSlot'
  BY <1>2 DEF ReclaimerTypes, OneGuardPerSlot
<1>7. QED
  BY <1>1, <1>3, <1>4, <1>5, <1>6 DEF ReclaimerTypes, ReclaimerTypeOK

LEMMA OverwriteTypes ==
  ASSUME ReclaimerTypes, NEW t \in Thread, NEW c \in Cell,
         NEW p \in Ptr \cup {NULL}, Overwrite(t, c, p)
  PROVE  ReclaimerTypes'
<1>1. /\ cell' = [cell EXCEPT ![c] = p]
      /\ UNCHANGED <<guards, retired, blockers>>
  BY DEF Overwrite
<1>2. /\ cell \in [Cell -> Ptr \cup {NULL}]
      /\ inflight \in [Thread -> Retired \cup {NoRecord}]
  BY DEF ReclaimerTypes, ReclaimerTypeOK
<1>3. inflight' \in [Thread -> Retired \cup {NoRecord}]
  BY <1>2, ReclaimerAssumption DEF Overwrite, Retired
<1>4. QED
  BY <1>1, <1>2, <1>3
     DEF ReclaimerTypes, ReclaimerTypeOK, GuardsOn, OneGuardPerSlot

\* What retire() has done to the record of the thread.
LEMMA RetireParts ==
  ASSUME ReclaimerTypes, NEW t \in Thread, Retire(t)
  PROVE  LET r == inflight[t] IN
         /\ r \in Retired /\ r.pointer \in Ptr /\ r.disposer \in Disposer
         /\ r = [pointer |-> r.pointer, disposer |-> r.disposer]
         /\ retired' \in [Retired -> Nat]
         /\ \A q \in Retired : retired'[q] = retired[q] + (IF q = r THEN 1 ELSE 0)
         /\ blockers'[r.pointer] = GuardsOn(r.pointer)
         /\ \A p \in Ptr : p # r.pointer => blockers'[p] = blockers[p]
         /\ inflight'[t] = NoRecord
         /\ \A u \in Thread : u # t => inflight'[u] = inflight[u]
         /\ UNCHANGED <<cell, guards>>
<1> DEFINE r == inflight[t]
<1>1. /\ r # NoRecord
      /\ retired' = [retired EXCEPT ![r] = @ + 1]
      /\ blockers' = [blockers EXCEPT ![r.pointer] = GuardsOn(r.pointer)]
      /\ inflight' = [inflight EXCEPT ![t] = NoRecord]
      /\ UNCHANGED <<cell, guards>>
  BY DEF Retire
<1>2. /\ inflight \in [Thread -> Retired \cup {NoRecord}]
      /\ retired \in [Retired -> Nat]
      /\ blockers \in [Ptr -> SUBSET (Thread \X Slot)]
  BY DEF ReclaimerTypes, ReclaimerTypeOK
<1>3. /\ r \in Retired /\ r.pointer \in Ptr /\ r.disposer \in Disposer
      /\ r = [pointer |-> r.pointer, disposer |-> r.disposer]
  BY <1>1, <1>2 DEF Retired
<1>4. /\ inflight'[t] = NoRecord
      /\ \A u \in Thread : u # t => inflight'[u] = inflight[u]
  BY <1>1, <1>2
<1> HIDE DEF r
<1>5. /\ retired' \in [Retired -> Nat]
      /\ \A q \in Retired : retired'[q] = retired[q] + (IF q = r THEN 1 ELSE 0)
  BY <1>1, <1>2, <1>3
<1>6. /\ blockers'[r.pointer] = GuardsOn(r.pointer)
      /\ \A p \in Ptr : p # r.pointer => blockers'[p] = blockers[p]
  BY <1>1, <1>2, <1>3
<1>7. QED
  BY <1>1, <1>3, <1>4, <1>5, <1>6 DEF r

LEMMA RetireTypes ==
  ASSUME ReclaimerTypes, NEW t \in Thread, Retire(t)
  PROVE  ReclaimerTypes'
<1>1. UNCHANGED <<cell, guards>> /\ retired' \in [Retired -> Nat]
  BY RetireParts
<1>2. inflight' \in [Thread -> Retired \cup {NoRecord}]
  BY DEF Retire, ReclaimerTypes, ReclaimerTypeOK
<1>3. blockers' \in [Ptr -> SUBSET (Thread \X Slot)]
  <2>1. /\ blockers \in [Ptr -> SUBSET (Thread \X Slot)]
        /\ blockers' = [blockers EXCEPT ![inflight[t].pointer] =
                                          GuardsOn(inflight[t].pointer)]
    BY DEF Retire, ReclaimerTypes, ReclaimerTypeOK
  <2>2. GuardsOn(inflight[t].pointer) \subseteq Thread \X Slot
    BY DEF GuardsOn
  <2>3. QED
    BY <2>1, <2>2
<1>4. \A p \in Ptr : GuardsOn(p)' = GuardsOn(p)
  BY <1>1 DEF GuardsOn
<1>5. \A p \in Ptr : blockers'[p] \subseteq GuardsOn(p)'
  BY <1>4, RetireParts DEF ReclaimerTypes, ReclaimerTypeOK
<1>6. QED
  BY <1>1, <1>2, <1>3, <1>5 DEF ReclaimerTypes, ReclaimerTypeOK, OneGuardPerSlot

LEMMA DisposeTypes ==
  ASSUME ReclaimerTypes, NEW r \in Retired, Dispose(r)
  PROVE  ReclaimerTypes'
<1>1. /\ retired[r] > 0
      /\ retired' = [retired EXCEPT ![r] = @ - 1]
      /\ UNCHANGED <<cell, inflight, guards, blockers>>
  BY DEF Dispose
<1>2. retired' \in [Retired -> Nat]
  BY <1>1 DEF ReclaimerTypes, ReclaimerTypeOK
<1>3. QED
  BY <1>1, <1>2 DEF ReclaimerTypes, ReclaimerTypeOK, GuardsOn, OneGuardPerSlot

-----------------------------------------------------------------------------
(* A reference that is deferred for a guard stays until the guard goes.    *)

\* A guard that another one leaves behind keeps what it blocks.
LEMMA ReleaseDeferred ==
  ASSUME ReclaimerTypes, NEW t \in Thread, NEW g \in guards[t], ReleaseGuard(t, g),
         NEW u \in Thread, NEW h \in guards'[u], h.value \in Ptr,
         NEW D, Deferred(D, u, h.slot, h.value)
  PROVE  h \in guards[u] /\ Deferred(D, u, h.slot, h.value)'
<1>1. /\ guards' = [guards EXCEPT ![t] = @ \ {g}]
      /\ blockers' = [p \in Ptr |-> blockers[p] \ {<<t, g.slot>>}]
      /\ UNCHANGED <<inflight, retired>>
  BY DEF ReleaseGuard
<1>2. h \in guards[u] /\ ~(u = t /\ h = g)
  BY <1>1 DEF ReclaimerTypes, ReclaimerTypeOK
<1>3. <<u, h.slot>> # <<t, g.slot>>
  BY <1>2 DEF ReclaimerTypes, OneGuardPerSlot
<1>4. QED
  BY <1>1, <1>2, <1>3 DEF Deferred, StillRetired

\* The reference of an overwritten cell is in flight.
LEMMA OverwriteDeferred ==
  ASSUME ReclaimerTypes, NEW t \in Thread, NEW c \in Cell, NEW q, Overwrite(t, c, q),
         NEW u \in Thread, NEW s \in Slot, NEW p \in Ptr,
         NEW D, (cell[c] = p /\ DisposerOf[c] \in D) \/ Deferred(D, u, s, p)
  PROVE  Deferred(D, u, s, p)'
<1>1. /\ inflight[t] = NoRecord
      /\ UNCHANGED <<guards, retired, blockers>>
      /\ cell[c] # NULL => inflight' = [inflight EXCEPT ![t] =
                             [pointer |-> cell[c], disposer |-> DisposerOf[c]]]
      /\ cell[c] = NULL => inflight' = inflight
      /\ p # NULL
  BY ReclaimerAssumption DEF Overwrite
<1>2. /\ inflight[t].pointer = NULL
      /\ \A v \in Thread : v # t => inflight'[v] = inflight[v]
      /\ cell[c] # NULL => /\ inflight'[t].pointer = cell[c]
                           /\ inflight'[t].disposer = DisposerOf[c]
  BY <1>1 DEF ReclaimerTypes, ReclaimerTypeOK, NoRecord
<1>3. QED
  BY <1>1, <1>2 DEF Deferred, StillRetired

\* A retired record is blocked by the guards that have been there before.
LEMMA RetireDeferred ==
  ASSUME ReclaimerTypes, NEW t \in Thread, Retire(t),
         NEW u \in Thread, NEW g \in guards[u], g.value \in Ptr,
         NEW D, Deferred(D, u, g.slot, g.value)
  PROVE  Deferred(D, u, g.slot, g.value)'
<1> DEFINE r == inflight[t]
<1>1. /\ r \in Retired /\ r.pointer \in Ptr /\ r.disposer \in Disposer
      /\ r = [pointer |-> r.pointer, disposer |-> r.disposer]
      /\ retired' \in [Retired -> Nat]
      /\ \A q \in Retired : retired'[q] = retired[q] + (IF q = r THEN 1 ELSE 0)
      /\ blockers'[r.pointer] = GuardsOn(r.pointer)
      /\ \A p \in Ptr : p # r.pointer => blockers'[p] = blockers[p]
      /\ \A v \in Thread : v # t => inflight'[v] = inflight[v]
  BY RetireParts
<1>2. retired \in [Retired -> Nat]
  BY DEF ReclaimerTypes, ReclaimerTypeOK
<1>3. CASE g.value = r.pointer
  <2>1. retired'[r] > 0
    BY <1>1, <1>2
  <2>2. StillRetired(g.value)'
    BY <1>1, <1>3, <2>1 DEF StillRetired
  <2>3. <<u, g.slot>> \in GuardsOn(g.value)
    BY GuardParts DEF GuardsOn
  <2>4. QED
    BY <1>1, <1>3, <2>2, <2>3 DEF Deferred
<1>4. CASE g.value # r.pointer
  <2>1. StillRetired(g.value) => StillRetired(g.value)'
    <3>1. SUFFICES ASSUME NEW d \in Disposer,
                          retired[[pointer |-> g.value, disposer |-> d]] > 0
                   PROVE  retired'[[pointer |-> g.value, disposer |-> d]] > 0
      BY DEF StillRetired
    <3>2. [pointer |-> g.value, disposer |-> d] \in Retired
      BY DEF Retired
    <3>3. QED
      BY <1>1, <1>2, <3>1, <3>2
  <2>2. \A v \in Thread : inflight[v].pointer = g.value
                            => inflight'[v] = inflight[v]
    BY <1>1, <1>4
  <2>3. QED
    BY <1>1, <1>4, <2>1, <2>2 DEF Deferred
<1>5. QED
  BY <1>3, <1>4

\* A pointer that is blocked keeps a record.
LEMMA DisposeDeferred ==
  ASSUME ReclaimerTypes, NEW r \in Retired, Dispose(r),
         NEW u \in Thread, NEW s \in Slot, NEW p \in Ptr,
         NEW D, Deferred(D, u, s, p)
  PROVE  Deferred(D, u, s, p)'
<1>1. /\ retired' = [retired EXCEPT ![r] = @ - 1]
      /\ blockers[r.pointer] = {} \/ StillRetired(r.pointer)'
      /\ UNCHANGED <<inflight, blockers>>
  BY DEF Dispose
<1>2. \A q \in Retired : q # r => retired'[q] = retired[q]
  BY <1>1 DEF ReclaimerTypes, ReclaimerTypeOK
<1>3. CASE StillRetired(p) /\ <<u, s>> \in blockers[p]
  <2>1. CASE p = r.pointer
    BY <1>1, <1>3, <2>1 DEF Deferred
  <2>2. CASE p # r.pointer
    <3>1. PICK d \in Disposer : retired[[pointer |-> p, disposer |-> d]] > 0
      BY <1>3 DEF StillRetired
    <3>2. [pointer |-> p, disposer |-> d] \in Retired
          /\ [pointer |-> p, disposer |-> d] # r
      BY <2>2 DEF Retired
    <3>3. QED
      BY <1>1, <1>2, <1>3, <3>1, <3>2 DEF Deferred, StillRetired
  <2>3. QED
    BY <2>1, <2>2
<1>4. QED
  BY <1>1, <1>3 DEF Deferred

-----------------------------------------------------------------------------
\* The invariant is inductive.
LEMMA ReclaimerNextInv == ReclaimerInv /\ [ReclaimerNext]_reclaimerVars => ReclaimerInv'
<1>1. SUFFICES ASSUME ReclaimerInv, [ReclaimerNext]_reclaimerVars
               PROVE  ReclaimerInv'
  OBVIOUS
<1>2. ReclaimerTypes /\ GuardsKeep
  BY <1>1 DEF ReclaimerInv
<1>3. ASSUME NEW u \in Thread, NEW g \in guards[u], g.value # NULL
      PROVE  /\ g.value \in Ptr /\ g.slot \in Slot
             /\ (\E c \in Cell : cell[c] = g.value) \/ Deferred(Disposer, u, g.slot, g.value)
  BY <1>2, <1>3, GuardParts DEF GuardsKeep, KeptFor
<1>4. ASSUME NEW t \in Thread, NEW c \in Cell, Protect(t, c)
      PROVE  ReclaimerInv'
  <2>1. UNCHANGED <<cell, inflight, retired, blockers>>
    BY <1>4 DEF Protect
  <2>2. \A u \in Thread : \A g \in guards'[u] :
          g \in guards[u] \/ g.value = cell[c]
    BY <1>2, <1>4 DEF Protect, ReclaimerTypes, ReclaimerTypeOK
  <2>3. GuardsKeep'
    BY <1>3, <2>1, <2>2 DEF GuardsKeep, KeptFor, Deferred, StillRetired
  <2>4. QED
    BY <1>2, <1>4, <2>3, ProtectTypes DEF ReclaimerInv
<1>5. ASSUME NEW t \in Thread, NEW g \in guards[t], ReleaseGuard(t, g)
      PROVE  ReclaimerInv'
  <2>1. UNCHANGED cell /\ \A u \in Thread : guards'[u] \subseteq guards[u]
    BY <1>2, <1>5 DEF ReleaseGuard, ReclaimerTypes, ReclaimerTypeOK
  <2>2. GuardsKeep'
    BY <1>2, <1>3, <1>5, <2>1, ReleaseDeferred DEF GuardsKeep, KeptFor
  <2>3. QED
    BY <1>2, <1>5, <2>2, ReleaseTypes DEF ReclaimerInv
<1>6. ASSUME NEW t \in Thread, NEW c \in Cell, NEW p \in Ptr \cup {NULL},
             Overwrite(t, c, p)
      PROVE  ReclaimerInv'
  <2>1. guards' = guards /\ \A d \in Cell : d # c => cell'[d] = cell[d]
    BY <1>2, <1>6 DEF Overwrite, ReclaimerTypes, ReclaimerTypeOK
  <2>2. GuardsKeep'
    BY <1>2, <1>3, <1>6, <2>1, OverwriteDeferred, ReclaimerAssumption
       DEF GuardsKeep, KeptFor
  <2>3. QED
    BY <1>2, <1>6, <2>2, OverwriteTypes DEF ReclaimerInv
<1>7. ASSUME NEW t \in Thread, Retire(t)
      PROVE  ReclaimerInv'
  <2>1. UNCHANGED <<cell, guards>>
    BY <1>7 DEF Retire
  <2>2. GuardsKeep'
    BY <1>2, <1>3, <1>7, <2>1, RetireDeferred DEF GuardsKeep, KeptFor
  <2>3. QED
    BY <1>2, <1>7, <2>2, RetireTypes DEF ReclaimerInv
<1>8. ASSUME NEW r \in Retired, Dispose(r)
      PROVE  ReclaimerInv'
  <2>1. UNCHANGED <<cell, guards>>
    BY <1>8 DEF Dispose
  <2>2. GuardsKeep'
    BY <1>2, <1>3, <1>8, <2>1, DisposeDeferred DEF GuardsKeep, KeptFor
  <2>3. QED
    BY <1>2, <1>8, <2>2, DisposeTypes DEF ReclaimerInv
<1>9. CASE UNCHANGED reclaimerVars
  BY <1>1, <1>9 DEF reclaimerVars, ReclaimerInv, ReclaimerTypes, ReclaimerTypeOK,
    GuardsOn, OneGuardPerSlot, GuardsKeep, KeptFor, Deferred, StillRetired
<1>10. QED
  BY <1>1, <1>4, <1>5, <1>6, <1>7, <1>8, <1>9 DEF ReclaimerNext

\* A reference that is kept for a guard is a reference.
LEMMA ReclaimerInvImplies == ReclaimerInv => ReclaimerTypeOK /\ GuardedIsReferenced
BY DEF ReclaimerInv, ReclaimerTypes, GuardsKeep, KeptFor, Deferred,
       GuardedIsReferenced, Referenced

\* The abstract promise is what the clients of the domain need: as long as a
\* guard exists, the block it holds keeps a reference.
THEOREM GuardsKeepReferences ==
  ReclaimerSpec => [](ReclaimerTypeOK /\ GuardedIsReferenced)
<1>1. ReclaimerSpec => []ReclaimerInv
  BY ReclaimerInitInv, ReclaimerNextInv, PTL DEF ReclaimerSpec
<1>2. QED
  BY <1>1, ReclaimerInvImplies, PTL

-----------------------------------------------------------------------------
(* The counters of AtomicSharedPtr.                                        *)

Rec(p) == [pointer |-> p, disposer |-> Kind]
Loading == {"load", "increment", "unguard"}

\* The variables of this class; the bound on the counters is not among them.
HandleTypes ==
  /\ expected \in [Thread -> Ptr \cup {NULL}]
  /\ desired \in [Thread -> Ptr \cup {NULL}]
  /\ result \in [Thread -> Ptr \cup {NULL}]
  /\ target \in [Thread -> Cell \cup {NULL}]
  /\ pc \in [Thread -> {"idle", "retire", "swapped", "drop", "load", "increment",
                        "unguard", "assign"}]
  /\ cont \in [Thread -> {"idle", "drop"}]
  /\ handed \subseteq Thread

ClassTypes == refs \in [Ptr -> Nat] /\ HandleTypes

\* load() has a guard.
Guarding(t) == pc[t] \in {"increment", "unguard"}

\* What is in use where a thread is.
Stage(t) ==
  /\ pc[t] \in Loading => target[t] \in Cells
  /\ Guarding(t) => guards[t] # {} /\ \A g, h \in guards[t] : g = h
  /\ pc[t] = "increment" => \A g \in guards[t] : g.value # NULL
  /\ pc[t] = "unguard" => \A g \in guards[t] : result[t] = g.value
  /\ pc[t] \notin {"unguard", "assign"} => result[t] = NULL
  /\ pc[t] = "retire" => inflight[t] # NoRecord /\ inflight[t].disposer = Kind
  /\ pc[t] = "swapped" => inflight[t] = NoRecord \/ inflight[t].disposer = Kind

\* A guarded pointer has a reference that nobody else drops.
GuardsHold ==
  \A t \in Thread : Guarding(t) =>
    \A g \in guards[t] :
      g.value # NULL =>
        \/ t \in handed
        \/ cell[target[t]] = g.value
        \/ Deferred({Kind}, t, g.slot, g.value)

\* What every operation needs and keeps, also when another class is at work
\* on the same reclaimer.
ClassInv ==
  /\ ReclaimerTypes /\ ClassTypes
  /\ \A p \in Ptr : refs[p] <= MaxRefs
  /\ \A t \in Thread : Stage(t)
  /\ GuardsHold

\* There are records and guards of this class only.
OwnRecords ==
  /\ \A t \in Thread : inflight[t] # NoRecord => inflight[t].disposer = Kind
  /\ \A r \in Retired : retired[r] > 0 => r.disposer = Kind

OwnGuards == \A t \in Thread : guards[t] = {} <=> ~ Guarding(t)

IInv == ClassInv /\ OwnGuards /\ OwnRecords /\ CountIsExact

-----------------------------------------------------------------------------
(* The owners, counted by where they are.                                  *)

OwnersSum(p, cl, e, d, r, i, x) ==
  NumberOf(Cells, cl, p) + NumberOf(Thread, e, p) + NumberOf(Thread, d, p)
    + NumberOf(Thread, r, p) + NumberOf(Thread, i, Rec(p)) + x[Rec(p)]

LEMMA CellsFinite == IsFiniteSet(Cells) /\ Cells \subseteq Cell
BY FiniteAssumption, FS_Subset DEF Cells

LEMMA OwnersNow ==
  ASSUME NEW p \in Ptr
  PROVE  /\ Owners(p) = OwnersSum(p, cell, expected, desired, result, inflight, retired)
         /\ Owners(p)' = OwnersSum(p, cell', expected', desired', result', inflight', retired')
BY DEF Owners, OwnersSum, NumberOf, Rec

\* Every owner has a reference.
LEMMA OwnersPositive ==
  ASSUME NEW p \in Ptr, retired[Rec(p)] \in Nat
  PROVE  /\ Owners(p) \in Nat
         /\ \/ \E c \in Cells : cell[c] = p
            \/ \E t \in Thread : expected[t] = p \/ desired[t] = p \/ result[t] = p
            \/ \E t \in Thread : inflight[t] = Rec(p)
            \/ retired[Rec(p)] > 0
           => Owners(p) > 0
<1> DEFINE a == NumberOf(Cells, cell, p)
           b == NumberOf(Thread, expected, p)
           c == NumberOf(Thread, desired, p)
           d == NumberOf(Thread, result, p)
           e == NumberOf(Thread, inflight, Rec(p))
<1>1. /\ IsFiniteSet(Cells) /\ IsFiniteSet(Thread)
  BY CellsFinite, FiniteAssumption
<1>2. a \in Nat /\ ((\E k \in Cells : cell[k] = p) => a > 0)
  BY <1>1, NumberPositive
<1>3. b \in Nat /\ ((\E t \in Thread : expected[t] = p) => b > 0)
  BY <1>1, NumberPositive
<1>4. c \in Nat /\ ((\E t \in Thread : desired[t] = p) => c > 0)
  BY <1>1, NumberPositive
<1>5. d \in Nat /\ ((\E t \in Thread : result[t] = p) => d > 0)
  BY <1>1, NumberPositive
<1>6. e \in Nat /\ ((\E t \in Thread : inflight[t] = Rec(p)) => e > 0)
  BY <1>1, NumberPositive
<1>7. Owners(p) = a + b + c + d + e + retired[Rec(p)]
  BY OwnersNow DEF OwnersSum
<1> HIDE DEF a, b, c, d, e
<1> QED
  BY <1>2, <1>3, <1>4, <1>5, <1>6, <1>7

\* A step that gives a reference to an owner counts it, and one that takes a
\* reference from an owner and gives it to no other one counts it off.
Balanced(p) == refs'[p] + Owners(p) = refs[p] + Owners(p)'

\* Whether x is p, as a number, and what p gains when f becomes g.
Is(x, p) == IF x = p THEN 1 ELSE 0
Gain(I, f, g, p) == NumberOf(I, g, p) - NumberOf(I, f, p)

LEMMA IsNumber ==
  ASSUME NEW x, NEW p
  PROVE  /\ Is(x, p) \in Int
         /\ x = p => Is(x, p) = 1
         /\ x # p => Is(x, p) = 0
BY DEF Is

\* One handle changes.
LEMMA HandleGain ==
  ASSUME NEW t \in Thread, NEW p, NEW f, NEW g,
         \A u \in Thread : u # t => g[u] = f[u]
  PROVE  Gain(Thread, f, g, p) = Is(g[t], p) - Is(f[t], p)
<1>1. IsFiniteSet(Thread)
  BY FiniteAssumption
<1>2. /\ NumberOf(Thread, f, p) \in Nat /\ NumberOf(Thread, g, p) \in Nat
      /\ NumberOf(Thread, g, p) + (IF f[t] = p THEN 1 ELSE 0)
           = NumberOf(Thread, f, p) + (IF g[t] = p THEN 1 ELSE 0)
  BY <1>1, NumberChange
<1> QED
  BY <1>2 DEF Gain, Is

\* One cell changes.
LEMMA CellGain ==
  ASSUME NEW c \in Cells, NEW p, NEW f, NEW g,
         \A d \in Cells : d # c => g[d] = f[d]
  PROVE  Gain(Cells, f, g, p) = Is(g[c], p) - Is(f[c], p)
<1>1. IsFiniteSet(Cells)
  BY CellsFinite
<1>2. /\ NumberOf(Cells, f, p) \in Nat /\ NumberOf(Cells, g, p) \in Nat
      /\ NumberOf(Cells, g, p) + (IF f[c] = p THEN 1 ELSE 0)
           = NumberOf(Cells, f, p) + (IF g[c] = p THEN 1 ELSE 0)
  BY <1>1, NumberChange
<1> QED
  BY <1>2 DEF Gain, Is

\* None does.
LEMMA NoGain ==
  ASSUME NEW p, NEW f, NEW g, g = f
  PROVE  Gain(Thread, f, g, p) = 0 /\ Gain(Cells, f, g, p) = 0
<1>1. NumberOf(Cells, f, p) \in Nat /\ NumberOf(Thread, f, p) \in Nat
  BY NumberPositive, CellsFinite, FiniteAssumption
<1> QED
  BY <1>1 DEF Gain

\* The counter of a block goes down with a handle that is not empty.
LEMMA DecrementedBy ==
  ASSUME ClassTypes, NEW q \in Ptr \cup {NULL}, NEW p \in Ptr
  PROVE  refs[p] \in Nat /\ Decremented(q)[p] = refs[p] - Is(q, p)
BY ReclaimerAssumption DEF ClassTypes, HandleTypes, Decremented, Is

LEMMA IncrementedBy ==
  ASSUME ClassTypes, NEW q \in Ptr, NEW p \in Ptr
  PROVE  refs[p] \in Nat /\ Incremented(q)[p] = refs[p] + Is(q, p)
BY DEF ClassTypes, HandleTypes, Incremented, Is

\* What is known of the block p.
LEMMA BlockParts ==
  ASSUME ReclaimerTypes, ClassTypes, NEW p \in Ptr
  PROVE  /\ p # NULL /\ Rec(p) \in Retired /\ Rec(p) # NoRecord
         /\ refs[p] \in Nat /\ retired[Rec(p)] \in Nat
<1>1. /\ p # NULL /\ Rec(p) \in Retired /\ Rec(p) # NoRecord
  BY ReclaimerAssumption, KindAssumption DEF Rec, NoRecord, Retired
<1> QED
  BY <1>1 DEF ReclaimerTypes, ReclaimerTypeOK, ClassTypes, HandleTypes

\* The gains of the owners add up.
OwnersGain(p) ==
  Gain(Cells, cell, cell', p) + Gain(Thread, expected, expected', p)
    + Gain(Thread, desired, desired', p) + Gain(Thread, result, result', p)
    + Gain(Thread, inflight, inflight', Rec(p)) + (retired'[Rec(p)] - retired[Rec(p)])

LEMMA Balance ==
  ASSUME NEW p \in Ptr, refs[p] \in Nat, retired[Rec(p)] \in Nat,
         retired'[Rec(p)] \in Int,
         refs'[p] = refs[p] + OwnersGain(p)
  PROVE  Balanced(p)
<1> DEFINE gain == OwnersGain(p)
           a == NumberOf(Cells, cell, p)
           b == NumberOf(Thread, expected, p)
           c == NumberOf(Thread, desired, p)
           d == NumberOf(Thread, result, p)
           e == NumberOf(Thread, inflight, Rec(p))
           f == retired[Rec(p)]
           a1 == NumberOf(Cells, cell', p)
           b1 == NumberOf(Thread, expected', p)
           c1 == NumberOf(Thread, desired', p)
           d1 == NumberOf(Thread, result', p)
           e1 == NumberOf(Thread, inflight', Rec(p))
           f1 == retired'[Rec(p)]
<1>1. a \in Nat /\ a1 \in Nat /\ b \in Nat /\ b1 \in Nat /\ c \in Nat /\ c1 \in Nat
  BY NumberPositive, CellsFinite, FiniteAssumption
<1>2. d \in Nat /\ d1 \in Nat /\ e \in Nat /\ e1 \in Nat
  BY NumberPositive, FiniteAssumption
<1>3. Owners(p) = a + b + c + d + e + f
  BY OwnersNow DEF OwnersSum
<1>4. Owners(p)' = a1 + b1 + c1 + d1 + e1 + f1
  BY OwnersNow DEF OwnersSum
<1>5. gain = (a1 - a) + (b1 - b) + (c1 - c) + (d1 - d) + (e1 - e) + (f1 - f)
  BY DEF Gain, OwnersGain
<1>6. f \in Nat /\ f1 \in Int
  OBVIOUS
<1> HIDE DEF gain, a, b, c, d, e, f, a1, b1, c1, d1, e1, f1
<1>7. Owners(p)' = Owners(p) + gain
  BY <1>1, <1>2, <1>3, <1>4, <1>5, <1>6
<1>8. Owners(p) \in Int /\ gain \in Int
  BY <1>1, <1>2, <1>3, <1>5, <1>6
<1>9. refs'[p] = refs[p] + gain
  BY DEF gain
<1> QED
  BY <1>7, <1>8, <1>9 DEF Balanced

-----------------------------------------------------------------------------
(* Every operation is balanced.                                            *)

\* makeShared() and the copy constructor: desired gets the new reference.
LEMMA SetDesiredBalanced ==
  ASSUME ReclaimerTypes, ClassTypes, NEW t \in Thread, NEW q \in Ptr,
         desired[t] = NULL, refs' = Incremented(q),
         desired' = [desired EXCEPT ![t] = q],
         UNCHANGED <<cell, expected, result, inflight, retired>>, NEW p \in Ptr
  PROVE  Balanced(p)
<1>1. refs'[p] = refs[p] + Is(q, p)
  BY IncrementedBy
<1>2. desired'[t] = q /\ \A u \in Thread : u # t => desired'[u] = desired[u]
  BY DEF ClassTypes, HandleTypes
<1>3. Gain(Thread, desired, desired', p) = Is(q, p) - Is(desired[t], p)
  BY <1>2, HandleGain
<1>4. Is(q, p) \in Int /\ Is(desired[t], p) = 0
  BY BlockParts, IsNumber
<1>5. /\ Gain(Cells, cell, cell', p) = 0 /\ Gain(Thread, expected, expected', p) = 0
      /\ Gain(Thread, result, result', p) = 0
      /\ Gain(Thread, inflight, inflight', Rec(p)) = 0
  BY NoGain
<1>6. /\ refs[p] \in Nat /\ retired[Rec(p)] \in Nat
      /\ retired'[Rec(p)] - retired[Rec(p)] = 0
  BY BlockParts
<1>7. OwnersGain(p) = Is(q, p)
  BY <1>3, <1>4, <1>5, <1>6 DEF OwnersGain
<1> QED
  BY <1>1, <1>6, <1>7, Balance

\* reset() and the destructor of a SharedPtr.
LEMMA ResetExpectedBalanced ==
  ASSUME ReclaimerTypes, ClassTypes, NEW t \in Thread, ResetExpected(t), NEW p \in Ptr
  PROVE  Balanced(p)
<1>1. /\ refs' = Decremented(expected[t])
      /\ expected' = [expected EXCEPT ![t] = NULL]
      /\ UNCHANGED <<cell, desired, result, inflight, retired>>
  BY DEF ResetExpected, reclaimerVars
<1>2. /\ expected[t] \in Ptr \cup {NULL} /\ expected'[t] = NULL
      /\ \A u \in Thread : u # t => expected'[u] = expected[u]
  BY <1>1 DEF ClassTypes, HandleTypes
<1>3. refs'[p] = refs[p] - Is(expected[t], p)
  BY <1>1, <1>2, DecrementedBy
<1>4. Gain(Thread, expected, expected', p) = Is(NULL, p) - Is(expected[t], p)
  BY <1>2, HandleGain
<1>5. Is(expected[t], p) \in Int /\ Is(NULL, p) = 0
  BY BlockParts, IsNumber
<1>6. /\ Gain(Cells, cell, cell', p) = 0
      /\ Gain(Thread, desired, desired', p) = 0
      /\ Gain(Thread, result, result', p) = 0
      /\ Gain(Thread, inflight, inflight', Rec(p)) = 0
  BY <1>1, NoGain
<1>7. /\ refs[p] \in Nat /\ retired[Rec(p)] \in Nat
      /\ retired'[Rec(p)] = retired[Rec(p)]
  BY <1>1, BlockParts
<1>8. OwnersGain(p) = 0 - Is(expected[t], p)
  BY <1>4, <1>5, <1>6, <1>7 DEF OwnersGain
<1>9. refs'[p] = refs[p] + OwnersGain(p) /\ retired'[Rec(p)] \in Int
  BY <1>3, <1>5, <1>7, <1>8
<1> QED
  BY <1>7, <1>9, Balance

\* The destructor of the parameter desired.
LEMMA DropDesiredBalanced ==
  ASSUME ReclaimerTypes, ClassTypes, NEW t \in Thread, DropDesired(t), NEW p \in Ptr
  PROVE  Balanced(p)
<1>1. /\ refs' = Decremented(desired[t])
      /\ desired' = [desired EXCEPT ![t] = NULL]
      /\ UNCHANGED <<cell, expected, result, inflight, retired>>
  BY DEF DropDesired, reclaimerVars
<1>2. /\ desired[t] \in Ptr \cup {NULL} /\ desired'[t] = NULL
      /\ \A u \in Thread : u # t => desired'[u] = desired[u]
  BY <1>1 DEF ClassTypes, HandleTypes
<1>3. refs'[p] = refs[p] - Is(desired[t], p)
  BY <1>1, <1>2, DecrementedBy
<1>4. Gain(Thread, desired, desired', p) = Is(NULL, p) - Is(desired[t], p)
  BY <1>2, HandleGain
<1>5. Is(desired[t], p) \in Int /\ Is(NULL, p) = 0
  BY BlockParts, IsNumber
<1>6. /\ Gain(Cells, cell, cell', p) = 0
      /\ Gain(Thread, expected, expected', p) = 0
      /\ Gain(Thread, result, result', p) = 0
      /\ Gain(Thread, inflight, inflight', Rec(p)) = 0
  BY <1>1, NoGain
<1>7. /\ refs[p] \in Nat /\ retired[Rec(p)] \in Nat
      /\ retired'[Rec(p)] = retired[Rec(p)]
  BY <1>1, BlockParts
<1>8. OwnersGain(p) = 0 - Is(desired[t], p)
  BY <1>4, <1>5, <1>6, <1>7 DEF OwnersGain
<1>9. refs'[p] = refs[p] + OwnersGain(p) /\ retired'[Rec(p)] \in Int
  BY <1>3, <1>5, <1>7, <1>8
<1> QED
  BY <1>7, <1>9, Balance

\* store() and compareExchange(): the cell takes the reference of desired,
\* and the old one is on its way to retire().
LEMMA OverwriteBalanced ==
  ASSUME ReclaimerTypes, ClassTypes, NEW t \in Thread, NEW c \in Cells,
         Overwrite(t, c, desired[t]), desired' = [desired EXCEPT ![t] = NULL],
         UNCHANGED <<refs, expected, result>>, NEW p \in Ptr
  PROVE  Balanced(p)
<1>1. /\ inflight[t] = NoRecord /\ c \in Cell /\ DisposerOf[c] = Kind
      /\ cell' = [cell EXCEPT ![c] = desired[t]]
      /\ UNCHANGED retired
  BY DEF Overwrite, Cells
<1>2. /\ cell'[c] = desired[t]
      /\ \A d \in Cells : d # c => cell'[d] = cell[d]
  BY <1>1 DEF ReclaimerTypes, ReclaimerTypeOK, Cells
<1>3. /\ desired'[t] = NULL
      /\ \A u \in Thread : u # t => desired'[u] = desired[u]
  BY DEF ClassTypes, HandleTypes
<1>4. /\ inflight'[t] = IF cell[c] = NULL THEN NoRecord ELSE Rec(cell[c])
      /\ \A u \in Thread : u # t => inflight'[u] = inflight[u]
  BY <1>1 DEF Overwrite, ReclaimerTypes, ReclaimerTypeOK, Rec
<1>5. Is(inflight'[t], Rec(p)) = Is(cell[c], p)
  BY <1>4, BlockParts DEF Is, Rec, NoRecord
<1>6. Is(inflight[t], Rec(p)) = 0 /\ Is(NULL, p) = 0
  BY <1>1, BlockParts, IsNumber
<1>7. Gain(Cells, cell, cell', p) = Is(desired[t], p) - Is(cell[c], p)
  BY <1>2, CellGain
<1>8. Gain(Thread, desired, desired', p) = Is(NULL, p) - Is(desired[t], p)
  BY <1>3, HandleGain
<1>9. Gain(Thread, inflight, inflight', Rec(p))
        = Is(inflight'[t], Rec(p)) - Is(inflight[t], Rec(p))
  BY <1>4, HandleGain
<1>10. Is(desired[t], p) \in Int /\ Is(cell[c], p) \in Int
  BY IsNumber
<1>11. /\ Gain(Thread, expected, expected', p) = 0
      /\ Gain(Thread, result, result', p) = 0
  BY NoGain
<1>12. /\ refs[p] \in Nat /\ retired[Rec(p)] \in Nat
      /\ retired'[Rec(p)] = retired[Rec(p)]
  BY <1>1, BlockParts
<1>13. OwnersGain(p) = 0
  BY <1>5, <1>6, <1>7, <1>8, <1>9, <1>10, <1>11, <1>12 DEF OwnersGain
<1>14. refs'[p] = refs[p] + OwnersGain(p) /\ retired'[Rec(p)] \in Int
  BY <1>1, <1>12, <1>13
<1> QED
  BY <1>12, <1>14, Balance

\* exchange(): the cell and desired swap their references.
LEMMA ExchangeBalanced ==
  ASSUME ReclaimerTypes, ClassTypes, NEW t \in Thread, NEW c \in Cells,
         Exchange(t, c), NEW p \in Ptr
  PROVE  Balanced(p)
<1>1. /\ c \in Cell
      /\ cell' = [cell EXCEPT ![c] = desired[t]]
      /\ desired' = [desired EXCEPT ![t] = cell[c]]
      /\ UNCHANGED <<refs, expected, result, inflight, retired>>
  BY DEF Exchange, Cells
<1>2. /\ cell'[c] = desired[t]
      /\ \A d \in Cells : d # c => cell'[d] = cell[d]
  BY <1>1 DEF ReclaimerTypes, ReclaimerTypeOK, Cells
<1>3. /\ desired'[t] = cell[c]
      /\ \A u \in Thread : u # t => desired'[u] = desired[u]
  BY <1>1 DEF ClassTypes, HandleTypes
<1>4. Gain(Cells, cell, cell', p) = Is(desired[t], p) - Is(cell[c], p)
  BY <1>2, CellGain
<1>5. Gain(Thread, desired, desired', p) = Is(cell[c], p) - Is(desired[t], p)
  BY <1>3, HandleGain
<1>6. Is(desired[t], p) \in Int /\ Is(cell[c], p) \in Int
  BY IsNumber
<1>7. /\ Gain(Thread, expected, expected', p) = 0
      /\ Gain(Thread, result, result', p) = 0
      /\ Gain(Thread, inflight, inflight', Rec(p)) = 0
  BY <1>1, NoGain
<1>8. /\ refs[p] \in Nat /\ retired[Rec(p)] \in Nat
      /\ retired'[Rec(p)] = retired[Rec(p)]
  BY <1>1, BlockParts
<1>9. OwnersGain(p) = 0
  BY <1>4, <1>5, <1>6, <1>7, <1>8 DEF OwnersGain
<1>10. refs'[p] = refs[p] + OwnersGain(p) /\ retired'[Rec(p)] \in Int
  BY <1>1, <1>8, <1>9
<1> QED
  BY <1>8, <1>10, Balance

\* delayDecrementRef(): the reference waits in a retired record.
LEMMA RetireBalanced ==
  ASSUME ReclaimerTypes, ClassTypes, NEW t \in Thread, Retire(t),
         UNCHANGED <<refs, expected, desired, result>>, NEW p \in Ptr
  PROVE  Balanced(p)
<1>1. Retire(t) /\ UNCHANGED <<refs, expected, desired, result>>
  OBVIOUS
<1>2. /\ inflight'[t] = NoRecord /\ cell' = cell
      /\ \A u \in Thread : u # t => inflight'[u] = inflight[u]
      /\ \A q \in Retired : retired'[q] = retired[q] + (IF q = inflight[t] THEN 1 ELSE 0)
  BY <1>1, RetireParts
<1>3. Gain(Thread, inflight, inflight', Rec(p))
        = Is(NoRecord, Rec(p)) - Is(inflight[t], Rec(p))
  BY <1>2, HandleGain
<1>4. Is(NoRecord, Rec(p)) = 0 /\ Is(inflight[t], Rec(p)) \in Int
  BY BlockParts, IsNumber
<1>5. retired'[Rec(p)] = retired[Rec(p)] + Is(inflight[t], Rec(p))
  BY <1>2, BlockParts DEF Is
<1>6. /\ Gain(Cells, cell, cell', p) = 0
      /\ Gain(Thread, expected, expected', p) = 0
      /\ Gain(Thread, desired, desired', p) = 0
      /\ Gain(Thread, result, result', p) = 0
  BY <1>1, <1>2, NoGain
<1>7. /\ refs[p] \in Nat /\ retired[Rec(p)] \in Nat
  BY BlockParts
<1>8. OwnersGain(p) = 0
  BY <1>3, <1>4, <1>5, <1>6, <1>7 DEF OwnersGain
<1>9. refs'[p] = refs[p] + OwnersGain(p) /\ retired'[Rec(p)] \in Int
  BY <1>1, <1>4, <1>5, <1>7, <1>8
<1> QED
  BY <1>7, <1>9, Balance

\* load(): the result gets a reference of its own.
LEMMA LoadIncrementBalanced ==
  ASSUME ReclaimerTypes, ClassTypes, NEW t \in Thread, LoadIncrement(t),
         result[t] = NULL, \A g \in guards[t] : g.value # NULL, NEW p \in Ptr
  PROVE  Balanced(p)
<1>1. /\ UNCHANGED <<cell, expected, desired, inflight, retired>>
      /\ \E g \in guards[t] : /\ refs' = Incremented(g.value)
                              /\ result' = [result EXCEPT ![t] = g.value]
  BY DEF LoadIncrement, reclaimerVars
<1>2. PICK g \in guards[t] : /\ refs' = Incremented(g.value)
                             /\ result' = [result EXCEPT ![t] = g.value]
  BY <1>1
<1>3. g.value \in Ptr
  BY GuardParts
<1>4. refs'[p] = refs[p] + Is(g.value, p)
  BY <1>2, <1>3, IncrementedBy
<1>5. result'[t] = g.value /\ \A u \in Thread : u # t => result'[u] = result[u]
  BY <1>2 DEF ClassTypes, HandleTypes
<1>6. Gain(Thread, result, result', p) = Is(g.value, p) - Is(NULL, p)
  BY <1>5, HandleGain
<1>7. Is(NULL, p) = 0 /\ Is(g.value, p) \in Int
  BY BlockParts, IsNumber
<1>8. /\ Gain(Cells, cell, cell', p) = 0
      /\ Gain(Thread, expected, expected', p) = 0
      /\ Gain(Thread, desired, desired', p) = 0
      /\ Gain(Thread, inflight, inflight', Rec(p)) = 0
  BY <1>1, NoGain
<1>9. /\ refs[p] \in Nat /\ retired[Rec(p)] \in Nat
      /\ retired'[Rec(p)] = retired[Rec(p)]
  BY <1>1, BlockParts
<1>10. OwnersGain(p) = Is(g.value, p)
  BY <1>6, <1>7, <1>8, <1>9 DEF OwnersGain
<1>11. refs'[p] = refs[p] + OwnersGain(p) /\ retired'[Rec(p)] \in Int
  BY <1>4, <1>7, <1>9, <1>10
<1> QED
  BY <1>9, <1>11, Balance

\* The move assignment: expected takes the reference of the result.
LEMMA LoadAssignBalanced ==
  ASSUME ReclaimerTypes, ClassTypes, NEW t \in Thread, LoadAssign(t), NEW p \in Ptr
  PROVE  Balanced(p)
<1>1. /\ refs' = Decremented(expected[t])
      /\ expected' = [expected EXCEPT ![t] = result[t]]
      /\ result' = [result EXCEPT ![t] = NULL]
      /\ UNCHANGED <<cell, desired, inflight, retired>>
  BY DEF LoadAssign, reclaimerVars
<1>2. /\ expected[t] \in Ptr \cup {NULL}
      /\ expected'[t] = result[t]
      /\ \A u \in Thread : u # t => expected'[u] = expected[u]
  BY <1>1 DEF ClassTypes, HandleTypes
<1>3. result'[t] = NULL /\ \A u \in Thread : u # t => result'[u] = result[u]
  BY <1>1 DEF ClassTypes, HandleTypes
<1>4. refs'[p] = refs[p] - Is(expected[t], p)
  BY <1>1, <1>2, DecrementedBy
<1>5. Gain(Thread, expected, expected', p) = Is(result[t], p) - Is(expected[t], p)
  BY <1>2, HandleGain
<1>6. Gain(Thread, result, result', p) = Is(NULL, p) - Is(result[t], p)
  BY <1>3, HandleGain
<1>7. Is(NULL, p) = 0 /\ Is(result[t], p) \in Int /\ Is(expected[t], p) \in Int
  BY BlockParts, IsNumber
<1>8. /\ Gain(Cells, cell, cell', p) = 0
      /\ Gain(Thread, desired, desired', p) = 0
      /\ Gain(Thread, inflight, inflight', Rec(p)) = 0
  BY <1>1, NoGain
<1>9. /\ refs[p] \in Nat /\ retired[Rec(p)] \in Nat
      /\ retired'[Rec(p)] = retired[Rec(p)]
  BY <1>1, BlockParts
<1>10. OwnersGain(p) = 0 - Is(expected[t], p)
  BY <1>5, <1>6, <1>7, <1>8, <1>9 DEF OwnersGain
<1>11. refs'[p] = refs[p] + OwnersGain(p) /\ retired'[Rec(p)] \in Int
  BY <1>4, <1>7, <1>9, <1>10
<1> QED
  BY <1>9, <1>11, Balance

\* ~AtomicSharedPtr()
LEMMA DestroyCellBalanced ==
  ASSUME ReclaimerTypes, ClassTypes, NEW t \in Thread, NEW c \in Cells,
         DestroyCell(t, c), NEW p \in Ptr
  PROVE  Balanced(p)
<1>1. /\ c \in Cell
      /\ refs' = Decremented(cell[c])
      /\ cell' = [cell EXCEPT ![c] = NULL]
      /\ UNCHANGED <<expected, desired, result, inflight, retired>>
  BY DEF DestroyCell, handleVars, Cells
<1>2. /\ cell[c] \in Ptr \cup {NULL} /\ cell'[c] = NULL
      /\ \A d \in Cells : d # c => cell'[d] = cell[d]
  BY <1>1 DEF ReclaimerTypes, ReclaimerTypeOK, Cells
<1>3. refs'[p] = refs[p] - Is(cell[c], p)
  BY <1>1, <1>2, DecrementedBy
<1>4. Gain(Cells, cell, cell', p) = Is(NULL, p) - Is(cell[c], p)
  BY <1>2, CellGain
<1>5. Is(NULL, p) = 0 /\ Is(cell[c], p) \in Int
  BY BlockParts, IsNumber
<1>6. /\ Gain(Thread, expected, expected', p) = 0
      /\ Gain(Thread, desired, desired', p) = 0
      /\ Gain(Thread, result, result', p) = 0
      /\ Gain(Thread, inflight, inflight', Rec(p)) = 0
  BY <1>1, NoGain
<1>7. /\ refs[p] \in Nat /\ retired[Rec(p)] \in Nat
      /\ retired'[Rec(p)] = retired[Rec(p)]
  BY <1>1, BlockParts
<1>8. OwnersGain(p) = 0 - Is(cell[c], p)
  BY <1>4, <1>5, <1>6, <1>7 DEF OwnersGain
<1>9. refs'[p] = refs[p] + OwnersGain(p) /\ retired'[Rec(p)] \in Int
  BY <1>3, <1>5, <1>7, <1>8
<1> QED
  BY <1>7, <1>9, Balance

\* A scan disposes of a retired record: decrementRef().
LEMMA DisposeBalanced ==
  ASSUME ReclaimerTypes, ClassTypes, NEW q \in Ptr, DisposeRef(q), NEW p \in Ptr
  PROVE  Balanced(p)
<1>1. /\ retired' = [retired EXCEPT ![Rec(q)] = @ - 1]
      /\ refs' = Decremented(q)
      /\ UNCHANGED <<cell, expected, desired, result, inflight>>
  BY DEF DisposeRef, Dispose, handleVars, Rec
<1>2. refs'[p] = refs[p] - Is(q, p)
  BY <1>1, DecrementedBy
<1>3. /\ Rec(q) = Rec(p) <=> q = p
      /\ Is(q, p) \in Int
  BY IsNumber DEF Rec
<1>4. retired'[Rec(p)] = retired[Rec(p)] - Is(q, p)
  BY <1>1, <1>3, BlockParts DEF ReclaimerTypes, ReclaimerTypeOK, Is
<1>5. /\ Gain(Cells, cell, cell', p) = 0
      /\ Gain(Thread, expected, expected', p) = 0
      /\ Gain(Thread, desired, desired', p) = 0
      /\ Gain(Thread, result, result', p) = 0
      /\ Gain(Thread, inflight, inflight', Rec(p)) = 0
  BY <1>1, NoGain
<1>6. /\ refs[p] \in Nat /\ retired[Rec(p)] \in Nat
  BY BlockParts
<1>7. OwnersGain(p) = 0 - Is(q, p)
  BY <1>3, <1>4, <1>5, <1>6 DEF OwnersGain
<1>8. refs'[p] = refs[p] + OwnersGain(p) /\ retired'[Rec(p)] \in Int
  BY <1>2, <1>3, <1>4, <1>6, <1>7
<1> QED
  BY <1>6, <1>8, Balance

\* A step that neither counts nor moves a reference.
LEMMA OthersBalanced ==
  ASSUME ReclaimerTypes, ClassTypes,
         UNCHANGED <<refs, cell, expected, desired, result, inflight, retired>>,
         NEW p \in Ptr
  PROVE  Balanced(p)
<1>1. refs'[p] = refs[p] /\ refs[p] \in Nat
  BY BlockParts
<1>2. Owners(p)' = Owners(p)
  BY OwnersNow
<1>3. Owners(p) \in Nat
  BY BlockParts, OwnersPositive
<1> QED
  BY <1>1, <1>2, <1>3 DEF Balanced

-----------------------------------------------------------------------------
(* What the actions have in common.                                        *)

\* A balanced step keeps what the counter exceeds the number of owners by.
LEMMA CountKept ==
  ASSUME NEW p \in Ptr, retired[Rec(p)] \in Nat, retired'[Rec(p)] \in Nat,
         NEW b \in Nat, refs[p] = Owners(p) + b, refs'[p] \in Int, Balanced(p)
  PROVE  refs'[p] \in Nat /\ Owners(p)' \in Nat /\ refs'[p] = Owners(p)' + b
<1> DEFINE i == NumberOf(Cells, cell', p)
           j == NumberOf(Thread, expected', p)
           k == NumberOf(Thread, desired', p)
           l == NumberOf(Thread, result', p)
           m == NumberOf(Thread, inflight', Rec(p))
           n == retired'[Rec(p)]
<1>1. i \in Nat /\ j \in Nat /\ k \in Nat
  BY NumberPositive, CellsFinite, FiniteAssumption
<1>2. l \in Nat /\ m \in Nat /\ n \in Nat
  BY NumberPositive, FiniteAssumption
<1>3. Owners(p)' = i + j + k + l + m + n
  BY OwnersNow DEF OwnersSum
<1> HIDE DEF i, j, k, l, m, n
<1>4. Owners(p)' \in Nat
  BY <1>1, <1>2, <1>3
<1>5. Owners(p) \in Nat
  BY OwnersPositive
<1>6. refs'[p] + Owners(p) = refs[p] + Owners(p)'
  BY DEF Balanced
<1> QED
  BY <1>4, <1>5, <1>6

\* What a step of this class does to the reclaimer.
OwnMove(t) ==
  \/ UNCHANGED reclaimerVars
  \/ \E c \in Cells : Protect(t, c)
  \/ \E g \in guards[t] : ReleaseGuard(t, g)
  \/ \E c \in Cells, q \in Ptr \cup {NULL} : Overwrite(t, c, q)
  \/ Retire(t) /\ inflight[t].disposer = Kind
  \/ \E c \in Cells, q \in Ptr \cup {NULL} :
       cell' = [cell EXCEPT ![c] = q] /\ UNCHANGED <<inflight, guards, retired, blockers>>

\* It moves the thread t alone, and a thread that is not in a load() has no
\* guard.
OwnStep(t) ==
  /\ \A u \in Thread : u # t => pc'[u] = pc[u] /\ guards'[u] = guards[u]
  /\ (guards[t] = {} <=> ~ Guarding(t)) => (guards'[t] = {} <=> ~ Guarding(t)')
  /\ OwnMove(t)

\* What every operation leaves behind.
ClassKept ==
  /\ ReclaimerTypes' /\ HandleTypes' /\ GuardsHold'
  /\ refs' \in [Ptr -> Int] /\ \A p \in Ptr : refs'[p] <= MaxRefs
  /\ \A t \in Thread : Stage(t)'
  /\ \A p \in Ptr : Balanced(p)

\* What every operation leaves behind makes up the invariant again.
LEMMA ClassAfter ==
  ASSUME ClassInv, ClassKept,
         NEW b \in [Ptr -> Nat], \A p \in Ptr : refs[p] = Owners(p) + b[p]
  PROVE  /\ ClassInv'
         /\ \A p \in Ptr : Owners(p)' \in Nat /\ refs'[p] = Owners(p)' + b[p]
<1>1. \A p \in Ptr : /\ refs'[p] \in Nat /\ Owners(p)' \in Nat
                     /\ refs'[p] = Owners(p)' + b[p]
  <2> TAKE p \in Ptr
  <2>1. Rec(p) \in Retired
    BY BlockParts DEF ClassInv
  <2>2. retired[Rec(p)] \in Nat /\ retired'[Rec(p)] \in Nat
    BY <2>1 DEF ClassInv, ClassKept, ReclaimerTypes, ReclaimerTypeOK
  <2>3. refs[p] = Owners(p) + b[p] /\ b[p] \in Nat
    OBVIOUS
  <2>4. refs'[p] \in Int /\ Balanced(p)
    BY DEF ClassKept
  <2> QED
    BY <2>2, <2>3, <2>4, CountKept
<1>2. ClassTypes'
  BY <1>1 DEF ClassTypes, ClassKept
<1> QED
  BY <1>1, <1>2 DEF ClassInv, ClassKept

LEMMA OwnersNat == ASSUME ClassInv, NEW p \in Ptr PROVE Owners(p) \in Nat
BY BlockParts, OwnersPositive DEF ClassInv

\* With this class alone the counts are exact.
LEMMA CountAfter ==
  ASSUME ClassInv, ClassKept, CountIsExact
  PROVE  ClassInv' /\ CountIsExact'
<1> DEFINE b == [p \in Ptr |-> 0]
<1>1. b \in [Ptr -> Nat] /\ \A p \in Ptr : refs[p] = Owners(p) + b[p]
  BY OwnersNat DEF CountIsExact
<1>2. \A p \in Ptr : b[p] = 0
  OBVIOUS
<1> HIDE DEF b
<1>3. /\ ClassInv'
      /\ \A p \in Ptr : Owners(p)' \in Nat /\ refs'[p] = Owners(p)' + b[p]
  BY <1>1, ClassAfter
<1> QED
  BY <1>2, <1>3 DEF CountIsExact

\* The steps on the handles alone leave the reclaimer and the guards as they
\* are.
LEMMA ReclaimerUnchanged ==
  ASSUME ClassInv, UNCHANGED reclaimerVars
  PROVE  /\ ReclaimerTypes'
         /\ UNCHANGED <<cell, inflight, guards, retired, blockers>>
         /\ (\A t \in Thread : Guarding(t)' => Guarding(t) /\ target'[t] = target[t])
              /\ handed' = handed => GuardsHold'
<1>1. UNCHANGED <<cell, inflight, guards, retired, blockers>>
  BY DEF reclaimerVars
<1>2. ReclaimerTypes'
  BY <1>1 DEF ClassInv, ReclaimerTypes, ReclaimerTypeOK, OneGuardPerSlot, GuardsOn
<1>3. ASSUME \A t \in Thread : Guarding(t)' => Guarding(t) /\ target'[t] = target[t],
             handed' = handed
      PROVE  GuardsHold'
  <2>1. \A t, s, p : Deferred({Kind}, t, s, p)' <=> Deferred({Kind}, t, s, p)
    BY <1>1 DEF Deferred, StillRetired
  <2> QED
    BY <1>1, <1>3, <2>1 DEF ClassInv, GuardsHold
<1> QED
  BY <1>1, <1>2, <1>3

\* The thread that takes a step goes to l.
LEMMA PcMoved ==
  ASSUME ClassInv, NEW t \in Thread, NEW l, pc' = [pc EXCEPT ![t] = l]
  PROVE  pc'[t] = l /\ \A u \in Thread : u # t => pc'[u] = pc[u]
BY DEF ClassInv, ClassTypes, HandleTypes

\* A step on the handles alone.
LEMMA HandleStep ==
  ASSUME NEW t \in Thread, UNCHANGED reclaimerVars,
         \A u \in Thread : u # t => pc'[u] = pc[u],
         Guarding(t)' <=> Guarding(t)
  PROVE  OwnStep(t)
BY DEF OwnStep, OwnMove, reclaimerVars

\* Neither adding a reference below the bound nor dropping one exceeds it.
LEMMA DecrementedBelow ==
  ASSUME ClassInv, NEW q \in Ptr \cup {NULL}, refs' = Decremented(q)
  PROVE  /\ refs' \in [Ptr -> Int]
         /\ \A p \in Ptr : refs'[p] <= MaxRefs
<1>1. ClassTypes /\ \A p \in Ptr : refs[p] \in Nat /\ refs[p] <= MaxRefs
  BY DEF ClassInv, ClassTypes
<1>2. refs' \in [Ptr -> Int]
  BY <1>1, ReclaimerAssumption DEF Decremented, ClassTypes
<1>3. \A p \in Ptr : refs'[p] = refs[p] - Is(q, p)
  BY <1>1, DecrementedBy
<1>4. \A p : Is(q, p) \in {0, 1}
  BY DEF Is
<1>5. \A p \in Ptr : refs'[p] <= MaxRefs
  <2> TAKE p \in Ptr
  <2>1. refs'[p] = refs[p] - Is(q, p) /\ Is(q, p) \in {0, 1}
    BY <1>3, <1>4
  <2> QED
    BY <1>1, <2>1, FiniteAssumption
<1> QED
  BY <1>2, <1>5

LEMMA IncrementedBelow ==
  ASSUME ClassInv, NEW q \in Ptr, refs' = Incremented(q), refs[q] < MaxRefs
  PROVE  /\ refs' \in [Ptr -> Int]
         /\ \A p \in Ptr : refs'[p] <= MaxRefs
<1>1. refs \in [Ptr -> Nat] /\ \A p \in Ptr : refs[p] \in Nat /\ refs[p] <= MaxRefs
  BY DEF ClassInv, ClassTypes
<1>2. refs' \in [Ptr -> Int]
  BY <1>1 DEF Incremented
<1>3. \A p \in Ptr : refs'[p] <= MaxRefs
  <2> TAKE p \in Ptr
  <2>1. refs'[p] = IF p = q THEN refs[q] + 1 ELSE refs[p]
    BY <1>1 DEF Incremented
  <2> QED
    BY <1>1, <2>1, FiniteAssumption
<1> QED
  BY <1>2, <1>3

LEMMA RefsUnchangedBelow ==
  ASSUME ClassInv, refs' = refs
  PROVE  /\ refs' \in [Ptr -> Int]
         /\ \A p \in Ptr : refs'[p] <= MaxRefs
BY DEF ClassInv, ClassTypes

\* Another thread stays where it is.
LEMMA StageOfOther ==
  ASSUME NEW u \in Thread, Stage(u),
         pc'[u] = pc[u], target'[u] = target[u], guards'[u] = guards[u],
         result'[u] = result[u], inflight'[u] = inflight[u]
  PROVE  Stage(u)'
BY DEF Stage, Guarding

-----------------------------------------------------------------------------
(* Every action keeps what the operations of a class need.                 *)

\* desired gets a reference of its own.
LEMMA SetDesiredKeeps ==
  ASSUME ClassInv, NEW t \in Thread, NEW q \in Ptr,
         refs[q] < MaxRefs, refs' = Incremented(q),
         desired[t] = NULL, desired' = [desired EXCEPT ![t] = q],
         UNCHANGED <<reclaimerVars, expected, result, target, pc, cont, handed>>
  PROVE  ClassKept /\ OwnStep(t)
<1>1. /\ ReclaimerTypes' /\ GuardsHold'
      /\ UNCHANGED <<cell, inflight, guards, retired, blockers>>
  BY ReclaimerUnchanged DEF Guarding
<1>2. HandleTypes'
  BY DEF ClassInv, ClassTypes, HandleTypes
<1>3. refs' \in [Ptr -> Int] /\ \A p \in Ptr : refs'[p] <= MaxRefs
  BY IncrementedBelow
<1>4. \A u \in Thread : Stage(u)'
  BY <1>1, StageOfOther DEF ClassInv
<1>5. \A p \in Ptr : Balanced(p)
  BY <1>1, SetDesiredBalanced DEF ClassInv
<1>6. OwnStep(t)
  BY HandleStep DEF Guarding
<1> QED
  BY <1>1, <1>2, <1>3, <1>4, <1>5, <1>6 DEF ClassKept

LEMMA MakeSharedKeeps ==
  ASSUME ClassInv, NEW t \in Thread, MakeShared(t)
  PROVE  ClassKept /\ OwnStep(t)
<1>1. PICK q \in Ptr : /\ refs[q] = 0 /\ refs' = Incremented(q)
                      /\ desired' = [desired EXCEPT ![t] = q]
  BY DEF MakeShared
<1>2. /\ desired[t] = NULL
      /\ UNCHANGED <<reclaimerVars, expected, result, target, pc, cont, handed>>
  BY DEF MakeShared, localVars
<1>3. refs[q] < MaxRefs
  BY <1>1, FiniteAssumption
<1> QED
  BY <1>1, <1>2, <1>3, SetDesiredKeeps

LEMMA CopySharedKeeps ==
  ASSUME ClassInv, NEW t \in Thread, CopyShared(t)
  PROVE  ClassKept /\ OwnStep(t)
<1>1. /\ refs[expected[t]] < MaxRefs /\ refs' = Incremented(expected[t])
      /\ desired[t] = NULL /\ desired' = [desired EXCEPT ![t] = expected[t]]
      /\ UNCHANGED <<reclaimerVars, expected, result, target, pc, cont, handed>>
  BY DEF CopyShared, localVars
<1>2. expected[t] \in Ptr
  BY DEF CopyShared, ClassInv, ClassTypes, HandleTypes
<1> QED
  BY <1>1, <1>2, SetDesiredKeeps

LEMMA ResetExpectedKeeps ==
  ASSUME ClassInv, NEW t \in Thread, ResetExpected(t)
  PROVE  ClassKept /\ OwnStep(t)
<1>1. /\ refs' = Decremented(expected[t])
      /\ expected' = [expected EXCEPT ![t] = NULL]
      /\ UNCHANGED <<reclaimerVars, desired, result, target, pc, cont, handed>>
  BY DEF ResetExpected, localVars
<1>2. expected[t] \in Ptr \cup {NULL}
  BY DEF ClassInv, ClassTypes, HandleTypes
<1>3. /\ ReclaimerTypes' /\ GuardsHold'
      /\ UNCHANGED <<cell, inflight, guards, retired, blockers>>
  BY <1>1, ReclaimerUnchanged DEF Guarding
<1>4. HandleTypes'
  BY <1>1 DEF ClassInv, ClassTypes, HandleTypes
<1>5. refs' \in [Ptr -> Int] /\ \A p \in Ptr : refs'[p] <= MaxRefs
  BY <1>1, <1>2, DecrementedBelow
<1>6. \A u \in Thread : Stage(u)'
  BY <1>1, <1>3, StageOfOther DEF ClassInv
<1>7. \A p \in Ptr : Balanced(p)
  BY ResetExpectedBalanced DEF ClassInv
<1>8. OwnStep(t)
  BY <1>1, HandleStep DEF Guarding
<1> QED
  BY <1>3, <1>4, <1>5, <1>6, <1>7, <1>8 DEF ClassKept

LEMMA DropDesiredKeeps ==
  ASSUME ClassInv, NEW t \in Thread, DropDesired(t)
  PROVE  ClassKept /\ OwnStep(t)
<1>1. /\ pc[t] = "drop" /\ pc' = [pc EXCEPT ![t] = "idle"]
      /\ refs' = Decremented(desired[t])
      /\ desired' = [desired EXCEPT ![t] = NULL]
      /\ UNCHANGED <<reclaimerVars, expected, result, target, cont, handed>>
  BY DEF DropDesired, Goto
<1>2. desired[t] \in Ptr \cup {NULL}
  BY DEF ClassInv, ClassTypes, HandleTypes
<1>3. /\ ReclaimerTypes' /\ GuardsHold'
      /\ UNCHANGED <<cell, inflight, guards, retired, blockers>>
  BY <1>1, <1>2, PcMoved, ReclaimerUnchanged DEF Guarding
<1>4. HandleTypes'
  BY <1>1 DEF ClassInv, ClassTypes, HandleTypes
<1>5. refs' \in [Ptr -> Int] /\ \A p \in Ptr : refs'[p] <= MaxRefs
  BY <1>1, <1>2, DecrementedBelow
<1>6. \A u \in Thread : Stage(u)'
  <2> TAKE u \in Thread
  <2>1. Stage(u)
    BY DEF ClassInv
  <2>2. CASE u # t
    BY <1>1, <1>3, <2>1, <2>2, StageOfOther DEF ClassInv, ClassTypes, HandleTypes
  <2>3. CASE u = t
    <3>1. pc'[t] = "idle"
      BY <1>1 DEF ClassInv, ClassTypes, HandleTypes
    <3> QED
      BY <1>1, <1>3, <2>1, <2>3, <3>1 DEF Stage, Loading, Guarding
  <2> QED
    BY <2>2, <2>3
<1>7. \A p \in Ptr : Balanced(p)
  BY DropDesiredBalanced DEF ClassInv
<1>8. OwnStep(t)
  BY <1>1, PcMoved, HandleStep DEF Guarding
<1> QED
  BY <1>3, <1>4, <1>5, <1>6, <1>7, <1>8 DEF ClassKept

\* load() is called, or a compareExchange() has found another pointer.
LEMMA CallLoadKeeps ==
  ASSUME ClassInv, NEW t \in Thread, NEW c \in Cells, NEW o \in {"idle", "drop"},
         pc[t] = "idle", pc' = [pc EXCEPT ![t] = "load"],
         target' = [target EXCEPT ![t] = c], cont' = [cont EXCEPT ![t] = o],
         UNCHANGED <<reclaimerVars, refs, handleVars, handed>>
  PROVE  ClassKept /\ OwnStep(t)
<1>1. UNCHANGED <<reclaimerVars, refs, expected, desired, result, handed>>
  BY DEF handleVars
<1>2. pc'[t] = "load"
  BY PcMoved
<1>3. /\ ReclaimerTypes'
      /\ UNCHANGED <<cell, inflight, guards, retired, blockers>>
  BY <1>1, ReclaimerUnchanged
<1>4. \A u \in Thread : u # t => pc'[u] = pc[u] /\ target'[u] = target[u]
  BY DEF ClassInv, ClassTypes, HandleTypes
<1>5. GuardsHold'
  BY <1>1, <1>2, <1>4, ReclaimerUnchanged DEF Guarding
<1>6. HandleTypes'
  BY <1>1, CellsFinite DEF ClassInv, ClassTypes, HandleTypes
<1>7. refs' \in [Ptr -> Int] /\ \A p \in Ptr : refs'[p] <= MaxRefs
  BY <1>1, RefsUnchangedBelow
<1>8. \A u \in Thread : Stage(u)'
  <2> TAKE u \in Thread
  <2>1. Stage(u)
    BY DEF ClassInv
  <2>2. CASE u # t
    BY <1>1, <1>3, <1>4, <2>1, <2>2, StageOfOther
  <2>3. CASE u = t
    <3>1. pc'[t] = "load" /\ target'[t] \in Cells
      BY DEF ClassInv, ClassTypes, HandleTypes
    <3> QED
      BY <1>1, <1>3, <2>1, <2>3, <3>1 DEF Stage, Loading, Guarding
  <2> QED
    BY <2>2, <2>3
<1>9. \A p \in Ptr : Balanced(p)
  BY <1>1, <1>3, OthersBalanced DEF ClassInv
<1>10. OwnStep(t)
  BY <1>1, PcMoved, HandleStep DEF Guarding
<1> QED
  BY <1>3, <1>5, <1>6, <1>7, <1>8, <1>9, <1>10 DEF ClassKept

LEMMA LoadKeeps ==
  ASSUME ClassInv, NEW t \in Thread, NEW c \in Cells, Load(t, c)
  PROVE  ClassKept /\ OwnStep(t)
BY CallLoadKeeps DEF Load, Goto

LEMMA CompareExchangeFailsKeeps ==
  ASSUME ClassInv, NEW t \in Thread, NEW c \in Cells, CompareExchangeFails(t, c)
  PROVE  ClassKept /\ OwnStep(t)
BY CallLoadKeeps DEF CompareExchangeFails, Goto

LEMMA LoadIncrementKeeps ==
  ASSUME ClassInv, NEW t \in Thread, LoadIncrement(t)
  PROVE  ClassKept /\ OwnStep(t)
<1>1. /\ pc[t] = "increment" /\ pc' = [pc EXCEPT ![t] = "unguard"]
      /\ UNCHANGED <<reclaimerVars, expected, desired, target, cont, handed>>
  BY DEF LoadIncrement, Goto
<1>2. PICK g \in guards[t] : /\ refs[g.value] < MaxRefs
                             /\ refs' = Incremented(g.value)
                             /\ result' = [result EXCEPT ![t] = g.value]
  BY DEF LoadIncrement
<1>3. /\ result[t] = NULL
      /\ \A h \in guards[t] : h = g /\ h.value # NULL
  BY <1>1 DEF ClassInv, Stage, Guarding
<1>4. g.value \in Ptr
  BY <1>3, GuardParts DEF ClassInv
<1>5. /\ ReclaimerTypes' /\ GuardsHold'
      /\ UNCHANGED <<cell, inflight, guards, retired, blockers>>
  BY <1>1, <1>2, PcMoved, ReclaimerUnchanged DEF Guarding
<1>6. HandleTypes'
  BY <1>1, <1>2, <1>4 DEF ClassInv, ClassTypes, HandleTypes
<1>7. refs' \in [Ptr -> Int] /\ \A p \in Ptr : refs'[p] <= MaxRefs
  BY <1>2, <1>4, IncrementedBelow
<1>8. \A u \in Thread : Stage(u)'
  <2> TAKE u \in Thread
  <2>1. Stage(u)
    BY DEF ClassInv
  <2>2. CASE u # t
    BY <1>1, <1>2, <1>5, <2>1, <2>2, StageOfOther DEF ClassInv, ClassTypes, HandleTypes
  <2>3. CASE u = t
    <3>1. pc'[t] = "unguard" /\ result'[t] = g.value
      BY <1>1, <1>2 DEF ClassInv, ClassTypes, HandleTypes
    <3> QED
      BY <1>1, <1>3, <1>5, <2>1, <2>3, <3>1 DEF Stage, Loading, Guarding
  <2> QED
    BY <2>2, <2>3
<1>9. \A p \in Ptr : Balanced(p)
  BY <1>3, LoadIncrementBalanced DEF ClassInv
<1>10. OwnStep(t)
  BY <1>1, PcMoved, HandleStep DEF Guarding
<1> QED
  BY <1>5, <1>6, <1>7, <1>8, <1>9, <1>10 DEF ClassKept

LEMMA LoadAssignKeeps ==
  ASSUME ClassInv, NEW t \in Thread, LoadAssign(t)
  PROVE  ClassKept /\ OwnStep(t)
<1>1. /\ pc[t] = "assign" /\ pc' = [pc EXCEPT ![t] = cont[t]]
      /\ refs' = Decremented(expected[t])
      /\ expected' = [expected EXCEPT ![t] = result[t]]
      /\ result' = [result EXCEPT ![t] = NULL]
      /\ target' = [target EXCEPT ![t] = NULL]
      /\ cont' = [cont EXCEPT ![t] = "idle"]
      /\ UNCHANGED <<reclaimerVars, desired, handed>>
  BY DEF LoadAssign, Goto
<1>2. expected[t] \in Ptr \cup {NULL} /\ cont[t] \in {"idle", "drop"}
  BY DEF ClassInv, ClassTypes, HandleTypes
<1>3. /\ ReclaimerTypes' /\ GuardsHold'
      /\ UNCHANGED <<cell, inflight, guards, retired, blockers>>
  <2>1. \A u \in Thread : u # t => target'[u] = target[u]
    BY <1>1 DEF ClassInv, ClassTypes, HandleTypes
  <2>2. \A u \in Thread : Guarding(u)' => Guarding(u) /\ target'[u] = target[u]
    BY <1>1, <1>2, <2>1, PcMoved DEF Guarding
  <2> QED
    BY <1>1, <2>2, ReclaimerUnchanged
<1>4. HandleTypes'
  BY <1>1, <1>2 DEF ClassInv, ClassTypes, HandleTypes
<1>5. refs' \in [Ptr -> Int] /\ \A p \in Ptr : refs'[p] <= MaxRefs
  BY <1>1, <1>2, DecrementedBelow
<1>6. \A u \in Thread : Stage(u)'
  <2> TAKE u \in Thread
  <2>1. Stage(u)
    BY DEF ClassInv
  <2>2. CASE u # t
    BY <1>1, <1>3, <2>1, <2>2, StageOfOther DEF ClassInv, ClassTypes, HandleTypes
  <2>3. CASE u = t
    <3>1. pc'[t] \in {"idle", "drop"} /\ result'[t] = NULL
      BY <1>1, <1>2 DEF ClassInv, ClassTypes, HandleTypes
    <3> QED
      BY <1>1, <1>3, <2>1, <2>3, <3>1 DEF Stage, Loading, Guarding
  <2> QED
    BY <2>2, <2>3
<1>7. \A p \in Ptr : Balanced(p)
  BY LoadAssignBalanced DEF ClassInv
<1>8. OwnStep(t)
  BY <1>1, <1>2, PcMoved, HandleStep DEF Guarding
<1> QED
  BY <1>3, <1>4, <1>5, <1>6, <1>7, <1>8 DEF ClassKept

\* A guarded pointer, where it comes from and what holds it.
LEMMA GuardedParts ==
  ASSUME ClassInv, NEW t \in Thread, Guarding(t), NEW g \in guards[t], g.value # NULL
  PROVE  /\ g.slot \in Slot /\ g.value \in Ptr
         /\ target[t] \in Cells /\ pc[t] \in {"increment", "unguard"}
         /\ t \in handed \/ cell[target[t]] = g.value
              \/ Deferred({Kind}, t, g.slot, g.value)
<1>1. g.slot \in Slot /\ g.value \in Ptr
  BY GuardParts DEF ClassInv
<1>2. target[t] \in Cells /\ pc[t] \in {"increment", "unguard"}
  BY DEF ClassInv, Stage, Loading, Guarding
<1> QED
  BY <1>1, <1>2 DEF ClassInv, GuardsHold

\* store(), and a compareExchange() that succeeds.
LEMMA OverwriteKeeps ==
  ASSUME ClassInv, NEW t \in Thread, NEW c \in Cells, NEW l, pc[t] = "idle",
         l \in {"swapped", IF cell[c] = NULL THEN "idle" ELSE "retire"},
         Overwrite(t, c, desired[t]), desired' = [desired EXCEPT ![t] = NULL],
         pc' = [pc EXCEPT ![t] = l],
         UNCHANGED <<refs, expected, result, target, cont, handed>>
  PROVE  ClassKept /\ OwnStep(t)
<1>1. c \in Cell /\ DisposerOf[c] = Kind /\ desired[t] \in Ptr \cup {NULL}
  BY DEF Cells, ClassInv, ClassTypes, HandleTypes
<1>2. /\ cell' = [cell EXCEPT ![c] = desired[t]]
      /\ UNCHANGED <<guards, retired, blockers>>
      /\ inflight[t] = NoRecord
  BY DEF Overwrite
<1>3. /\ inflight'[t] = IF cell[c] = NULL THEN NoRecord ELSE Rec(cell[c])
      /\ \A u \in Thread : u # t => inflight'[u] = inflight[u]
  BY <1>1 DEF Overwrite, ClassInv, ReclaimerTypes, ReclaimerTypeOK, Rec
<1>4. ReclaimerTypes'
  BY <1>1, OverwriteTypes DEF ClassInv
<1>5. HandleTypes'
  BY DEF ClassInv, ClassTypes, HandleTypes
<1>6. refs' \in [Ptr -> Int] /\ \A p \in Ptr : refs'[p] <= MaxRefs
  BY RefsUnchangedBelow
<1>7. \A u \in Thread : Stage(u)'
  <2> TAKE u \in Thread
  <2>1. Stage(u)
    BY DEF ClassInv
  <2>2. CASE u # t
    BY <1>2, <1>3, <2>1, <2>2, StageOfOther DEF ClassInv, ClassTypes, HandleTypes
  <2>3. CASE u = t
    <3>1. pc'[t] = l
      BY DEF ClassInv, ClassTypes, HandleTypes
    <3>2. cell[c] # NULL => Rec(cell[c]) # NoRecord
      BY DEF Rec, NoRecord
    <3>3. pc'[t] = "retire" => inflight'[t] # NoRecord
      BY <1>3, <3>1, <3>2
    <3>4. inflight'[t] = NoRecord \/ inflight'[t].disposer = Kind
      BY <1>3 DEF Rec
    <3>5. pc'[t] \in {"idle", "retire", "swapped"}
      BY <3>1
    <3> QED
      BY <1>2, <2>1, <2>3, <3>3, <3>4, <3>5 DEF Stage, Loading, Guarding
  <2> QED
    BY <2>2, <2>3
<1>8. \A u \in Thread : Guarding(u)' => Guarding(u)
  BY PcMoved DEF Guarding
<1>9. GuardsHold'
  <2> SUFFICES ASSUME NEW u \in Thread, Guarding(u), NEW g \in guards[u],
                      g.value # NULL, u \notin handed
               PROVE  cell'[target[u]] = g.value \/ Deferred({Kind}, u, g.slot, g.value)'
    BY <1>2, <1>8 DEF GuardsHold
  <2>1. /\ g.slot \in Slot /\ g.value \in Ptr /\ target[u] \in Cells
        /\ cell[target[u]] = g.value \/ Deferred({Kind}, u, g.slot, g.value)
    BY GuardedParts
  <2>2. CASE cell[target[u]] = g.value /\ target[u] # c
    BY <1>2, <2>1, <2>2, CellsFinite DEF ClassInv, ReclaimerTypes, ReclaimerTypeOK
  <2>3. CASE cell[c] = g.value \/ Deferred({Kind}, u, g.slot, g.value)
    BY <1>1, <2>1, <2>3, OverwriteDeferred DEF ClassInv
  <2> QED
    BY <2>1, <2>2, <2>3
<1>10. \A p \in Ptr : Balanced(p)
  BY OverwriteBalanced DEF ClassInv
<1>11. OwnStep(t)
  <2>1. \A u \in Thread : u # t => pc'[u] = pc[u]
    BY PcMoved
  <2>2. ~ Guarding(t) /\ ~ Guarding(t)'
    BY PcMoved DEF Guarding
  <2> QED
    BY <1>1, <1>2, <2>1, <2>2 DEF OwnStep, OwnMove
<1> QED
  BY <1>4, <1>5, <1>6, <1>7, <1>9, <1>10, <1>11 DEF ClassKept

LEMMA StoreKeeps ==
  ASSUME ClassInv, NEW t \in Thread, NEW c \in Cells, Store(t, c)
  PROVE  ClassKept /\ OwnStep(t)
BY OverwriteKeeps DEF Store, Goto

LEMMA CompareExchangeKeeps ==
  ASSUME ClassInv, NEW t \in Thread, NEW c \in Cells, CompareExchange(t, c)
  PROVE  ClassKept /\ OwnStep(t)
BY OverwriteKeeps DEF CompareExchange, Goto

\* The old reference is retired, and the operation is over.
LEMMA RetireKeeps ==
  ASSUME ClassInv, NEW t \in Thread, pc[t] \in {"retire", "swapped"},
         Retire(t), pc' = [pc EXCEPT ![t] = "idle"],
         UNCHANGED <<refs, handleVars, target, cont, handed>>
  PROVE  ClassKept /\ OwnStep(t)
<1>1. /\ pc[t] \in {"retire", "swapped"} /\ pc' = [pc EXCEPT ![t] = "idle"] /\ Retire(t)
      /\ UNCHANGED <<refs, expected, desired, result, target, cont, handed>>
  BY DEF handleVars
<1>2. /\ inflight'[t] = NoRecord
      /\ \A u \in Thread : u # t => inflight'[u] = inflight[u]
      /\ \A q \in Retired : retired'[q] = retired[q] + (IF q = inflight[t] THEN 1 ELSE 0)
      /\ inflight[t] \in Retired
      /\ UNCHANGED <<cell, guards>>
  BY <1>1, RetireParts DEF ClassInv
<1>3. ReclaimerTypes'
  BY <1>1, RetireTypes DEF ClassInv
<1>4. HandleTypes'
  BY <1>1 DEF ClassInv, ClassTypes, HandleTypes
<1>5. refs' \in [Ptr -> Int] /\ \A p \in Ptr : refs'[p] <= MaxRefs
  BY <1>1, RefsUnchangedBelow
<1>6. \A u \in Thread : Stage(u)'
  <2> TAKE u \in Thread
  <2>1. Stage(u)
    BY DEF ClassInv
  <2>2. CASE u # t
    BY <1>1, <1>2, <2>1, <2>2, StageOfOther DEF ClassInv, ClassTypes, HandleTypes
  <2>3. CASE u = t
    <3>1. pc'[t] = "idle"
      BY <1>1 DEF ClassInv, ClassTypes, HandleTypes
    <3> QED
      BY <1>1, <1>2, <2>1, <2>3, <3>1 DEF Stage, Loading, Guarding
  <2> QED
    BY <2>2, <2>3
<1>7. \A u \in Thread : Guarding(u)' => Guarding(u)
  BY <1>1, PcMoved DEF Guarding
<1>8. GuardsHold'
  <2> SUFFICES ASSUME NEW u \in Thread, Guarding(u), NEW g \in guards[u],
                      g.value # NULL, u \notin handed, cell[target[u]] # g.value
               PROVE  Deferred({Kind}, u, g.slot, g.value)'
    BY <1>1, <1>2, <1>7 DEF GuardsHold
  <2>1. g.value \in Ptr /\ Deferred({Kind}, u, g.slot, g.value)
    BY GuardedParts
  <2> QED
    BY <1>1, <2>1, RetireDeferred DEF ClassInv
<1>9. \A p \in Ptr : Balanced(p)
  BY <1>1, RetireBalanced DEF ClassInv
<1>10. OwnStep(t)
  <2>1. \A u \in Thread : u # t => pc'[u] = pc[u]
    BY <1>1, PcMoved
  <2>2. ~ Guarding(t) /\ ~ Guarding(t)'
    BY <1>1, PcMoved DEF Guarding
  <2>3. inflight[t].disposer = Kind
    BY <1>1 DEF ClassInv, Stage, Retire
  <2> QED
    BY <1>1, <1>2, <2>1, <2>2, <2>3 DEF OwnStep, OwnMove
<1> QED
  BY <1>3, <1>4, <1>5, <1>6, <1>8, <1>9, <1>10 DEF ClassKept

LEMMA DelayDecrementRefKeeps ==
  ASSUME ClassInv, NEW t \in Thread, DelayDecrementRef(t)
  PROVE  ClassKept /\ OwnStep(t)
BY RetireKeeps DEF DelayDecrementRef, Goto

LEMMA CompareExchangeReturnsKeeps ==
  ASSUME ClassInv, NEW t \in Thread, CompareExchangeReturns(t)
  PROVE  ClassKept /\ OwnStep(t)
<1>1. /\ pc[t] = "swapped" /\ pc' = [pc EXCEPT ![t] = "idle"]
      /\ UNCHANGED <<refs, handleVars, target, cont, handed>>
  BY DEF CompareExchangeReturns, Goto
<1>2. UNCHANGED reclaimerVars \/ Retire(t)
  BY DEF CompareExchangeReturns
<1>3. CASE Retire(t)
  BY <1>1, <1>3, RetireKeeps
<1>4. CASE UNCHANGED reclaimerVars
  <2>1. UNCHANGED <<refs, expected, desired, result, target, cont, handed>>
    BY <1>1 DEF handleVars
  <2>2. /\ ReclaimerTypes' /\ GuardsHold'
        /\ UNCHANGED <<cell, inflight, guards, retired, blockers>>
    BY <1>1, <1>4, <2>1, PcMoved, ReclaimerUnchanged DEF Guarding
  <2>3. HandleTypes'
    BY <1>1, <2>1 DEF ClassInv, ClassTypes, HandleTypes
  <2>4. refs' \in [Ptr -> Int] /\ \A p \in Ptr : refs'[p] <= MaxRefs
    BY <1>1, RefsUnchangedBelow
  <2>5. \A u \in Thread : Stage(u)'
    <3> TAKE u \in Thread
    <3>1. Stage(u)
      BY DEF ClassInv
    <3>2. CASE u # t
      BY <1>1, <2>1, <2>2, <3>1, <3>2, PcMoved, StageOfOther
    <3>3. CASE u = t
      <4>1. pc'[t] = "idle"
        BY <1>1, PcMoved
      <4> QED
        BY <1>1, <2>1, <2>2, <3>1, <3>3, <4>1 DEF Stage, Loading, Guarding
    <3> QED
      BY <3>2, <3>3
  <2>6. \A p \in Ptr : Balanced(p)
    BY <1>1, <2>1, <2>2, OthersBalanced DEF ClassInv
  <2>7. OwnStep(t)
    BY <1>1, <1>4, PcMoved, HandleStep DEF Guarding
  <2> QED
    BY <2>1, <2>2, <2>3, <2>4, <2>5, <2>6, <2>7 DEF ClassKept
<1> QED
  BY <1>2, <1>3, <1>4

\* A cell alone is written: exchange() and the destructor of a cell.
LEMMA CellWritten ==
  ASSUME ClassInv, NEW c \in Cells, NEW q \in Ptr \cup {NULL},
         cell' = [cell EXCEPT ![c] = q],
         UNCHANGED <<inflight, guards, retired, blockers>>
  PROVE  /\ ReclaimerTypes'
         /\ \A d \in Cell : d # c => cell'[d] = cell[d]
         /\ \A u, s, p : Deferred({Kind}, u, s, p)' <=> Deferred({Kind}, u, s, p)
<1>1. ReclaimerTypes'
  BY CellsFinite DEF ClassInv, ReclaimerTypes, ReclaimerTypeOK, OneGuardPerSlot, GuardsOn
<1>2. \A d \in Cell : d # c => cell'[d] = cell[d]
  BY DEF ClassInv, ReclaimerTypes, ReclaimerTypeOK
<1>3. \A u, s, p : Deferred({Kind}, u, s, p)' <=> Deferred({Kind}, u, s, p)
  BY DEF Deferred, StillRetired
<1> QED
  BY <1>1, <1>2, <1>3

LEMMA ExchangeKeeps ==
  ASSUME ClassInv, NEW t \in Thread, NEW c \in Cells, Exchange(t, c)
  PROVE  ClassKept /\ OwnStep(t)
<1>1. /\ cell' = [cell EXCEPT ![c] = desired[t]] /\ cell[c] # NULL
      /\ desired' = [desired EXCEPT ![t] = cell[c]]
      /\ handed' = handed \cup
           {u \in Thread : target[u] = c /\ \E g \in guards[u] : g.value = cell[c]}
      /\ UNCHANGED <<inflight, guards, retired, blockers, refs, expected, result,
                     target, pc, cont>>
  BY DEF Exchange, localVars
<1>2. desired[t] \in Ptr \cup {NULL} /\ cell[c] \in Ptr
  BY <1>1, CellsFinite DEF ClassInv, ClassTypes, HandleTypes, ReclaimerTypes, ReclaimerTypeOK
<1>3. /\ ReclaimerTypes'
      /\ \A d \in Cell : d # c => cell'[d] = cell[d]
      /\ \A u, s, p : Deferred({Kind}, u, s, p)' <=> Deferred({Kind}, u, s, p)
  BY <1>1, <1>2, CellWritten
<1>4. HandleTypes'
  BY <1>1, <1>2 DEF ClassInv, ClassTypes, HandleTypes
<1>5. refs' \in [Ptr -> Int] /\ \A p \in Ptr : refs'[p] <= MaxRefs
  BY <1>1, RefsUnchangedBelow
<1>6. \A u \in Thread : Stage(u)'
  BY <1>1, StageOfOther DEF ClassInv
<1>7. GuardsHold'
  <2> SUFFICES ASSUME NEW u \in Thread, Guarding(u), NEW g \in guards[u],
                      g.value # NULL, u \notin handed, g.value = cell[c] => target[u] # c
               PROVE  cell'[target[u]] = g.value \/ Deferred({Kind}, u, g.slot, g.value)'
    BY <1>1 DEF GuardsHold, Guarding
  <2>1. /\ target[u] \in Cells
        /\ cell[target[u]] = g.value \/ Deferred({Kind}, u, g.slot, g.value)
    BY GuardedParts
  <2> QED
    BY <1>3, <2>1, CellsFinite
<1>8. \A p \in Ptr : Balanced(p)
  BY ExchangeBalanced DEF ClassInv
<1>9. OwnStep(t)
  BY <1>1, <1>2 DEF OwnStep, OwnMove, Guarding
<1> QED
  BY <1>3, <1>4, <1>5, <1>6, <1>7, <1>8, <1>9 DEF ClassKept

LEMMA DestroyCellKeeps ==
  ASSUME ClassInv, NEW t \in Thread, NEW c \in Cells, DestroyCell(t, c)
  PROVE  ClassKept /\ OwnStep(t)
<1>1. /\ refs' = Decremented(cell[c]) /\ cell' = [cell EXCEPT ![c] = NULL]
      /\ \A u \in Thread : target[u] = c => pc[u] \notin {"load", "increment", "unguard"}
      /\ UNCHANGED <<inflight, guards, retired, blockers, expected, desired, result,
                     target, pc, cont, handed>>
  BY DEF DestroyCell, handleVars, localVars
<1>2. cell[c] \in Ptr \cup {NULL}
  BY CellsFinite DEF ClassInv, ReclaimerTypes, ReclaimerTypeOK
<1>3. /\ ReclaimerTypes'
      /\ \A d \in Cell : d # c => cell'[d] = cell[d]
      /\ \A u, s, p : Deferred({Kind}, u, s, p)' <=> Deferred({Kind}, u, s, p)
  BY <1>1, CellWritten
<1>4. HandleTypes'
  BY <1>1 DEF ClassInv, ClassTypes, HandleTypes
<1>5. refs' \in [Ptr -> Int] /\ \A p \in Ptr : refs'[p] <= MaxRefs
  BY <1>1, <1>2, DecrementedBelow
<1>6. \A u \in Thread : Stage(u)'
  BY <1>1, StageOfOther DEF ClassInv
<1>7. GuardsHold'
  <2> SUFFICES ASSUME NEW u \in Thread, Guarding(u), NEW g \in guards[u],
                      g.value # NULL, u \notin handed
               PROVE  cell'[target[u]] = g.value \/ Deferred({Kind}, u, g.slot, g.value)'
    BY <1>1 DEF GuardsHold, Guarding
  <2>1. /\ target[u] \in Cells /\ pc[u] \in {"increment", "unguard"}
        /\ cell[target[u]] = g.value \/ Deferred({Kind}, u, g.slot, g.value)
    BY GuardedParts
  <2>2. target[u] # c
    BY <1>1, <2>1
  <2> QED
    BY <1>3, <2>1, <2>2, CellsFinite
<1>8. \A p \in Ptr : Balanced(p)
  BY DestroyCellBalanced DEF ClassInv
<1>9. OwnStep(t)
  BY <1>1 DEF OwnStep, OwnMove, Guarding
<1> QED
  BY <1>3, <1>4, <1>5, <1>6, <1>7, <1>8, <1>9 DEF ClassKept

LEMMA DisposeRefKeeps ==
  ASSUME ClassInv, NEW q \in Ptr, DisposeRef(q)
  PROVE  ClassKept
<1>1. /\ Dispose(Rec(q)) /\ refs' = Decremented(q)
      /\ UNCHANGED <<cell, inflight, guards, blockers, expected, desired, result,
                     target, pc, cont, handed>>
  BY DEF DisposeRef, Dispose, handleVars, localVars, Rec
<1>2. Rec(q) \in Retired
  BY BlockParts DEF ClassInv
<1>3. ReclaimerTypes'
  BY <1>1, <1>2, DisposeTypes DEF ClassInv
<1>4. HandleTypes'
  BY <1>1 DEF ClassInv, ClassTypes, HandleTypes
<1>5. refs' \in [Ptr -> Int] /\ \A p \in Ptr : refs'[p] <= MaxRefs
  BY <1>1, DecrementedBelow
<1>6. \A u \in Thread : Stage(u)'
  BY <1>1, StageOfOther DEF ClassInv
<1>7. GuardsHold'
  <2> SUFFICES ASSUME NEW u \in Thread, Guarding(u), NEW g \in guards[u],
                      g.value # NULL, u \notin handed, cell[target[u]] # g.value
               PROVE  Deferred({Kind}, u, g.slot, g.value)'
    BY <1>1 DEF GuardsHold, Guarding
  <2>1. g.slot \in Slot /\ g.value \in Ptr /\ Deferred({Kind}, u, g.slot, g.value)
    BY GuardedParts
  <2> QED
    BY <1>1, <1>2, <2>1, DisposeDeferred DEF ClassInv
<1>8. \A p \in Ptr : Balanced(p)
  BY DisposeBalanced DEF ClassInv
<1> QED
  BY <1>3, <1>4, <1>5, <1>6, <1>7, <1>8 DEF ClassKept

\* protect(): the guard holds what the cell holds.
LEMMA LoadProtectKeeps ==
  ASSUME ClassInv, NEW t \in Thread, guards[t] = {}, LoadProtect(t)
  PROVE  ClassKept /\ OwnStep(t)
<1> DEFINE c == target[t]
<1>1. /\ pc[t] = "load" /\ Protect(t, c)
      /\ pc' = [pc EXCEPT ![t] = IF cell[c] = NULL THEN "unguard" ELSE "increment"]
      /\ UNCHANGED <<refs, expected, desired, result, target, cont, handed>>
  BY DEF LoadProtect, Goto, handleVars
<1>2. c \in Cells /\ c \in Cell /\ result[t] = NULL
  BY <1>1, CellsFinite DEF ClassInv, Stage, Loading
<1>3. PICK s \in Slot :
        guards' = [guards EXCEPT ![t] = @ \cup {[slot |-> s, value |-> cell[c]]}]
  BY <1>1 DEF Protect
<1>4. UNCHANGED <<cell, inflight, retired, blockers>>
  BY <1>1 DEF Protect
<1>5. /\ guards'[t] = {[slot |-> s, value |-> cell[c]]}
      /\ \A u \in Thread : u # t => guards'[u] = guards[u]
  BY <1>2, <1>3 DEF ClassInv, ReclaimerTypes, ReclaimerTypeOK
<1>6. ReclaimerTypes'
  BY <1>1, <1>2, ProtectTypes DEF ClassInv
<1>7. HandleTypes'
  BY <1>1 DEF ClassInv, ClassTypes, HandleTypes
<1>8. refs' \in [Ptr -> Int] /\ \A p \in Ptr : refs'[p] <= MaxRefs
  BY <1>1, RefsUnchangedBelow
<1>9. \A u \in Thread : Stage(u)'
  <2> TAKE u \in Thread
  <2>1. Stage(u)
    BY DEF ClassInv
  <2>2. CASE u # t
    BY <1>1, <1>4, <1>5, <2>1, <2>2, StageOfOther DEF ClassInv, ClassTypes, HandleTypes
  <2>3. CASE u = t
    <3>1. /\ pc'[t] = IF cell[c] = NULL THEN "unguard" ELSE "increment"
          /\ target'[t] \in Cells /\ result'[t] = NULL
      BY <1>1, <1>2 DEF ClassInv, ClassTypes, HandleTypes
    <3>2. \A g \in guards'[t] : g.value = cell[c]
      BY <1>5
    <3>3. \A g, h \in guards'[t] : g = h
      BY <1>5
    <3>4. guards'[t] # {}
      BY <1>5
    <3> QED
      BY <2>3, <3>1, <3>2, <3>3, <3>4 DEF Stage, Loading, Guarding
  <2> QED
    BY <2>2, <2>3
<1>10. GuardsHold'
  <2>1. \A u, v, p : Deferred({Kind}, u, v, p)' <=> Deferred({Kind}, u, v, p)
    BY <1>4 DEF Deferred, StillRetired
  <2> SUFFICES ASSUME NEW u \in Thread, Guarding(u)', NEW g \in guards'[u],
                      g.value # NULL
               PROVE  u \in handed \/ cell[target[u]] = g.value
                        \/ Deferred({Kind}, u, g.slot, g.value)
    BY <1>1, <1>4, <2>1 DEF GuardsHold
  <2>2. CASE u # t
    <3>1. g \in guards[u] /\ Guarding(u)
      BY <1>1, <1>5, <2>2, PcMoved DEF Guarding
    <3> QED
      BY <3>1 DEF ClassInv, GuardsHold
  <2>3. CASE u = t
    BY <1>5, <2>3
  <2> QED
    BY <2>2, <2>3
<1>11. \A p \in Ptr : Balanced(p)
  BY <1>1, <1>4, OthersBalanced DEF ClassInv
<1>12. OwnStep(t)
  <2>1. \A u \in Thread : u # t => pc'[u] = pc[u]
    BY <1>1, PcMoved
  <2>2. Guarding(t)' /\ guards'[t] # {}
    BY <1>1, <1>5, PcMoved DEF Guarding
  <2> QED
    BY <1>1, <1>2, <1>5, <2>1, <2>2 DEF OwnStep, OwnMove
<1> QED
  BY <1>6, <1>7, <1>8, <1>9, <1>10, <1>11, <1>12 DEF ClassKept

LEMMA LoadReleaseKeeps ==
  ASSUME ClassInv, NEW t \in Thread, LoadRelease(t)
  PROVE  ClassKept /\ OwnStep(t)
<1>1. /\ pc[t] = "unguard" /\ pc' = [pc EXCEPT ![t] = "assign"]
      /\ handed' = handed \ {t}
      /\ UNCHANGED <<refs, expected, desired, result, target, cont>>
  BY DEF LoadRelease, Goto, handleVars
<1>2. PICK g \in guards[t] : ReleaseGuard(t, g)
  BY DEF LoadRelease
<1>3. \A h \in guards[t] : h = g
  BY <1>1 DEF ClassInv, Stage, Guarding
<1>4. /\ guards' = [guards EXCEPT ![t] = @ \ {g}]
      /\ UNCHANGED <<cell, inflight, retired>>
  BY <1>2 DEF ReleaseGuard
<1>5. guards'[t] = {} /\ \A u \in Thread : u # t => guards'[u] = guards[u]
  BY <1>3, <1>4 DEF ClassInv, ReclaimerTypes, ReclaimerTypeOK
<1>6. ReclaimerTypes'
  BY <1>2, ReleaseTypes DEF ClassInv
<1>7. HandleTypes'
  BY <1>1 DEF ClassInv, ClassTypes, HandleTypes
<1>8. refs' \in [Ptr -> Int] /\ \A p \in Ptr : refs'[p] <= MaxRefs
  BY <1>1, RefsUnchangedBelow
<1>9. \A u \in Thread : Stage(u)'
  <2> TAKE u \in Thread
  <2>1. Stage(u)
    BY DEF ClassInv
  <2>2. CASE u # t
    BY <1>1, <1>4, <1>5, <2>1, <2>2, StageOfOther DEF ClassInv, ClassTypes, HandleTypes
  <2>3. CASE u = t
    <3>1. pc'[t] = "assign"
      BY <1>1 DEF ClassInv, ClassTypes, HandleTypes
    <3> QED
      BY <1>1, <1>4, <1>5, <2>1, <2>3, <3>1 DEF Stage, Loading, Guarding
  <2> QED
    BY <2>2, <2>3
<1>10. \A u \in Thread : Guarding(u)' => u # t /\ Guarding(u)
  BY <1>1, PcMoved DEF Guarding
<1>11. GuardsHold'
  <2> SUFFICES ASSUME NEW u \in Thread, Guarding(u), NEW h \in guards'[u],
                      h.value # NULL, u \notin handed, cell[target[u]] # h.value
               PROVE  Deferred({Kind}, u, h.slot, h.value)'
    BY <1>1, <1>4, <1>10 DEF GuardsHold
  <2>1. h \in guards[u]
    BY <1>5
  <2>2. h.value \in Ptr /\ Deferred({Kind}, u, h.slot, h.value)
    BY <2>1, GuardedParts
  <2> QED
    BY <1>2, <2>2, ReleaseDeferred DEF ClassInv
<1>12. \A p \in Ptr : Balanced(p)
  BY <1>1, <1>4, OthersBalanced DEF ClassInv
<1>13. OwnStep(t)
  <2>1. \A u \in Thread : u # t => pc'[u] = pc[u]
    BY <1>1, PcMoved
  <2>2. ~ Guarding(t)'
    BY <1>1, PcMoved DEF Guarding
  <2> QED
    BY <1>2, <1>5, <2>1, <2>2 DEF OwnStep, OwnMove
<1> QED
  BY <1>6, <1>7, <1>8, <1>9, <1>11, <1>12, <1>13 DEF ClassKept

LEMMA StutterKeeps == ASSUME ClassInv, UNCHANGED vars PROVE ClassKept
<1>1. UNCHANGED <<reclaimerVars, cell, inflight, guards, retired, blockers, refs, expected,
                  desired, result, target, pc, cont, handed>>
  BY DEF vars, reclaimerVars, handleVars, localVars
<1>2. ReclaimerTypes' /\ GuardsHold'
  BY <1>1, ReclaimerUnchanged DEF Guarding
<1>3. HandleTypes'
  BY <1>1 DEF ClassInv, ClassTypes, HandleTypes
<1>4. refs' \in [Ptr -> Int] /\ \A p \in Ptr : refs'[p] <= MaxRefs
  BY <1>1, RefsUnchangedBelow
<1>5. \A u \in Thread : Stage(u)'
  BY <1>1, StageOfOther DEF ClassInv
<1>6. \A p \in Ptr : Balanced(p)
  BY <1>1, OthersBalanced DEF ClassInv
<1> QED
  BY <1>2, <1>3, <1>4, <1>5, <1>6 DEF ClassKept

-----------------------------------------------------------------------------
(* Another class is at work on the same reclaimer.                         *)

\* What a step of another class does to the reclaimer.
OtherMove(t) ==
  \/ UNCHANGED reclaimerVars
  \/ \E c \in Cell \ Cells : Protect(t, c)
  \/ \E g \in guards[t] : ReleaseGuard(t, g)
  \/ \E c \in Cell \ Cells, q \in Ptr \cup {NULL} : Overwrite(t, c, q)
  \/ Retire(t) /\ inflight[t].disposer # Kind
  \/ \E c \in Cell \ Cells, q \in Ptr \cup {NULL} :
       cell' = [cell EXCEPT ![c] = q] /\ UNCHANGED <<inflight, guards, retired, blockers>>

\* Of what this class looks at, such a step leaves behind the same.
OthersKept ==
  /\ ReclaimerTypes'
  /\ \A c \in Cells : cell'[c] = cell[c]
  /\ \A t \in Thread : Guarding(t) => \A g \in guards'[t] :
       /\ g \in guards[t]
       /\ g.value \in Ptr /\ Deferred({Kind}, t, g.slot, g.value)
            => Deferred({Kind}, t, g.slot, g.value)'
  /\ \A t \in Thread : pc[t] # "idle" => guards'[t] = guards[t] /\ inflight'[t] = inflight[t]
  /\ \A p \in Ptr :
       /\ \A t \in Thread : inflight'[t] = Rec(p) <=> inflight[t] = Rec(p)
       /\ retired'[Rec(p)] = retired[Rec(p)]

LEMMA OtherOverwrite ==
  ASSUME ClassInv, NEW t \in Thread, pc[t] = "idle",
         NEW c \in Cell \ Cells, NEW q \in Ptr \cup {NULL}, Overwrite(t, c, q)
  PROVE  OthersKept
<1>1. /\ c \in Cell /\ DisposerOf[c] # Kind /\ inflight[t] = NoRecord
      /\ cell' = [cell EXCEPT ![c] = q]
      /\ inflight' = inflight
           \/ inflight' = [inflight EXCEPT ![t] =
                            [pointer |-> cell[c], disposer |-> DisposerOf[c]]]
      /\ UNCHANGED <<guards, retired, blockers>>
  BY DEF Overwrite, Cells
<1>2. ReclaimerTypes'
  BY OverwriteTypes DEF ClassInv
<1>3. \A d \in Cells : cell'[d] = cell[d]
  BY <1>1, CellsFinite DEF ClassInv, ReclaimerTypes, ReclaimerTypeOK
<1>4. /\ \A u \in Thread : u # t => inflight'[u] = inflight[u]
      /\ \/ inflight'[t] = NoRecord
         \/ inflight'[t] = [pointer |-> cell[c], disposer |-> DisposerOf[c]]
  BY <1>1 DEF ClassInv, ReclaimerTypes, ReclaimerTypeOK
<1>5. ASSUME NEW u \in Thread, NEW g \in guards'[u]
      PROVE  /\ g \in guards[u]
             /\ g.value \in Ptr /\ Deferred({Kind}, u, g.slot, g.value)
                  => Deferred({Kind}, u, g.slot, g.value)'
  BY <1>1, GuardParts, OverwriteDeferred DEF ClassInv
<1>6. ASSUME NEW p \in Ptr, NEW u \in Thread
      PROVE  inflight'[u] = Rec(p) <=> inflight[u] = Rec(p)
  <2>1. Rec(p) # NoRecord /\ Rec(p).disposer = Kind
    BY BlockParts DEF ClassInv, Rec
  <2> QED
    BY <1>1, <1>4, <2>1
<1> QED
  BY <1>1, <1>2, <1>3, <1>4, <1>5, <1>6 DEF OthersKept

LEMMA OtherRetire ==
  ASSUME ClassInv, NEW t \in Thread, pc[t] = "idle", Retire(t), inflight[t].disposer # Kind
  PROVE  OthersKept
<1>1. /\ inflight'[t] = NoRecord
      /\ \A u \in Thread : u # t => inflight'[u] = inflight[u]
      /\ \A q \in Retired : retired'[q] = retired[q] + (IF q = inflight[t] THEN 1 ELSE 0)
      /\ UNCHANGED <<cell, guards>>
  BY RetireParts DEF ClassInv
<1>2. ReclaimerTypes'
  BY RetireTypes DEF ClassInv
<1>3. ASSUME NEW u \in Thread, NEW g \in guards'[u]
      PROVE  /\ g \in guards[u]
             /\ g.value \in Ptr /\ Deferred({Kind}, u, g.slot, g.value)
                  => Deferred({Kind}, u, g.slot, g.value)'
  BY <1>1, RetireDeferred DEF ClassInv
<1>4. ASSUME NEW p \in Ptr
      PROVE  /\ \A u \in Thread : inflight'[u] = Rec(p) <=> inflight[u] = Rec(p)
             /\ retired'[Rec(p)] = retired[Rec(p)]
  <2>1. /\ Rec(p) # NoRecord /\ Rec(p).disposer = Kind /\ Rec(p) \in Retired
        /\ retired[Rec(p)] \in Nat
    BY BlockParts DEF ClassInv, Rec
  <2> QED
    BY <1>1, <2>1
<1> QED
  BY <1>1, <1>2, <1>3, <1>4 DEF OthersKept

LEMMA OtherDispose ==
  ASSUME ClassInv, NEW r \in Retired, r.disposer # Kind, Dispose(r)
  PROVE  OthersKept
<1>1. retired' = [retired EXCEPT ![r] = @ - 1] /\ UNCHANGED <<cell, inflight, guards>>
  BY DEF Dispose
<1>2. ReclaimerTypes'
  BY DisposeTypes DEF ClassInv
<1>3. ASSUME NEW u \in Thread, NEW g \in guards'[u]
      PROVE  /\ g \in guards[u]
             /\ g.value \in Ptr /\ Deferred({Kind}, u, g.slot, g.value)
                  => Deferred({Kind}, u, g.slot, g.value)'
  BY <1>1, GuardParts, DisposeDeferred DEF ClassInv
<1>4. ASSUME NEW p \in Ptr PROVE retired'[Rec(p)] = retired[Rec(p)]
  <2>1. Rec(p).disposer = Kind /\ Rec(p) \in Retired
    BY BlockParts DEF ClassInv, Rec
  <2> QED
    BY <1>1, <2>1 DEF ClassInv, ReclaimerTypes, ReclaimerTypeOK
<1> QED
  BY <1>1, <1>2, <1>3, <1>4 DEF OthersKept

LEMMA OtherGuard ==
  ASSUME ClassInv, NEW t \in Thread, pc[t] = "idle",
         (\E c \in Cell : Protect(t, c)) \/ (\E g \in guards[t] : ReleaseGuard(t, g))
  PROVE  OthersKept
<1>1. /\ UNCHANGED <<cell, inflight, retired>>
      /\ \A u \in Thread : u # t => guards'[u] = guards[u]
  BY DEF Protect, ReleaseGuard, ClassInv, ReclaimerTypes, ReclaimerTypeOK
<1>2. ReclaimerTypes'
  BY ProtectTypes, ReleaseTypes DEF ClassInv
<1>3. ASSUME NEW u \in Thread, Guarding(u), NEW g \in guards'[u],
             g.value \in Ptr, Deferred({Kind}, u, g.slot, g.value)
      PROVE  Deferred({Kind}, u, g.slot, g.value)'
  <2>1. CASE \E c \in Cell : Protect(t, c)
    BY <1>3, <2>1 DEF Protect, Deferred, StillRetired
  <2>2. CASE \E h \in guards[t] : ReleaseGuard(t, h)
    BY <1>3, <2>2, ReleaseDeferred DEF ClassInv
  <2> QED
    BY <2>1, <2>2
<1>4. \A u \in Thread : Guarding(u) => u # t
  BY DEF Guarding
<1> QED
  BY <1>1, <1>2, <1>3, <1>4 DEF OthersKept

LEMMA OtherCell ==
  ASSUME ClassInv, NEW c \in Cell \ Cells, NEW q \in Ptr \cup {NULL},
         cell' = [cell EXCEPT ![c] = q], UNCHANGED <<inflight, guards, retired, blockers>>
  PROVE  OthersKept
<1>1. ReclaimerTypes'
  BY DEF ClassInv, ReclaimerTypes, ReclaimerTypeOK, OneGuardPerSlot, GuardsOn
<1>2. \A d \in Cells : cell'[d] = cell[d]
  BY CellsFinite DEF ClassInv, ReclaimerTypes, ReclaimerTypeOK
<1>3. \A u, s, p : Deferred({Kind}, u, s, p)' <=> Deferred({Kind}, u, s, p)
  BY DEF Deferred, StillRetired
<1> QED
  BY <1>1, <1>2, <1>3 DEF OthersKept

LEMMA OtherStutter == ASSUME ClassInv, UNCHANGED reclaimerVars PROVE OthersKept
<1>1. UNCHANGED <<cell, inflight, guards, retired, blockers>> /\ ReclaimerTypes'
  BY ReclaimerUnchanged
<1>2. \A u, s, p : Deferred({Kind}, u, s, p)' <=> Deferred({Kind}, u, s, p)
  BY <1>1 DEF Deferred, StillRetired
<1> QED
  BY <1>1, <1>2 DEF OthersKept

\* A step of another class on the reclaimer keeps the invariant of this one,
\* and its owners.
LEMMA OtherStepKeeps ==
  ASSUME ClassInv, UNCHANGED <<expected, desired, result, target, pc, cont, handed>>,
         \/ \E t \in Thread : pc[t] = "idle" /\ OtherMove(t)
         \/ \E r \in Retired : r.disposer # Kind /\ Dispose(r)
         \/ UNCHANGED reclaimerVars
  PROVE  /\ ReclaimerTypes' /\ HandleTypes' /\ GuardsHold'
         /\ \A t \in Thread : Stage(t)'
         /\ \A p \in Ptr : Owners(p)' = Owners(p)
<1>1. OthersKept
  <2>1. ASSUME NEW t \in Thread, pc[t] = "idle", OtherMove(t) PROVE OthersKept
    BY <2>1, OtherOverwrite, OtherRetire, OtherGuard, OtherCell, OtherStutter DEF OtherMove
  <2> QED
    BY <2>1, OtherDispose, OtherStutter
<1>2. ReclaimerTypes'
  BY <1>1 DEF OthersKept
<1>3. HandleTypes'
  BY DEF ClassInv, ClassTypes, HandleTypes
<1>4. ASSUME NEW t \in Thread PROVE Stage(t)'
  <2>1. Stage(t)
    BY DEF ClassInv
  <2>2. CASE pc[t] # "idle"
    BY <1>1, <2>1, <2>2, StageOfOther DEF OthersKept
  <2>3. CASE pc[t] = "idle"
    BY <2>1, <2>3 DEF Stage, Loading, Guarding
  <2> QED
    BY <2>2, <2>3
<1>5. GuardsHold'
  <2> SUFFICES ASSUME NEW t \in Thread, Guarding(t), NEW g \in guards'[t],
                      g.value # NULL, t \notin handed
               PROVE  cell'[target[t]] = g.value \/ Deferred({Kind}, t, g.slot, g.value)'
    BY DEF GuardsHold, Guarding
  <2>1. g \in guards[t]
    BY <1>1 DEF OthersKept
  <2>2. /\ g.value \in Ptr /\ target[t] \in Cells
        /\ cell[target[t]] = g.value \/ Deferred({Kind}, t, g.slot, g.value)
    BY <2>1, GuardedParts
  <2> QED
    BY <1>1, <2>2 DEF OthersKept
<1>6. ASSUME NEW p \in Ptr PROVE Owners(p)' = Owners(p)
  <2>1. NumberOf(Cells, cell', p) = NumberOf(Cells, cell, p)
    <3>1. {c \in Cells : cell'[c] = p} = {c \in Cells : cell[c] = p}
      BY <1>1 DEF OthersKept
    <3> QED
      BY <3>1 DEF NumberOf
  <2>2. NumberOf(Thread, inflight', Rec(p)) = NumberOf(Thread, inflight, Rec(p))
    <3>1. \A t \in Thread : inflight'[t] = Rec(p) <=> inflight[t] = Rec(p)
      BY <1>1 DEF OthersKept
    <3>2. {t \in Thread : inflight'[t] = Rec(p)} = {t \in Thread : inflight[t] = Rec(p)}
      BY <3>1
    <3> QED
      BY <3>2 DEF NumberOf
  <2>3. retired'[Rec(p)] = retired[Rec(p)]
    BY <1>1 DEF OthersKept
  <2>4. /\ Owners(p) = OwnersSum(p, cell, expected, desired, result, inflight, retired)
        /\ Owners(p)' = OwnersSum(p, cell', expected', desired', result', inflight', retired')
    BY OwnersNow
  <2> QED
    BY <2>1, <2>2, <2>3, <2>4 DEF OwnersSum
<1> QED
  BY <1>2, <1>3, <1>4, <1>5, <1>6

-----------------------------------------------------------------------------
(* The invariant and what it implies.                                      *)

LEMMA InitInv == Init => IInv
<1> SUFFICES ASSUME Init PROVE IInv
  OBVIOUS
<1> USE DEF Init
<1>1. ReclaimerTypes
  BY ReclaimerInitInv DEF ReclaimerInv
<1>2. ClassTypes
  BY DEF ClassTypes, HandleTypes
<1>3. \A p \in Ptr : refs[p] <= MaxRefs
  BY FiniteAssumption
<1>4. ASSUME NEW t \in Thread PROVE Stage(t)
  <2>1. pc[t] = "idle" /\ guards[t] = {} /\ result[t] = NULL /\ inflight[t] = NoRecord
    BY DEF ReclaimerInit
  <2> QED
    BY <2>1 DEF Stage, Loading, Guarding
<1>5. OwnRecords
  BY DEF OwnRecords, ReclaimerInit
<1>6. GuardsHold
  BY DEF GuardsHold, ReclaimerInit
<1>7. CountIsExact
  <2> SUFFICES ASSUME NEW p \in Ptr PROVE refs[p] = Owners(p)
    BY DEF CountIsExact
  <2>1. p # NULL /\ Rec(p) \in Retired /\ Rec(p) # NoRecord
    BY <1>1, <1>2, BlockParts
  <2>2. \A c \in Cells : cell[c] # p
    BY <2>1, CellsFinite DEF ReclaimerInit
  <2>3. ASSUME NEW t \in Thread
        PROVE  /\ expected[t] # p /\ desired[t] # p /\ result[t] # p
               /\ inflight[t] # Rec(p)
    BY <2>1 DEF ReclaimerInit
  <2>4. NumberOf(Cells, cell, p) = 0
    BY <2>2, NumberPositive, CellsFinite
  <2>5. NumberOf(Thread, expected, p) = 0 /\ NumberOf(Thread, desired, p) = 0
    BY <2>3, NumberPositive, FiniteAssumption
  <2>6. NumberOf(Thread, result, p) = 0 /\ NumberOf(Thread, inflight, Rec(p)) = 0
    BY <2>3, NumberPositive, FiniteAssumption
  <2>7. retired[Rec(p)] = 0 /\ refs[p] = 0
    BY <2>1 DEF ReclaimerInit
  <2> QED
    BY <2>4, <2>5, <2>6, <2>7, OwnersNow DEF OwnersSum
<1>8. OwnGuards
  BY DEF OwnGuards, Guarding, ReclaimerInit
<1> QED
  BY <1>1, <1>2, <1>3, <1>4, <1>5, <1>6, <1>7, <1>8 DEF IInv, ClassInv

\* The records that a step of this class makes are of this class.
LEMMA OwnRecordsKept ==
  ASSUME ClassInv, OwnRecords,
         (\E t \in Thread : OwnMove(t)) \/ (\E r \in Retired : Dispose(r))
  PROVE  OwnRecords'
<1>1. ASSUME NEW t \in Thread, NEW c \in Cells, NEW q, Overwrite(t, c, q)
      PROVE  OwnRecords'
  <2>1. /\ c \in Cell /\ DisposerOf[c] = Kind /\ UNCHANGED retired
        /\ inflight' = inflight
             \/ inflight' = [inflight EXCEPT ![t] =
                              [pointer |-> cell[c], disposer |-> DisposerOf[c]]]
    BY <1>1 DEF Overwrite, Cells
  <2> QED
    BY <2>1 DEF OwnRecords, ClassInv, ReclaimerTypes, ReclaimerTypeOK
<1>2. ASSUME NEW t \in Thread, Retire(t), inflight[t].disposer = Kind
      PROVE  OwnRecords'
  <2>1. /\ inflight'[t] = NoRecord
        /\ \A u \in Thread : u # t => inflight'[u] = inflight[u]
        /\ \A q \in Retired : retired'[q] = retired[q] + (IF q = inflight[t] THEN 1 ELSE 0)
        /\ inflight[t] \in Retired
    BY <1>2, RetireParts DEF ClassInv
  <2>2. \A q \in Retired : q # inflight[t] => retired'[q] = retired[q]
    BY <2>1 DEF ClassInv, ReclaimerTypes, ReclaimerTypeOK
  <2>3. \A q \in Retired : retired'[q] > 0 => q.disposer = Kind
    BY <1>2, <2>2 DEF OwnRecords
  <2>4. \A u \in Thread : inflight'[u] # NoRecord => inflight'[u].disposer = Kind
    BY <2>1 DEF OwnRecords
  <2> QED
    BY <2>3, <2>4 DEF OwnRecords
<1>3. ASSUME NEW r \in Retired, Dispose(r) PROVE OwnRecords'
  <2>1. UNCHANGED inflight
    BY <1>3 DEF Dispose
  <2>2. \A q \in Retired : retired'[q] > 0 => retired[q] > 0
    BY <1>3 DEF Dispose, ClassInv, ReclaimerTypes, ReclaimerTypeOK
  <2> QED
    BY <2>1, <2>2 DEF OwnRecords
<1>4. ASSUME UNCHANGED <<inflight, retired>> PROVE OwnRecords'
  BY <1>4 DEF OwnRecords
<1> QED
  BY <1>1, <1>2, <1>3, <1>4 DEF OwnMove, reclaimerVars, Protect, ReleaseGuard

\* A step of a thread keeps the invariant.
LEMMA StepInv ==
  ASSUME IInv, NEW t \in Thread, ClassKept, OwnStep(t)
  PROVE  IInv'
<1>1. ClassInv' /\ CountIsExact'
  BY CountAfter DEF IInv
<1>2. OwnRecords'
  BY OwnRecordsKept DEF IInv, OwnStep
<1>3. OwnGuards'
  <2> SUFFICES ASSUME NEW u \in Thread PROVE (guards[u] = {} <=> ~ Guarding(u))'
    BY DEF OwnGuards
  <2>1. guards[u] = {} <=> ~ Guarding(u)
    BY DEF IInv, OwnGuards
  <2>2. CASE u = t
    BY <2>1, <2>2 DEF OwnStep
  <2>3. CASE u # t
    BY <2>1, <2>3 DEF OwnStep, Guarding
  <2> QED
    BY <2>2, <2>3
<1> QED
  BY <1>1, <1>2, <1>3 DEF IInv

LEMMA NextInv == IInv /\ [Next]_vars => IInv'
<1> SUFFICES ASSUME IInv, [Next]_vars PROVE IInv'
  OBVIOUS
<1>1. CASE UNCHANGED vars
  <2>1. ClassInv' /\ CountIsExact'
    BY <1>1, StutterKeeps, CountAfter DEF IInv
  <2>2. OwnRecords' /\ OwnGuards'
    BY <1>1 DEF vars, reclaimerVars, localVars, IInv, OwnRecords, OwnGuards, Guarding
  <2> QED
    BY <2>1, <2>2 DEF IInv
<1>2. ASSUME NEW t \in Thread,
             \/ MakeShared(t) \/ CopyShared(t) \/ ResetExpected(t) \/ DropDesired(t)
             \/ DelayDecrementRef(t) \/ CompareExchangeReturns(t)
             \/ LoadProtect(t) \/ LoadIncrement(t) \/ LoadRelease(t) \/ LoadAssign(t)
      PROVE  IInv'
  <2>1. ClassInv
    BY DEF IInv
  <2>2. LoadProtect(t) => guards[t] = {}
    BY DEF LoadProtect, IInv, OwnGuards, Guarding
  <2>3. ClassKept /\ OwnStep(t)
    BY <1>2, <2>1, <2>2, MakeSharedKeeps, CopySharedKeeps, ResetExpectedKeeps,
       DropDesiredKeeps, DelayDecrementRefKeeps, CompareExchangeReturnsKeeps,
       LoadProtectKeeps, LoadIncrementKeeps, LoadReleaseKeeps, LoadAssignKeeps
  <2> QED
    BY <2>3, StepInv
<1>3. ASSUME NEW t \in Thread, NEW c \in Cells,
             \/ Store(t, c) \/ Exchange(t, c) \/ Load(t, c) \/ DestroyCell(t, c)
             \/ CompareExchange(t, c) \/ CompareExchangeFails(t, c)
      PROVE  IInv'
  <2>1. ClassInv
    BY DEF IInv
  <2>2. ClassKept /\ OwnStep(t)
    BY <1>3, <2>1, StoreKeeps, ExchangeKeeps, LoadKeeps, DestroyCellKeeps,
       CompareExchangeKeeps, CompareExchangeFailsKeeps
  <2> QED
    BY <2>2, StepInv
<1>4. ASSUME NEW p \in Ptr, DisposeRef(p) PROVE IInv'
  <2>1. ClassInv' /\ CountIsExact'
    BY <1>4, DisposeRefKeeps, CountAfter DEF IInv
  <2>2. Rec(p) \in Retired /\ Dispose(Rec(p)) /\ UNCHANGED <<guards, pc>>
    BY <1>4, BlockParts DEF IInv, ClassInv, DisposeRef, Dispose, Rec, localVars
  <2>3. OwnRecords' /\ OwnGuards'
    BY <2>2, OwnRecordsKept DEF IInv, OwnGuards, Guarding
  <2> QED
    BY <2>1, <2>3 DEF IInv
<1> QED
  BY <1>1, <1>2, <1>3, <1>4 DEF Next

LEMMA IInvTypes == IInv => TypeOK
<1> SUFFICES ASSUME IInv PROVE TypeOK
  OBVIOUS
<1>1. refs \in [Ptr -> 0..MaxRefs]
  <2>1. refs \in [Ptr -> Nat] /\ \A p \in Ptr : refs[p] <= MaxRefs
    BY DEF IInv, ClassInv, ClassTypes
  <2>2. \A p \in Ptr : refs[p] \in 0..MaxRefs
    BY <2>1, FiniteAssumption
  <2> QED
    BY <2>1, <2>2
<1>2. ASSUME NEW t \in Thread
      PROVE  guards[t] = {} <=> pc[t] \notin {"increment", "unguard"}
  BY DEF IInv, OwnGuards, Guarding
<1> QED
  BY <1>1, <1>2 DEF IInv, ClassInv, ReclaimerTypes, ClassTypes, HandleTypes, TypeOK

\* What is deferred has an owner of this class.
LEMMA DeferredOwned ==
  ASSUME IInv, NEW t, NEW s, NEW p \in Ptr, Deferred({Kind}, t, s, p)
  PROVE  (\E u \in Thread : inflight[u] = Rec(p)) \/ retired[Rec(p)] > 0
<1>1. CASE \E u \in Thread : inflight[u].pointer = p /\ inflight[u].disposer \in {Kind}
  <2>1. PICK u \in Thread : inflight[u].pointer = p /\ inflight[u].disposer = Kind
    BY <1>1
  <2>2. inflight[u] # NoRecord
    BY <2>1, ReclaimerAssumption DEF NoRecord
  <2>3. inflight[u] \in Retired /\ inflight[u].disposer = Kind
    BY <2>2 DEF IInv, ClassInv, OwnRecords, ReclaimerTypes, ReclaimerTypeOK
  <2>4. inflight[u] = Rec(p)
    BY <2>1, <2>3 DEF Retired, Rec
  <2> QED
    BY <2>4
<1>2. CASE StillRetired(p)
  <2>1. PICK d \in Disposer : retired[[pointer |-> p, disposer |-> d]] > 0
    BY <1>2 DEF StillRetired
  <2>2. d = Kind
    BY <2>1 DEF IInv, OwnRecords, Retired
  <2> QED
    BY <2>1, <2>2 DEF Rec
<1> QED
  BY <1>1, <1>2 DEF Deferred

LEMMA IInvAlive == IInv => GuardedIsAlive
<1> SUFFICES ASSUME IInv, NEW t \in Thread, NEW g \in guards[t],
                    g.value # NULL, t \notin handed
             PROVE  refs[g.value] > 0
  BY DEF GuardedIsAlive
<1>1. /\ g.value \in Ptr /\ target[t] \in Cells
      /\ cell[target[t]] = g.value \/ Deferred({Kind}, t, g.slot, g.value)
  BY GuardedParts DEF IInv, OwnGuards
<1>2. retired[Rec(g.value)] \in Nat
  BY <1>1, BlockParts DEF IInv, ClassInv
<1>3. \/ \E c \in Cells : cell[c] = g.value
      \/ \E u \in Thread : inflight[u] = Rec(g.value)
      \/ retired[Rec(g.value)] > 0
  BY <1>1, DeferredOwned
<1>4. Owners(g.value) > 0
  BY <1>1, <1>2, <1>3, OwnersPositive
<1> QED
  BY <1>1, <1>4 DEF IInv, CountIsExact

LEMMA Invariance == Spec => []IInv
BY InitInv, NextInv, PTL DEF Spec

\* In every state the variables have their types, a counter stays within its
\* bound, and a thread has a guard only inside load().
THEOREM TypeCorrect == Spec => []TypeOK
BY Invariance, IInvTypes, PTL

\* The counter of a control block is the number of the cells, handles, moves
\* on their way to retire() and retired records that own a reference: no
\* operation loses a reference or drops one twice.
THEOREM CountsCorrect == Spec => []CountIsExact
<1>1. IInv => CountIsExact
  BY DEF IInv
<1> QED
  BY <1>1, Invariance, PTL

\* load() increments the counter of a block that is alive, unless an exchange()
\* has taken that block out of the cell while this load() held its guard.
THEOREM GuardedCorrect == Spec => []GuardedIsAlive
BY Invariance, IInvAlive, PTL

-----------------------------------------------------------------------------
(* The operations are those of an atomic pointer.                          *)

\* What the abstract pointer sees.
OpOf(t) ==
  CASE pc[t] \in {"increment", "unguard", "assign"} -> "loaded"
    [] pc[t] = "retire" -> "idle"
    [] OTHER -> pc[t]

CellsSeen == [c \in Cells |-> cell[c]]
LoadedSeen == [t \in Thread |-> Found(t)]
OpsSeen == [t \in Thread |-> OpOf(t)]

LEMMA OpParts ==
  ASSUME NEW t
  PROVE  /\ pc[t] \in {"increment", "unguard", "assign"} => OpOf(t) = "loaded"
         /\ pc[t] \in {"idle", "retire"} => OpOf(t) = "idle"
         /\ pc[t] = "load" => OpOf(t) = "load"
         /\ pc[t] = "drop" => OpOf(t) = "drop"
         /\ pc[t] = "swapped" => OpOf(t) = "swapped"
         /\ pc'[t] \in {"increment", "unguard", "assign"} => OpOf(t)' = "loaded"
         /\ pc'[t] \in {"idle", "retire"} => OpOf(t)' = "idle"
         /\ pc'[t] = "load" => OpOf(t)' = "load"
         /\ pc'[t] = "drop" => OpOf(t)' = "drop"
         /\ pc'[t] = "swapped" => OpOf(t)' = "swapped"
BY DEF OpOf

LEMMA FoundParts ==
  ASSUME IInv, IInv', NEW t \in Thread
  PROVE  /\ \A g \in guards[t] : pc[t] = "increment" => Found(t) = g.value
         /\ pc[t] # "increment" => Found(t) = result[t]
         /\ \A g \in guards'[t] : pc'[t] = "increment" => Found(t)' = g.value
         /\ pc'[t] # "increment" => Found(t)' = result'[t]
<1>1. \A g \in guards[t] : (CHOOSE h \in guards[t] : TRUE) = g
  BY DEF IInv, ClassInv, Stage, OwnGuards
<1>2. \A g \in guards'[t] : (CHOOSE h \in guards'[t] : TRUE) = g
  BY DEF IInv, ClassInv, Stage, OwnGuards
<1> QED
  BY <1>1, <1>2 DEF Found

\* Only the thread that takes a step is seen to move.
LEMMA SeenOf ==
  ASSUME NEW t \in Thread,
         \A u \in Thread : u # t =>
           pc'[u] = pc[u] /\ guards'[u] = guards[u] /\ result'[u] = result[u]
  PROVE  /\ LoadedSeen' = [LoadedSeen EXCEPT ![t] = Found(t)']
         /\ OpsSeen' = [OpsSeen EXCEPT ![t] = OpOf(t)']
         /\ Found(t)' = Found(t) => LoadedSeen' = LoadedSeen
         /\ OpOf(t)' = OpOf(t) => OpsSeen' = OpsSeen
         /\ LoadedSeen[t] = Found(t) /\ OpsSeen[t] = OpOf(t)
<1>1. ASSUME NEW u \in Thread, u # t
      PROVE  Found(u)' = Found(u) /\ OpOf(u)' = OpOf(u)
  <2>1. pc'[u] = pc[u] /\ guards'[u] = guards[u] /\ result'[u] = result[u]
    BY <1>1
  <2>2. Found(u)' = Found(u)
    BY <2>1 DEF Found
  <2>3. OpOf(u)' = OpOf(u)
    BY <2>1 DEF OpOf
  <2> QED
    BY <2>2, <2>3
<1>2. /\ \A u \in Thread : LoadedSeen[u] = Found(u) /\ OpsSeen[u] = OpOf(u)
      /\ \A u \in Thread : LoadedSeen'[u] = Found(u)' /\ OpsSeen'[u] = OpOf(u)'
  BY DEF LoadedSeen, OpsSeen
<1>3. /\ LoadedSeen = [u \in Thread |-> LoadedSeen[u]]
      /\ LoadedSeen' = [u \in Thread |-> LoadedSeen'[u]]
  BY DEF LoadedSeen
<1>4. /\ OpsSeen = [u \in Thread |-> OpsSeen[u]]
      /\ OpsSeen' = [u \in Thread |-> OpsSeen'[u]]
  BY DEF OpsSeen
<1>5. LoadedSeen' = [LoadedSeen EXCEPT ![t] = Found(t)']
  BY <1>1, <1>2, <1>3
<1>6. OpsSeen' = [OpsSeen EXCEPT ![t] = OpOf(t)']
  BY <1>1, <1>2, <1>4
<1>7. Found(t)' = Found(t) => LoadedSeen' = LoadedSeen
  BY <1>1, <1>2, <1>3
<1>8. OpOf(t)' = OpOf(t) => OpsSeen' = OpsSeen
  BY <1>1, <1>2, <1>4
<1> QED
  BY <1>2, <1>5, <1>6, <1>7, <1>8

LEMMA CellsSeenOf ==
  ASSUME IInv, NEW c \in Cells, NEW q
  PROVE  /\ cell' = cell => CellsSeen' = CellsSeen
         /\ cell' = [cell EXCEPT ![c] = q] => CellsSeen' = [CellsSeen EXCEPT ![c] = q]
         /\ CellsSeen[c] = cell[c]
<1>1. CellsSeen[c] = cell[c]
  BY DEF CellsSeen
<1>2. ASSUME cell' = [cell EXCEPT ![c] = q]
      PROVE  CellsSeen' = [CellsSeen EXCEPT ![c] = q]
  <2>1. \A d \in Cells : cell'[d] = IF d = c THEN q ELSE cell[d]
    BY <1>2, CellsFinite DEF IInv, ClassInv, ReclaimerTypes, ReclaimerTypeOK
  <2> QED
    BY <2>1 DEF CellsSeen
<1>3. cell' = cell => CellsSeen' = CellsSeen
  BY DEF CellsSeen
<1> QED
  BY <1>1, <1>2, <1>3

\* The abstract step as it is seen; DEFs of the instance stay in here.
SeenUnchanged ==
  UNCHANGED <<CellsSeen, expected, desired, LoadedSeen, target, OpsSeen, cont>>

LEMMA SeenStutter == ASSUME SeenUnchanged PROVE UNCHANGED Pointer!pointerVars
BY DEF SeenUnchanged, Pointer!pointerVars, CellsSeen, LoadedSeen, OpsSeen, OpOf

\* A block that a cell, a handle or a load can reach has an owner.
LEMMA ReachableHasRefs ==
  ASSUME IInv, handed = {}, NEW p \in Ptr, refs[p] = 0
  PROVE  p \notin Pointer!Reachable
<1>1. refs[p] = Owners(p) /\ retired[Rec(p)] \in Nat
  BY BlockParts DEF IInv, ClassInv, CountIsExact
<1>2. \A c \in Cells : cell[c] # p
  BY <1>1, OwnersPositive
<1>3. ASSUME NEW t \in Thread
      PROVE  expected[t] # p /\ desired[t] # p /\ result[t] # p
  BY <1>1, OwnersPositive
<1>4. ASSUME NEW t \in Thread PROVE Found(t) # p
  <2>1. CASE pc[t] = "increment"
    <3>1. PICK g \in guards[t] : g.value # NULL
      BY <2>1 DEF IInv, ClassInv, Stage, Guarding
    <3>2. (CHOOSE h \in guards[t] : TRUE) = g
      BY <2>1 DEF IInv, ClassInv, Stage, Guarding
    <3>3. refs[g.value] > 0
      BY <3>1, IInvAlive DEF GuardedIsAlive
    <3>4. g.value # p
      BY <3>3
    <3>5. Found(t) = g.value
      BY <2>1, <3>2 DEF Found
    <3> QED
      BY <3>4, <3>5
  <2>2. CASE pc[t] # "increment"
    BY <1>3, <2>2 DEF Found
  <2> QED
    BY <2>1, <2>2
<1> QED
  BY <1>2, <1>3, <1>4 DEF Pointer!Reachable

LEMMA MakeSharedMaps ==
  ASSUME IInv, IInv', NEW t \in Thread, MakeShared(t), handed' = {}
  PROVE  Pointer!PointerNext
<1>1. PICK q \in Ptr : refs[q] = 0 /\ desired' = [desired EXCEPT ![t] = q]
  BY DEF MakeShared
<1>2. /\ pc[t] = "idle" /\ desired[t] = NULL
      /\ UNCHANGED <<cell, guards, expected, result, target, pc, cont, handed>>
  BY DEF MakeShared, reclaimerVars, localVars
<1>3. q \notin Pointer!Reachable
  BY <1>1, <1>2, ReachableHasRefs
<1>4. CellsSeen' = CellsSeen /\ LoadedSeen' = LoadedSeen /\ OpsSeen' = OpsSeen
  BY <1>2 DEF CellsSeen, LoadedSeen, OpsSeen, Found, OpOf
<1>5. OpsSeen[t] = "idle"
  BY <1>2, OpParts DEF OpsSeen
<1>6. Pointer!SetDesired(t, q)
  BY <1>1, <1>2, <1>3, <1>4, <1>5
     DEF Pointer!SetDesired, CellsSeen, LoadedSeen, OpsSeen, OpOf
<1> QED
  BY <1>6 DEF Pointer!PointerNext

LEMMA CopySharedMaps ==
  ASSUME IInv, IInv', NEW t \in Thread, CopyShared(t)
  PROVE  Pointer!PointerNext
<1>1. /\ pc[t] = "idle" /\ desired[t] = NULL /\ expected[t] # NULL
      /\ desired' = [desired EXCEPT ![t] = expected[t]]
      /\ UNCHANGED <<cell, guards, expected, result, target, pc, cont>>
  BY DEF CopyShared, reclaimerVars, localVars
<1>2. expected[t] \in Ptr
  BY <1>1 DEF IInv, ClassInv, ClassTypes, HandleTypes
<1>3. CellsSeen' = CellsSeen /\ LoadedSeen' = LoadedSeen /\ OpsSeen' = OpsSeen
  BY <1>1 DEF CellsSeen, LoadedSeen, OpsSeen, Found, OpOf
<1>4. OpsSeen[t] = "idle"
  BY <1>1, OpParts DEF OpsSeen
<1>5. Pointer!SetDesired(t, expected[t])
  BY <1>1, <1>3, <1>4
     DEF Pointer!SetDesired, CellsSeen, LoadedSeen, OpsSeen, OpOf
<1> QED
  BY <1>2, <1>5 DEF Pointer!PointerNext

LEMMA ResetExpectedMaps ==
  ASSUME IInv, IInv', NEW t \in Thread, ResetExpected(t)
  PROVE  Pointer!PointerNext
<1>1. /\ pc[t] = "idle" /\ expected' = [expected EXCEPT ![t] = NULL]
      /\ UNCHANGED <<cell, guards, desired, result, target, pc, cont>>
  BY DEF ResetExpected, reclaimerVars, localVars
<1>2. CellsSeen' = CellsSeen /\ LoadedSeen' = LoadedSeen /\ OpsSeen' = OpsSeen
  BY <1>1 DEF CellsSeen, LoadedSeen, OpsSeen, Found, OpOf
<1>3. OpsSeen[t] = "idle"
  BY <1>1, OpParts DEF OpsSeen
<1>4. Pointer!ResetExpected(t)
  BY <1>1, <1>2, <1>3
     DEF Pointer!ResetExpected, CellsSeen, LoadedSeen, OpsSeen, OpOf
<1> QED
  BY <1>4 DEF Pointer!PointerNext

LEMMA DropDesiredMaps ==
  ASSUME IInv, IInv', NEW t \in Thread, DropDesired(t)
  PROVE  Pointer!PointerNext
<1>1. /\ pc[t] = "drop" /\ pc' = [pc EXCEPT ![t] = "idle"]
      /\ desired' = [desired EXCEPT ![t] = NULL]
      /\ UNCHANGED <<cell, guards, expected, result, target, cont>>
  BY DEF DropDesired, Goto, reclaimerVars
<1>2. pc'[t] = "idle" /\ \A u \in Thread : u # t => pc'[u] = pc[u]
  BY <1>1 DEF IInv, ClassInv, ClassTypes, HandleTypes
<1>3. Found(t)' = Found(t)
  BY <1>1, <1>2 DEF Found
<1>4. OpsSeen[t] = "drop" /\ OpOf(t)' = "idle"
  BY <1>1, <1>2, OpParts DEF OpsSeen
<1>5. /\ CellsSeen' = CellsSeen /\ LoadedSeen' = LoadedSeen
      /\ OpsSeen' = [OpsSeen EXCEPT ![t] = "idle"]
  BY <1>1, <1>2, <1>3, <1>4, SeenOf DEF CellsSeen
<1>6. Pointer!DropDesired(t)
  BY <1>1, <1>4, <1>5
     DEF Pointer!DropDesired, CellsSeen, LoadedSeen, OpsSeen, OpOf
<1> QED
  BY <1>6 DEF Pointer!PointerNext

\* store() and exchange(), which leave the desired pointer with p.
LEMMA PutMaps ==
  ASSUME IInv, IInv', NEW t \in Thread, NEW c \in Cells, NEW p \in {NULL, cell[c]},
         pc[t] = "idle", pc' = [pc EXCEPT ![t] = pc'[t]], pc'[t] \in {"idle", "retire"},
         cell' = [cell EXCEPT ![c] = desired[t]],
         desired' = [desired EXCEPT ![t] = p],
         UNCHANGED <<guards, expected, result, target, cont>>
  PROVE  Pointer!PointerNext
<1>1. \A u \in Thread : u # t => pc'[u] = pc[u]
  BY DEF IInv, ClassInv, ClassTypes, HandleTypes
<1>2. Found(t)' = Found(t)
  BY DEF Found
<1>3. OpsSeen[t] = "idle" /\ OpOf(t)' = OpOf(t)
  BY OpParts DEF OpsSeen
<1>4. /\ CellsSeen' = [CellsSeen EXCEPT ![c] = desired[t]]
      /\ CellsSeen[c] = cell[c]
  BY CellsSeenOf
<1>5. LoadedSeen' = LoadedSeen /\ OpsSeen' = OpsSeen
  BY <1>1, <1>2, <1>3, SeenOf
<1>6. desired' \in {[desired EXCEPT ![t] = q] : q \in {NULL, CellsSeen[c]}}
  BY <1>4
<1>7. Pointer!Put(t, c)
  BY <1>3, <1>4, <1>5, <1>6
     DEF Pointer!Put, CellsSeen, LoadedSeen, OpsSeen, OpOf
<1> QED
  BY <1>7 DEF Pointer!PointerNext

LEMMA StoreMaps ==
  ASSUME IInv, IInv', NEW t \in Thread, NEW c \in Cells, Store(t, c)
  PROVE  Pointer!PointerNext
<1>1. /\ pc[t] = "idle"
      /\ pc' = [pc EXCEPT ![t] = IF cell[c] = NULL THEN "idle" ELSE "retire"]
      /\ cell' = [cell EXCEPT ![c] = desired[t]]
      /\ desired' = [desired EXCEPT ![t] = NULL]
      /\ UNCHANGED <<guards, expected, result, target, cont>>
  BY DEF Store, Overwrite, Goto
<1>2. /\ pc' = [pc EXCEPT ![t] = pc'[t]] /\ pc'[t] \in {"idle", "retire"}
  BY <1>1 DEF IInv, ClassInv, ClassTypes, HandleTypes
<1> QED
  BY <1>1, <1>2, PutMaps

\* A compareExchange() that succeeds.
LEMMA CompareExchangeMaps ==
  ASSUME IInv, IInv', NEW t \in Thread, NEW c \in Cells, CompareExchange(t, c)
  PROVE  Pointer!PointerNext
<1>1. /\ pc[t] = "idle" /\ pc' = [pc EXCEPT ![t] = "swapped"] /\ cell[c] = expected[t]
      /\ cell' = [cell EXCEPT ![c] = desired[t]]
      /\ desired' = [desired EXCEPT ![t] = NULL]
      /\ UNCHANGED <<guards, expected, result, target, cont>>
  BY DEF CompareExchange, Overwrite, Goto
<1>2. pc'[t] = "swapped" /\ \A u \in Thread : u # t => pc'[u] = pc[u]
  BY <1>1 DEF IInv, ClassInv, ClassTypes, HandleTypes
<1>3. Found(t)' = Found(t)
  BY <1>1, <1>2 DEF Found
<1>4. OpsSeen[t] = "idle" /\ OpOf(t)' = "swapped"
  BY <1>1, <1>2, OpParts DEF OpsSeen
<1>5. /\ CellsSeen' = [CellsSeen EXCEPT ![c] = desired[t]]
      /\ CellsSeen[c] = expected[t]
  BY <1>1, CellsSeenOf
<1>6. LoadedSeen' = LoadedSeen /\ OpsSeen' = [OpsSeen EXCEPT ![t] = "swapped"]
  BY <1>1, <1>2, <1>3, <1>4, SeenOf
<1>7. Pointer!Swap(t, c)
  BY <1>1, <1>4, <1>5, <1>6
     DEF Pointer!Swap, CellsSeen, LoadedSeen, OpsSeen, OpOf
<1> QED
  BY <1>7 DEF Pointer!PointerNext

LEMMA CompareExchangeReturnsMaps ==
  ASSUME IInv, IInv', NEW t \in Thread, CompareExchangeReturns(t)
  PROVE  Pointer!PointerNext
<1>1. /\ pc[t] = "swapped" /\ pc' = [pc EXCEPT ![t] = "idle"]
      /\ UNCHANGED <<cell, guards, expected, desired, result, target, cont>>
  BY DEF CompareExchangeReturns, Retire, Goto, reclaimerVars, handleVars
<1>2. pc'[t] = "idle" /\ \A u \in Thread : u # t => pc'[u] = pc[u]
  BY <1>1 DEF IInv, ClassInv, ClassTypes, HandleTypes
<1>3. Found(t)' = Found(t)
  BY <1>1, <1>2 DEF Found
<1>4. OpsSeen[t] = "swapped" /\ OpOf(t)' = "idle"
  BY <1>1, <1>2, OpParts DEF OpsSeen
<1>5. /\ CellsSeen' = CellsSeen /\ LoadedSeen' = LoadedSeen
      /\ OpsSeen' = [OpsSeen EXCEPT ![t] = "idle"]
  BY <1>1, <1>2, <1>3, <1>4, SeenOf DEF CellsSeen
<1>6. Pointer!SwapReturns(t)
  BY <1>1, <1>4, <1>5
     DEF Pointer!SwapReturns, CellsSeen, LoadedSeen, OpsSeen, OpOf
<1> QED
  BY <1>6 DEF Pointer!PointerNext

LEMMA ExchangeMaps ==
  ASSUME IInv, IInv', NEW t \in Thread, NEW c \in Cells, Exchange(t, c)
  PROVE  Pointer!PointerNext
<1>1. /\ pc[t] = "idle" /\ pc' = pc
      /\ cell' = [cell EXCEPT ![c] = desired[t]]
      /\ desired' = [desired EXCEPT ![t] = cell[c]]
      /\ UNCHANGED <<guards, expected, result, target, cont>>
  BY DEF Exchange, localVars
<1>2. /\ pc' = [pc EXCEPT ![t] = pc'[t]] /\ pc'[t] \in {"idle", "retire"}
  BY <1>1 DEF IInv, ClassInv, ClassTypes, HandleTypes
<1> QED
  BY <1>1, <1>2, PutMaps

LEMMA DestroyCellMaps ==
  ASSUME IInv, IInv', NEW t \in Thread, NEW c \in Cells, DestroyCell(t, c)
  PROVE  Pointer!PointerNext
<1>1. /\ pc[t] = "idle" /\ cell' = [cell EXCEPT ![c] = NULL]
      /\ UNCHANGED <<guards, expected, desired, result, target, pc, cont>>
  BY DEF DestroyCell, handleVars, localVars
<1>2. LoadedSeen' = LoadedSeen /\ OpsSeen' = OpsSeen
  BY <1>1 DEF LoadedSeen, OpsSeen, Found, OpOf
<1>3. OpsSeen[t] = "idle"
  BY <1>1, OpParts DEF OpsSeen
<1>4. CellsSeen' = [CellsSeen EXCEPT ![c] = NULL]
  BY <1>1, CellsSeenOf
<1>5. Pointer!Destroy(t, c)
  BY <1>1, <1>2, <1>3, <1>4
     DEF Pointer!Destroy, CellsSeen, LoadedSeen, OpsSeen, OpOf
<1> QED
  BY <1>5 DEF Pointer!PointerNext

LEMMA CallLoadMaps ==
  ASSUME IInv, IInv', NEW t \in Thread, NEW c \in Cells,
         Load(t, c) \/ CompareExchangeFails(t, c)
  PROVE  Pointer!PointerNext
<1>1. /\ pc[t] = "idle" /\ pc' = [pc EXCEPT ![t] = "load"]
      /\ target' = [target EXCEPT ![t] = c]
      /\ \/ cont' = [cont EXCEPT ![t] = "idle"]
         \/ cell[c] # expected[t] /\ cont' = [cont EXCEPT ![t] = "drop"]
      /\ UNCHANGED <<cell, guards, expected, desired, result>>
  BY DEF Load, CompareExchangeFails, Goto, reclaimerVars, handleVars
<1>2. pc'[t] = "load" /\ \A u \in Thread : u # t => pc'[u] = pc[u]
  BY <1>1 DEF IInv, ClassInv, ClassTypes, HandleTypes
<1>3. Found(t)' = Found(t)
  BY <1>1, <1>2 DEF Found
<1>4. OpsSeen[t] = "idle" /\ OpOf(t)' = "load" /\ CellsSeen[c] = cell[c]
  BY <1>1, <1>2, OpParts, CellsSeenOf DEF OpsSeen
<1>5. /\ CellsSeen' = CellsSeen /\ LoadedSeen' = LoadedSeen
      /\ OpsSeen' = [OpsSeen EXCEPT ![t] = "load"]
  BY <1>1, <1>2, <1>3, <1>4, SeenOf DEF CellsSeen
<1>6. \/ cont' = [cont EXCEPT ![t] = "idle"]
      \/ CellsSeen[c] # expected[t] /\ cont' = [cont EXCEPT ![t] = "drop"]
  BY <1>1, <1>4
<1>7. Pointer!CallLoad(t, c)
  BY <1>1, <1>4, <1>5, <1>6
     DEF Pointer!CallLoad, CellsSeen, LoadedSeen, OpsSeen, OpOf
<1> QED
  BY <1>7 DEF Pointer!PointerNext

LEMMA LoadProtectMaps ==
  ASSUME IInv, IInv', NEW t \in Thread, LoadProtect(t)
  PROVE  Pointer!PointerNext
<1>1. /\ pc[t] = "load" /\ Protect(t, target[t])
      /\ pc' = [pc EXCEPT ![t] = IF cell[target[t]] = NULL THEN "unguard" ELSE "increment"]
      /\ UNCHANGED <<cell, expected, desired, result, target, cont>>
  BY DEF LoadProtect, Protect, Goto, handleVars
<1>2. target[t] \in Cells /\ guards[t] = {} /\ result[t] = NULL
  BY <1>1 DEF IInv, ClassInv, Stage, Loading, OwnGuards, Guarding
<1>3. PICK s \in Slot :
        guards' = [guards EXCEPT ![t] = @ \cup {[slot |-> s, value |-> cell[target[t]]]}]
  BY <1>1 DEF Protect
<1>4. /\ guards'[t] = {[slot |-> s, value |-> cell[target[t]]]}
      /\ \A u \in Thread : u # t => guards'[u] = guards[u] /\ pc'[u] = pc[u]
      /\ pc'[t] = IF cell[target[t]] = NULL THEN "unguard" ELSE "increment"
  BY <1>1, <1>2, <1>3
     DEF IInv, ClassInv, ReclaimerTypes, ReclaimerTypeOK, ClassTypes, HandleTypes
<1>5. Found(t)' = CellsSeen[target[t]]
  <2>1. CellsSeen[target[t]] = cell[target[t]]
    BY <1>2, CellsSeenOf
  <2>2. CASE cell[target[t]] = NULL
    <3>1. pc'[t] = "unguard" /\ result'[t] = NULL
      BY <1>1, <1>2, <1>4, <2>2
    <3> QED
      BY <2>1, <2>2, <3>1, FoundParts
  <2>3. CASE cell[target[t]] # NULL
    <3>1. pc'[t] = "increment"
      BY <1>4, <2>3
    <3>2. [slot |-> s, value |-> cell[target[t]]] \in guards'[t]
      BY <1>4
    <3>3. Found(t)' = [slot |-> s, value |-> cell[target[t]]].value
      BY <3>1, <3>2, FoundParts
    <3> QED
      BY <2>1, <3>3
  <2> QED
    BY <2>2, <2>3
<1>6. OpsSeen[t] = "load" /\ OpOf(t)' = "loaded"
  BY <1>1, <1>4, OpParts DEF OpsSeen
<1>7. /\ CellsSeen' = CellsSeen
      /\ LoadedSeen' = [LoadedSeen EXCEPT ![t] = CellsSeen[target[t]]]
      /\ OpsSeen' = [OpsSeen EXCEPT ![t] = "loaded"]
  BY <1>1, <1>4, <1>5, <1>6, SeenOf DEF CellsSeen
<1>8. Pointer!LoadTakesEffect(t)
  BY <1>1, <1>6, <1>7
     DEF Pointer!LoadTakesEffect, CellsSeen, LoadedSeen, OpsSeen, OpOf
<1> QED
  BY <1>8 DEF Pointer!PointerNext

LEMMA LoadAssignMaps ==
  ASSUME IInv, IInv', NEW t \in Thread, LoadAssign(t)
  PROVE  Pointer!PointerNext
<1>1. /\ pc[t] = "assign" /\ pc' = [pc EXCEPT ![t] = cont[t]]
      /\ expected' = [expected EXCEPT ![t] = result[t]]
      /\ result' = [result EXCEPT ![t] = NULL]
      /\ target' = [target EXCEPT ![t] = NULL]
      /\ cont' = [cont EXCEPT ![t] = "idle"]
      /\ UNCHANGED <<cell, guards, desired>>
  BY DEF LoadAssign, Goto, reclaimerVars
<1>2. /\ pc'[t] = cont[t] /\ cont[t] \in {"idle", "drop"} /\ result'[t] = NULL
      /\ \A u \in Thread : u # t => pc'[u] = pc[u] /\ result'[u] = result[u]
  BY <1>1 DEF IInv, ClassInv, ClassTypes, HandleTypes
<1>3. Found(t) = result[t] /\ Found(t)' = NULL
  BY <1>1, <1>2, FoundParts
<1>4. OpsSeen[t] = "loaded" /\ OpOf(t)' = cont[t] /\ LoadedSeen[t] = result[t]
  BY <1>1, <1>2, <1>3, OpParts DEF OpsSeen, LoadedSeen
<1>5. /\ CellsSeen' = CellsSeen
      /\ LoadedSeen' = [LoadedSeen EXCEPT ![t] = NULL]
      /\ OpsSeen' = [OpsSeen EXCEPT ![t] = cont[t]]
  BY <1>1, <1>2, <1>3, <1>4, SeenOf DEF CellsSeen
<1>6. expected' = [expected EXCEPT ![t] = LoadedSeen[t]]
  BY <1>1, <1>4
<1>7. Pointer!LoadReturns(t)
  BY <1>1, <1>4, <1>5, <1>6
     DEF Pointer!LoadReturns, CellsSeen, LoadedSeen, OpsSeen, OpOf
<1> QED
  BY <1>7 DEF Pointer!PointerNext

\* The steps inside an operation are not seen.
LEMMA DelayDecrementRefUnseen ==
  ASSUME IInv, IInv', NEW t \in Thread, DelayDecrementRef(t)
  PROVE  SeenUnchanged
<1>1. /\ pc[t] = "retire" /\ pc' = [pc EXCEPT ![t] = "idle"]
      /\ UNCHANGED <<cell, guards, expected, desired, result, target, cont>>
  BY DEF DelayDecrementRef, Retire, Goto, handleVars
<1>2. pc'[t] = "idle" /\ \A u \in Thread : u # t => pc'[u] = pc[u]
  BY <1>1 DEF IInv, ClassInv, ClassTypes, HandleTypes
<1>3. Found(t)' = Found(t)
  BY <1>1, <1>2 DEF Found
<1>4. OpOf(t)' = OpOf(t)
  BY <1>1, <1>2, OpParts
<1>5. CellsSeen' = CellsSeen /\ LoadedSeen' = LoadedSeen /\ OpsSeen' = OpsSeen
  BY <1>1, <1>2, <1>3, <1>4, SeenOf DEF CellsSeen
<1> QED
  BY <1>1, <1>5 DEF SeenUnchanged

LEMMA LoadIncrementUnseen ==
  ASSUME IInv, IInv', NEW t \in Thread, LoadIncrement(t)
  PROVE  SeenUnchanged
<1>1. /\ pc[t] = "increment" /\ pc' = [pc EXCEPT ![t] = "unguard"]
      /\ UNCHANGED <<cell, guards, expected, desired, target, cont>>
  BY DEF LoadIncrement, Goto, reclaimerVars
<1>2. PICK g \in guards[t] : result' = [result EXCEPT ![t] = g.value]
  BY DEF LoadIncrement
<1>3. /\ pc'[t] = "unguard" /\ result'[t] = g.value
      /\ \A u \in Thread : u # t => pc'[u] = pc[u] /\ result'[u] = result[u]
  BY <1>1, <1>2 DEF IInv, ClassInv, ClassTypes, HandleTypes
<1>4. Found(t)' = Found(t)
  <2>1. Found(t) = g.value
    BY <1>1, FoundParts
  <2>2. Found(t)' = result'[t]
    BY <1>3, FoundParts
  <2> QED
    BY <1>3, <2>1, <2>2
<1>5. OpOf(t)' = OpOf(t)
  BY <1>1, <1>3, OpParts
<1>6. CellsSeen' = CellsSeen /\ LoadedSeen' = LoadedSeen /\ OpsSeen' = OpsSeen
  BY <1>1, <1>3, <1>4, <1>5, SeenOf DEF CellsSeen
<1> QED
  BY <1>1, <1>6 DEF SeenUnchanged

LEMMA LoadReleaseUnseen ==
  ASSUME IInv, IInv', NEW t \in Thread, LoadRelease(t)
  PROVE  SeenUnchanged
<1>1. /\ pc[t] = "unguard" /\ pc' = [pc EXCEPT ![t] = "assign"]
      /\ \E g \in guards[t] : guards' = [guards EXCEPT ![t] = @ \ {g}]
      /\ UNCHANGED <<cell, expected, desired, result, target, cont>>
  BY DEF LoadRelease, ReleaseGuard, Goto, handleVars
<1>2. /\ pc'[t] = "assign"
      /\ \A u \in Thread : u # t => pc'[u] = pc[u] /\ guards'[u] = guards[u]
  BY <1>1 DEF IInv, ClassInv, ClassTypes, HandleTypes, ReclaimerTypes, ReclaimerTypeOK
<1>3. Found(t)' = Found(t)
  BY <1>1, <1>2, FoundParts
<1>4. OpOf(t)' = OpOf(t)
  BY <1>1, <1>2, OpParts
<1>5. CellsSeen' = CellsSeen /\ LoadedSeen' = LoadedSeen /\ OpsSeen' = OpsSeen
  BY <1>1, <1>2, <1>3, <1>4, SeenOf DEF CellsSeen
<1> QED
  BY <1>1, <1>5 DEF SeenUnchanged

LEMMA OthersUnseen ==
  ASSUME UNCHANGED <<cell, guards, expected, desired, result, target, pc, cont>>
  PROVE  SeenUnchanged
BY DEF SeenUnchanged, CellsSeen, LoadedSeen, OpsSeen, Found, OpOf

LEMMA InitMaps == Init => Pointer!PointerInit
<1> SUFFICES ASSUME Init PROVE Pointer!PointerInit
  OBVIOUS
<1>1. CellsSeen = [c \in Cells |-> NULL]
  BY CellsFinite DEF Init, ReclaimerInit, CellsSeen
<1>2. LoadedSeen = [t \in Thread |-> NULL]
  BY DEF Init, LoadedSeen, Found
<1>3. OpsSeen = [t \in Thread |-> "idle"]
  BY DEF Init, OpsSeen, OpOf
<1>4. \A h \in {expected, desired, LoadedSeen, target} : h = [t \in Thread |-> NULL]
  BY <1>2 DEF Init
<1>5. \A o \in {OpsSeen, cont} : o = [t \in Thread |-> "idle"]
  BY <1>3 DEF Init
<1> QED
  BY <1>1, <1>4, <1>5 DEF Pointer!PointerInit, CellsSeen, LoadedSeen, OpsSeen, OpOf

LEMMA NextMaps ==
  ASSUME IInv, IInv', [Next]_vars, handed' = {}
  PROVE  Pointer!PointerNext \/ UNCHANGED Pointer!pointerVars
<1>1. CASE UNCHANGED vars
  <2>1. UNCHANGED <<cell, guards, expected, desired, result, target, pc, cont>>
    BY <1>1 DEF vars, reclaimerVars, handleVars, localVars
  <2> QED
    BY <2>1, OthersUnseen, SeenStutter
<1>2. ASSUME NEW t \in Thread,
             \/ MakeShared(t) \/ CopyShared(t) \/ ResetExpected(t) \/ DropDesired(t)
             \/ CompareExchangeReturns(t) \/ LoadProtect(t) \/ LoadAssign(t)
      PROVE  Pointer!PointerNext
  BY <1>2, MakeSharedMaps, CopySharedMaps, ResetExpectedMaps, DropDesiredMaps,
     CompareExchangeReturnsMaps, LoadProtectMaps, LoadAssignMaps
<1>3. ASSUME NEW t \in Thread, NEW c \in Cells,
             \/ Store(t, c) \/ Exchange(t, c) \/ Load(t, c) \/ DestroyCell(t, c)
             \/ CompareExchange(t, c) \/ CompareExchangeFails(t, c)
      PROVE  Pointer!PointerNext
  BY <1>3, StoreMaps, CompareExchangeMaps, ExchangeMaps, DestroyCellMaps, CallLoadMaps
<1>4. ASSUME NEW t \in Thread, DelayDecrementRef(t) \/ LoadIncrement(t) \/ LoadRelease(t)
      PROVE  UNCHANGED Pointer!pointerVars
  BY <1>4, DelayDecrementRefUnseen, LoadIncrementUnseen, LoadReleaseUnseen, SeenStutter
<1>5. ASSUME NEW p \in Ptr, DisposeRef(p) PROVE UNCHANGED Pointer!pointerVars
  <2>1. UNCHANGED <<cell, guards, expected, desired, result, target, pc, cont>>
    BY <1>5 DEF DisposeRef, Dispose, handleVars, localVars
  <2> QED
    BY <2>1, OthersUnseen, SeenStutter
<1> QED
  BY <1>1, <1>2, <1>3, <1>4, <1>5 DEF Next

\* The operations implement an atomic pointer with a collector: every step is
\* one of its steps or is not seen, as long as no load is under way that an
\* exchange() has overtaken.
THEOREM PointerImplemented == Spec => ImplementsAtomicPointer
<1>1. IInv /\ IInv' /\ [Next]_vars
        => [handed' = {} => Pointer!PointerNext \/ UNCHANGED Pointer!pointerVars]_vars
  BY NextMaps
<1> QED
  BY <1>1, InitMaps, Invariance, PTL DEF Spec, ImplementsAtomicPointer
=============================================================================
