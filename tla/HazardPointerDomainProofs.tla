--------------------- MODULE HazardPointerDomainProofs ---------------------
(***************************************************************************)
(* What holds of HazardPointerDomain for every number of threads, entries, *)
(* slots, places and cells, and at the end that it implements Reclaimer.   *)
(*                                                                         *)
(* The inductive invariant has four parts.  RegistryInv: an entry has at   *)
(* most one owner, and the owner's flag is set.  Shape: what the place a   *)
(* thread has reached says of its other variables.  Announced: every guard *)
(* has a slot of its own that announces its pointer.  GuardsKeep: every    *)
(* guard has a reference that no scan under way can drop, because it is    *)
(* outside the lists, or marked, or the scan has yet to read the slot.     *)
(***************************************************************************)
EXTENDS DomainReclaimer, Counting

-----------------------------------------------------------------------------
(* The registry: its entries are exclusive, and a lost entry stays lost.   *)

\* Exclusiveness is inductive together with the flags: the owner of an entry
\* has set its flag, and whoever takes an entry has found the flag clear or
\* has just allocated it.
RegistryInv ==
  /\ RegistryTypeOK
  /\ ExclusiveEntry
  /\ \A t \in Thread : \A e \in Entry :
       Owns(t, e) => e \in allocated /\ acquired[e]
  /\ Linked \subseteq allocated
  /\ \A t \in Thread : at[t] <= Len(chain)
  /\ \A t \in Thread : entry[t] = NULL <=> stage[t] \in {"none", "find"}

\* The list only grows at its end, so a position keeps its entry.
ChainGrows ==
  /\ Len(chain) <= Len(chain')
  /\ \A i \in 1..Len(chain) : chain'[i] = chain[i]

LEMMA RegistryInitInv ==
  ASSUME RegistryInit
  PROVE  RegistryInv
BY DEF RegistryInit, RegistryInv, RegistryTypeOK, ExclusiveEntry, Owns, Linked

LEMMA ChainStep ==
  ASSUME RegistryInv, [RegistryNext]_registryVars
  PROVE  /\ chain' \in Seq(Entry)
         /\ ChainGrows
         /\ Linked' \subseteq allocated'
<1> USE DEF ChainGrows, Linked
<1>1. chain \in Seq(Entry) /\ Linked \subseteq allocated
  BY DEF RegistryInv, RegistryTypeOK
<1>2. CASE UNCHANGED chain /\ allocated \subseteq allocated'
  BY <1>1, <1>2
<1>3. ASSUME NEW t \in Thread, InternalPush(t), UNCHANGED allocated,
             chain' = Append(chain, entry[t])
      PROVE  chain' \in Seq(Entry) /\ ChainGrows /\ Linked' \subseteq allocated'
  <2>1. entry[t] \in Entry /\ entry[t] \in allocated
    BY <1>3 DEF RegistryInv, RegistryTypeOK, InternalPush, Owns
  <2> QED
    BY <1>1, <1>3, <2>1
<1> QED
  BY <1>1, <1>2, <1>3
  DEF RegistryNext, AcquireStep, BeginAcquire, FindFree, AllocItem,
      InternalPush, ReleaseEntry, Borrow, GiveBack, registryVars

LEMMA RegistryStep ==
  ASSUME RegistryInv, [RegistryNext]_registryVars
  PROVE  RegistryInv'
<1>1. /\ chain' \in Seq(Entry)
      /\ ChainGrows
      /\ Linked' \subseteq allocated'
  BY ChainStep
<1> DEFINE Inv == /\ allocated \subseteq Entry
                  /\ acquired \in [Entry -> BOOLEAN]
                  /\ entry \in [Thread -> Entry \cup {NULL}]
                  /\ borrowed \in [Thread -> Entry \cup {NULL}]
                  /\ stage \in [Thread -> {"none", "find", "push", "held"}]
                  /\ ExclusiveEntry
                  /\ \A t \in Thread : \A e \in Entry :
                       Owns(t, e) => e \in allocated /\ acquired[e]
                  /\ \A t \in Thread :
                       entry[t] = NULL <=> stage[t] \in {"none", "find"}
<1>2. Inv /\ NULL \notin Entry
  BY NullIsNoEntry DEF RegistryInv, RegistryTypeOK
<1> SUFFICES Inv' /\ at' \in [Thread -> Nat]
                  /\ \A t \in Thread : at'[t] <= Len(chain')
  BY <1>1 DEF RegistryInv, RegistryTypeOK
<1> USE DEF ExclusiveEntry, Owns
<1>3. CASE UNCHANGED registryVars
  BY <1>2, <1>3 DEF registryVars, RegistryInv, RegistryTypeOK
<1>4. ASSUME NEW t \in Thread, BeginAcquire(t)
      PROVE  Inv'
  BY <1>2, <1>4 DEF BeginAcquire
<1>5. ASSUME NEW t \in Thread, FindFree(t)
      PROVE  Inv'
  <2>1. at[t] \in Nat /\ at[t] # 0 /\ at[t] <= Len(chain) /\ chain \in Seq(Entry)
    BY <1>5 DEF FindFree, RegistryInv, RegistryTypeOK
  <2>2. PICK e \in Entry : e = chain[at[t]]
    BY <2>1
  <2>3. CASE UNCHANGED <<acquired, entry, stage>>
    BY <1>2, <1>5, <2>3 DEF FindFree
  <2>4. CASE /\ ~ acquired[e]
             /\ acquired' = [acquired EXCEPT ![e] = TRUE]
             /\ entry' = [entry EXCEPT ![t] = e]
             /\ stage' = [stage EXCEPT ![t] = "held"]
    <3>1. stage[t] = "find" /\ UNCHANGED <<allocated, borrowed>>
      BY <1>5 DEF FindFree
    <3>2. \A u \in Thread : ~ Owns(u, e)
      BY <1>2, <2>4
    <3>3. e \in allocated
      BY <2>1, <2>2 DEF RegistryInv, Linked
    <3> QED
      BY <1>2, <2>4, <3>1, <3>2, <3>3
  <2> QED
    BY <1>5, <2>2, <2>3, <2>4 DEF FindFree
<1>6. ASSUME NEW t \in Thread, AllocItem(t)
      PROVE  Inv'
  BY <1>2, <1>6 DEF AllocItem
<1>7. ASSUME NEW t \in Thread, InternalPush(t)
      PROVE  Inv'
  BY <1>2, <1>7 DEF InternalPush
<1>8. ASSUME NEW t \in Thread, ReleaseEntry(t), borrowed[t] = NULL
      PROVE  Inv'
  BY <1>2, <1>8 DEF ReleaseEntry
<1>9. ASSUME NEW t \in Thread, NEW e \in Linked, Borrow(t, e)
      PROVE  Inv'
  <2>1. e \in Entry /\ e \in allocated
    BY <1>9 DEF Linked, RegistryInv, RegistryTypeOK
  <2> QED
    BY <1>2, <1>9, <2>1 DEF Borrow
<1>10. ASSUME NEW t \in Thread, GiveBack(t)
       PROVE  Inv'
  BY <1>2, <1>10 DEF GiveBack
<1>11. at' \in [Thread -> Nat] /\ \A t \in Thread : at'[t] <= Len(chain')
  <2>1. /\ at \in [Thread -> Nat]
        /\ Len(chain) \in Nat /\ Len(chain') \in Nat
        /\ Len(chain) <= Len(chain')
        /\ \A t \in Thread : at[t] <= Len(chain)
    BY <1>1 DEF RegistryInv, RegistryTypeOK, ChainGrows
  <2>2. CASE UNCHANGED at
    BY <2>1, <2>2
  <2>3. ASSUME NEW t \in Thread,
               \/ at' = [at EXCEPT ![t] = Len(chain)]
               \/ at' = [at EXCEPT ![t] = 0]
               \/ at[t] # 0 /\ at' = [at EXCEPT ![t] = at[t] - 1]
        PROVE  at' \in [Thread -> Nat] /\ \A u \in Thread : at'[u] <= Len(chain')
    BY <2>1, <2>3
  <2> QED
    BY <2>2, <2>3
    DEF RegistryNext, AcquireStep, BeginAcquire, FindFree, AllocItem,
        InternalPush, ReleaseEntry, Borrow, GiveBack, registryVars
<1> QED
  BY <1>3, <1>4, <1>5, <1>6, <1>7, <1>8, <1>9, <1>10, <1>11
  DEF RegistryNext, AcquireStep

\* Two threads never own the same entry, whatever the order in which they
\* search, allocate, push, release and help.
THEOREM RegistryExclusive == RegistrySpec => []ExclusiveEntry
<1>1. RegistryInv => ExclusiveEntry
  BY DEF RegistryInv
<1> QED
  BY RegistryInitInv, RegistryStep, <1>1, PTL DEF RegistrySpec

-----------------------------------------------------------------------------
LEMMA LossStep ==
  ASSUME RegistryInv, [RegistryNext]_registryVars, NoLostEntry'
  PROVE  NoLostEntry
<1> SUFFICES ASSUME NEW e \in allocated, e \notin Linked
             PROVE  \E t \in Thread : stage[t] = "push" /\ entry[t] = e
  BY DEF NoLostEntry
<1>1. e \in allocated'
  BY DEF RegistryNext, AcquireStep, BeginAcquire, FindFree, AllocItem,
         InternalPush, ReleaseEntry, Borrow, GiveBack, registryVars
<1>2. CASE e \in Linked'
  <2>1. PICK t \in Thread :
          InternalPush(t) /\ chain' = Append(chain, entry[t])
    BY <1>2
    DEF RegistryNext, AcquireStep, BeginAcquire, FindFree, AllocItem,
        InternalPush, ReleaseEntry, Borrow, GiveBack, registryVars, Linked
  <2>2. chain \in Seq(Entry)
    BY DEF RegistryInv, RegistryTypeOK
  <2>3. e = entry[t]
    BY <1>2, <2>1, <2>2 DEF Linked
  <2> QED
    BY <2>1, <2>3 DEF InternalPush
<1>3. ASSUME NEW t \in Thread, stage'[t] = "push", entry'[t] = e
      PROVE  stage[t] = "push" /\ entry[t] = e
  <2>1. stage \in [Thread -> {"none", "find", "push", "held"}]
        /\ entry \in [Thread -> Entry \cup {NULL}]
    BY DEF RegistryInv, RegistryTypeOK
  <2> QED
    BY <1>3, <2>1
    DEF RegistryNext, AcquireStep, BeginAcquire, FindFree, AllocItem,
        InternalPush, ReleaseEntry, Borrow, GiveBack, registryVars
<1> QED
  BY <1>1, <1>2, <1>3 DEF NoLostEntry

\* An entry that a push has left out of the list stays out of it for good.
LossIsPermanent == [][~ NoLostEntry => ~ NoLostEntry']_registryVars

THEOREM LostForGood == RegistrySpec => LossIsPermanent
<1>1. RegistryInv /\ [RegistryNext]_registryVars
        => [~ NoLostEntry => ~ NoLostEntry']_registryVars
  BY LossStep
<1> QED
  BY RegistryInitInv, RegistryStep, <1>1, PTL DEF RegistrySpec, LossIsPermanent

-----------------------------------------------------------------------------
(* The threads of the domain.                                              *)

\* Where a thread goes on when the scan it is in, if any, has returned.
Where(t) == IF pc[t] \in {"begin", "scan"} THEN cont[t] ELSE pc[t]

Protecting == {"load", "publish", "validate"}
Helping == {"peek", "drain", "refill"}

Shape(t) ==
  /\ pc[t] \notin {"idle", "retire"} => stage[t] = "held"
  /\ Where(t) # "idle" \/ pc[t] = "idle"
  /\ exiting[t] => Where(t) \in {"helpScan", "help", "leave"} \cup Helping
  /\ pc[t] = "leave" => exiting[t]
  /\ borrowed[t] # NULL <=> Where(t) \in Helping
  /\ Where(t) \in Helping => hpos[t] # 0
  /\ hpos[t] <= Len(chain)
  /\ inflight[t] # NoRecord <=> Where(t) = "retire"
  /\ pc[t] \in Protecting => target[t] \in Cell /\ slot[t] \in Slot
  /\ pc[t] = "scan" => pos[t] <= Len(chain)
  /\ pc[t] # "scan" \/ pos[t] = 0 => hp[t] = 0

Announced(t) ==
  /\ guards[t] # {} => stage[t] = "held" /\ ~ exiting[t]
  /\ \A g \in guards[t] : hazards[entry[t]][g.slot] = g.value
  /\ \A g, h \in guards[t] : g.slot = h.slot => g = h
  /\ pc[t] \in Protecting => \A g \in guards[t] : g.slot # slot[t]
  /\ pc[t] = "validate" => hazards[entry[t]][slot[t]] = value[t]

IInv ==
  /\ TypeOK
  /\ RegistryInv
  /\ \A t \in Thread : Shape(t) /\ Announced(t)

\* The scan of u has yet to read the slot s of the entry h.
Pending(u, h, s) ==
  \E k \in 1..Len(chain) :
    chain[k] = h /\ (k < pos[u] \/ (k = pos[u] /\ hp[u] <= s))

\* If u scans the list of the entry e it spares the record in place i, which
\* is marked, or will be when the slot s of h is read.
SparedBy(u, e, i, h, s) ==
  pc[u] = "scan" /\ entry[u] = e => i \in marked[u] \/ Pending(u, h, s)

\* A record of p that lasts while the slot s of h announces p.
KeptRecord(h, s, p) ==
  \E e \in Entry : \E i \in Place :
    /\ retires[e][i].pointer = p
    /\ \A u \in Thread : SparedBy(u, e, i, h, s)

\* A reference of p that lasts while the slot s of h announces p.
Kept(h, s, p) ==
  \/ \E c \in Cell : cell[c] = p
  \/ \E t \in Thread : inflight[t].pointer = p
  \/ KeptRecord(h, s, p)

GuardsKeep ==
  \A t \in Thread : \A g \in guards[t] :
    g.value # NULL /\ entry[t] \in Linked => Kept(entry[t], g.slot, g.value)

-----------------------------------------------------------------------------
LEMMA FirstSlot == 1 \in Slot
BY PolicyAssumption DEF Slot

\* A group of variables that a step leaves alone keeps its types.
LEMMA TypeFrame ==
  ASSUME TypeOK
  PROVE  /\ UNCHANGED registryVars => RegistryTypeOK'
         /\ UNCHANGED clientVars => ClientTypeOK'
         /\ UNCHANGED entryVars => EntryTypeOK'
         /\ UNCHANGED guards => guards' \in [Thread -> SUBSET Guard]
         /\ UNCHANGED <<pc, cont, exiting>> => ControlTypeOK'
         /\ UNCHANGED protectVars => ProtectTypeOK'
         /\ UNCHANGED scanVars => ScanTypeOK'
         /\ UNCHANGED hpos => hpos' \in [Thread -> Nat]
<1>1. UNCHANGED registryVars => RegistryTypeOK'
  BY DEF TypeOK, RegistryTypeOK, registryVars
<1>2. UNCHANGED clientVars => ClientTypeOK'
  BY DEF TypeOK, ClientTypeOK, clientVars
<1>3. UNCHANGED entryVars => EntryTypeOK'
  BY DEF TypeOK, EntryTypeOK, entryVars
<1>4. UNCHANGED guards => guards' \in [Thread -> SUBSET Guard]
  BY DEF TypeOK
<1>5. UNCHANGED <<pc, cont, exiting>> => ControlTypeOK'
  BY DEF TypeOK, ControlTypeOK
<1>6. UNCHANGED protectVars => ProtectTypeOK'
  BY DEF TypeOK, ProtectTypeOK, protectVars
<1>7. UNCHANGED scanVars => ScanTypeOK'
  BY DEF TypeOK, ScanTypeOK, scanVars
<1>8. UNCHANGED hpos => hpos' \in [Thread -> Nat]
  BY DEF TypeOK
<1> QED
  BY <1>1, <1>2, <1>3, <1>4, <1>5, <1>6, <1>7, <1>8

\* What a step does to the registry is a step of the registry.
LEMMA RegistryRefined ==
  ASSUME IInv, [Next]_vars
  PROVE  [RegistryNext]_registryVars
<1>1. CASE UNCHANGED vars
  BY <1>1 DEF vars
<1> SUFFICES ASSUME NEW t \in Thread,
                    StartAcquire(t) \/ Call(t) \/ Continue(t)
             PROVE  [RegistryNext]_registryVars
  BY <1>1 DEF Next
<1> USE DEF RegistryNext
<1>2. CASE StartAcquire(t)
  BY <1>2 DEF StartAcquire
<1>3. CASE GoOnAcquiring(t)
  BY <1>3 DEF GoOnAcquiring
<1>4. CASE Call(t)
  BY <1>4 DEF Call, Protect, Store, ReleaseGuard, Exit
<1>5. CASE ProtectLoad(t) \/ ProtectPublish(t) \/ ProtectValidate(t)
           \/ RetireFull(t) \/ RetirePush(t) \/ ScanStep(t)
  BY <1>5 DEF ProtectLoad, ProtectPublish, ProtectValidate, RetireFull,
              RetirePush, ScanStep, ScanBegin, ScanEntry, ScanHazard,
              ScanDispose, ScanEnd
<1>6. CASE HelpNext(t)
  <2>1. hpos[t] # 0 => chain[hpos[t]] \in Linked
    BY DEF IInv, TypeOK, RegistryInv, RegistryTypeOK, Shape, Linked
  <2> QED
    BY <1>6, <2>1 DEF HelpNext
<1>7. CASE HelpStep(t) /\ ~ HelpNext(t)
  BY <1>7 DEF HelpStep, HelpBegin, HelpPeek, HelpMove, HelpFull, HelpRefill,
              HelpDrained
<1>8. CASE Leave(t)
  <2>1. borrowed[t] = NULL
    BY <1>8 DEF IInv, Shape, Where, Helping, Leave
  <2> QED
    BY <1>8, <2>1 DEF Leave
<1> QED
  BY <1>2, <1>3, <1>4, <1>5, <1>6, <1>7, <1>8 DEF Continue

LEMMA RegistryKept ==
  ASSUME IInv, [Next]_vars
  PROVE  RegistryInv'
BY RegistryRefined, RegistryStep DEF IInv

LEMMA TypeStep ==
  ASSUME IInv, [Next]_vars
  PROVE  TypeOK'
<1> TypeOK
  BY DEF IInv
<1> RegistryTypeOK'
  BY RegistryKept DEF RegistryInv
<1> USE TypeFrame
<1>1. CASE UNCHANGED vars
  BY <1>1 DEF TypeOK, vars, domainVars
<1>2. ASSUME NEW t \in Thread, StartAcquire(t)
      PROVE  TypeOK'
  BY <1>2 DEF TypeOK, StartAcquire, domainVars
<1>3. ASSUME NEW t \in Thread, GoOnAcquiring(t)
      PROVE  TypeOK'
  BY <1>3 DEF TypeOK, GoOnAcquiring, domainVars
<1>4. ASSUME NEW t \in Thread, NEW c \in Cell, Protect(t, c)
      PROVE  TypeOK'
  <2>1. ProtectTypeOK'
    BY <1>4 DEF TypeOK, ProtectTypeOK, Protect, FreeSlots
  <2>2. ControlTypeOK'
    BY <1>4 DEF TypeOK, ControlTypeOK, Protect, Goto, Labels
  <2> QED
    BY <1>4, <2>1, <2>2 DEF TypeOK, Protect
<1>5. ASSUME NEW t \in Thread, NEW c \in Cell, NEW p \in Ptr \cup {NULL},
             Store(t, c, p)
      PROVE  TypeOK'
  <2>1. [pointer |-> cell[c], disposer |-> DisposerOf[c]] \in Retired
        \/ cell[c] = NULL
    BY ClientAssumption DEF TypeOK, ClientTypeOK, Retired
  <2>2. ClientTypeOK'
    BY <1>5, <2>1 DEF TypeOK, ClientTypeOK, Store
  <2>3. ControlTypeOK'
    BY <1>5 DEF TypeOK, ControlTypeOK, Store, Goto, Labels
  <2> QED
    BY <1>5, <2>2, <2>3 DEF TypeOK, Store
<1>6. ASSUME NEW t \in Thread, NEW g \in guards[t], ReleaseGuard(t, g)
      PROVE  TypeOK'
  <2>1. hazards' \in [Entry -> [Slot -> Ptr \cup {NULL}]]
    BY <1>6 DEF TypeOK, EntryTypeOK, ReleaseGuard
  <2>2. ticks' \in [Entry -> Nat]
    <3>1. \A n \in Nat : (n + 1) % ScanDelay \in Nat
      BY PolicyAssumption
    <3>2. ticks \in [Entry -> Nat]
      BY DEF TypeOK, EntryTypeOK
    <3> QED
      BY <1>6, <3>1, <3>2 DEF ReleaseGuard
  <2>3. EntryTypeOK'
    BY <1>6, <2>1, <2>2 DEF TypeOK, EntryTypeOK, ReleaseGuard
  <2>4. guards' \in [Thread -> SUBSET Guard]
    BY <1>6 DEF TypeOK, ReleaseGuard
  <2>5. ControlTypeOK'
    BY <1>6 DEF TypeOK, ControlTypeOK, ReleaseGuard, CallScan, Goto, Labels,
                Returns
  <2> QED
    BY <1>6, <2>3, <2>4, <2>5 DEF TypeOK, ReleaseGuard
<1>7. ASSUME NEW t \in Thread, Exit(t)
      PROVE  TypeOK'
  <2>1. EntryTypeOK'
    BY <1>7 DEF TypeOK, EntryTypeOK, Exit
  <2>2. ControlTypeOK'
    BY <1>7 DEF TypeOK, ControlTypeOK, Exit, CallScan, Goto, Labels, Returns
  <2> QED
    BY <1>7, <2>1, <2>2 DEF TypeOK, Exit
<1>8. ASSUME NEW t \in Thread, ProtectLoad(t)
      PROVE  TypeOK'
  <2>1. target[t] \in Cell
    BY <1>8 DEF IInv, Shape, Protecting, ProtectLoad
  <2>2. ProtectTypeOK'
    BY <1>8, <2>1 DEF TypeOK, ClientTypeOK, ProtectTypeOK, ProtectLoad
  <2>3. ControlTypeOK'
    BY <1>8 DEF TypeOK, ControlTypeOK, ProtectLoad, Goto, Labels
  <2> QED
    BY <1>8, <2>2, <2>3 DEF TypeOK, ProtectLoad
<1>9. ASSUME NEW t \in Thread, ProtectPublish(t)
      PROVE  TypeOK'
  <2>1. EntryTypeOK'
    BY <1>9 DEF TypeOK, EntryTypeOK, ProtectTypeOK, ProtectPublish
  <2>2. ControlTypeOK'
    BY <1>9 DEF TypeOK, ControlTypeOK, ProtectPublish, Goto, Labels
  <2> QED
    BY <1>9, <2>1, <2>2 DEF TypeOK, ProtectPublish
<1>10. ASSUME NEW t \in Thread, ProtectValidate(t)
       PROVE  TypeOK'
  <2>1. [slot |-> slot[t], value |-> value[t]] \in Guard
    BY <1>10 DEF IInv, Shape, Protecting, ProtectValidate, TypeOK,
                 ProtectTypeOK, Guard
  <2>2. guards' \in [Thread -> SUBSET Guard]
    BY <1>10, <2>1 DEF TypeOK, ProtectValidate
  <2>3. ProtectTypeOK'
    BY <1>10 DEF TypeOK, ProtectTypeOK, ProtectValidate, protectVars
  <2>4. ControlTypeOK'
    BY <1>10 DEF TypeOK, ControlTypeOK, ProtectValidate, Goto, Labels
  <2> QED
    BY <1>10, <2>2, <2>3, <2>4 DEF TypeOK, ProtectValidate
<1>11. ASSUME NEW t \in Thread, RetireFull(t)
       PROVE  TypeOK'
  <2>1. ControlTypeOK'
    BY <1>11 DEF TypeOK, ControlTypeOK, RetireFull, CallScan, Goto, Labels,
                 Returns
  <2> QED
    BY <1>11, <2>1 DEF TypeOK, RetireFull
<1>12. ASSUME NEW t \in Thread, RetirePush(t)
       PROVE  TypeOK'
  <2>1. ClientTypeOK'
    BY <1>12 DEF TypeOK, ClientTypeOK, RetirePush
  <2>2. inflight[t] \in Retired \cup {NoRecord}
    BY DEF TypeOK, ClientTypeOK
  <2>3. EntryTypeOK'
    BY <1>12, <2>2 DEF TypeOK, EntryTypeOK, RetirePush, Pushed
  <2>4. ControlTypeOK'
    BY <1>12 DEF TypeOK, ControlTypeOK, RetirePush, Goto, Labels
  <2> QED
    BY <1>12, <2>1, <2>3, <2>4 DEF TypeOK, RetirePush
<1>13. ASSUME NEW t \in Thread, ScanBegin(t)
       PROVE  TypeOK'
  <2>1. ScanTypeOK'
    <3>1. Len(chain) \in Nat
      BY DEF TypeOK, RegistryTypeOK
    <3> QED
      BY <1>13, <3>1 DEF TypeOK, ScanTypeOK, ScanBegin
  <2>2. ControlTypeOK'
    <3>1. pc \in [Thread -> Labels] /\ cont[t] \in Labels /\ "scan" \in Labels
      BY DEF TypeOK, ControlTypeOK, Labels, Returns
    <3>2. pc' \in [Thread -> Labels] /\ UNCHANGED <<cont, exiting>>
      BY <1>13, <3>1 DEF ScanBegin, Goto
    <3> QED
      BY <3>2 DEF TypeOK, ControlTypeOK
  <2> QED
    BY <1>13, <2>1, <2>2 DEF TypeOK, ScanBegin
<1>14. ASSUME NEW t \in Thread, ScanEntry(t)
       PROVE  TypeOK'
  <2>1. pos \in [Thread -> Nat] /\ hp \in [Thread -> Slot \cup {0}]
    BY DEF TypeOK, ScanTypeOK
  <2>2. pos' \in [Thread -> Nat] /\ hp' \in [Thread -> Slot \cup {0}]
    BY <1>14, <2>1, FirstSlot DEF ScanEntry
  <2> QED
    BY <1>14, <2>2 DEF TypeOK, ControlTypeOK, ScanTypeOK, ScanEntry
<1>15. ASSUME NEW t \in Thread, ScanHazard(t)
       PROVE  TypeOK'
  <2>1. pos \in [Thread -> Nat] /\ hp \in [Thread -> Slot \cup {0}]
    BY DEF TypeOK, ScanTypeOK
  <2>2. hp[t] < MaxHP => hp[t] + 1 \in Slot
    BY <2>1, PolicyAssumption DEF Slot
  <2>3. pos' \in [Thread -> Nat] /\ hp' \in [Thread -> Slot \cup {0}]
    BY <1>15, <2>1, <2>2 DEF ScanHazard, NextHazard
  <2>4. marked' \in [Thread -> SUBSET Place]
    BY <1>15 DEF TypeOK, ScanTypeOK, ScanHazard, Matches, Used
  <2> QED
    BY <1>15, <2>3, <2>4 DEF TypeOK, ControlTypeOK, ScanTypeOK, ScanHazard
<1>16. ASSUME NEW t \in Thread, ScanDispose(t)
       PROVE  TypeOK'
  <2>1. EntryTypeOK'
    <3>1. PICK i \in Place :
            retires' = [retires EXCEPT ![entry[t]][i] = NoRecord]
      BY <1>16 DEF ScanDispose, Used
    <3>2. retires' \in [Entry -> [Place -> Retired \cup {NoRecord}]]
      BY <3>1 DEF TypeOK, EntryTypeOK
    <3> QED
      BY <1>16, <3>2 DEF TypeOK, EntryTypeOK, ScanDispose
  <2> QED
    BY <1>16, <2>1 DEF TypeOK, ControlTypeOK, ScanDispose
<1>17. ASSUME NEW t \in Thread, ScanEnd(t)
       PROVE  TypeOK'
  <2>1. ScanTypeOK'
    BY <1>17 DEF TypeOK, ScanTypeOK, ScanEnd
  <2>2. ControlTypeOK'
    BY <1>17 DEF TypeOK, ControlTypeOK, ScanEnd, Goto, Labels, Returns
  <2> QED
    BY <1>17, <2>1, <2>2 DEF TypeOK, ScanEnd
<1>18. ASSUME NEW t \in Thread, HelpBegin(t)
       PROVE  TypeOK'
  <2>1. hpos' \in [Thread -> Nat]
    BY <1>18 DEF TypeOK, RegistryTypeOK, HelpBegin
  <2>2. ControlTypeOK'
    BY <1>18 DEF TypeOK, ControlTypeOK, HelpBegin, Goto, Labels
  <2> QED
    BY <1>18, <2>1, <2>2 DEF TypeOK, HelpBegin
<1>19. ASSUME NEW t \in Thread, HelpNext(t)
       PROVE  TypeOK'
  <2>1. hpos \in [Thread -> Nat]
    BY DEF TypeOK
  <2>2. hpos' \in [Thread -> Nat]
    BY <1>19, <2>1 DEF HelpNext
  <2>3. ControlTypeOK'
    BY <1>19 DEF TypeOK, ControlTypeOK, HelpNext, HelpReturn, Goto, Labels
  <2> QED
    BY <1>19, <2>2, <2>3 DEF TypeOK, HelpNext
<1>20. ASSUME NEW t \in Thread, HelpPeek(t)
       PROVE  TypeOK'
  <2>1. hpos \in [Thread -> Nat] /\ hpos[t] # 0
    BY <1>20 DEF IInv, TypeOK, Shape, Where, Helping, HelpPeek
  <2>2. hpos' \in [Thread -> Nat]
    BY <1>20, <2>1 DEF HelpPeek
  <2>3. ControlTypeOK'
    BY <1>20 DEF TypeOK, ControlTypeOK, HelpPeek, Goto, Labels
  <2> QED
    BY <1>20, <2>2, <2>3 DEF TypeOK, HelpPeek
<1>21. ASSUME NEW t \in Thread, HelpMove(t)
       PROVE  TypeOK'
  <2>1. EntryTypeOK'
    <3> DEFINE Records == Retired \cup {NoRecord}
    <3>1. borrowed[t] \in Entry
      BY <1>21 DEF IInv, TypeOK, RegistryTypeOK, Shape, Where, Helping,
                   HelpMove
    <3>2. PICK i \in Place :
            retires' = [retires EXCEPT
              ![entry[t]] = Pushed(@, retires[borrowed[t]][i]),
              ![borrowed[t]][i] = NoRecord]
      BY <1>21 DEF HelpMove, Used
    <3>3. \A list \in [Place -> Records] : \A r \in Records :
            Pushed(list, r) \in [Place -> Records]
      BY DEF Pushed
    <3>4. retires \in [Entry -> [Place -> Records]]
      BY DEF TypeOK, EntryTypeOK
    <3>5. retires' \in [Entry -> [Place -> Records]]
      BY <3>1, <3>2, <3>3, <3>4
    <3> QED
      BY <1>21, <3>5 DEF TypeOK, EntryTypeOK, HelpMove
  <2> QED
    BY <1>21, <2>1 DEF TypeOK, ControlTypeOK, HelpMove
<1>22. ASSUME NEW t \in Thread, HelpFull(t)
       PROVE  TypeOK'
  <2>1. ControlTypeOK'
    BY <1>22 DEF TypeOK, ControlTypeOK, HelpFull, CallScan, Goto, Labels,
                 Returns
  <2> QED
    BY <1>22, <2>1 DEF TypeOK, HelpFull
<1>23. ASSUME NEW t \in Thread, HelpRefill(t)
       PROVE  TypeOK'
  <2>1. hpos' \in [Thread -> Nat]
    BY <1>23 DEF TypeOK, HelpRefill
  <2>2. ControlTypeOK'
    BY <1>23 DEF TypeOK, ControlTypeOK, HelpRefill, HelpReturn, Goto, Labels
  <2> QED
    BY <1>23, <2>1, <2>2 DEF TypeOK, HelpRefill
<1>24. ASSUME NEW t \in Thread, HelpDrained(t)
       PROVE  TypeOK'
  <2>1. hpos \in [Thread -> Nat] /\ hpos[t] # 0
    BY <1>24 DEF IInv, TypeOK, Shape, Where, Helping, HelpDrained
  <2>2. hpos' \in [Thread -> Nat]
    BY <1>24, <2>1 DEF HelpDrained
  <2>3. ControlTypeOK'
    BY <1>24 DEF TypeOK, ControlTypeOK, HelpDrained, CallScan, Goto, Labels,
                 Returns
  <2> QED
    BY <1>24, <2>2, <2>3 DEF TypeOK, HelpDrained
<1>25. ASSUME NEW t \in Thread, Leave(t)
       PROVE  TypeOK'
  <2>1. ControlTypeOK'
    BY <1>25 DEF TypeOK, ControlTypeOK, Leave, Goto, Labels
  <2> QED
    BY <1>25, <2>1 DEF TypeOK, Leave
<1> QED
  BY <1>1, <1>2, <1>3, <1>4, <1>5, <1>6, <1>7, <1>8, <1>9, <1>10, <1>11,
     <1>12, <1>13, <1>14, <1>15, <1>16, <1>17, <1>18, <1>19, <1>20, <1>21,
     <1>22, <1>23, <1>24, <1>25
     DEF Next, Call, Continue, ScanStep, HelpStep

\* What a step of t leaves alone.
Frame(u) ==
  /\ entry'[u] = entry[u] /\ borrowed'[u] = borrowed[u]
  /\ stage'[u] = stage[u]
  /\ inflight'[u] = inflight[u] /\ guards'[u] = guards[u]
  /\ pc'[u] = pc[u] /\ cont'[u] = cont[u] /\ exiting'[u] = exiting[u]
  /\ target'[u] = target[u] /\ slot'[u] = slot[u] /\ value'[u] = value[u]
  /\ pos'[u] = pos[u] /\ hp'[u] = hp[u] /\ marked'[u] = marked[u]
  /\ hpos'[u] = hpos[u]

LEMMA OthersFrame ==
  ASSUME IInv, NEW t \in Thread, StartAcquire(t) \/ Call(t) \/ Continue(t),
         NEW u \in Thread, u # t
  PROVE  Frame(u)
<1> USE DEF Frame
<1>1. CASE StartAcquire(t) \/ GoOnAcquiring(t)
  BY <1>1 DEF IInv, TypeOK, RegistryTypeOK, StartAcquire, GoOnAcquiring, BeginAcquire, AcquireStep,
              FindFree, AllocItem, InternalPush, domainVars, clientVars,
              protectVars, scanVars
<1> USE DEF IInv, TypeOK, RegistryTypeOK, ClientTypeOK, ControlTypeOK, ProtectTypeOK, ScanTypeOK, registryVars,
            clientVars, protectVars, scanVars, Goto, CallScan
<1>2. CASE Call(t)
  BY <1>2 DEF Call, Protect, Store, ReleaseGuard, Exit
<1>3. CASE ProtectLoad(t) \/ ProtectPublish(t) \/ ProtectValidate(t)
           \/ RetireFull(t) \/ RetirePush(t)
  BY <1>3 DEF ProtectLoad, ProtectPublish, ProtectValidate, RetireFull, RetirePush
<1>4. CASE ScanStep(t)
  BY <1>4 DEF ScanStep, ScanBegin, ScanEntry, ScanHazard, NextHazard,
              ScanDispose, ScanEnd
<1>5. CASE HelpStep(t)
  BY <1>5 DEF HelpStep, HelpBegin, HelpNext, HelpPeek, HelpMove, HelpFull, HelpRefill,
              HelpDrained, HelpReturn, Borrow, GiveBack
<1>6. CASE Leave(t)
  BY <1>6 DEF Leave, ReleaseEntry
<1> QED
  BY <1>1, <1>2, <1>3, <1>4, <1>5, <1>6 DEF Continue

LEMMA ShapeFrame ==
  ASSUME IInv, [Next]_vars, NEW u \in Thread, Frame(u)
  PROVE  Shape(u)'
<1>1. chain \in Seq(Entry) /\ chain' \in Seq(Entry) /\ Len(chain) <= Len(chain')
  BY RegistryRefined, ChainStep DEF IInv, RegistryInv, RegistryTypeOK, ChainGrows
<1>2. hpos[u] \in Nat /\ pos[u] \in Nat
  BY DEF IInv, TypeOK, ScanTypeOK
<1>3. Shape(u)
  BY DEF IInv
<1> QED
  BY <1>1, <1>2, <1>3 DEF Frame, Shape, Where

LEMMA ShapeStep ==
  ASSUME IInv, NEW t \in Thread, StartAcquire(t) \/ Call(t) \/ Continue(t)
  PROVE  Shape(t)'
<1>1. /\ pc \in [Thread -> Labels] /\ cont \in [Thread -> Returns]
      /\ exiting \in [Thread -> BOOLEAN]
      /\ hpos \in [Thread -> Nat] /\ Len(chain) \in Nat
      /\ NULL \notin Entry
  BY NullIsNoEntry
  DEF IInv, TypeOK, ControlTypeOK, RegistryTypeOK, RegistryInv
<1>2. /\ stage \in [Thread -> {"none", "find", "push", "held"}]
      /\ borrowed \in [Thread -> Entry \cup {NULL}]
  BY DEF IInv, RegistryInv, RegistryTypeOK
<1>3. /\ inflight \in [Thread -> Retired \cup {NoRecord}]
      /\ NoRecord \notin Retired
  BY ClientAssumption DEF IInv, TypeOK, ClientTypeOK, NoRecord, Retired
<1>4. /\ target \in [Thread -> Cell \cup {NULL}]
      /\ slot \in [Thread -> Slot \cup {0}]
      /\ pos \in [Thread -> Nat] /\ hp \in [Thread -> Slot \cup {0}]
  BY DEF IInv, TypeOK, ProtectTypeOK, ScanTypeOK
<1>5. Shape(t)
  BY DEF IInv
<1> USE <1>1, <1>2, <1>5 DEF Shape, Where, Helping, Protecting
<1>6. CASE StartAcquire(t)
  BY <1>6 DEF StartAcquire, BeginAcquire, domainVars, clientVars, protectVars,
              scanVars
<1>7. CASE GoOnAcquiring(t)
  <2> USE DEF domainVars, clientVars, protectVars, scanVars
  <2>1. CASE FindFree(t) \/ AllocItem(t)
    BY <1>7, <2>1 DEF GoOnAcquiring, FindFree, AllocItem
  <2>2. CASE InternalPush(t)
    <3>1. entry[t] \in Entry /\ chain \in Seq(Entry)
      BY <2>2 DEF InternalPush, IInv, RegistryInv, RegistryTypeOK
    <3>2. Len(chain') \in Nat /\ Len(chain) <= Len(chain')
      BY <2>2, <3>1 DEF InternalPush
    <3> QED
      BY <1>7, <2>2, <3>2, <1>4 DEF GoOnAcquiring, InternalPush
  <2> QED
    BY <1>7, <2>1, <2>2 DEF GoOnAcquiring, AcquireStep
<1> USE DEF Goto, CallScan, registryVars, clientVars, protectVars, scanVars
<1>8. ASSUME NEW c \in Cell, Protect(t, c)
      PROVE  Shape(t)'
  BY <1>4, <1>8 DEF Protect, FreeSlots
<1>9. ASSUME NEW c \in Cell, NEW p \in Ptr \cup {NULL}, Store(t, c, p)
      PROVE  Shape(t)'
  <2>1. cell[c] # NULL =>
          [pointer |-> cell[c], disposer |-> DisposerOf[c]] # NoRecord
    BY DEF NoRecord
  <2> QED
    BY <1>3, <1>9, <2>1 DEF Store
<1>10. ASSUME NEW g \in guards[t], ReleaseGuard(t, g)
       PROVE  Shape(t)'
  <2>1. stage[t] = "held" /\ ~ exiting[t]
    BY DEF IInv, Announced
  <2> QED
    BY <1>10, <2>1 DEF ReleaseGuard
<1>11. CASE Exit(t)
  BY <1>11 DEF Exit
<1>12. CASE ProtectLoad(t) \/ ProtectPublish(t) \/ ProtectValidate(t)
  BY <1>4, <1>12 DEF ProtectLoad, ProtectPublish, ProtectValidate
<1>13. CASE RetireFull(t)
  BY <1>13 DEF RetireFull
<1>14. CASE RetirePush(t)
  BY <1>3, <1>14 DEF RetirePush
<1>15. CASE ScanBegin(t)
  BY <1>4, <1>15 DEF ScanBegin, Returns
<1>16. CASE ScanEntry(t)
  BY <1>4, <1>16 DEF ScanEntry
<1>17. CASE ScanHazard(t)
  BY <1>4, <1>17 DEF ScanHazard, NextHazard
<1>18. CASE ScanDispose(t) \/ ScanEnd(t)
  BY <1>4, <1>18 DEF ScanDispose, ScanEnd, Returns
<1>19. CASE HelpBegin(t)
  BY <1>19 DEF HelpBegin
<1>20. CASE HelpNext(t)
  <2>1. hpos[t] # 0 => chain[hpos[t]] \in Entry
    BY DEF IInv, RegistryInv, RegistryTypeOK
  <2> QED
    BY <1>20, <2>1 DEF HelpNext, HelpReturn, Borrow
<1>21. CASE HelpPeek(t)
  BY <1>21 DEF HelpPeek, GiveBack
<1>22. CASE HelpMove(t) \/ HelpFull(t)
  BY <1>22 DEF HelpMove, HelpFull
<1>23. CASE HelpRefill(t)
  BY <1>23 DEF HelpRefill, HelpReturn, GiveBack
<1>24. CASE HelpDrained(t)
  BY <1>24 DEF HelpDrained, GiveBack
<1>25. CASE Leave(t)
  BY <1>25 DEF Leave, ReleaseEntry
<1> QED
  BY <1>6, <1>7, <1>8, <1>9, <1>10, <1>11, <1>12, <1>13, <1>14, <1>15, <1>16,
     <1>17, <1>18, <1>19, <1>20, <1>21, <1>22, <1>23, <1>24, <1>25
     DEF Call, Continue, ScanStep, HelpStep

\* A thread writes to the slots of its own entry only.
LEMMA HazardsFrame ==
  ASSUME IInv, NEW t \in Thread, StartAcquire(t) \/ Call(t) \/ Continue(t),
         NEW e \in Entry, e # entry[t]
  PROVE  hazards'[e] = hazards[e]
<1> USE DEF IInv, TypeOK, EntryTypeOK, entryVars
<1>1. CASE StartAcquire(t) \/ GoOnAcquiring(t)
  BY <1>1 DEF StartAcquire, GoOnAcquiring, domainVars
<1>2. CASE Call(t)
  BY <1>2 DEF Call, Protect, Store, ReleaseGuard, Exit
<1>3. CASE ProtectLoad(t) \/ ProtectPublish(t) \/ ProtectValidate(t)
           \/ RetireFull(t) \/ RetirePush(t)
  BY <1>3 DEF ProtectLoad, ProtectPublish, ProtectValidate, RetireFull,
              RetirePush
<1>4. CASE ScanStep(t)
  BY <1>4 DEF ScanStep, ScanBegin, ScanEntry, ScanHazard, ScanDispose, ScanEnd
<1>5. CASE HelpStep(t)
  BY <1>5 DEF HelpStep, HelpBegin, HelpNext, HelpPeek, HelpMove, HelpFull,
              HelpRefill, HelpDrained
<1>6. CASE Leave(t)
  BY <1>6 DEF Leave
<1> QED
  BY <1>1, <1>2, <1>3, <1>4, <1>5, <1>6 DEF Continue

LEMMA AnnouncedFrame ==
  ASSUME IInv, NEW t \in Thread, StartAcquire(t) \/ Call(t) \/ Continue(t),
         NEW u \in Thread, u # t
  PROVE  Announced(u)'
<1>1. Frame(u)
  BY OthersFrame
<1>2. stage[u] = "held" =>
        entry[u] \in Entry /\ hazards'[entry[u]] = hazards[entry[u]]
  <2>1. stage[u] = "held" => entry[u] \in Entry /\ entry[u] # NULL
    <3>1. entry[u] \in Entry \cup {NULL}
      BY DEF IInv, RegistryInv, RegistryTypeOK
    <3>2. stage[u] = "held" => entry[u] # NULL
      BY DEF IInv, RegistryInv
    <3> QED
      BY <3>1, <3>2
  <2>2. entry[u] \in Entry /\ entry[u] # NULL => entry[u] # entry[t]
    BY DEF IInv, RegistryInv, ExclusiveEntry, Owns
  <2> QED
    BY <2>1, <2>2, HazardsFrame
<1>3. Announced(u) /\ Shape(u)
  BY DEF IInv
<1> QED
  BY <1>1, <1>2, <1>3 DEF Frame, Announced, Shape, Protecting

LEMMA AnnouncedStep ==
  ASSUME IInv, NEW t \in Thread, StartAcquire(t) \/ Call(t) \/ Continue(t)
  PROVE  Announced(t)'
<1>1. /\ pc \in [Thread -> Labels] /\ exiting \in [Thread -> BOOLEAN]
      /\ stage \in [Thread -> {"none", "find", "push", "held"}]
      /\ guards \in [Thread -> SUBSET Guard]
      /\ \A g \in guards[t] : g \in Guard
  BY DEF IInv, TypeOK, ControlTypeOK, RegistryInv, RegistryTypeOK
<1>2. /\ hazards \in [Entry -> [Slot -> Ptr \cup {NULL}]]
      /\ slot \in [Thread -> Slot \cup {0}]
      /\ value \in [Thread -> Ptr \cup {NULL}]
  BY DEF IInv, TypeOK, EntryTypeOK, ProtectTypeOK
<1>3. /\ Announced(t)
      /\ pc[t] \notin {"idle", "retire"} => stage[t] = "held"
      /\ exiting[t] => pc[t] \notin Protecting
      /\ pc[t] \in Protecting => slot[t] \in Slot
      /\ stage[t] = "held" => entry[t] \in Entry
  <2>1. Announced(t) /\ Shape(t)
    BY DEF IInv
  <2>2. exiting[t] => pc[t] \notin Protecting
    BY <2>1 DEF Shape, Where, Helping, Protecting
  <2>3. stage[t] = "held" => entry[t] \in Entry
    BY DEF IInv, RegistryInv, RegistryTypeOK
  <2> QED
    BY <2>1, <2>2, <2>3 DEF Shape
<1> USE <1>1, <1>3 DEF Announced, Protecting
<1>4. CASE StartAcquire(t)
  BY <1>4 DEF StartAcquire, BeginAcquire, domainVars, entryVars, protectVars
<1>5. CASE GoOnAcquiring(t)
  BY <1>5 DEF GoOnAcquiring, AcquireStep, FindFree, AllocItem, InternalPush,
              domainVars, entryVars, protectVars
<1> USE DEF Goto, CallScan, registryVars, entryVars, protectVars
<1>6. ASSUME NEW c \in Cell, Protect(t, c)
      PROVE  Announced(t)'
  BY <1>2, <1>6 DEF Protect, FreeSlots
<1>7. ASSUME NEW c \in Cell, NEW p \in Ptr \cup {NULL}, Store(t, c, p)
      PROVE  Announced(t)'
  BY <1>7 DEF Store
<1>8. ASSUME NEW g \in guards[t], ReleaseGuard(t, g)
      PROVE  Announced(t)'
  <2>1. \A h \in guards'[t] : h \in guards[t] /\ h.slot # g.slot
    BY <1>8 DEF ReleaseGuard
  <2> QED
    BY <1>2, <1>8, <2>1 DEF ReleaseGuard, Guard
<1>9. CASE Exit(t)
  BY <1>9 DEF Exit
<1>10. CASE ProtectLoad(t)
  BY <1>2, <1>10 DEF ProtectLoad
<1>11. CASE ProtectPublish(t)
  BY <1>2, <1>11 DEF ProtectPublish, Guard
<1>12. CASE ProtectValidate(t)
  BY <1>2, <1>12 DEF ProtectValidate
<1>13. CASE RetireFull(t) \/ RetirePush(t)
  BY <1>13 DEF RetireFull, RetirePush
<1>14. CASE ScanStep(t)
  <2>1. /\ UNCHANGED <<guards, stage, entry, exiting, hazards, slot, value>>
        /\ pc'[t] \notin Protecting
    <3>1. cont[t] \notin Protecting
      BY DEF IInv, TypeOK, ControlTypeOK, Returns
    <3> QED
      BY <1>14, <3>1 DEF ScanStep, ScanBegin, ScanEntry, ScanHazard,
                         ScanDispose, ScanEnd
  <2> QED
    BY <2>1
<1>15. CASE HelpStep(t)
  BY <1>15 DEF HelpStep, HelpBegin, HelpNext, HelpPeek, HelpMove, HelpFull,
               HelpRefill, HelpDrained, HelpReturn, Borrow, GiveBack
<1>16. CASE Leave(t)
  BY <1>16 DEF Leave, ReleaseEntry, IInv, Shape
<1> QED
  BY <1>4, <1>5, <1>6, <1>7, <1>8, <1>9, <1>10, <1>11, <1>12, <1>13, <1>14,
     <1>15, <1>16 DEF Call, Continue

LEMMA InitInv ==
  ASSUME Init
  PROVE  IInv
<1>1. RegistryInv
  BY RegistryInitInv DEF Init
<1>2. TypeOK
  BY <1>1 DEF Init, RegistryInv, TypeOK, ClientTypeOK, EntryTypeOK,
              ControlTypeOK, ProtectTypeOK, ScanTypeOK, Labels, Returns
<1>3. ASSUME NEW t \in Thread
      PROVE  Shape(t) /\ Announced(t)
  BY DEF Init, RegistryInit, Shape, Announced, Where, Helping, Protecting
<1> QED
  BY <1>1, <1>2, <1>3 DEF IInv

LEMMA IInvStep ==
  ASSUME IInv, [Next]_vars
  PROVE  IInv'
<1>1. TypeOK' /\ RegistryInv'
  BY TypeStep, RegistryKept
<1>2. ASSUME NEW u \in Thread
      PROVE  Shape(u)' /\ Announced(u)'
  <2>1. CASE UNCHANGED vars
    BY <2>1 DEF vars, registryVars, domainVars, clientVars, entryVars,
                protectVars, scanVars, IInv, Shape, Announced, Where
  <2>2. ASSUME NEW t \in Thread, StartAcquire(t) \/ Call(t) \/ Continue(t)
        PROVE  Shape(u)' /\ Announced(u)'
    <3>1. CASE u = t
      BY <2>2, <3>1, ShapeStep, AnnouncedStep
    <3>2. CASE u # t
      BY <2>2, <3>2, OthersFrame, ShapeFrame, AnnouncedFrame
    <3> QED
      BY <3>1, <3>2
  <2> QED
    BY <2>1, <2>2 DEF Next
<1> QED
  BY <1>1, <1>2 DEF IInv

LEMMA Invariant == Spec => []IInv
BY InitInv, IInvStep, PTL DEF Spec

\* Every variable keeps its type: no cursor leaves its array and no record is
\* pushed onto a list that is full.
THEOREM TypeCorrect == Spec => []TypeOK
<1>1. IInv => TypeOK
  BY DEF IInv
<1> QED
  BY Invariant, <1>1, PTL

\* No entry is ever used by two threads, neither by two that took it from the
\* list nor by a thread and a helper.
THEOREM EntriesExclusive == Spec => []ExclusiveEntry
<1>1. IInv => ExclusiveEntry
  BY DEF IInv, RegistryInv
<1> QED
  BY Invariant, <1>1, PTL

\* The domain uses the registry as EntryRegistry specifies it.
THEOREM UsesRegistry == Spec => RegistrySpec
<1>1. Init => RegistryInit
  BY DEF Init
<1> QED
  BY Invariant, RegistryRefined, <1>1, PTL DEF Spec, RegistrySpec

-----------------------------------------------------------------------------
(* A guard keeps a reference.                                              *)

LEMMA OneThreadPerEntry ==
  ASSUME IInv, NEW t \in Thread, NEW u \in Thread,
         entry[t] \in Entry, entry[u] = entry[t]
  PROVE  u = t
BY NullIsNoEntry DEF IInv, RegistryInv, ExclusiveEntry, Owns

LEMMA PendingGrows ==
  ASSUME IInv, [Next]_vars, NEW u \in Thread, NEW h, NEW s,
         pos'[u] = pos[u], hp'[u] = hp[u], Pending(u, h, s)
  PROVE  Pending(u, h, s)'
<1>1. Len(chain) \in Nat /\ Len(chain') \in Nat /\ ChainGrows
  BY RegistryRefined, ChainStep DEF IInv, RegistryInv, RegistryTypeOK
<1> QED
  BY <1>1 DEF Pending, ChainGrows

LEMMA SparedFrame ==
  ASSUME IInv, [Next]_vars, NEW u \in Thread, Frame(u),
         NEW e, NEW i, NEW h, NEW s, SparedBy(u, e, i, h, s)
  PROVE  SparedBy(u, e, i, h, s)'
BY PendingGrows DEF Frame, SparedBy

\* The steps of t that leave the references where they are: the scan of t, if
\* it goes on, spares what it had to spare.
LEMMA SparedStep ==
  ASSUME IInv, NEW t \in Thread, StartAcquire(t) \/ Call(t) \/ Continue(t),
         NEW e \in Entry, NEW i \in Place, NEW h \in Linked, NEW s \in Slot,
         acquired[h], retires[e][i].pointer = hazards[h][s],
         hazards[h][s] # NULL, SparedBy(t, e, i, h, s)
  PROVE  \E j \in Place : /\ retires[e][j].pointer = hazards[h][s]
                          /\ j = i \/ (ScanHazard(t) /\ entry[t] = e)
                          /\ SparedBy(t, e, j, h, s)'
<1>1. /\ pc \in [Thread -> Labels] /\ cont \in [Thread -> Returns]
      /\ pos \in [Thread -> Nat] /\ hp \in [Thread -> Slot \cup {0}]
      /\ marked \in [Thread -> SUBSET Place]
      /\ chain \in Seq(Entry) /\ Len(chain) \in Nat
      /\ entry \in [Thread -> Entry \cup {NULL}]
      /\ s \in Nat /\ s >= 1 /\ s <= MaxHP /\ MaxHP \in Nat
  BY PolicyAssumption DEF IInv, TypeOK, ControlTypeOK, ScanTypeOK, RegistryInv,
                          RegistryTypeOK, Slot
<1>0. pos[t] \in Nat /\ hp[t] \in Nat
  BY <1>1, PolicyAssumption DEF Slot
<1> USE <1>1, <1>0
<1>2. CASE pc'[t] # "scan"
  BY <1>2 DEF SparedBy
<1>3. CASE ScanBegin(t)
  <2>1. PICK k \in 1..Len(chain) : chain[k] = h
    BY DEF Linked
  <2>2. SUFFICES ASSUME pc'[t] = "scan" PROVE SparedBy(t, e, i, h, s)'
    BY <1>2
  <2>3. hp[t] = 0 /\ pc[t] = "begin"
    BY <1>3 DEF ScanBegin, IInv, Shape
  <2>4. pos'[t] = Len(chain)
    BY <1>3, <2>2, <2>3 DEF ScanBegin, Goto, IInv, Returns
  <2>5. hp' = hp /\ chain' = chain
    BY <1>3 DEF ScanBegin, registryVars
  <2>6. k < pos'[t] \/ (k = pos'[t] /\ hp'[t] <= s)
    BY <2>1, <2>3, <2>4, <2>5
  <2> QED
    BY <2>1, <2>5, <2>6 DEF SparedBy, Pending
<1>4. CASE ScanEntry(t)
  <2>1. /\ pc[t] = "scan" /\ pc' = pc /\ pos[t] # 0 /\ hp[t] = 0
        /\ chain' = chain /\ entry' = entry /\ marked' = marked
    BY <1>4 DEF ScanEntry, registryVars
  <2>2. CASE i \in marked[t] \/ entry[t] # e
    BY <2>1, <2>2 DEF SparedBy
  <2>3. CASE Pending(t, h, s)
    <3>1. PICK k \in 1..Len(chain) :
            chain[k] = h /\ (k < pos[t] \/ (k = pos[t] /\ hp[t] <= s))
      BY <2>3 DEF Pending
    <3>2. CASE hp' = [hp EXCEPT ![t] = 1] /\ UNCHANGED pos
      <4>1. k < pos'[t] \/ (k = pos'[t] /\ hp'[t] <= s)
        BY <3>1, <3>2
      <4> QED
        BY <2>1, <3>1, <4>1 DEF SparedBy, Pending
    <3>3. CASE /\ ~ acquired[chain[pos[t]]]
               /\ pos' = [pos EXCEPT ![t] = @ - 1] /\ UNCHANGED hp
      <4>1. k # pos[t]
        BY <3>1, <3>3
      <4>2. k < pos'[t] \/ (k = pos'[t] /\ hp'[t] <= s)
        BY <2>1, <3>1, <3>3, <4>1
      <4> QED
        BY <2>1, <3>1, <4>2 DEF SparedBy, Pending
    <3> QED
      BY <1>4, <3>2, <3>3 DEF ScanEntry
  <2> QED
    BY <2>1, <2>2, <2>3 DEF SparedBy
<1>5. CASE ScanHazard(t)
  <2> DEFINE found == Matches(t, hazards[chain[pos[t]]][hp[t]])
  <2>1. /\ pc[t] = "scan" /\ pc' = pc /\ pos[t] # 0 /\ hp[t] # 0
        /\ chain' = chain /\ entry' = entry
        /\ \/ (found = {} \/ found \cap marked[t] # {}) /\ marked' = marked
           \/ \E j \in found : marked' = [marked EXCEPT ![t] = @ \cup {j}]
        /\ NextHazard(t)
    BY <1>5 DEF ScanHazard, registryVars
  <2>2. marked[t] \subseteq marked'[t] /\ marked'[t] \subseteq Place
    BY <2>1 DEF Matches, Used
  <2>3. CASE i \in marked[t] \/ entry[t] # e
    BY <2>1, <2>2, <2>3 DEF SparedBy
  <2>4. ASSUME Pending(t, h, s), entry[t] = e
        PROVE  \E j \in Place : /\ retires[e][j].pointer = hazards[h][s]
                                /\ SparedBy(t, e, j, h, s)'
    <3>1. PICK k \in 1..Len(chain) :
            chain[k] = h /\ (k < pos[t] \/ (k = pos[t] /\ hp[t] <= s))
      BY <2>4 DEF Pending
    <3>2. CASE k = pos[t] /\ hp[t] = s
      <4>1. i \in found
        BY <2>4, <3>1, <3>2 DEF Matches, Used, NoRecord
      <4>2. \E j \in found : j \in marked'[t]
        BY <2>1, <2>2, <4>1
      <4>3. \A j \in found : j \in Place /\ retires[e][j].pointer = hazards[h][s]
        BY <2>4, <3>1, <3>2 DEF Matches, Used
      <4> QED
        BY <4>2, <4>3 DEF SparedBy
    <3>3. CASE k < pos[t] \/ (k = pos[t] /\ hp[t] < s)
      <4>1. k < pos'[t] \/ (k = pos'[t] /\ hp'[t] <= s)
        BY <2>1, <3>1, <3>3 DEF NextHazard
      <4>2. Pending(t, h, s)'
        BY <2>1, <3>1, <4>1 DEF Pending
      <4> QED
        BY <4>2 DEF SparedBy
    <3> QED
      BY <3>1, <3>2, <3>3
  <2> QED
    BY <1>5, <2>1, <2>3, <2>4 DEF SparedBy
<1>6. CASE ScanDispose(t)
  BY <1>6 DEF ScanDispose, registryVars, scanVars, SparedBy, Pending
<1>7. CASE StartAcquire(t) \/ GoOnAcquiring(t)
  <2>1. pc[t] # "scan" /\ pc' = pc
    BY <1>7 DEF StartAcquire, GoOnAcquiring, AcquireStep, FindFree, AllocItem,
                InternalPush, domainVars, IInv, Shape
  <2> QED
    BY <1>2, <2>1
<1>8. CASE \/ Call(t) \/ ProtectLoad(t) \/ ProtectPublish(t)
           \/ ProtectValidate(t) \/ RetireFull(t) \/ RetirePush(t)
           \/ ScanEnd(t) \/ HelpStep(t) \/ Leave(t)
  <2> USE DEF Goto, CallScan
  <2>1. pc'[t] # "scan"
    <3>1. CASE Call(t)
      BY <3>1 DEF Call, Protect, Store, ReleaseGuard, Exit
    <3>2. CASE ProtectLoad(t) \/ ProtectPublish(t) \/ ProtectValidate(t)
               \/ RetireFull(t) \/ RetirePush(t) \/ ScanEnd(t) \/ Leave(t)
      BY <3>2 DEF ProtectLoad, ProtectPublish, ProtectValidate, RetireFull,
                  RetirePush, ScanEnd, Leave, Returns
    <3>3. CASE HelpStep(t)
      BY <3>3 DEF HelpStep, HelpBegin, HelpNext, HelpPeek, HelpMove, HelpFull,
                  HelpRefill, HelpDrained, HelpReturn
    <3> QED
      BY <1>8, <3>1, <3>2, <3>3
  <2> QED
    BY <1>2, <2>1
<1> QED
  BY <1>3, <1>4, <1>5, <1>6, <1>7, <1>8 DEF Continue, ScanStep

LEMMA RecordSpared ==
  ASSUME IInv, NEW t \in Thread, StartAcquire(t) \/ Call(t) \/ Continue(t),
         NEW e \in Entry, NEW i \in Place, NEW h \in Linked, NEW s \in Slot,
         acquired[h], retires[e][i].pointer = hazards[h][s],
         hazards[h][s] # NULL, \A u \in Thread : SparedBy(u, e, i, h, s)
  PROVE  \E j \in Place : /\ retires[e][j].pointer = hazards[h][s]
                          /\ j = i \/ ScanHazard(t)
                          /\ \A u \in Thread : SparedBy(u, e, j, h, s)'
<1>1. PICK j \in Place : /\ retires[e][j].pointer = hazards[h][s]
                         /\ j = i \/ (ScanHazard(t) /\ entry[t] = e)
                         /\ SparedBy(t, e, j, h, s)'
  BY SparedStep
<1>2. ASSUME NEW u \in Thread, u # t
      PROVE  SparedBy(u, e, j, h, s)'
  <2>1. SparedBy(u, e, j, h, s)
    <3>1. CASE entry[t] = e
      BY <1>2, <3>1, NullIsNoEntry
      DEF SparedBy, IInv, RegistryInv, ExclusiveEntry, Owns
    <3> QED
      BY <1>1, <3>1
  <2>2. Frame(u)
    BY <1>2, OthersFrame
  <2> QED
    BY <2>1, <2>2, SparedFrame DEF Next
<1>3. ASSUME NEW u \in Thread
      PROVE  SparedBy(u, e, j, h, s)'
  BY <1>1, <1>2
<1> QED
  BY <1>1, <1>3

\* The lists change where records are pushed, disposed of and moved.
LEMMA ListsFrame ==
  ASSUME NEW t \in Thread, StartAcquire(t) \/ Call(t) \/ Continue(t)
  PROVE  RetirePush(t) \/ ScanDispose(t) \/ HelpMove(t) \/ UNCHANGED retires
<1>1. CASE StartAcquire(t) \/ GoOnAcquiring(t)
  BY <1>1 DEF StartAcquire, GoOnAcquiring, domainVars, entryVars
<1>2. CASE Call(t)
  BY <1>2 DEF Call, Protect, Store, ReleaseGuard, Exit, entryVars
<1>3. CASE ProtectLoad(t) \/ ProtectPublish(t) \/ ProtectValidate(t)
           \/ RetireFull(t) \/ Leave(t)
  BY <1>3 DEF ProtectLoad, ProtectPublish, ProtectValidate, RetireFull, Leave,
              entryVars
<1>4. CASE ScanStep(t)
  BY <1>4 DEF ScanStep, ScanBegin, ScanEntry, ScanHazard, ScanEnd, entryVars
<1>5. CASE HelpStep(t)
  BY <1>5 DEF HelpStep, HelpBegin, HelpNext, HelpPeek, HelpFull, HelpRefill,
              HelpDrained, entryVars
<1> QED
  BY <1>1, <1>2, <1>3, <1>4, <1>5 DEF Continue

\* The client's variables change in store() and when a record is pushed.
LEMMA ClientFrame ==
  ASSUME NEW t \in Thread, StartAcquire(t) \/ Call(t) \/ Continue(t)
  PROVE  \/ \E c \in Cell, p \in Ptr \cup {NULL} : Store(t, c, p)
         \/ RetirePush(t)
         \/ UNCHANGED <<cell, inflight>>
<1>1. CASE StartAcquire(t) \/ GoOnAcquiring(t)
  BY <1>1 DEF StartAcquire, GoOnAcquiring, domainVars, clientVars
<1>2. CASE Call(t)
  BY <1>2 DEF Call, Protect, ReleaseGuard, Exit, clientVars
<1>3. CASE ProtectLoad(t) \/ ProtectPublish(t) \/ ProtectValidate(t)
           \/ RetireFull(t) \/ Leave(t)
  BY <1>3 DEF ProtectLoad, ProtectPublish, ProtectValidate, RetireFull, Leave,
              clientVars
<1>4. CASE ScanStep(t)
  BY <1>4 DEF ScanStep, ScanBegin, ScanEntry, ScanHazard, ScanDispose, ScanEnd,
              clientVars
<1>5. CASE HelpStep(t)
  BY <1>5 DEF HelpStep, HelpBegin, HelpNext, HelpPeek, HelpMove, HelpFull,
              HelpRefill, HelpDrained, clientVars
<1> QED
  BY <1>1, <1>2, <1>3, <1>4, <1>5 DEF Continue

\* The record helpScan() moves goes from a place of the borrowed entry to an
\* unused one of its own.
LEMMA MovedRecord ==
  ASSUME IInv, NEW t \in Thread, HelpMove(t)
  PROVE  \E a \in Entry, b \in Entry, k \in Place, m \in Place :
           /\ a = entry[t] /\ b = borrowed[t] /\ a # b
           /\ retires[a][k] = NoRecord /\ retires[b][m] # NoRecord
           /\ retires' = [retires EXCEPT
                ![a] = [@ EXCEPT ![k] = retires[b][m]],
                ![b][m] = NoRecord]
<1>1. pc[t] = "drain" /\ ~ IsFull(entry[t])
  BY DEF HelpMove
<1>2. PICK a \in Entry : a = entry[t]
  BY <1>1 DEF IInv, Shape, RegistryInv, RegistryTypeOK
<1>3. PICK b \in Entry : b = borrowed[t] /\ b # a
  <2>1. borrowed[t] # NULL /\ borrowed[t] \in Entry \cup {NULL}
    BY <1>1 DEF IInv, Shape, Where, Helping, RegistryInv, RegistryTypeOK
  <2>2. entry[t] = borrowed[t] => entry[t] = NULL
    BY DEF IInv, RegistryInv, ExclusiveEntry
  <2> QED
    BY <1>2, <2>1, <2>2
<1>4. PICK k \in Place : /\ retires[a][k] = NoRecord
                        /\ k = CHOOSE i \in Place : retires[a][i] = NoRecord
  BY <1>1, <1>2 DEF IsFull, Used
<1>5. PICK m \in Place :
        /\ retires[borrowed[t]][m] # NoRecord
        /\ retires' = [retires EXCEPT
             ![entry[t]] = Pushed(@, retires[borrowed[t]][m]),
             ![borrowed[t]][m] = NoRecord]
  BY DEF HelpMove, Used
<1>6. \A r : Pushed(retires[a], r) = [retires[a] EXCEPT ![k] = r]
  BY <1>4 DEF Pushed
<1>7. retires' = [retires EXCEPT ![a] = [@ EXCEPT ![k] = retires[b][m]],
                                 ![b][m] = NoRecord]
  BY <1>2, <1>3, <1>5, <1>6
<1> WITNESS a \in Entry, b \in Entry, k \in Place, m \in Place
<1> QED
  BY <1>2, <1>3, <1>4, <1>5, <1>7

\* What retire() has pushed no scan is about to drop: the thread of the list
\* is not scanning it.
LEMMA PushedIsKept ==
  ASSUME IInv, NEW t \in Thread, RetirePush(t), NEW h, NEW s, NEW p,
         inflight[t].pointer = p
  PROVE  KeptRecord(h, s, p)'
<1>1. PICK a \in Entry : a = entry[t]
  BY DEF RetirePush, IInv, RegistryInv, RegistryTypeOK
<1>2. PICK k \in Place : /\ retires[a][k] = NoRecord
                        /\ k = CHOOSE i \in Place : retires[a][i] = NoRecord
  BY <1>1 DEF RetirePush, IsFull, Used
<1>3. /\ retires' = [retires EXCEPT ![a] = [@ EXCEPT ![k] = inflight[t]]]
      /\ entry' = entry /\ pc' = [pc EXCEPT ![t] = "idle"]
  BY <1>1, <1>2 DEF RetirePush, Pushed, Goto, registryVars
<1>4. retires'[a][k].pointer = p
  BY <1>3 DEF IInv, TypeOK, EntryTypeOK
<1>5. ASSUME NEW u \in Thread
      PROVE  SparedBy(u, a, k, h, s)'
  <2>1. entry'[u] = a => u = t
    BY <1>1, <1>3, OneThreadPerEntry
  <2>2. pc'[t] = "idle"
    BY <1>3 DEF IInv, TypeOK, ControlTypeOK
  <2> QED
    BY <2>1, <2>2 DEF SparedBy
<1> QED
  BY <1>4, <1>5 DEF KeptRecord

LEMMA KeptRecordStep ==
  ASSUME IInv, NEW t \in Thread, StartAcquire(t) \/ Call(t) \/ Continue(t),
         NEW h \in Linked, NEW s \in Slot, NEW p \in Ptr,
         acquired[h], hazards[h][s] = p, KeptRecord(h, s, p)
  PROVE  KeptRecord(h, s, p)'
<1> p # NULL /\ NoRecord.pointer = NULL
  BY ClientAssumption DEF NoRecord
<1>1. retires \in [Entry -> [Place -> Retired \cup {NoRecord}]]
  BY DEF IInv, TypeOK, EntryTypeOK
<1>2. PICK e \in Entry, i \in Place :
        /\ retires[e][i].pointer = p
        /\ \A u \in Thread : SparedBy(u, e, i, h, s)
  BY DEF KeptRecord
<1>3. \E j \in Place : /\ retires[e][j].pointer = p
                       /\ j = i \/ ScanHazard(t)
                       /\ \A u \in Thread : SparedBy(u, e, j, h, s)'
  BY <1>2, RecordSpared
<1>4. CASE UNCHANGED retires
  BY <1>3, <1>4 DEF KeptRecord
<1>5. CASE RetirePush(t)
  <2>1. PICK a \in Entry : a = entry[t]
    BY <1>5 DEF RetirePush, IInv, RegistryInv, RegistryTypeOK
  <2>2. PICK k \in Place : /\ retires[a][k] = NoRecord
                          /\ k = CHOOSE j \in Place : retires[a][j] = NoRecord
    BY <1>5, <2>1 DEF RetirePush, IsFull, Used
  <2>3. retires' = [retires EXCEPT ![a] = [@ EXCEPT ![k] = inflight[t]]]
    BY <1>5, <2>1, <2>2 DEF RetirePush, Pushed
  <2>4. retires'[e][i].pointer = p
    BY <1>1, <1>2, <2>2, <2>3
  <2>5. pc[t] = "retire"
    BY <1>5 DEF RetirePush
  <2>6. ~ ScanHazard(t)
    BY <2>5 DEF ScanHazard
  <2> QED
    BY <1>3, <2>4, <2>6 DEF KeptRecord
<1>6. CASE ScanDispose(t)
  <2>1. PICK k \in Used(entry[t]) \ marked[t] :
          retires' = [retires EXCEPT ![entry[t]][k] = NoRecord]
    BY <1>6 DEF ScanDispose
  <2>2. pc[t] = "scan" /\ pos[t] = 0
    BY <1>6 DEF ScanDispose
  <2>3. ~ (e = entry[t] /\ i = k)
    <3>1. ~ Pending(t, h, s)
      BY <2>2 DEF Pending, IInv, RegistryInv, RegistryTypeOK
    <3> QED
      BY <1>2, <2>1, <2>2, <3>1 DEF SparedBy
  <2>4. retires'[e][i].pointer = p
    BY <1>1, <1>2, <2>1, <2>3 DEF Used
  <2>5. ~ ScanHazard(t)
    BY <2>2 DEF ScanHazard
  <2> QED
    BY <1>3, <2>4, <2>5 DEF KeptRecord
<1>7. CASE HelpMove(t)
  <2>1. PICK a \in Entry, b \in Entry, k \in Place, m \in Place :
          /\ a = entry[t] /\ b = borrowed[t] /\ a # b
          /\ retires[a][k] = NoRecord /\ retires[b][m] # NoRecord
          /\ retires' = [retires EXCEPT
               ![a] = [@ EXCEPT ![k] = retires[b][m]],
               ![b][m] = NoRecord]
    BY <1>7, MovedRecord
  <2>2. UNCHANGED <<pc, entry>> /\ pc[t] = "drain"
    BY <1>7 DEF HelpMove, registryVars
  <2>3. ~ ScanHazard(t)
    BY <2>2 DEF ScanHazard
  <2>4. CASE e = b /\ i = m
    <3>1. retires'[a][k].pointer = p
      BY <1>1, <1>2, <2>1, <2>4
    <3>2. ASSUME NEW u \in Thread
          PROVE  SparedBy(u, a, k, h, s)'
      BY <2>1, <2>2, OneThreadPerEntry DEF SparedBy
    <3> QED
      BY <3>1, <3>2 DEF KeptRecord
  <2>5. CASE ~ (e = b /\ i = m)
    <3>1. retires'[e][i].pointer = p
      BY <1>1, <1>2, <2>1, <2>5
    <3> QED
      BY <1>3, <2>3, <3>1 DEF KeptRecord
  <2> QED
    BY <2>4, <2>5
<1> QED
  BY <1>4, <1>5, <1>6, <1>7, ListsFrame

LEMMA KeptStep ==
  ASSUME IInv, NEW t \in Thread, StartAcquire(t) \/ Call(t) \/ Continue(t),
         NEW h \in Linked, NEW s \in Slot, NEW p \in Ptr,
         acquired[h], hazards[h][s] = p, Kept(h, s, p)
  PROVE  Kept(h, s, p)'
<1> p # NULL /\ NoRecord.pointer = NULL
  BY ClientAssumption DEF NoRecord
<1>1. /\ cell \in [Cell -> Ptr \cup {NULL}]
      /\ inflight \in [Thread -> Retired \cup {NoRecord}]
  BY DEF IInv, TypeOK, ClientTypeOK
<1>2. CASE KeptRecord(h, s, p)
  BY <1>2, KeptRecordStep DEF Kept
<1>3. CASE UNCHANGED <<cell, inflight>> /\ ~ KeptRecord(h, s, p)
  BY <1>3 DEF Kept
<1>4. ASSUME NEW c \in Cell, NEW q \in Ptr \cup {NULL}, Store(t, c, q),
             ~ KeptRecord(h, s, p)
      PROVE  Kept(h, s, p)'
  <2>1. inflight[t] = NoRecord
    BY <1>4 DEF Store, IInv, Shape, Where
  <2>2. CASE cell[c] = p
    BY <1>1, <1>4, <2>2 DEF Store, Kept
  <2>3. CASE cell[c] # p
    BY <1>1, <1>4, <2>1, <2>3 DEF Store, Kept
  <2> QED
    BY <2>2, <2>3
<1>5. CASE RetirePush(t) /\ ~ KeptRecord(h, s, p)
  <2>1. CASE inflight[t].pointer = p
    BY <1>5, <2>1, PushedIsKept DEF Kept
  <2>2. CASE inflight[t].pointer # p
    BY <1>1, <1>5, <2>2 DEF RetirePush, Kept
  <2> QED
    BY <2>1, <2>2
<1> QED
  BY <1>2, <1>3, <1>4, <1>5, ClientFrame

\* The entry of a thread that holds guards has its flag set, its slots
\* announce the guarded pointers, and no other thread is about to link it.
LEMMA GuardAnnounced ==
  ASSUME IInv, NEW w \in Thread, NEW g \in guards[w]
  PROVE  /\ stage[w] = "held" /\ entry[w] \in allocated /\ acquired[entry[w]]
         /\ g \in Guard /\ hazards[entry[w]][g.slot] = g.value
         /\ \A u \in Thread : stage[u] = "push" => entry[u] # entry[w]
<1>1. stage[w] = "held" /\ hazards[entry[w]][g.slot] = g.value
  BY DEF IInv, Announced
<1>2. entry[w] \in Entry
  BY <1>1 DEF IInv, RegistryInv, RegistryTypeOK
<1>3. entry[w] \in allocated /\ acquired[entry[w]]
  BY <1>2, NullIsNoEntry DEF IInv, RegistryInv, Owns
<1>4. ASSUME NEW u \in Thread, stage[u] = "push", entry[u] = entry[w]
      PROVE  FALSE
  BY <1>1, <1>2, <1>4, OneThreadPerEntry
<1>5. g \in Guard
  BY DEF IInv, TypeOK
<1> QED
  BY <1>1, <1>3, <1>4, <1>5

\* If no push has lost its entry it is in the list.
LEMMA GuardInList ==
  ASSUME IInv, NoLostEntry, NEW w \in Thread, NEW g \in guards[w]
  PROVE  /\ entry[w] \in Linked /\ acquired[entry[w]]
         /\ g \in Guard /\ hazards[entry[w]][g.slot] = g.value
BY GuardAnnounced DEF NoLostEntry

\* Guards come and go with protect() and the release of one.
LEMMA GuardsFrame ==
  ASSUME NEW t \in Thread, StartAcquire(t) \/ Call(t) \/ Continue(t)
  PROVE  \/ \E g \in guards[t] : ReleaseGuard(t, g)
         \/ ProtectValidate(t)
         \/ UNCHANGED guards
<1>1. CASE StartAcquire(t) \/ GoOnAcquiring(t)
  BY <1>1 DEF StartAcquire, GoOnAcquiring, domainVars
<1>2. CASE Call(t)
  BY <1>2 DEF Call, Protect, Store, Exit
<1>3. CASE ProtectLoad(t) \/ ProtectPublish(t) \/ RetireFull(t)
           \/ RetirePush(t) \/ Leave(t)
  BY <1>3 DEF ProtectLoad, ProtectPublish, RetireFull, RetirePush, Leave
<1>4. CASE ScanStep(t)
  BY <1>4 DEF ScanStep, ScanBegin, ScanEntry, ScanHazard, ScanDispose, ScanEnd
<1>5. CASE HelpStep(t)
  BY <1>5 DEF HelpStep, HelpBegin, HelpNext, HelpPeek, HelpMove, HelpFull,
              HelpRefill, HelpDrained
<1> QED
  BY <1>1, <1>2, <1>3, <1>4, <1>5 DEF Continue

\* A guard is either older than the step or has just seen its pointer in the
\* cell.
LEMMA GuardsStep ==
  ASSUME IInv, NEW t \in Thread, StartAcquire(t) \/ Call(t) \/ Continue(t),
         NEW w \in Thread, NEW g \in guards'[w]
  PROVE  \/ g \in guards[w]
         \/ /\ w = t /\ ProtectValidate(t)
            /\ \E c \in Cell : cell[c] = g.value
<1>1. CASE w # t
  BY <1>1, OthersFrame DEF Frame
<1>2. CASE guards' = guards
  BY <1>2
<1>3. CASE ProtectValidate(t)
  <2>1. target[t] \in Cell /\ guards \in [Thread -> SUBSET Guard]
    BY <1>3 DEF ProtectValidate, IInv, TypeOK, Shape, Protecting
  <2>2. \/ guards' = guards
        \/ /\ value[t] = cell[target[t]]
           /\ guards' = [guards EXCEPT ![t] =
                           @ \cup {[slot |-> slot[t], value |-> value[t]]}]
    BY <1>3 DEF ProtectValidate
  <2> QED
    BY <1>1, <1>3, <2>1, <2>2
<1>4. ASSUME NEW d \in guards[t], ReleaseGuard(t, d)
      PROVE  g \in guards[w]
  BY <1>4, <1>1 DEF ReleaseGuard, IInv, TypeOK
<1> QED
  BY <1>2, <1>3, <1>4, GuardsFrame

\* The entry of a thread with guards stays its entry.
LEMMA GuardsHoldEntry ==
  ASSUME IInv, [Next]_vars, NEW w \in Thread, guards[w] # {}
  PROVE  entry'[w] = entry[w] \/ guards'[w] = {}
<1>1. stage[w] = "held" /\ ~ exiting[w]
  BY DEF IInv, Announced
<1>2. RegistryTypeOK /\ RegistryTypeOK'
  BY RegistryKept DEF IInv, RegistryInv
<1>3. CASE UNCHANGED vars
  BY <1>3 DEF vars, registryVars
<1>4. ASSUME NEW t \in Thread, StartAcquire(t) \/ Call(t) \/ Continue(t)
      PROVE  entry'[w] = entry[w]
  <2>1. CASE w # t
    BY <1>4, <2>1, OthersFrame DEF Frame
  <2>2. CASE w = t
    <3>1. ~ Leave(t)
      BY <1>1, <2>2 DEF Leave, IInv, Shape
    <3> QED
      BY <1>1, <1>4, <2>2, <3>1
      DEF StartAcquire, BeginAcquire, Call, Continue, GoOnAcquiring,
          AcquireStep, FindFree, AllocItem, InternalPush, Protect, Store,
          ReleaseGuard, Exit, ProtectLoad, ProtectPublish, ProtectValidate,
          RetireFull, RetirePush, ScanStep, ScanBegin, ScanEntry, ScanHazard,
          ScanDispose, ScanEnd, HelpStep, HelpBegin, HelpNext, HelpPeek,
          HelpMove, HelpFull, HelpRefill, HelpDrained, Borrow, GiveBack,
          registryVars
  <2> QED
    BY <2>1, <2>2
<1> QED
  BY <1>3, <1>4 DEF Next

\* It is in the list from its push on, or never.
LEMMA GuardLinkedBefore ==
  ASSUME IInv, NEW t \in Thread, StartAcquire(t) \/ Call(t) \/ Continue(t),
         NEW w \in Thread, NEW g \in guards[w],
         entry'[w] = entry[w], entry[w] \in Linked'
  PROVE  entry[w] \in Linked
<1>1. [RegistryNext]_registryVars
  BY RegistryRefined DEF Next
<1>2. CASE chain' = chain
  BY <1>2 DEF Linked
<1>3. ASSUME NEW u \in Thread, InternalPush(u)
      PROVE  entry[w] \in Linked
  <2>1. entry[u] # entry[w]
    BY <1>3, GuardAnnounced DEF InternalPush
  <2>2. chain' = chain \/ chain' = Append(chain, entry[u])
    BY <1>3 DEF InternalPush
  <2>3. chain \in Seq(Entry)
    BY DEF IInv, RegistryInv, RegistryTypeOK
  <2>4. PICK k \in 1..Len(chain') : chain'[k] = entry[w]
    BY DEF Linked
  <2>5. entry[u] \in Entry \cup {NULL}
    BY DEF IInv, RegistryInv, RegistryTypeOK
  <2>6. CASE chain' = Append(chain, entry[u])
    <3>1. k # Len(chain) + 1
      BY <2>1, <2>3, <2>4, <2>6
    <3>2. k \in 1..Len(chain) /\ chain[k] = entry[w]
      BY <2>3, <2>4, <2>6, <3>1
    <3> QED
      BY <3>2 DEF Linked
  <2> QED
    BY <1>2, <2>2, <2>6
<1> QED
  BY <1>1, <1>2, <1>3
  DEF RegistryNext, registryVars, BeginAcquire, AcquireStep, FindFree, AllocItem,
      ReleaseEntry, Borrow, GiveBack

LEMMA GuardsKeepStep ==
  ASSUME IInv, GuardsKeep, [Next]_vars
  PROVE  GuardsKeep'
<1>1. CASE UNCHANGED vars
  BY <1>1
  DEF vars, registryVars, domainVars, clientVars, entryVars, scanVars,
      GuardsKeep, Linked, Kept, KeptRecord, SparedBy, Pending
<1>2. ASSUME NEW t \in Thread, StartAcquire(t) \/ Call(t) \/ Continue(t),
             NEW w \in Thread, NEW g \in guards'[w],
             g.value # NULL, entry'[w] \in Linked'
      PROVE  Kept(entry[w], g.slot, g.value)'
  <2>1. g \in guards[w] => entry'[w] = entry[w] /\ entry[w] \in Linked
    BY <1>2, GuardsHoldEntry, GuardLinkedBefore
  <2>2. CASE g \in guards[w]
    <3>1. /\ entry[w] \in Linked /\ acquired[entry[w]]
          /\ g \in Guard /\ hazards[entry[w]][g.slot] = g.value
      BY <2>1, <2>2, GuardAnnounced
    <3>2. PICK h \in Linked : h = entry[w]
      BY <3>1
    <3>3. g.slot \in Slot /\ g.value \in Ptr
      BY <1>2, <3>1 DEF Guard
    <3>4. Kept(h, g.slot, g.value)
      BY <1>2, <2>1, <2>2, <3>2 DEF GuardsKeep
    <3>5. Kept(h, g.slot, g.value)'
      BY <1>2, <3>1, <3>2, <3>3, <3>4, KeptStep
    <3>6. h = entry'[w]
      BY <2>1, <2>2, <3>2
    <3> QED
      BY <3>5, <3>6 DEF Kept, KeptRecord, SparedBy, Pending
  <2>3. CASE ProtectValidate(t) /\ \E c \in Cell : cell[c] = g.value
    BY <2>3 DEF ProtectValidate, clientVars, Kept
  <2> QED
    BY <1>2, <2>2, <2>3, GuardsStep
<1> QED
  BY <1>1, <1>2 DEF Next, GuardsKeep

\* A reference stays with every guarded pointer: nothing the threads do
\* between protect() and the release of the guard, in whatever order, drops
\* the last reference of a control block that a guard holds, unless the push
\* of the thread that holds the guard has lost the thread's entry.
THEOREM GuardsAreSafe == Spec => []GuardKeepsReference
<1>1. Init => GuardsKeep
  BY DEF Init, GuardsKeep
<1>2. IInv /\ GuardsKeep => GuardKeepsReference
  BY DEF GuardsKeep, GuardKeepsReference, Kept, KeptRecord, Referenced
<1> QED
  BY Invariant, GuardsKeepStep, <1>1, <1>2, PTL DEF Spec

-----------------------------------------------------------------------------
(* What a scan spares.                                                     *)

\* The number of slots a scan has read, those of entries that are in nobody's
\* hands and were skipped included.
Read(t) ==
  MaxHP * (Len(chain) - pos[t]) + (IF hp[t] = 0 THEN 0 ELSE hp[t] - 1)

ScanBound(t) ==
  IF pc[t] = "scan" THEN Cardinality(marked[t]) <= Read(t)
                    ELSE marked[t] = {}

LEMMA PlacesOfAList == IsFiniteSet(Place)
BY FS_Interval, PolicyAssumption DEF Place

\* The marks of a thread change with its scan only.
LEMMA MarkedFrame ==
  ASSUME NEW t \in Thread, StartAcquire(t) \/ Call(t) \/ Continue(t)
  PROVE  ScanHazard(t) \/ ScanEnd(t) \/ UNCHANGED marked
<1>1. CASE StartAcquire(t) \/ GoOnAcquiring(t)
  BY <1>1 DEF StartAcquire, GoOnAcquiring, domainVars, scanVars
<1>2. CASE Call(t)
  BY <1>2 DEF Call, Protect, Store, ReleaseGuard, Exit, scanVars
<1>3. CASE ProtectLoad(t) \/ ProtectPublish(t) \/ ProtectValidate(t)
           \/ RetireFull(t) \/ RetirePush(t) \/ Leave(t)
  BY <1>3 DEF ProtectLoad, ProtectPublish, ProtectValidate, RetireFull,
              RetirePush, Leave, scanVars
<1>4. CASE ScanBegin(t) \/ ScanEntry(t) \/ ScanDispose(t)
  BY <1>4 DEF ScanBegin, ScanEntry, ScanDispose, scanVars
<1>5. CASE HelpStep(t)
  BY <1>5 DEF HelpStep, HelpBegin, HelpNext, HelpPeek, HelpMove, HelpFull,
              HelpRefill, HelpDrained, scanVars
<1> QED
  BY <1>1, <1>2, <1>3, <1>4, <1>5 DEF Continue, ScanStep

\* The steps that read no slot and begin no scan.
LEMMA CursorFrame ==
  ASSUME IInv, NEW t \in Thread, StartAcquire(t) \/ Call(t) \/ Continue(t),
         ~ ScanBegin(t), ~ ScanEntry(t), ~ ScanHazard(t), ~ ScanEnd(t)
  PROVE  /\ UNCHANGED <<pos, hp>>
         /\ pc'[t] = "scan" <=> pc[t] = "scan"
<1>1. /\ pc \in [Thread -> Labels] /\ cont \in [Thread -> Returns]
      /\ pc[t] = "scan" => stage[t] = "held"
  BY DEF IInv, TypeOK, ControlTypeOK, Shape
<1>2. CASE StartAcquire(t) \/ GoOnAcquiring(t)
  BY <1>2 DEF StartAcquire, GoOnAcquiring, domainVars, scanVars
<1> USE DEF Goto, CallScan, scanVars
<1>3. CASE Call(t)
  BY <1>1, <1>3 DEF Call, Protect, Store, ReleaseGuard, Exit
<1>4. CASE ProtectLoad(t) \/ ProtectPublish(t) \/ ProtectValidate(t)
           \/ RetireFull(t) \/ RetirePush(t) \/ Leave(t)
  BY <1>1, <1>4 DEF ProtectLoad, ProtectPublish, ProtectValidate, RetireFull,
                    RetirePush, Leave
<1>5. CASE ScanDispose(t)
  BY <1>1, <1>5 DEF ScanDispose
<1>6. CASE HelpStep(t)
  BY <1>1, <1>6 DEF HelpStep, HelpBegin, HelpNext, HelpPeek, HelpMove,
                    HelpFull, HelpRefill, HelpDrained, HelpReturn
<1> QED
  BY <1>2, <1>3, <1>4, <1>5, <1>6 DEF Continue, ScanStep

\* Reading one more slot, or skipping an entry, or a longer list.
LEMMA ReadNext ==
  ASSUME NEW m \in Nat, NEW l \in Nat, NEW k \in Nat, k <= l,
         NEW n \in Nat, n >= l
  PROVE  /\ m * (l - k) \in Nat /\ m * (n - k) \in Nat
         /\ m * (l - k) <= m * (n - k)
         /\ k > 0 => m * (l - (k - 1)) = m * (l - k) + m
<1>1. \A i \in Nat : m * i \in Nat /\ m * (i + 1) = m * i + m
  OBVIOUS
<1>2. l - k \in Nat /\ n - l \in Nat /\ n - k = (l - k) + (n - l)
  OBVIOUS
<1>3. \A i, j \in Nat : m * (i + j) = m * i + m * j /\ m * j \in Nat
  OBVIOUS
<1>4. m * (n - k) = m * (l - k) + m * (n - l)
  BY <1>2, <1>3
<1>5. k > 0 => l - (k - 1) = (l - k) + 1
  OBVIOUS
<1> QED
  BY <1>1, <1>2, <1>3, <1>4, <1>5

LEMMA ScanBoundStep ==
  ASSUME IInv, [Next]_vars, \A t \in Thread : ScanBound(t),
         NEW u \in Thread
  PROVE  ScanBound(u)'
<1>1. /\ Len(chain) \in Nat /\ Len(chain') \in Nat
      /\ Len(chain) <= Len(chain')
  BY RegistryRefined, ChainStep
  DEF IInv, RegistryInv, RegistryTypeOK, ChainGrows
<1>2. /\ pc \in [Thread -> Labels] /\ cont \in [Thread -> Returns]
      /\ pos \in [Thread -> Nat] /\ hp \in [Thread -> Slot \cup {0}]
      /\ marked \in [Thread -> SUBSET Place]
      /\ pc[u] = "scan" => pos[u] <= Len(chain)
      /\ ScanBound(u)
      /\ pc[u] # "scan" \/ pos[u] = 0 => hp[u] = 0
  BY DEF IInv, TypeOK, ControlTypeOK, ScanTypeOK, Shape
<1>3. /\ MaxHP \in Nat /\ MaxHP >= 1
      /\ pos[u] \in Nat /\ hp[u] \in Nat /\ hp[u] <= MaxHP
  BY <1>2, PolicyAssumption DEF Slot
<1>4. IsFiniteSet(marked[u]) /\ Cardinality(marked[u]) \in Nat
  BY <1>2, PlacesOfAList, CountIsNat
<1>5. CASE /\ pos'[u] = pos[u] /\ hp'[u] = hp[u] /\ marked'[u] = marked[u]
           /\ pc'[u] = "scan" <=> pc[u] = "scan"
  <2>1. CASE pc[u] # "scan"
    BY <1>2, <1>5, <2>1 DEF ScanBound
  <2>2. CASE pc[u] = "scan"
    <3>1. PICK l \in Nat, n \in Nat, k \in Nat :
            /\ l = Len(chain) /\ n = Len(chain') /\ k = pos[u]
            /\ k <= l /\ l <= n
      BY <1>1, <1>2, <1>3, <2>2
    <3>2. /\ MaxHP * (l - k) \in Nat /\ MaxHP * (n - k) \in Nat
          /\ MaxHP * (l - k) <= MaxHP * (n - k)
      BY <1>3, <3>1, ReadNext
    <3>3. Cardinality(marked[u])
            <= MaxHP * (l - k) + (IF hp[u] = 0 THEN 0 ELSE hp[u] - 1)
      BY <1>2, <2>2, <3>1 DEF ScanBound, Read
    <3>4. Cardinality(marked[u])
            <= MaxHP * (n - k) + (IF hp[u] = 0 THEN 0 ELSE hp[u] - 1)
      BY <1>3, <1>4, <3>2, <3>3
    <3> QED
      BY <1>5, <2>2, <3>1, <3>4 DEF ScanBound, Read
  <2> QED
    BY <2>1, <2>2
<1>6. CASE UNCHANGED vars
  BY <1>5, <1>6 DEF vars, domainVars, scanVars
<1>7. ASSUME NEW t \in Thread, StartAcquire(t) \/ Call(t) \/ Continue(t), t # u
      PROVE  ScanBound(u)'
  BY <1>5, <1>7, OthersFrame DEF Frame
<1>8. CASE ScanBegin(u)
  <2>1. hp' = hp /\ hp[u] = 0 /\ marked' = marked /\ marked[u] = {} /\ chain' = chain
    BY <1>2, <1>8 DEF ScanBegin, ScanBound, registryVars
  <2>2. CASE pc'[u] # "scan"
    BY <2>1, <2>2 DEF ScanBound
  <2>3. CASE pc'[u] = "scan"
    <3>1. pos'[u] = Len(chain)
      BY <1>2, <1>8, <2>3 DEF ScanBegin, Goto, Returns
    <3>2. Len(chain) - Len(chain) = 0 /\ MaxHP * 0 = 0
      BY <1>1, <1>3
    <3>3. Read(u)' = 0
      BY <2>1, <3>1, <3>2 DEF Read
    <3>4. Cardinality(marked'[u]) = 0
      BY <2>1, FS_EmptySet
    <3> QED
      BY <2>3, <3>3, <3>4 DEF ScanBound
  <2> QED
    BY <2>2, <2>3
<1>9. CASE ScanEntry(u)
  <2>1. /\ pc[u] = "scan" /\ pc' = pc /\ marked' = marked /\ chain' = chain
        /\ pos[u] # 0 /\ hp[u] = 0
        /\ \/ hp' = [hp EXCEPT ![u] = 1] /\ pos' = pos
           \/ pos' = [pos EXCEPT ![u] = @ - 1] /\ hp' = hp
    BY <1>9 DEF ScanEntry, registryVars
  <2>2. /\ MaxHP * (Len(chain) - pos[u]) \in Nat
        /\ MaxHP * (Len(chain) - (pos[u] - 1)) = MaxHP * (Len(chain) - pos[u]) + MaxHP
    BY <1>1, <1>2, <1>3, <2>1, ReadNext
  <2>3. Cardinality(marked[u]) <= MaxHP * (Len(chain) - pos[u])
    BY <1>2, <2>1, <2>2 DEF ScanBound, Read
  <2>4. Read(u)' = IF hp'[u] = 1 THEN MaxHP * (Len(chain) - pos[u])
                                 ELSE MaxHP * (Len(chain) - (pos[u] - 1))
    <3>1. CASE hp' = [hp EXCEPT ![u] = 1] /\ pos' = pos
      BY <1>2, <2>1, <2>2, <3>1 DEF Read
    <3>2. CASE pos' = [pos EXCEPT ![u] = @ - 1] /\ hp' = hp
      BY <1>2, <1>3, <2>1, <2>2, <3>2 DEF Read
    <3> QED
      BY <2>1, <3>1, <3>2
  <2>5. Cardinality(marked[u]) <= Read(u)'
    BY <1>3, <1>4, <2>2, <2>3, <2>4
  <2> QED
    BY <2>1, <2>5 DEF ScanBound
<1>10. CASE ScanHazard(u)
  <2>1. /\ pc[u] = "scan" /\ pc' = pc /\ chain' = chain
        /\ pos[u] # 0 /\ hp[u] # 0 /\ NextHazard(u)
        /\ \/ marked' = marked
           \/ \E i \in Place : marked' = [marked EXCEPT ![u] = @ \cup {i}]
    BY <1>10 DEF ScanHazard, Matches, Used, registryVars
  <2>2. PICK a \in Nat : /\ a = MaxHP * (Len(chain) - pos[u])
                        /\ MaxHP * (Len(chain) - (pos[u] - 1)) = a + MaxHP
    <3>1. /\ MaxHP * (Len(chain) - pos[u]) \in Nat
          /\ MaxHP * (Len(chain) - (pos[u] - 1))
               = MaxHP * (Len(chain) - pos[u]) + MaxHP
      BY <1>1, <1>2, <1>3, <2>1, ReadNext
    <3> QED
      BY <3>1
  <2>3. Cardinality(marked[u]) <= a + (hp[u] - 1)
    BY <1>2, <2>1, <2>2 DEF ScanBound, Read
  <2>4. /\ Cardinality(marked'[u]) \in Nat
        /\ Cardinality(marked'[u]) <= Cardinality(marked[u]) + 1
    <3>1. CASE marked' = marked
      BY <1>4, <3>1
    <3>2. ASSUME NEW i \in Place, marked' = [marked EXCEPT ![u] = @ \cup {i}]
          PROVE  /\ Cardinality(marked'[u]) \in Nat
                 /\ Cardinality(marked'[u]) <= Cardinality(marked[u]) + 1
      <4>1. marked'[u] = marked[u] \cup {i}
        BY <1>2, <3>2
      <4>2. Cardinality(marked[u] \cup {i}) = IF i \in marked[u]
                                              THEN Cardinality(marked[u])
                                              ELSE Cardinality(marked[u]) + 1
        BY <1>4, FS_AddElement
      <4> QED
        BY <1>4, <4>1, <4>2
    <3> QED
      BY <2>1, <3>1, <3>2
  <2>5. Read(u)' = a + hp[u]
    <3>1. CASE hp[u] < MaxHP
      <4>1. hp'[u] = hp[u] + 1 /\ pos' = pos
        BY <1>2, <2>1, <3>1 DEF NextHazard
      <4>2. MaxHP * (Len(chain') - pos'[u]) = a
        BY <2>1, <2>2, <4>1
      <4>3. (IF hp'[u] = 0 THEN 0 ELSE hp'[u] - 1) = hp[u]
        BY <1>3, <4>1
      <4> QED
        BY <4>2, <4>3 DEF Read
    <3>2. CASE ~ (hp[u] < MaxHP)
      <4>1. hp'[u] = 0 /\ pos'[u] = pos[u] - 1 /\ hp[u] = MaxHP
        BY <1>2, <1>3, <2>1, <3>2 DEF NextHazard
      <4>2. MaxHP * (Len(chain') - pos'[u]) = a + hp[u]
        BY <2>1, <2>2, <4>1
      <4>3. a + hp[u] + 0 = a + hp[u]
        BY <1>3
      <4> QED
        BY <4>1, <4>2, <4>3 DEF Read
    <3> QED
      BY <3>1, <3>2
  <2>6. Cardinality(marked'[u]) <= Read(u)'
    BY <1>3, <1>4, <2>3, <2>4, <2>5
  <2> QED
    BY <2>1, <2>6 DEF ScanBound
<1>11. CASE ScanEnd(u)
  <2>1. marked'[u] = {} /\ pc'[u] # "scan"
    BY <1>2, <1>11 DEF ScanEnd, Goto, Returns
  <2> QED
    BY <2>1 DEF ScanBound
<1>12. ASSUME StartAcquire(u) \/ Call(u) \/ Continue(u),
              ~ ScanBegin(u), ~ ScanEntry(u), ~ ScanHazard(u), ~ ScanEnd(u)
       PROVE  ScanBound(u)'
  BY <1>5, <1>12, MarkedFrame, CursorFrame
<1> QED
  BY <1>6, <1>7, <1>8, <1>9, <1>10, <1>11, <1>12 DEF Next

\* A scan spares at most one record per slot of the entries in the list: so a
\* list that is longer than that shrinks with every scan, whatever pointers
\* are in it and however often.
THEOREM ScanIsBounded == Spec => []ScanSparesAtMostOnePerSlot
<1> DEFINE Bound == \A t \in Thread : ScanBound(t)
<1>1. Init => Bound
  BY DEF Init, ScanBound
<1>2. IInv /\ Bound /\ [Next]_vars => Bound'
  BY ScanBoundStep
<1>3. IInv /\ Bound => ScanSparesAtMostOnePerSlot
  <2> SUFFICES ASSUME IInv, Bound, NEW t \in Thread, pc[t] = "scan", pos[t] = 0
               PROVE  Cardinality(marked[t]) <= MaxHP * Len(chain)
    BY DEF ScanSparesAtMostOnePerSlot
  <2>1. hp[t] = 0 /\ Len(chain) \in Nat /\ MaxHP \in Nat
    BY PolicyAssumption DEF IInv, Shape, TypeOK, RegistryTypeOK
  <2>2. Cardinality(marked[t]) <= Read(t)
    BY DEF ScanBound
  <2>3. Read(t) = MaxHP * Len(chain)
    BY <2>1 DEF Read
  <2> QED
    BY <2>2, <2>3
<1> QED
  BY Invariant, <1>1, <1>2, <1>3, PTL DEF Spec

-----------------------------------------------------------------------------
(* References are dropped one at a time.                                   *)

Places == Entry \X Place

LEMMA PlacesAreFinite == IsFiniteSet(Places)
BY PlacesOfAList, FiniteAssumption, FS_Product DEF Places

LEMMA OnePlace ==
  ASSUME NEW o \in Places, NEW r, NEW f, NEW g,
         \A ei \in Places : ei # o => g[ei] = f[ei]
  PROVE  /\ NumberOf(Places, f, r) \in Nat /\ NumberOf(Places, g, r) \in Nat
         /\ NumberOf(Places, g, r) + (IF f[o] = r THEN 1 ELSE 0)
              = NumberOf(Places, f, r) + (IF g[o] = r THEN 1 ELSE 0)
BY PlacesAreFinite, NumberChange

\* The three parts of RefCount, as functions of the variable they count in.
InCells(cells, p) == NumberOf(Cell, cells, p)
Inflight(records, p) ==
  NumberOf(Thread, [t \in Thread |-> records[t].pointer], p)
InLists(lists, p) ==
  NumberOf(Places, [ei \in Places |-> lists[ei[1]][ei[2]].pointer], p)

LEMMA RefCountIsSum ==
  ASSUME NEW p
  PROVE  /\ RefCount(p) = InCells(cell, p) + Inflight(inflight, p)
                            + InLists(retires, p)
         /\ RefCount(p)' = InCells(cell', p) + Inflight(inflight', p)
                             + InLists(retires', p)
<1>1. ASSUME NEW records, NEW lists
      PROVE  /\ Inflight(records, p)
                  = Cardinality({t \in Thread : records[t].pointer = p})
             /\ InLists(lists, p)
                  = Cardinality({ei \in Places :
                                   lists[ei[1]][ei[2]].pointer = p})
  <2> DEFINE f == [t \in Thread |-> records[t].pointer]
             g == [ei \in Places |-> lists[ei[1]][ei[2]].pointer]
  <2>1. ASSUME NEW t \in Thread
        PROVE  f[t] = records[t].pointer
    BY Zenon
  <2>2. ASSUME NEW ei \in Places
        PROVE  g[ei] = lists[ei[1]][ei[2]].pointer
    BY Zenon
  <2>3. /\ Inflight(records, p) = Cardinality({t \in Thread : f[t] = p})
        /\ InLists(lists, p) = Cardinality({ei \in Places : g[ei] = p})
    BY DEF Inflight, InLists, NumberOf
  <2> HIDE DEF f, g
  <2>4. /\ {t \in Thread : f[t] = p}
             = {t \in Thread : records[t].pointer = p}
        /\ {ei \in Places : g[ei] = p}
             = {ei \in Places : lists[ei[1]][ei[2]].pointer = p}
    BY <2>1, <2>2, Zenon
  <2> QED
    BY <2>3, <2>4, Zenon
<1>2. ASSUME NEW cells
      PROVE  InCells(cells, p) = Cardinality({c \in Cell : cells[c] = p})
  BY DEF InCells, NumberOf
<1>3. /\ InCells(cell, p) = Cardinality({c \in Cell : cell[c] = p})
      /\ InCells(cell', p) = Cardinality({c \in Cell : cell'[c] = p})
  BY <1>2
<1>4. /\ Inflight(inflight, p)
           = Cardinality({t \in Thread : inflight[t].pointer = p})
      /\ Inflight(inflight', p)
           = Cardinality({t \in Thread : inflight'[t].pointer = p})
  BY <1>1
<1>5. /\ InLists(retires, p)
           = Cardinality({ei \in Places :
                            retires[ei[1]][ei[2]].pointer = p})
      /\ InLists(retires', p)
           = Cardinality({ei \in Places :
                            retires'[ei[1]][ei[2]].pointer = p})
  BY <1>1
<1> QED
  BY <1>3, <1>4, <1>5 DEF RefCount, Places

LEMMA CellRefs ==
  ASSUME NEW c \in Cell, NEW f, NEW g, NEW p,
         \A d \in Cell : d # c => g[d] = f[d]
  PROVE  /\ InCells(f, p) \in Nat /\ InCells(g, p) \in Nat
         /\ InCells(g, p) + (IF f[c] = p THEN 1 ELSE 0)
              = InCells(f, p) + (IF g[c] = p THEN 1 ELSE 0)
BY FiniteAssumption, NumberChange DEF InCells

LEMMA InflightRefs ==
  ASSUME NEW t \in Thread, NEW f, NEW g, NEW p,
         \A u \in Thread : u # t => g[u] = f[u]
  PROVE  /\ Inflight(f, p) \in Nat /\ Inflight(g, p) \in Nat
         /\ Inflight(g, p) + (IF f[t].pointer = p THEN 1 ELSE 0)
              = Inflight(f, p) + (IF g[t].pointer = p THEN 1 ELSE 0)
<1> DEFINE ff == [u \in Thread |-> f[u].pointer]
           gg == [u \in Thread |-> g[u].pointer]
<1>1. \A u \in Thread : u # t => gg[u] = ff[u]
  OBVIOUS
<1>2. PICK a, b : a = f[t].pointer /\ b = g[t].pointer
  OBVIOUS
<1>3. ff[t] = a /\ gg[t] = b
  BY <1>2
<1>4. Inflight(f, p) = NumberOf(Thread, ff, p) /\ Inflight(g, p) = NumberOf(Thread, gg, p)
  BY DEF Inflight
<1> HIDE DEF ff, gg
<1>5. /\ NumberOf(Thread, ff, p) \in Nat /\ NumberOf(Thread, gg, p) \in Nat
      /\ NumberOf(Thread, gg, p) + (IF ff[t] = p THEN 1 ELSE 0)
           = NumberOf(Thread, ff, p) + (IF gg[t] = p THEN 1 ELSE 0)
  BY <1>1, FiniteAssumption, NumberChange
<1>6. /\ Inflight(f, p) \in Nat /\ Inflight(g, p) \in Nat
      /\ Inflight(g, p) + (IF a = p THEN 1 ELSE 0)
           = Inflight(f, p) + (IF b = p THEN 1 ELSE 0)
  BY <1>3, <1>4, <1>5
<1> QED
  BY <1>2, <1>6

LEMMA ListRefs ==
  ASSUME NEW e \in Entry, NEW i \in Place, NEW f, NEW g, NEW p,
         \A d \in Entry, j \in Place : (d = e /\ j = i) \/ g[d][j] = f[d][j]
  PROVE  /\ InLists(f, p) \in Nat /\ InLists(g, p) \in Nat
         /\ InLists(g, p) + (IF f[e][i].pointer = p THEN 1 ELSE 0)
              = InLists(f, p) + (IF g[e][i].pointer = p THEN 1 ELSE 0)
<1> DEFINE ff == [ei \in Places |-> f[ei[1]][ei[2]].pointer]
           gg == [ei \in Places |-> g[ei[1]][ei[2]].pointer]
<1>1. PICK o \in Places : o = <<e, i>>
  BY DEF Places
<1>2. /\ \A ei \in Places : ei # o => gg[ei] = ff[ei]
      /\ ff[o] = f[e][i].pointer /\ gg[o] = g[e][i].pointer
  BY <1>1 DEF Places
<1>3. InLists(f, p) = NumberOf(Places, ff, p) /\ InLists(g, p) = NumberOf(Places, gg, p)
  BY DEF InLists
<1> HIDE DEF ff, gg
<1>4. /\ NumberOf(Places, ff, p) \in Nat /\ NumberOf(Places, gg, p) \in Nat
      /\ NumberOf(Places, gg, p) + (IF ff[o] = p THEN 1 ELSE 0)
           = NumberOf(Places, ff, p) + (IF gg[o] = p THEN 1 ELSE 0)
  BY <1>2, OnePlace
<1> QED
  BY <1>2, <1>3, <1>4

LEMMA RefsAreNat ==
  ASSUME NEW f, NEW p
  PROVE  InCells(f, p) \in Nat /\ Inflight(f, p) \in Nat /\ InLists(f, p) \in Nat
BY FiniteAssumption, PlacesAreFinite, NumberPositive DEF InCells, Inflight, InLists

\* The record that a thread pushes is the one it had in hand.
LEMMA PushedRecord ==
  ASSUME IInv, NEW t \in Thread, RetirePush(t)
  PROVE  \E a \in Entry, k \in Place :
           /\ a = entry[t] /\ retires[a][k] = NoRecord
           /\ retires' = [retires EXCEPT ![a] = [@ EXCEPT ![k] = inflight[t]]]
<1>1. PICK a \in Entry : a = entry[t]
  BY DEF RetirePush, IInv, RegistryInv, RegistryTypeOK
<1>2. PICK k \in Place : /\ retires[a][k] = NoRecord
                        /\ k = CHOOSE i \in Place : retires[a][i] = NoRecord
  BY <1>1 DEF RetirePush, IsFull, Used
<1>3. retires' = [retires EXCEPT ![a] = [@ EXCEPT ![k] = inflight[t]]]
  BY <1>1, <1>2 DEF RetirePush, Pushed
<1> WITNESS a \in Entry, k \in Place
<1> QED
  BY <1>1, <1>2, <1>3

LEMMA DropStep ==
  ASSUME IInv, NEW t \in Thread, StartAcquire(t) \/ Call(t) \/ Continue(t),
         NEW p \in Ptr
  PROVE  \/ RefCount(p)' >= RefCount(p)
         \/ /\ RefCount(p)' = RefCount(p) - 1
            /\ pc[t] = "scan" /\ pos[t] = 0
<1> p # NULL /\ NoRecord.pointer = NULL
  BY ClientAssumption DEF NoRecord
<1>1. /\ cell \in [Cell -> Ptr \cup {NULL}]
      /\ inflight \in [Thread -> Retired \cup {NoRecord}]
      /\ retires \in [Entry -> [Place -> Retired \cup {NoRecord}]]
  BY DEF IInv, TypeOK, ClientTypeOK, EntryTypeOK
<1>2. /\ RefCount(p) = InCells(cell, p) + Inflight(inflight, p)
                         + InLists(retires, p)
      /\ RefCount(p)' = InCells(cell', p) + Inflight(inflight', p)
                          + InLists(retires', p)
  BY RefCountIsSum
<1>3. /\ InCells(cell, p) \in Nat /\ InCells(cell', p) \in Nat
      /\ Inflight(inflight, p) \in Nat /\ Inflight(inflight', p) \in Nat
      /\ InLists(retires, p) \in Nat /\ InLists(retires', p) \in Nat
  BY RefsAreNat
<1>4. ASSUME NEW c \in Cell, NEW q \in Ptr \cup {NULL}, Store(t, c, q)
      PROVE  RefCount(p)' >= RefCount(p)
  <2>1. inflight[t] = NoRecord /\ retires' = retires
    BY <1>4 DEF Store, IInv, Shape, Where, entryVars
  <2>2. /\ cell'[c] = q
        /\ \A d \in Cell : d # c => cell'[d] = cell[d]
    BY <1>1, <1>4 DEF Store
  <2>3. InCells(cell', p) + (IF cell[c] = p THEN 1 ELSE 0)
          = InCells(cell, p) + (IF q = p THEN 1 ELSE 0)
    BY <2>2, CellRefs
  <2>4. Inflight(inflight', p)
          = Inflight(inflight, p) + (IF cell[c] = p THEN 1 ELSE 0)
    <3>1. CASE cell[c] # NULL
      <4>1. /\ inflight'[t].pointer = cell[c]
            /\ \A u \in Thread : u # t => inflight'[u] = inflight[u]
        BY <1>1, <1>4, <3>1 DEF Store
      <4>2. Inflight(inflight', p) + (IF inflight[t].pointer = p THEN 1 ELSE 0)
              = Inflight(inflight, p) + (IF inflight'[t].pointer = p THEN 1 ELSE 0)
        BY <4>1, InflightRefs
      <4> QED
        BY <1>3, <2>1, <4>1, <4>2
    <3>2. CASE cell[c] = NULL
      BY <1>3, <1>4, <3>2 DEF Store
    <3> QED
      BY <3>1, <3>2
  <2> QED
    BY <1>2, <1>3, <2>1, <2>3, <2>4
<1>5. CASE RetirePush(t)
  <2>1. PICK a \in Entry, k \in Place :
          /\ a = entry[t] /\ retires[a][k] = NoRecord
          /\ retires' = [retires EXCEPT ![a] = [@ EXCEPT ![k] = inflight[t]]]
    BY <1>5, PushedRecord
  <2>2. /\ retires'[a][k] = inflight[t]
        /\ \A d \in Entry, j \in Place :
             (d = a /\ j = k) \/ retires'[d][j] = retires[d][j]
    BY <1>1, <2>1
  <2>3. InLists(retires', p) + (IF retires[a][k].pointer = p THEN 1 ELSE 0)
          = InLists(retires, p) + (IF retires'[a][k].pointer = p THEN 1 ELSE 0)
    BY <2>2, ListRefs
  <2>4. /\ cell' = cell /\ inflight'[t] = NoRecord
        /\ \A u \in Thread : u # t => inflight'[u] = inflight[u]
    BY <1>1, <1>5 DEF RetirePush
  <2>5. Inflight(inflight', p) + (IF inflight[t].pointer = p THEN 1 ELSE 0)
          = Inflight(inflight, p) + (IF inflight'[t].pointer = p THEN 1 ELSE 0)
    BY <2>4, InflightRefs
  <2> QED
    BY <1>2, <1>3, <2>1, <2>2, <2>3, <2>4, <2>5
<1>6. CASE ScanDispose(t)
  <2>1. PICK k \in Used(entry[t]) \ marked[t] :
          retires' = [retires EXCEPT ![entry[t]][k] = NoRecord]
    BY <1>6 DEF ScanDispose
  <2>2. pc[t] = "scan" /\ pos[t] = 0 /\ cell' = cell /\ inflight' = inflight
    BY <1>6 DEF ScanDispose, clientVars
  <2>3. PICK a \in Entry : a = entry[t]
    BY <2>2 DEF IInv, Shape, RegistryInv, RegistryTypeOK
  <2>4. /\ k \in Place /\ retires'[a][k] = NoRecord
        /\ \A d \in Entry, j \in Place :
             (d = a /\ j = k) \/ retires'[d][j] = retires[d][j]
    BY <1>1, <2>1, <2>3 DEF Used
  <2>5. InLists(retires', p) + (IF retires[a][k].pointer = p THEN 1 ELSE 0)
          = InLists(retires, p) + (IF retires'[a][k].pointer = p THEN 1 ELSE 0)
    BY <2>4, ListRefs
  <2> QED
    BY <1>2, <1>3, <2>2, <2>4, <2>5
<1>7. CASE HelpMove(t)
  <2>1. PICK a \in Entry, b \in Entry, k \in Place, m \in Place :
          /\ a = entry[t] /\ b = borrowed[t] /\ a # b
          /\ retires[a][k] = NoRecord /\ retires[b][m] # NoRecord
          /\ retires' = [retires EXCEPT
               ![a] = [@ EXCEPT ![k] = retires[b][m]],
               ![b][m] = NoRecord]
    BY <1>7, MovedRecord
  <2>2. PICK x : x = retires[b][m]
    OBVIOUS
  <2>3. PICK mid : mid = [retires EXCEPT ![a][k] = x]
    OBVIOUS
  <2>4. /\ retires[a][k] = NoRecord /\ mid[a][k] = x
        /\ \A d \in Entry, j \in Place :
             (d = a /\ j = k) \/ mid[d][j] = retires[d][j]
    BY <1>1, <2>1, <2>3
  <2>5. /\ mid[b][m] = x /\ retires'[b][m] = NoRecord
        /\ \A d \in Entry, j \in Place :
             (d = b /\ j = m) \/ retires'[d][j] = mid[d][j]
    BY <1>1, <2>1, <2>2, <2>3
  <2>6. InLists(mid, p) + (IF retires[a][k].pointer = p THEN 1 ELSE 0)
          = InLists(retires, p) + (IF mid[a][k].pointer = p THEN 1 ELSE 0)
    BY <2>4, ListRefs
  <2>7. InLists(retires', p) + (IF mid[b][m].pointer = p THEN 1 ELSE 0)
          = InLists(mid, p) + (IF retires'[b][m].pointer = p THEN 1 ELSE 0)
    BY <2>5, ListRefs
  <2>8. InLists(mid, p) \in Nat
    BY RefsAreNat
  <2>9. InLists(retires', p) = InLists(retires, p)
    BY <1>3, <2>4, <2>5, <2>6, <2>7, <2>8
  <2>10. cell' = cell /\ inflight' = inflight
    BY <1>7 DEF HelpMove, clientVars
  <2> QED
    BY <1>2, <1>3, <2>9, <2>10
<1>8. CASE UNCHANGED <<cell, inflight, retires>>
  BY <1>2, <1>3, <1>8
<1> QED
  BY <1>4, <1>5, <1>6, <1>7, <1>8, ListsFrame, ClientFrame

\* No step but the end of a scan drops a reference, and that one drops one:
\* neither retire() nor the adoption of a list loses a record.
THEOREM DropsAreScans == Spec => OnlyScanDrops
<1>1. IInv /\ [Next]_vars
        => [\A p \in Ptr :
              \/ RefCount(p)' >= RefCount(p)
              \/ /\ RefCount(p)' = RefCount(p) - 1
                 /\ \E t \in Thread : pc[t] = "scan" /\ pos[t] = 0]_vars
  BY DropStep DEF Next
<1> QED
  BY Invariant, <1>1, PTL DEF Spec, OnlyScanDrops

-----------------------------------------------------------------------------
(* When retire() cannot wait for ever.                                     *)

\* The comment in retire(), "Maybe dead-lock if T * HP > R", with the bound
\* that the code has: below it no thread waits in a list whose records are
\* all guarded.
NoDeadlockBelowLimit ==
  Cardinality(Thread) * MaxHP < MaxRetired => \A t \in Thread : ~ Stuck(t)

\* The slot of a guard of the thread u announces the pointer p.
GuardedBy(u, s, p) == \E g \in guards[u] : g.slot = s /\ g.value = p

\* With more places in a list than there are slots in the hands of threads, a
\* full list of different pointers has one that no guard holds, and a scan
\* started after that drops a record: there are not enough guards for all.
THEOREM RetireFindsRoom == Spec => []NoDeadlockBelowLimit
<1>1. ASSUME IInv, Cardinality(Thread) * MaxHP < MaxRetired,
             NEW t \in Thread, Stuck(t)
      PROVE  FALSE
  <2> DEFINE Guarded(i, ts) ==
               GuardedBy(ts[1], ts[2], retires[entry[t]][i].pointer)
             f == [i \in Place |-> CHOOSE ts \in Thread \X Slot : Guarded(i, ts)]
  <2>1. ASSUME NEW i \in Place
        PROVE  \E ts \in Thread \X Slot : Guarded(i, ts)
    <3>1. PICK u \in Thread : \E g \in guards[u] :
            g.value = retires[entry[t]][i].pointer
      BY <1>1 DEF Stuck
    <3>2. PICK g \in guards[u] : g.value = retires[entry[t]][i].pointer
      BY <3>1
    <3>3. g.slot \in Slot
      BY <1>1 DEF IInv, TypeOK, Guard
    <3>4. GuardedBy(u, g.slot, retires[entry[t]][i].pointer)
      BY <3>2 DEF GuardedBy
    <3>5. <<u, g.slot>> \in Thread \X Slot
      BY <3>3
    <3> QED
      BY <3>4, <3>5
  <2>2. ASSUME NEW i \in Place
        PROVE  f[i] \in Thread \X Slot /\ Guarded(i, f[i])
    BY <2>1
  <2>3. f \in [Place -> Thread \X Slot]
    BY <2>2
  <2> HIDE DEF f
  <2>4. /\ IsFiniteSet(Slot) /\ Cardinality(Slot) = MaxHP
        /\ IsFiniteSet(Place) /\ Cardinality(Place) = MaxRetired
    BY FS_Interval, PolicyAssumption DEF Slot, Place
  <2>5. /\ IsFiniteSet(Thread \X Slot)
        /\ Cardinality(Thread \X Slot) < Cardinality(Place)
    BY <1>1, <2>4, FiniteAssumption, FS_Product
  <2>6. PICK i, j \in Place : i # j /\ f[i] = f[j]
    BY <2>3, <2>4, <2>5, FS_PigeonHole
  <2>7. PICK ts \in Thread \X Slot : ts = f[i]
    BY <2>3
  <2>8. Guarded(i, ts) /\ Guarded(j, ts)
    <3> HIDE DEF Guarded
    <3> QED
      BY <2>2, <2>6, <2>7
  <2>9. PICK u \in Thread, s \in Slot : u = ts[1] /\ s = ts[2]
    OBVIOUS
  <2>10. /\ GuardedBy(u, s, retires[entry[t]][i].pointer)
         /\ GuardedBy(u, s, retires[entry[t]][j].pointer)
    BY <2>8, <2>9, Zenon
  <2>11. retires[entry[t]][i].pointer = retires[entry[t]][j].pointer
    BY <1>1, <2>10 DEF GuardedBy, IInv, Announced
  <2> QED
    BY <1>1, <2>6, <2>11 DEF Stuck
<1>2. IInv => NoDeadlockBelowLimit
  BY <1>1 DEF NoDeadlockBelowLimit
<1> QED
  BY Invariant, <1>2, PTL

-----------------------------------------------------------------------------
(* HazardPointerDomain implements Reclaimer.                               *)

\* The invariant adds two parts to that of the domain.  A blocker of a pointer
\* is a guard that still holds it, and as long as a pointer has a blocker a
\* record of it is in the lists that no scan under way can drop before that
\* guard is released.  The second part is why a scan that disposes of the last
\* record of a pointer finds it without blockers.
BlockerTypeOK ==
  /\ blockers \in [Ptr -> SUBSET (Thread \X Slot)]
  /\ \A p \in Ptr : blockers[p] \subseteq GuardsOn(p)

BlockersKeep ==
  NoLostEntry =>
    \A p \in Ptr : \A w \in Thread : \A s \in Slot :
      <<w, s>> \in blockers[p] => KeptRecord(entry[w], s, p)

DInv == IInv /\ BlockerTypeOK /\ BlockersKeep

-----------------------------------------------------------------------------

(* The bag of retired records.                                             *)

Records(lists) == [ei \in Places |-> lists[ei[1]][ei[2]]]
BagOf(lists) == [r \in Retired |-> NumberOf(Places, Records(lists), r)]

LEMMA BagIsOfTheLists == /\ RetiredBag = BagOf(retires)
                         /\ RetiredBag' = BagOf(retires')
<1>1. ASSUME NEW lists, NEW r
      PROVE  Cardinality({ei \in Entry \X Place : lists[ei[1]][ei[2]] = r})
               = NumberOf(Places, Records(lists), r)
  <2>1. {ei \in Entry \X Place : lists[ei[1]][ei[2]] = r}
          = {ei \in Places : Records(lists)[ei] = r}
    BY DEF Places, Records
  <2> QED
    BY <2>1 DEF NumberOf
<1> QED
  BY <1>1 DEF RetiredBag, BagOf

LEMMA NoRecordIsNotRetired == NoRecord \notin Retired
BY ClientAssumption DEF NoRecord, Retired

\* A place that changes from one record to another changes the number of
\* both, and of no other.
LEMMA PlaceChange ==
  ASSUME NEW e \in Entry, NEW i \in Place, NEW lists, NEW after,
         \A d \in Entry, j \in Place :
           (d = e /\ j = i) \/ after[d][j] = lists[d][j],
         NEW r \in Retired
  PROVE  /\ BagOf(lists)[r] \in Nat /\ BagOf(after)[r] \in Nat
         /\ BagOf(after)[r] + (IF lists[e][i] = r THEN 1 ELSE 0)
              = BagOf(lists)[r] + (IF after[e][i] = r THEN 1 ELSE 0)
<1> DEFINE f == Records(lists)
           g == Records(after)
<1>1. PICK o \in Places : o = <<e, i>>
  BY DEF Places
<1>2. \A ei \in Places : ei # o => g[ei] = f[ei]
  BY <1>1 DEF Places, Records
<1>3. f[o] = lists[e][i] /\ g[o] = after[e][i]
  BY <1>1 DEF Places, Records
<1>4. /\ BagOf(lists)[r] = NumberOf(Places, f, r)
      /\ BagOf(after)[r] = NumberOf(Places, g, r)
  BY DEF BagOf
<1> HIDE DEF f, g
<1>5. /\ NumberOf(Places, f, r) \in Nat /\ NumberOf(Places, g, r) \in Nat
      /\ NumberOf(Places, g, r) + (IF f[o] = r THEN 1 ELSE 0)
           = NumberOf(Places, f, r) + (IF g[o] = r THEN 1 ELSE 0)
  BY <1>2, OnePlace
<1> QED
  BY <1>3, <1>4, <1>5

\* A record in an unused place is one more of it in the bag.
LEMMA BagPush ==
  ASSUME NEW e \in Entry, NEW i \in Place, NEW lists, NEW after,
         \A d \in Entry, j \in Place :
           (d = e /\ j = i) \/ after[d][j] = lists[d][j],
         NEW x \in Retired, lists[e][i] = NoRecord, after[e][i] = x
  PROVE  BagOf(after) = [BagOf(lists) EXCEPT ![x] = @ + 1]
<1>1. ASSUME NEW r \in Retired
      PROVE  BagOf(after)[r] = IF r = x THEN BagOf(lists)[r] + 1
                               ELSE BagOf(lists)[r]
  <2>1. /\ BagOf(lists)[r] \in Nat /\ BagOf(after)[r] \in Nat
        /\ BagOf(after)[r] + (IF lists[e][i] = r THEN 1 ELSE 0)
             = BagOf(lists)[r] + (IF after[e][i] = r THEN 1 ELSE 0)
    BY PlaceChange
  <2> QED
    BY <2>1, NoRecordIsNotRetired
<1>2. BagOf(after) = [r \in Retired |-> BagOf(after)[r]]
  BY DEF BagOf
<1>3. [BagOf(lists) EXCEPT ![x] = @ + 1]
        = [r \in Retired |-> IF r = x THEN BagOf(lists)[r] + 1
                             ELSE BagOf(lists)[r]]
  BY DEF BagOf
<1> QED
  BY <1>1, <1>2, <1>3

\* A place that becomes unused is one less of its record in the bag.
LEMMA BagDrop ==
  ASSUME NEW e \in Entry, NEW i \in Place, NEW lists, NEW after,
         \A d \in Entry, j \in Place :
           (d = e /\ j = i) \/ after[d][j] = lists[d][j],
         NEW x \in Retired, lists[e][i] = x, after[e][i] = NoRecord
  PROVE  /\ BagOf(lists)[x] > 0
         /\ BagOf(after) = [BagOf(lists) EXCEPT ![x] = @ - 1]
<1>1. ASSUME NEW r \in Retired
      PROVE  /\ BagOf(lists)[r] \in Nat /\ BagOf(after)[r] \in Nat
             /\ BagOf(after)[r] + (IF r = x THEN 1 ELSE 0) = BagOf(lists)[r]
  <2>1. /\ BagOf(lists)[r] \in Nat /\ BagOf(after)[r] \in Nat
        /\ BagOf(after)[r] + (IF lists[e][i] = r THEN 1 ELSE 0)
             = BagOf(lists)[r] + (IF after[e][i] = r THEN 1 ELSE 0)
    BY PlaceChange
  <2> QED
    BY <2>1, NoRecordIsNotRetired
<1>2. BagOf(lists)[x] > 0
  BY <1>1
<1>3. BagOf(after) = [r \in Retired |-> BagOf(after)[r]]
  BY DEF BagOf
<1>4. [BagOf(lists) EXCEPT ![x] = @ - 1]
        = [r \in Retired |-> IF r = x THEN BagOf(lists)[r] - 1
                             ELSE BagOf(lists)[r]]
  BY DEF BagOf
<1>5. ASSUME NEW r \in Retired
      PROVE  BagOf(after)[r] = IF r = x THEN BagOf(lists)[r] - 1
                               ELSE BagOf(lists)[r]
  BY <1>1
<1> QED
  BY <1>2, <1>3, <1>4, <1>5

LEMMA BagIsNat ==
  ASSUME NEW lists, NEW r \in Retired
  PROVE  /\ BagOf(lists)[r] \in Nat
         /\ \A e \in Entry, i \in Place :
              lists[e][i] = r => BagOf(lists)[r] > 0
         /\ (\A e \in Entry, i \in Place : lists[e][i] # r)
              => BagOf(lists)[r] = 0
<1> DEFINE f == Records(lists)
<1>1. BagOf(lists)[r] = NumberOf(Places, f, r)
  BY DEF BagOf
<1>2. \A e \in Entry, i \in Place :
        <<e, i>> \in Places /\ f[<<e, i>>] = lists[e][i]
  BY DEF Places, Records
<1>3. \A ei \in Places : \E e \in Entry, i \in Place : ei = <<e, i>>
  BY DEF Places
<1> HIDE DEF f
<1>4. /\ NumberOf(Places, f, r) \in Nat
      /\ \A ei \in Places : f[ei] = r => NumberOf(Places, f, r) > 0
      /\ (\A ei \in Places : f[ei] # r) => NumberOf(Places, f, r) = 0
  BY PlacesAreFinite, NumberPositive
<1>5. ASSUME NEW e \in Entry, NEW i \in Place, lists[e][i] = r
      PROVE  NumberOf(Places, f, r) > 0
  BY <1>2, <1>4, <1>5
<1>6. ASSUME \A e \in Entry, i \in Place : lists[e][i] # r
      PROVE  NumberOf(Places, f, r) = 0
  BY <1>2, <1>3, <1>4, <1>6
<1> QED
  BY <1>1, <1>4, <1>5, <1>6

-----------------------------------------------------------------------------
(* The invariant.                                                          *)

\* Blockers are set anew by the push of a record, and only by that.
LEMMA JustRetiredIsPush ==
  ASSUME IInv, NEW t \in Thread, StartAcquire(t) \/ Call(t) \/ Continue(t),
         NEW p \in Ptr
  PROVE  JustRetired(p) <=> RetirePush(t) /\ inflight[t].pointer = p
<1>1. inflight \in [Thread -> Retired \cup {NoRecord}] /\ NULL \notin Ptr
  BY ClientAssumption DEF IInv, TypeOK, ClientTypeOK
<1>2. CASE RetirePush(t)
  <2>1. inflight' = [inflight EXCEPT ![t] = NoRecord]
    BY <1>2 DEF RetirePush
  <2>2. \A u \in Thread : inflight[u].pointer = p => inflight[u] # NoRecord
    BY <1>1 DEF NoRecord
  <2> QED
    BY <1>1, <1>2, <2>1, <2>2 DEF JustRetired
<1>3. CASE ~ RetirePush(t)
  <2>1. ASSUME NEW u \in Thread, inflight[u].pointer = p, inflight'[u] = NoRecord
        PROVE  FALSE
    <3>1. inflight[u] # NoRecord
      BY <1>1, <2>1 DEF NoRecord
    <3>2. PICK c \in Cell, q \in Ptr \cup {NULL} : Store(t, c, q)
      BY <1>3, <2>1, <3>1, ClientFrame
    <3>3. inflight[t] = NoRecord
      BY <3>2 DEF Store, IInv, Shape, Where
    <3>4. inflight'[u] = inflight[u]
      BY <1>1, <3>1, <3>2, <3>3 DEF Store
    <3> QED
      BY <2>1, <3>1, <3>4
  <2> QED
    BY <1>3, <2>1 DEF JustRetired
<1> QED
  BY <1>2, <1>3

\* What DNext does to the blockers of a pointer.
LEMMA BlockersChange ==
  ASSUME IInv, NEW t \in Thread, StartAcquire(t) \/ Call(t) \/ Continue(t),
         DNext, NEW p \in Ptr
  PROVE  \/ /\ RetirePush(t) /\ inflight[t].pointer = p
            /\ blockers'[p] = GuardsOn(p)
         \/ /\ ~ (RetirePush(t) /\ inflight[t].pointer = p)
            /\ blockers'[p] = blockers[p] \cap GuardsOn(p)'
BY JustRetiredIsPush DEF DNext

LEMMA BlockerTypeStep ==
  ASSUME DInv, DNext
  PROVE  BlockerTypeOK'
<1>1. PICK t \in Thread : StartAcquire(t) \/ Call(t) \/ Continue(t)
  BY DEF DNext, Next
<1>2. IInv
  BY DEF DInv
<1>3. ASSUME NEW p \in Ptr
      PROVE  blockers'[p] \subseteq GuardsOn(p)'
  <2>1. RetirePush(t) => GuardsOn(p)' = GuardsOn(p)
    BY DEF RetirePush, GuardsOn
  <2> QED
    BY <1>1, <1>2, <2>1, BlockersChange
<1>4. \A p \in Ptr : GuardsOn(p)' \subseteq Thread \X Slot
  BY DEF GuardsOn
<1>5. blockers' = [p \in Ptr |-> blockers'[p]]
  BY DEF DNext
<1> QED
  BY <1>3, <1>4, <1>5 DEF BlockerTypeOK

\* A blocker that is left has been one already, or has just been found by
\* retire().
LEMMA BlockersKeepStep ==
  ASSUME DInv, DNext
  PROVE  BlockersKeep'
<1>1. PICK t \in Thread : StartAcquire(t) \/ Call(t) \/ Continue(t)
  BY DEF DNext, Next
<1>2. IInv /\ [Next]_vars
  BY DEF DInv, DNext
<1> SUFFICES ASSUME NoLostEntry', NEW p \in Ptr, NEW w \in Thread,
                    NEW s \in Slot, <<w, s>> \in blockers'[p]
             PROVE  KeptRecord(entry[w], s, p)'
  BY DEF BlockersKeep
<1>3. NoLostEntry
  BY <1>2, RegistryRefined, LossStep DEF IInv
<1>4. PICK h : h = entry'[w]
  OBVIOUS
<1>5. KeptRecord(h, s, p)'
  <2>1. CASE RetirePush(t) /\ inflight[t].pointer = p
    BY <1>2, <2>1, PushedIsKept
  <2>2. CASE ~ (RetirePush(t) /\ inflight[t].pointer = p)
    <3>1. <<w, s>> \in blockers[p] /\ <<w, s>> \in GuardsOn(p)'
      BY <1>1, <1>2, <2>2, BlockersChange
    <3>2. PICK g \in guards[w] : g = [slot |-> s, value |-> p]
      BY <3>1 DEF DInv, BlockerTypeOK, GuardsOn
    <3>3. g \in guards'[w]
      BY <3>1, <3>2 DEF GuardsOn
    <3>4. h = entry[w]
      BY <1>2, <1>4, <3>3, <3>2, GuardsHoldEntry
    <3>5. h \in Linked /\ acquired[h] /\ hazards[h][s] = p
      BY <1>2, <1>3, <3>2, <3>4, GuardInList
    <3>6. KeptRecord(h, s, p)
      BY <1>3, <3>1, <3>4 DEF DInv, BlockersKeep
    <3> QED
      BY <1>1, <1>2, <3>5, <3>6, KeptRecordStep
  <2> QED
    BY <2>1, <2>2
<1> QED
  BY <1>4, <1>5 DEF KeptRecord, SparedBy, Pending

LEMMA DInvInit ==
  ASSUME DInit
  PROVE  DInv
<1>1. IInv
  BY InitInv DEF DInit
<1>2. BlockerTypeOK /\ BlockersKeep
  BY DEF DInit, BlockerTypeOK, BlockersKeep
<1> QED
  BY <1>1, <1>2 DEF DInv

LEMMA DInvStep ==
  ASSUME DInv, [DNext]_<<vars, blockers>>
  PROVE  DInv'
<1>1. CASE DNext
  <2>1. IInv'
    BY <1>1, IInvStep DEF DInv, DNext
  <2> QED
    BY <1>1, <2>1, BlockerTypeStep, BlockersKeepStep DEF DInv
<1>2. CASE UNCHANGED <<vars, blockers>>
  <2>1. IInv'
    BY <1>2, IInvStep DEF DInv
  <2>2. BlockerTypeOK' /\ BlockersKeep'
    BY <1>2 DEF DInv, BlockerTypeOK, BlockersKeep, GuardsOn, NoLostEntry,
                Linked, KeptRecord, SparedBy, Pending, vars, registryVars,
                domainVars, entryVars, scanVars
  <2> QED
    BY <2>1, <2>2 DEF DInv
<1> QED
  BY <1>1, <1>2

LEMMA DInvariant == DSpec => []DInv
BY DInvInit, DInvStep, PTL DEF DSpec

-----------------------------------------------------------------------------
(* The steps.                                                              *)

\* No guard is released: the blockers are the ones before.
LEMMA BlockersStay ==
  ASSUME DInv, NEW t \in Thread, StartAcquire(t) \/ Call(t) \/ Continue(t),
         DNext, ~ RetirePush(t),
         \A u \in Thread : guards[u] \subseteq guards'[u]
  PROVE  blockers' = blockers
<1>1. ASSUME NEW p \in Ptr
      PROVE  blockers'[p] = blockers[p]
  <2>1. blockers[p] \subseteq GuardsOn(p)'
    BY DEF DInv, BlockerTypeOK, GuardsOn
  <2> QED
    BY <2>1, BlockersChange DEF DInv
<1>2. blockers' = [p \in Ptr |-> blockers'[p]]
  BY DEF DNext
<1>3. blockers = [p \in Ptr |-> blockers[p]]
  BY DEF DInv, BlockerTypeOK
<1> QED
  BY <1>1, <1>2, <1>3

\* protect() takes effect where it sees its pointer in the cell again.
LEMMA ProtectImplemented ==
  ASSUME DInv, DNext, NEW t \in Thread, ProtectValidate(t)
  PROVE  (\E c \in Cell : R!Protect(t, c)) \/ UNCHANGED R!reclaimerVars
<1>1. /\ UNCHANGED <<cell, inflight>> /\ retires' = retires /\ pc[t] = "validate"
      /\ ~ RetirePush(t) /\ Continue(t)
  BY DEF ProtectValidate, RetirePush, clientVars, entryVars, Continue
<1>2. RetiredBag' = RetiredBag
  BY <1>1 DEF RetiredBag
<1>3. guards \in [Thread -> SUBSET Guard]
  BY DEF DInv, IInv, TypeOK
<1>4. \A u \in Thread : guards[u] \subseteq guards'[u]
  BY <1>3 DEF ProtectValidate
<1>5. blockers' = blockers
  BY <1>1, <1>4, BlockersStay
<1>6. CASE value[t] = cell[target[t]]
  <2>1. target[t] \in Cell /\ slot[t] \in Slot
    BY <1>1 DEF DInv, IInv, Shape, Protecting
  <2>2. \A g \in guards[t] : g.slot # slot[t]
    BY <1>1 DEF DInv, IInv, Announced, Protecting
  <2>3. guards' = [guards EXCEPT ![t] =
                    @ \cup {[slot |-> slot[t], value |-> cell[target[t]]]}]
    BY <1>6 DEF ProtectValidate
  <2>4. R!Protect(t, target[t])
    BY <1>1, <1>2, <1>5, <2>1, <2>2, <2>3 DEF R!Protect
  <2> QED
    BY <2>1, <2>4
<1>7. CASE value[t] # cell[target[t]]
  BY <1>1, <1>2, <1>5, <1>7 DEF ProtectValidate, R!reclaimerVars
<1> QED
  BY <1>6, <1>7

LEMMA ReleaseImplemented ==
  ASSUME DInv, DNext, NEW t \in Thread, NEW g \in guards[t],
         ReleaseGuard(t, g)
  PROVE  R!ReleaseGuard(t, g)
<1>1. /\ UNCHANGED <<cell, inflight>> /\ retires' = retires /\ pc[t] = "idle"
      /\ guards' = [guards EXCEPT ![t] = @ \ {g}]
      /\ ~ RetirePush(t) /\ Call(t)
  BY DEF ReleaseGuard, RetirePush, clientVars, Call
<1>2. RetiredBag' = RetiredBag
  BY <1>1 DEF RetiredBag
<1>3. /\ guards \in [Thread -> SUBSET Guard] /\ g \in Guard
      /\ \A h \in guards[t] : h.slot = g.slot => h = g
      /\ blockers \in [Ptr -> SUBSET (Thread \X Slot)]
      /\ \A p \in Ptr : blockers[p] \subseteq GuardsOn(p)
  BY DEF DInv, IInv, TypeOK, Announced, BlockerTypeOK
<1>4. ASSUME NEW p \in Ptr
      PROVE  blockers'[p] = blockers[p] \ {<<t, g.slot>>}
  <2>1. blockers'[p] = blockers[p] \cap GuardsOn(p)'
    BY <1>1, BlockersChange DEF DInv
  <2>2. ASSUME NEW u \in Thread, NEW s \in Slot, <<u, s>> \in blockers[p]
        PROVE  <<u, s>> \in GuardsOn(p)' <=> ~ (u = t /\ s = g.slot)
    <3>1. [slot |-> s, value |-> p] \in guards[u]
      BY <1>3, <2>2 DEF GuardsOn
    <3>2. CASE u = t
      <4>1. [slot |-> s, value |-> p] = g <=> s = g.slot
        BY <1>3, <3>1, <3>2
      <4>2. [slot |-> s, value |-> p] \in guards'[u]
              <=> [slot |-> s, value |-> p] # g
        BY <1>1, <1>3, <3>1, <3>2
      <4> QED
        BY <3>2, <4>1, <4>2 DEF GuardsOn
    <3>3. CASE u # t
      BY <1>1, <1>3, <3>1, <3>3 DEF GuardsOn
    <3> QED
      BY <3>2, <3>3
  <2>3. \A ts \in blockers[p] : \E u \in Thread, s \in Slot : ts = <<u, s>>
    BY <1>3
  <2> QED
    BY <2>1, <2>2, <2>3
<1>5. blockers' = [p \in Ptr |-> blockers[p] \ {<<t, g.slot>>}]
  BY <1>4 DEF DNext
<1> QED
  BY <1>1, <1>2, <1>5 DEF R!ReleaseGuard

LEMMA StoreImplemented ==
  ASSUME DInv, DNext, NEW t \in Thread, NEW c \in Cell,
         NEW p \in Ptr \cup {NULL}, Store(t, c, p),
         StartAcquire(t) \/ Call(t) \/ Continue(t)
  PROVE  R!Overwrite(t, c, p)
<1>1. /\ guards' = guards /\ retires' = retires /\ pc[t] = "idle"
      /\ ~ RetirePush(t)
  BY DEF Store, RetirePush, entryVars
<1>2. RetiredBag' = RetiredBag
  BY <1>1 DEF RetiredBag
<1>3. blockers' = blockers
  BY <1>1, BlockersStay
<1>4. inflight[t] = NoRecord
  BY <1>1 DEF DInv, IInv, Shape, Where
<1> QED
  BY <1>1, <1>2, <1>3, <1>4 DEF Store, R!Overwrite, R!NoRecord, NoRecord

LEMMA RetireImplemented ==
  ASSUME DInv, DNext, NEW t \in Thread, RetirePush(t)
  PROVE  R!Retire(t)
<1>1. /\ retires \in [Entry -> [Place -> Retired \cup {NoRecord}]]
      /\ inflight \in [Thread -> Retired \cup {NoRecord}]
      /\ pc[t] = "retire" /\ Continue(t) /\ IInv
  BY DEF DInv, IInv, TypeOK, EntryTypeOK, ClientTypeOK, RetirePush, Continue
<1>2. inflight[t] # NoRecord
  BY <1>1 DEF IInv, Shape, Where
<1>3. PICK x \in Retired : x = inflight[t]
  BY <1>1, <1>2
<1>4. PICK a \in Entry : a = entry[t]
  BY DEF RetirePush, DInv, IInv, RegistryInv, RegistryTypeOK
<1>5. PICK k \in Place : /\ retires[a][k] = NoRecord
                        /\ k = CHOOSE i \in Place : retires[a][i] = NoRecord
  BY <1>4 DEF RetirePush, IsFull, Used
<1>6. retires' = [retires EXCEPT ![a][k] = x]
  BY <1>3, <1>4, <1>5 DEF RetirePush, Pushed
<1>7. RetiredBag' = [RetiredBag EXCEPT ![x] = @ + 1]
  <2>1. /\ retires[a][k] = NoRecord /\ retires'[a][k] = x
        /\ \A d \in Entry, j \in Place :
             (d = a /\ j = k) \/ retires'[d][j] = retires[d][j]
    BY <1>1, <1>5, <1>6
  <2>2. BagOf(retires') = [BagOf(retires) EXCEPT ![x] = @ + 1]
    BY <2>1, BagPush
  <2> QED
    BY <2>2, BagIsOfTheLists
<1>8. x.pointer \in Ptr /\ R!GuardsOn(x.pointer) = GuardsOn(x.pointer)
  BY DEF Retired, R!GuardsOn, GuardsOn
<1>9. blockers' = [blockers EXCEPT ![x.pointer] = GuardsOn(x.pointer)]
  <2>1. ASSUME NEW p \in Ptr, p # x.pointer
        PROVE  blockers'[p] = blockers[p]
    <3>1. GuardsOn(p)' = GuardsOn(p)
      BY DEF RetirePush, GuardsOn
    <3>2. blockers'[p] = blockers[p] \cap GuardsOn(p)'
      BY <1>1, <1>3, <2>1, BlockersChange
    <3> QED
      BY <3>1, <3>2 DEF DInv, BlockerTypeOK
  <2>2. blockers'[x.pointer] = GuardsOn(x.pointer)
    BY <1>1, <1>3, <1>8, BlockersChange
  <2>3. /\ blockers' = [p \in Ptr |-> blockers'[p]]
        /\ blockers \in [Ptr -> SUBSET (Thread \X Slot)]
    BY DEF DNext, DInv, BlockerTypeOK
  <2> QED
    BY <1>8, <2>1, <2>2, <2>3
<1>10. inflight' = [inflight EXCEPT ![t] = NoRecord] /\ UNCHANGED <<cell, guards>>
  BY DEF RetirePush
<1> QED
  BY <1>2, <1>3, <1>7, <1>8, <1>9, <1>10 DEF R!Retire, R!NoRecord, NoRecord

\* The record that is disposed of is not the last one, or it has no blockers.
LEMMA DisposeImplemented ==
  ASSUME DInv, DInv', NoLostEntry', DNext, NEW t \in Thread, ScanDispose(t)
  PROVE  \E r \in Retired : R!Dispose(r)
<1>1. /\ retires \in [Entry -> [Place -> Retired \cup {NoRecord}]]
      /\ retires' \in [Entry -> [Place -> Retired \cup {NoRecord}]]
      /\ pc[t] = "scan" /\ Continue(t)
      /\ UNCHANGED <<cell, inflight, guards>>
      /\ ~ RetirePush(t)
  BY DEF DInv, IInv, TypeOK, EntryTypeOK, ScanDispose, clientVars, Continue,
         ScanStep, RetirePush
<1>2. PICK a \in Entry : a = entry[t]
  BY <1>1 DEF DInv, IInv, Shape, RegistryInv, RegistryTypeOK
<1>3. PICK k \in Place : /\ retires[a][k] # NoRecord
                        /\ retires' = [retires EXCEPT ![a][k] = NoRecord]
  BY <1>2 DEF ScanDispose, Used
<1>4. PICK x \in Retired : x = retires[a][k]
  BY <1>1, <1>3
<1>5. RetiredBag[x] > 0 /\ RetiredBag' = [RetiredBag EXCEPT ![x] = @ - 1]
  <2>1. /\ retires'[a][k] = NoRecord
        /\ \A d \in Entry, j \in Place :
             (d = a /\ j = k) \/ retires'[d][j] = retires[d][j]
    BY <1>1, <1>3
  <2>2. /\ BagOf(retires)[x] > 0
        /\ BagOf(retires') = [BagOf(retires) EXCEPT ![x] = @ - 1]
    BY <1>4, <2>1, BagDrop
  <2> QED
    BY <2>2, BagIsOfTheLists
<1>6. blockers' = blockers
  BY <1>1, BlockersStay
<1>7. PICK p \in Ptr : p = x.pointer
  BY DEF Retired
<1>8. blockers[p] = {} \/ R!StillRetired(p)'
  <2> SUFFICES ASSUME blockers[p] # {}
               PROVE  R!StillRetired(p)'
    OBVIOUS
  <2>1. PICK w \in Thread, s \in Slot : <<w, s>> \in blockers'[p]
    BY <1>6 DEF DInv, BlockerTypeOK
  <2>2. KeptRecord(entry[w], s, p)'
    BY <2>1 DEF DInv, BlockersKeep
  <2>3. PICK e \in Entry, i \in Place : retires'[e][i].pointer = p
    BY <2>2 DEF KeptRecord
  <2>4. PICK y \in Retired : y = retires'[e][i]
    BY <1>1, <2>3, ClientAssumption DEF NoRecord
  <2>5. RetiredBag'[y] > 0
    BY <2>4, BagIsNat, BagIsOfTheLists
  <2>6. y.disposer \in Disposer /\ y = [pointer |-> p, disposer |-> y.disposer]
    BY <2>3, <2>4 DEF Retired
  <2> QED
    BY <2>5, <2>6 DEF R!StillRetired
<1>9. R!Dispose(x)
  BY <1>1, <1>5, <1>6, <1>7, <1>8 DEF R!Dispose, R!StillRetired
<1> QED
  BY <1>9

\* helpScan() moves a record from one list to another: the bag is the same.
LEMMA MoveImplemented ==
  ASSUME DInv, DNext, NEW t \in Thread, HelpMove(t)
  PROVE  UNCHANGED R!reclaimerVars
<1>1. /\ retires \in [Entry -> [Place -> Retired \cup {NoRecord}]]
      /\ pc[t] = "drain" /\ Continue(t)
      /\ UNCHANGED <<cell, inflight, guards>>
      /\ ~ RetirePush(t)
  BY DEF DInv, IInv, TypeOK, EntryTypeOK, HelpMove, clientVars, Continue,
         HelpStep, RetirePush
<1>2. PICK a \in Entry, b \in Entry, k \in Place, m \in Place :
        /\ a = entry[t] /\ b = borrowed[t] /\ a # b
        /\ retires[a][k] = NoRecord /\ retires[b][m] # NoRecord
        /\ retires' = [retires EXCEPT
             ![a] = [@ EXCEPT ![k] = retires[b][m]],
             ![b][m] = NoRecord]
  BY MovedRecord DEF DInv
<1>3. PICK x \in Retired : x = retires[b][m]
  BY <1>1, <1>2
<1>4. PICK mid :
        mid = [retires EXCEPT ![a][k] = x]
  BY <1>1
<1>5. /\ retires[a][k] = NoRecord /\ mid[a][k] = x
      /\ \A d \in Entry, j \in Place :
           (d = a /\ j = k) \/ mid[d][j] = retires[d][j]
  BY <1>1, <1>2, <1>4
<1>6. /\ mid[b][m] = x /\ retires'[b][m] = NoRecord
      /\ \A d \in Entry, j \in Place :
           (d = b /\ j = m) \/ retires'[d][j] = mid[d][j]
  BY <1>1, <1>2, <1>3, <1>4
<1>7. /\ BagOf(mid) = [BagOf(retires) EXCEPT ![x] = @ + 1]
      /\ BagOf(retires') = [BagOf(mid) EXCEPT ![x] = @ - 1]
  <2>1. BagOf(mid) = [BagOf(retires) EXCEPT ![x] = @ + 1]
    BY <1>5, BagPush
  <2>2. BagOf(retires') = [BagOf(mid) EXCEPT ![x] = @ - 1]
    BY <1>6, BagDrop
  <2> QED
    BY <2>1, <2>2
<1>8. BagOf(retires) \in [Retired -> Nat]
  BY BagIsNat DEF BagOf
<1>9. BagOf(retires') = BagOf(retires)
  BY <1>7, <1>8
<1>10. RetiredBag' = RetiredBag
  BY <1>9, BagIsOfTheLists
<1>11. blockers' = blockers
  BY <1>1, BlockersStay
<1> QED
  BY <1>1, <1>10, <1>11 DEF R!reclaimerVars

\* Every step of the domain is a step of the promise, or none.
LEMMA StepImplemented ==
  ASSUME DInv, DInv', NoLostEntry', DNext
  PROVE  R!ReclaimerNext \/ UNCHANGED R!reclaimerVars
<1>1. PICK t \in Thread : StartAcquire(t) \/ Call(t) \/ Continue(t)
  BY DEF DNext, Next
<1>2. CASE RetirePush(t)
  BY <1>2, RetireImplemented DEF R!ReclaimerNext
<1>3. CASE ScanDispose(t)
  BY <1>3, DisposeImplemented DEF R!ReclaimerNext, R!Retired, Retired
<1>4. CASE HelpMove(t)
  BY <1>4, MoveImplemented
<1>5. CASE ProtectValidate(t)
  BY <1>5, ProtectImplemented DEF R!ReclaimerNext
<1>6. ASSUME NEW g \in guards[t], ReleaseGuard(t, g)
      PROVE  R!ReclaimerNext
  BY <1>6, ReleaseImplemented DEF R!ReclaimerNext
<1>7. ASSUME NEW c \in Cell, NEW p \in Ptr \cup {NULL}, Store(t, c, p)
      PROVE  R!ReclaimerNext
  BY <1>1, <1>7, StoreImplemented DEF R!ReclaimerNext
<1>8. CASE UNCHANGED <<cell, inflight, guards, retires>> /\ ~ RetirePush(t)
  <2>1. RetiredBag' = RetiredBag
    BY <1>8 DEF RetiredBag
  <2>2. blockers' = blockers
    BY <1>1, <1>8, BlockersStay
  <2> QED
    BY <1>8, <2>1, <2>2 DEF R!reclaimerVars
<1> QED
  BY <1>1, <1>2, <1>3, <1>4, <1>5, <1>6, <1>7, <1>8, ListsFrame, ClientFrame,
     GuardsFrame

\* The domain keeps the promise that the pointers are built on, until a push
\* loses an entry: whatever is announced, scanned, adopted and given up, a
\* record is disposed of only while its pointer has another one or no guard
\* older than the latest retire() of it.
THEOREM ReclaimerImplemented == DSpec => ImplementsReclaimer
<1>1. DInit => R!ReclaimerInit
  <2> SUFFICES ASSUME DInit PROVE R!ReclaimerInit
    OBVIOUS
  <2>1. RetiredBag = [r \in Retired |-> 0]
    <3>1. \A e \in Entry, i \in Place : retires[e][i] = NoRecord
      BY DEF DInit, Init
    <3>2. \A r \in Retired : BagOf(retires)[r] = 0
      BY <3>1, BagIsNat, NoRecordIsNotRetired
    <3> QED
      BY <3>2, BagIsOfTheLists DEF BagOf
  <2> QED
    BY <2>1 DEF DInit, Init, R!ReclaimerInit, R!NoRecord, NoRecord, R!Retired,
                Retired
<1>2. DInv /\ DInv' /\ [DNext]_<<vars, blockers>>
        => [NoLostEntry' => R!ReclaimerNext \/ UNCHANGED R!reclaimerVars]_<<vars, blockers>>
  BY StepImplemented
<1> QED
  BY DInvariant, <1>1, <1>2, PTL DEF DSpec, ImplementsReclaimer
=============================================================================
