------------------------ MODULE HazardPointerDomain ------------------------
(***************************************************************************)
(* HazardPointerDomain: protect(), the release of a GuardedPtr, retire(),  *)
(* scan(), helpScan() and the exit of a thread, one action per access to   *)
(* memory that several threads share.                                      *)
(*                                                                         *)
(* The clients are the AtomicSharedPtr and AtomicWeakPtr objects: a cell   *)
(* is the atomic pointer inside one of them.  A non-null cell owns one     *)
(* reference of the control block it points to; overwriting the cell moves *)
(* that reference to the overwriting thread (inflight), retire() moves it  *)
(* to a retired list, and disposing of the record drops it.  The same      *)
(* pointer can be in several cells and several times in the lists.         *)
(***************************************************************************)
EXTENDS EntryRegistry, FiniteSets

CONSTANTS
  MaxHP, MaxRetired, ScanDelay,   \* the three numbers of the policy
  Ptr,                            \* addresses of control blocks
  Cell,                           \* the client's atomic pointers
  Disposer,                       \* decrementRef, decrementWeakRef
  DisposerOf,                     \* the disposer each cell retires with
  Readers, Writers                \* the threads whose client loads, stores

ASSUME PolicyAssumption ==
  /\ MaxHP \in Nat \ {0}
  /\ MaxRetired \in Nat \ {0}
  /\ ScanDelay \in Nat \ {0}

ASSUME ClientAssumption ==
  /\ NULL \notin Ptr
  /\ DisposerOf \in [Cell -> Disposer]

\* The references are counted: a process has finitely many threads and
\* objects, and a heap with room for finitely many entries.
ASSUME FiniteAssumption ==
  IsFiniteSet(Thread) /\ IsFiniteSet(Entry) /\ IsFiniteSet(Cell)

Slot == 1..MaxHP                  \* HazardPtrList::hazards_
Place == 1..MaxRetired            \* RetiredList::retires_
Retired == [pointer : Ptr, disposer : Disposer]
NoRecord == [pointer |-> NULL, disposer |-> NULL]
Guard == [slot : Slot, value : Ptr \cup {NULL}]

VARIABLES
  cell,       \* the client's atomic pointers
  inflight,   \* the record a thread is about to retire, NoRecord if none
  hazards,    \* ThreadData::hazards, what each slot announces
  ticks,      \* ThreadData::ticks modulo ScanDelay
  retires,    \* ThreadData::retires, with NoRecord in an unused place
  guards,     \* the GuardedPtr objects of a thread
  pc,         \* where a thread is inside the domain
  cont,       \* where it goes on after scan(ThreadData &)
  exiting,    \* it runs ~EntryHolder()
  target, slot, value,   \* protect(): ptr, hazard_ptr, result
  pos, hp, marked,       \* scan(): thread_it, hp, hazards_
  hpos                   \* helpScan(): thread_it

clientVars == <<cell, inflight>>
entryVars == <<hazards, ticks, retires>>
protectVars == <<target, slot, value>>
scanVars == <<pos, hp, marked>>
domainVars == <<clientVars, entryVars, guards, pc, cont, exiting, protectVars,
                scanVars, hpos>>
vars == <<registryVars, domainVars>>

Used(e) == {i \in Place : retires[e][i] # NoRecord}
IsEmpty(e) == Used(e) = {}
IsFull(e) == Used(e) = Place

\* HazardPtrList::free_: the slots of the thread that no GuardedPtr holds.
FreeSlots(t) == Slot \ {g.slot : g \in guards[t]}

Goto(t, l) == pc' = [pc EXCEPT ![t] = l]
CallScan(t, l) == Goto(t, "begin") /\ cont' = [cont EXCEPT ![t] = l]

\* RetiredList::pushBack() of a record onto a list.  The order of the places
\* means nothing (scan sorts the list), so the record takes any unused one.
Pushed(list, r) ==
  [list EXCEPT ![CHOOSE i \in Place : list[i] = NoRecord] = r]

Init ==
  /\ RegistryInit
  /\ cell = [c \in Cell |-> NULL]
  /\ inflight = [t \in Thread |-> NoRecord]
  /\ hazards = [e \in Entry |-> [s \in Slot |-> NULL]]
  /\ ticks = [e \in Entry |-> 0]
  /\ retires = [e \in Entry |-> [i \in Place |-> NoRecord]]
  /\ guards = [t \in Thread |-> {}]
  /\ pc = [t \in Thread |-> "idle"]
  /\ cont = [t \in Thread |-> "idle"]
  /\ exiting = [t \in Thread |-> FALSE]
  /\ target = [t \in Thread |-> NULL]
  /\ slot = [t \in Thread |-> 0]
  /\ value = [t \in Thread |-> NULL]
  /\ pos = [t \in Thread |-> 0]
  /\ hp = [t \in Thread |-> 0]
  /\ marked = [t \in Thread |-> {}]
  /\ hpos = [t \in Thread |-> 0]

-----------------------------------------------------------------------------
(* entries_.getValue(): a thread without an entry acquires one at the      *)
(* first call that needs it, which is protect() or, with the old pointer   *)
(* already taken out of its cell, retire().                                *)

StartAcquire(t) ==
  /\ pc[t] \in {"idle", "retire"}
  /\ BeginAcquire(t)
  /\ UNCHANGED domainVars

GoOnAcquiring(t) == AcquireStep(t) /\ UNCHANGED domainVars

-----------------------------------------------------------------------------
(* protect() and the GuardedPtr it returns.                                *)

\* acquireHP(); the assertion !full() in HazardPtrList::acquire() makes a
\* free slot the caller's obligation.
Protect(t, c) ==
  /\ pc[t] = "idle"
  /\ stage[t] = "held"
  /\ \E s \in FreeSlots(t) : slot' = [slot EXCEPT ![t] = s]
  /\ target' = [target EXCEPT ![t] = c]
  /\ Goto(t, "load")
  /\ UNCHANGED <<registryVars, clientVars, entryVars, guards, cont, exiting,
                 value, scanVars, hpos>>

\* result = ptr.load()
ProtectLoad(t) ==
  /\ pc[t] = "load"
  /\ value' = [value EXCEPT ![t] = cell[target[t]]]
  /\ Goto(t, "publish")
  /\ UNCHANGED <<registryVars, clientVars, entryVars, guards, cont, exiting,
                 target, slot, scanVars, hpos>>

\* hazard_ptr->store(result)
ProtectPublish(t) ==
  /\ pc[t] = "publish"
  /\ hazards' = [hazards EXCEPT ![entry[t]][slot[t]] = value[t]]
  /\ Goto(t, "validate")
  /\ UNCHANGED <<registryVars, clientVars, ticks, retires, guards, cont,
                 exiting, protectVars, scanVars, hpos>>

\* Mutant: the cell is not read again after the announcement.
ProtectUnvalidated(t) ==
  /\ pc[t] = "validate"
  /\ guards' = [guards EXCEPT ![t] =
                  @ \cup {[slot |-> slot[t], value |-> value[t]]}]
  /\ target' = [target EXCEPT ![t] = NULL]
  /\ slot' = [slot EXCEPT ![t] = 0]
  /\ value' = [value EXCEPT ![t] = NULL]
  /\ Goto(t, "idle")
  /\ UNCHANGED <<registryVars, clientVars, entryVars, cont, exiting,
                 scanVars, hpos>>

\* while (result != ptr.load()): the guard exists once the pointer announced
\* is seen in the cell again.
ProtectValidate(t) ==
  /\ pc[t] = "validate"
  /\ IF value[t] = cell[target[t]]
       THEN /\ guards' = [guards EXCEPT ![t] =
                            @ \cup {[slot |-> slot[t], value |-> value[t]]}]
            /\ target' = [target EXCEPT ![t] = NULL]
            /\ slot' = [slot EXCEPT ![t] = 0]
            /\ value' = [value EXCEPT ![t] = NULL]
            /\ Goto(t, "idle")
       ELSE Goto(t, "load") /\ UNCHANGED <<guards, protectVars>>
  /\ UNCHANGED <<registryVars, clientVars, entryVars, cont, exiting,
                 scanVars, hpos>>

\* ~GuardedPtr(): the slot is cleared and goes back to the free list, and
\* every ScanDelay-th release calls scan().
ReleaseGuard(t, g) ==
  /\ pc[t] = "idle"
  /\ g \in guards[t]
  /\ guards' = [guards EXCEPT ![t] = @ \ {g}]
  /\ hazards' = [hazards EXCEPT ![entry[t]][g.slot] = NULL]
  /\ ticks' = [ticks EXCEPT ![entry[t]] = (@ + 1) % ScanDelay]
  /\ IF (ticks[entry[t]] + 1) % ScanDelay = 0
       THEN CallScan(t, "helpScan")
       ELSE UNCHANGED <<pc, cont>>
  /\ UNCHANGED <<registryVars, clientVars, retires, exiting, protectVars,
                 scanVars, hpos>>

-----------------------------------------------------------------------------
(* The client overwrites a cell and retires the pointer it held.           *)

\* control_block_.exchange(new_ptr), or a compare_exchange_strong that has
\* succeeded.
Store(t, c, p) ==
  /\ pc[t] = "idle"
  /\ stage[t] \in {"none", "held"}     \* not inside getValue()
  /\ cell' = [cell EXCEPT ![c] = p]
  /\ IF cell[c] # NULL
       THEN /\ inflight' = [inflight EXCEPT ![t] =
                              [pointer |-> cell[c], disposer |-> DisposerOf[c]]]
            /\ Goto(t, "retire")
       ELSE UNCHANGED <<inflight, pc>>
  /\ UNCHANGED <<registryVars, entryVars, guards, cont, exiting, protectVars,
                 scanVars, hpos>>

\* while (thread_data.retires.full()) { scan(thread_data); yield(); }
RetireFull(t) ==
  /\ pc[t] = "retire"
  /\ stage[t] = "held"
  /\ IsFull(entry[t])
  /\ CallScan(t, "retire")
  /\ UNCHANGED <<registryVars, clientVars, entryVars, guards, exiting,
                 protectVars, scanVars, hpos>>

\* thread_data.retires.pushBack(std::move(retired))
RetirePush(t) ==
  /\ pc[t] = "retire"
  /\ stage[t] = "held"
  /\ ~ IsFull(entry[t])
  /\ retires' = [retires EXCEPT ![entry[t]] = Pushed(@, inflight[t])]
  /\ inflight' = [inflight EXCEPT ![t] = NoRecord]
  /\ Goto(t, "idle")
  /\ UNCHANGED <<registryVars, cell, hazards, ticks, guards, cont, exiting,
                 protectVars, scanVars, hpos>>

-----------------------------------------------------------------------------
(* scan(ThreadData &).                                                     *)

\* An empty list is not scanned; else entries_.begin() loads head_.
ScanBegin(t) ==
  /\ pc[t] = "begin"
  /\ IF IsEmpty(entry[t])
       THEN Goto(t, cont[t]) /\ UNCHANGED pos
       ELSE Goto(t, "scan") /\ pos' = [pos EXCEPT ![t] = Len(chain)]
  /\ UNCHANGED <<registryVars, clientVars, entryVars, guards, cont, exiting,
                 protectVars, hp, marked, hpos>>

\* Mutant: the scan takes its own slots for settled and skips them.
ScanEntryOthers(t) ==
  /\ pc[t] = "scan"
  /\ pos[t] # 0
  /\ hp[t] = 0
  /\ IF acquired[chain[pos[t]]] /\ chain[pos[t]] # entry[t]
       THEN hp' = [hp EXCEPT ![t] = 1] /\ UNCHANGED pos
       ELSE pos' = [pos EXCEPT ![t] = @ - 1] /\ UNCHANGED hp
  /\ UNCHANGED <<registryVars, clientVars, entryVars, guards, pc, cont,
                 exiting, protectVars, marked, hpos>>

\* if (!thread_it->isAcquired()) continue;
ScanEntry(t) ==
  /\ pc[t] = "scan"
  /\ pos[t] # 0
  /\ hp[t] = 0
  /\ IF acquired[chain[pos[t]]]
       THEN hp' = [hp EXCEPT ![t] = 1] /\ UNCHANGED pos
       ELSE pos' = [pos EXCEPT ![t] = @ - 1] /\ UNCHANGED hp
  /\ UNCHANGED <<registryVars, clientVars, entryVars, guards, pc, cont,
                 exiting, protectVars, marked, hpos>>

\* Mutant: the walk over the slots ends one too late.
NextHazardPast(t) ==
  IF hp[t] <= MaxHP
    THEN hp' = [hp EXCEPT ![t] = @ + 1] /\ UNCHANGED pos
    ELSE hp' = [hp EXCEPT ![t] = 0] /\ pos' = [pos EXCEPT ![t] = @ - 1]

\* ++hp, and ++thread_it after the last slot.
NextHazard(t) ==
  IF hp[t] < MaxHP
    THEN hp' = [hp EXCEPT ![t] = @ + 1] /\ UNCHANGED pos
    ELSE hp' = [hp EXCEPT ![t] = 0] /\ pos' = [pos EXCEPT ![t] = @ - 1]

\* The records of the thread's list with the pointer v.
Matches(t, v) == {i \in Used(entry[t]) : retires[entry[t]][i].pointer = v}

\* Mutant: every record with the announced pointer is spared.
ScanHazardAll(t) ==
  /\ pc[t] = "scan"
  /\ pos[t] # 0
  /\ hp[t] # 0
  /\ marked' = [marked EXCEPT ![t] =
                  @ \cup Matches(t, hazards[chain[pos[t]]][hp[t]])]
  /\ NextHazard(t)
  /\ UNCHANGED <<registryVars, clientVars, entryVars, guards, pc, cont,
                 exiting, protectVars, hpos>>

\* auto ptr = hp->load(), and the mark of the record lower_bound finds.  Of
\* several records with that pointer it is always the same one, the one that
\* std::sort has put first.
ScanHazard(t) ==
  /\ pc[t] = "scan"
  /\ pos[t] # 0
  /\ hp[t] # 0
  /\ LET found == Matches(t, hazards[chain[pos[t]]][hp[t]]) IN
       IF found = {} \/ found \cap marked[t] # {}
         THEN UNCHANGED marked
         ELSE \E i \in found : marked' = [marked EXCEPT ![t] = @ \cup {i}]
  /\ NextHazard(t)
  /\ UNCHANGED <<registryVars, clientVars, entryVars, guards, pc, cont,
                 exiting, protectVars, hpos>>

\* it->dispose() of a record that is not marked.
ScanDispose(t) ==
  /\ pc[t] = "scan"
  /\ pos[t] = 0
  /\ \E i \in Used(entry[t]) \ marked[t] :
       retires' = [retires EXCEPT ![entry[t]][i] = NoRecord]
  /\ UNCHANGED <<registryVars, clientVars, hazards, ticks, guards, pc, cont,
                 exiting, protectVars, scanVars, hpos>>

\* thread_data.retires.setLast(ret_insert)
ScanEnd(t) ==
  /\ pc[t] = "scan"
  /\ pos[t] = 0
  /\ Used(entry[t]) \subseteq marked[t]
  /\ Goto(t, cont[t])
  /\ marked' = [marked EXCEPT ![t] = {}]
  /\ UNCHANGED <<registryVars, clientVars, entryVars, guards, cont, exiting,
                 protectVars, pos, hp, hpos>>

-----------------------------------------------------------------------------
(* helpScan(ThreadData &): adopt the retired lists of exited threads.      *)

HelpReturn(t) == Goto(t, IF exiting[t] THEN "leave" ELSE "idle")

HelpBegin(t) ==
  /\ pc[t] = "helpScan"
  /\ hpos' = [hpos EXCEPT ![t] = Len(chain)]
  /\ Goto(t, "help")
  /\ UNCHANGED <<registryVars, clientVars, entryVars, guards, cont, exiting,
                 protectVars, scanVars>>

\* Mutant: the thread waits for an entry that another thread has acquired.
HelpNextWaits(t) ==
  /\ pc[t] = "help"
  /\ \/ /\ hpos[t] = 0
        /\ HelpReturn(t)
        /\ UNCHANGED <<registryVars, hpos>>
     \/ /\ hpos[t] # 0
        /\ chain[hpos[t]] = entry[t]
        /\ hpos' = [hpos EXCEPT ![t] = @ - 1]
        /\ UNCHANGED <<registryVars, pc>>
     \/ /\ hpos[t] # 0
        /\ Borrow(t, chain[hpos[t]])
        /\ Goto(t, "peek")
        /\ UNCHANGED hpos
  /\ UNCHANGED <<clientVars, entryVars, guards, cont, exiting, protectVars,
                 scanVars>>

\* One round of the loop up to tryAcquire().
HelpNext(t) ==
  /\ pc[t] = "help"
  /\ \/ /\ hpos[t] = 0
        /\ HelpReturn(t)
        /\ UNCHANGED <<registryVars, hpos>>
     \/ /\ hpos[t] # 0
        /\ acquired[chain[hpos[t]]]     \* by this thread or by another
        /\ hpos' = [hpos EXCEPT ![t] = @ - 1]
        /\ UNCHANGED <<registryVars, pc>>
     \/ /\ hpos[t] # 0
        /\ Borrow(t, chain[hpos[t]])
        /\ Goto(t, "peek")
        /\ UNCHANGED hpos
  /\ UNCHANGED <<clientVars, entryVars, guards, cont, exiting, protectVars,
                 scanVars>>

\* if (other_td.retires.empty()) { thread_it->release(); continue; }
HelpPeek(t) ==
  /\ pc[t] = "peek"
  /\ IF IsEmpty(borrowed[t])
       THEN /\ GiveBack(t)
            /\ hpos' = [hpos EXCEPT ![t] = @ - 1]
            /\ Goto(t, "help")
       ELSE Goto(t, "drain") /\ UNCHANGED <<registryVars, hpos>>
  /\ UNCHANGED <<clientVars, entryVars, guards, cont, exiting, protectVars,
                 scanVars>>

\* Mutant: a record is moved without a look at full().
HelpMoveUnchecked(t) ==
  /\ pc[t] = "drain"
  /\ \E i \in Used(borrowed[t]) :
       /\ \A j \in Used(borrowed[t]) : j <= i
       /\ retires' = [retires EXCEPT
            ![entry[t]] = IF IsFull(entry[t]) THEN @
                          ELSE Pushed(@, retires[borrowed[t]][i]),
            ![borrowed[t]][i] = NoRecord]
  /\ UNCHANGED <<registryVars, clientVars, hazards, ticks, guards, pc, cont,
                 exiting, protectVars, scanVars, hpos>>

\* thread_data.retires.pushBack(std::move(*it)), from the last record on.
HelpMove(t) ==
  /\ pc[t] = "drain"
  /\ ~ IsFull(entry[t])
  /\ \E i \in Used(borrowed[t]) :
       /\ \A j \in Used(borrowed[t]) : j <= i
       /\ retires' = [retires EXCEPT
            ![entry[t]] = Pushed(@, retires[borrowed[t]][i]),
            ![borrowed[t]][i] = NoRecord]
  /\ UNCHANGED <<registryVars, clientVars, hazards, ticks, guards, pc, cont,
                 exiting, protectVars, scanVars, hpos>>

\* if (thread_data.retires.full()) scan(thread_data);
HelpFull(t) ==
  /\ pc[t] = "drain"
  /\ ~ IsEmpty(borrowed[t])
  /\ IsFull(entry[t])
  /\ CallScan(t, "refill")
  /\ UNCHANGED <<registryVars, clientVars, entryVars, guards, exiting,
                 protectVars, scanVars, hpos>>

\* Mutant: the thread scans until there is room.
HelpRefillWaits(t) ==
  /\ pc[t] = "refill"
  /\ Goto(t, "drain")
  /\ UNCHANGED <<registryVars, hpos>>
  /\ UNCHANGED <<clientVars, entryVars, guards, cont, exiting, protectVars,
                 scanVars>>

\* Still full after that scan: the rest stays with the other entry
\* (setLast(it + 1)) and helpScan() returns.
HelpRefill(t) ==
  /\ pc[t] = "refill"
  /\ IF IsFull(entry[t])
       THEN /\ GiveBack(t)
            /\ hpos' = [hpos EXCEPT ![t] = 0]
            /\ HelpReturn(t)
       ELSE Goto(t, "drain") /\ UNCHANGED <<registryVars, hpos>>
  /\ UNCHANGED <<clientVars, entryVars, guards, cont, exiting, protectVars,
                 scanVars>>

\* other_td.retires.clear(); thread_it->release(); scan(thread_data);
HelpDrained(t) ==
  /\ pc[t] = "drain"
  /\ IsEmpty(borrowed[t])
  /\ GiveBack(t)
  /\ hpos' = [hpos EXCEPT ![t] = @ - 1]
  /\ CallScan(t, "help")
  /\ UNCHANGED <<clientVars, entryVars, guards, exiting, protectVars, scanVars>>

-----------------------------------------------------------------------------
(* ~EntryHolder() of an exiting thread, whose guards are gone.             *)

\* DestructThreadEntry: data->hazards.clear() and scan().
Exit(t) ==
  /\ pc[t] = "idle"
  /\ stage[t] = "held"
  /\ guards[t] = {}
  /\ hazards' = [hazards EXCEPT ![entry[t]] = [s \in Slot |-> NULL]]
  /\ exiting' = [exiting EXCEPT ![t] = TRUE]
  /\ CallScan(t, "helpScan")
  /\ UNCHANGED <<registryVars, clientVars, ticks, retires, guards, protectVars,
                 scanVars, hpos>>

\* entry_->release()
Leave(t) ==
  /\ pc[t] = "leave"
  /\ ReleaseEntry(t)
  /\ exiting' = [exiting EXCEPT ![t] = FALSE]
  /\ Goto(t, "idle")
  /\ UNCHANGED <<clientVars, entryVars, guards, cont, protectVars, scanVars,
                 hpos>>

-----------------------------------------------------------------------------
ScanStep(t) ==
  ScanBegin(t) \/ ScanEntry(t) \/ ScanHazard(t) \/ ScanDispose(t) \/ ScanEnd(t)

HelpStep(t) ==
  \/ HelpBegin(t) \/ HelpNext(t) \/ HelpPeek(t) \/ HelpMove(t) \/ HelpFull(t)
  \/ HelpRefill(t) \/ HelpDrained(t)

\* What a client calls from outside.
Call(t) ==
  \/ t \in Readers /\ \E c \in Cell : Protect(t, c)
  \/ t \in Writers /\ \E c \in Cell, p \in Ptr \cup {NULL} : Store(t, c, p)
  \/ \E g \in guards[t] : ReleaseGuard(t, g)
  \/ Exit(t)

\* What a call that has begun goes on to do.
Continue(t) ==
  \/ GoOnAcquiring(t)
  \/ ProtectLoad(t) \/ ProtectPublish(t) \/ ProtectValidate(t)
  \/ RetireFull(t) \/ RetirePush(t)
  \/ ScanStep(t) \/ HelpStep(t) \/ Leave(t)

Next == \E t \in Thread : StartAcquire(t) \/ Call(t) \/ Continue(t)

Spec == Init /\ [][Next]_vars

\* A call runs to its end; no client has to make one.
Running(t) == Continue(t) \/ (pc[t] = "retire" /\ StartAcquire(t))
FairSpec == Spec /\ \A t \in Thread : WF_vars(Running(t))

-----------------------------------------------------------------------------
(* Properties.                                                             *)

Labels == {"idle", "load", "publish", "validate", "retire", "begin", "scan",
           "helpScan", "help", "peek", "drain", "refill", "leave"}
Returns == {"idle", "retire", "helpScan", "help", "refill"}

\* The types of the domain's variables, group by group; the cursors stay in
\* the arrays.
ClientTypeOK ==
  /\ cell \in [Cell -> Ptr \cup {NULL}]
  /\ inflight \in [Thread -> Retired \cup {NoRecord}]

EntryTypeOK ==
  /\ hazards \in [Entry -> [Slot -> Ptr \cup {NULL}]]
  /\ ticks \in [Entry -> Nat]
  /\ retires \in [Entry -> [Place -> Retired \cup {NoRecord}]]

ControlTypeOK ==
  /\ pc \in [Thread -> Labels]
  /\ cont \in [Thread -> Returns]
  /\ exiting \in [Thread -> BOOLEAN]

ProtectTypeOK ==
  /\ target \in [Thread -> Cell \cup {NULL}]
  /\ slot \in [Thread -> Slot \cup {0}]
  /\ value \in [Thread -> Ptr \cup {NULL}]

ScanTypeOK ==
  /\ pos \in [Thread -> Nat]
  /\ hp \in [Thread -> Slot \cup {0}]
  /\ marked \in [Thread -> SUBSET Place]

TypeOK ==
  /\ RegistryTypeOK
  /\ ClientTypeOK
  /\ EntryTypeOK
  /\ guards \in [Thread -> SUBSET Guard]
  /\ ControlTypeOK
  /\ ProtectTypeOK
  /\ ScanTypeOK
  /\ hpos \in [Thread -> Nat]

\* The references of the control block p that cells own or that wait to be
\* dropped.  While there is one, the counter of p has not reached zero.
Referenced(p) ==
  \/ \E c \in Cell : cell[c] = p
  \/ \E t \in Thread : inflight[t].pointer = p
  \/ \E e \in Entry : \E i \in Place : retires[e][i].pointer = p

\* A guarded pointer keeps a reference of its control block alive: whatever
\* the other threads overwrite, retire, scan and adopt between protect() and
\* the release of the guard, the last reference is not dropped.  A push that
\* has lost its entry exposes the guards of its own thread and no others,
\* although the thread goes on to retire and scan.
GuardKeepsReference ==
  \A t \in Thread : \A g \in guards[t] :
    g.value # NULL /\ entry[t] \in Linked => Referenced(g.value)

\* A scan spares no more records than it has read slots, repeated pointers
\* included, so a list longer than the slots of all entries always shrinks.
ScanSparesAtMostOnePerSlot ==
  \A t \in Thread :
    pc[t] = "scan" /\ pos[t] = 0 =>
      Cardinality(marked[t]) <= MaxHP * Len(chain)

RefCount(p) ==
  Cardinality({c \in Cell : cell[c] = p})
  + Cardinality({t \in Thread : inflight[t].pointer = p})
  + Cardinality({ei \in Entry \X Place : retires[ei[1]][ei[2]].pointer = p})

\* References are dropped one at a time and only by a scan that has read all
\* slots: neither retire() nor the adoption of a list loses a record.
OnlyScanDrops ==
  [][\A p \in Ptr :
       \/ RefCount(p)' >= RefCount(p)
       \/ /\ RefCount(p)' = RefCount(p) - 1
          /\ \E t \in Thread : pc[t] = "scan" /\ pos[t] = 0]_vars

\* The heap of this instance is too small for the entry t needs (the code
\* would end with bad_alloc).
HeapExhausted(t) == stage[t] = "find" /\ at[t] = 0 /\ allocated = Entry

\* retire() returns, however long the other threads keep their guards, when
\* a list has more places than there are different guarded pointers.
RetireReturns ==
  \A t \in Thread :
    inflight[t] # NoRecord ~> inflight[t] = NoRecord \/ HeapExhausted(t)

\* A scan by t would spare every record of its full list: the pointers are
\* all different and a guard holds each of them.
Stuck(t) ==
  /\ inflight[t] # NoRecord
  /\ stage[t] = "held"
  /\ IsFull(entry[t])
  /\ \A i, j \in Place :
       retires[entry[t]][i].pointer = retires[entry[t]][j].pointer => i = j
  /\ \A i \in Place : \E u \in Thread : \E g \in guards[u] :
       g.value = retires[entry[t]][i].pointer

\* The comment in retire(): a dead-lock (every thread waits in retire() for
\* guards that only the waiting threads hold) takes T * HP > R.
DeadlockOnlyBeyondLimit ==
  Cardinality(Thread) * MaxHP <= MaxRetired => ~ \A t \in Thread : Stuck(t)

\* helpScan() comes to its end, in a thread that holds guards as in one that
\* exits, also when the list that it moves records to stays full.
HelpReturns ==
  \A t \in Thread : pc[t] = "helpScan" ~> pc[t] \in {"idle", "leave"}

\* A thread that exits does not wait for other threads.
ExitReturns == \A t \in Thread : exiting[t] ~> ~ exiting[t]
=============================================================================
