----------------------------- MODULE ThreadData -----------------------------
(***************************************************************************)
(* The arrays of one ThreadData: the free list that runs through the slots *)
(* (HazardPtrList) and the retired records (RetiredList), with the sort,   *)
(* lower_bound, bit set, compaction and adoption that scan() and           *)
(* helpScan() do on them.  HazardPointerDomain has a set in the place of   *)
(* each.  Pointers are numbers, because scan() orders them; 0 is nullptr.  *)
(*                                                                         *)
(* One thread owns the entry, then another; source is the list of an entry *)
(* that has no owner.  A disposer that runs inside scan() can retire and   *)
(* load on the same thread, as long as that does not call scan() again.    *)
(***************************************************************************)
EXTENDS Naturals, FiniteSets

CONSTANTS MaxHP, MaxRetired, ScanDelay, Ptr

ASSUME ArrayAssumption ==
  /\ {MaxHP, MaxRetired, ScanDelay} \subseteq Nat \ {0}
  /\ Ptr \subseteq Nat \ {0}

Slot == 1..MaxHP
Place == 1..MaxRetired

VARIABLES
  next, free, held,     \* next_, free_; the slots that GuardedPtrs hold
  ticks,                \* modulo ScanDelay
  retires, last,        \* retires_, and last_ as the size
  source, sourceLast,   \* the same of other_td
  pc, cont,             \* where the thread is, and where scan() returns to
  record,               \* the pointer that retire() waits with
  it, insert, end,      \* it, ret_insert, ret_end, as places
  marked,               \* hazards_
  hit,                  \* helpScan(): it
  live,                 \* history: the references that records own
  due                   \* history: the records the list ought to hold

slotVars == <<next, free, held, ticks>>
sourceVars == <<source, sourceLast, hit>>
scanVars == <<it, insert, end, marked>>
vars == <<slotVars, retires, last, sourceVars, pc, cont, record, scanVars, live, due>>

\* HazardPtrList(): each slot is linked to the one after it.
Linked == [s \in Slot |-> IF s < MaxHP THEN s + 1 ELSE 0]

Count(list, n, p) == Cardinality({i \in 1..n : list[i] = p})

\* Mutant: the record moved from keeps its pointer.
Copied(from, i) == from

\* RetiredPtr(RetiredPtr &&) leaves an empty record behind.
MovedFrom(from, i) == [from EXCEPT ![i] = 0]

Ascending(list, n) == \A i, j \in 1..n : i < j => list[i] <= list[j]

\* What std::sort() makes of the first n records.
Sortings(list, n) ==
  {sorted \in [1..n -> {list[i] : i \in 1..n}] :
     /\ Ascending(sorted, n)
     /\ \A p \in Ptr : Count(sorted, n, p) = Count(list, n, p)}

\* std::lower_bound() in the first n records.
LowerBound(list, n, p) ==
  CHOOSE i \in 1..(n + 1) :
    /\ \A j \in 1..(i - 1) : list[j] < p
    /\ i <= n => list[i] >= p

Init ==
  /\ next = Linked /\ free = 1 /\ held = {} /\ ticks = 0
  /\ retires = [i \in Place |-> 0] /\ last = 0
  /\ source = retires /\ sourceLast = 0 /\ hit = 0
  /\ pc = "idle" /\ cont = "idle" /\ record = 0
  /\ it = 1 /\ insert = 1 /\ end = 0 /\ marked = {}
  /\ live = [p \in Ptr |-> 0] /\ due = live

CallScan(return) == pc' = "begin" /\ cont' = return

-----------------------------------------------------------------------------
(* The slots.                                                              *)

AcquireHP ==
  /\ pc \in {"idle", "busy"}
  /\ free # 0
  /\ held' = held \cup {free}
  /\ free' = next[free]
  /\ UNCHANGED <<next, ticks, retires, last, sourceVars, pc, cont, record,
                 scanVars, live, due>>

\* Mutant: the slot is put in front of the list without a link to the rest.
ReleaseUnlinked(s) ==
  /\ pc = "idle"
  /\ s \in held
  /\ held' = held \ {s}
  /\ free' = s
  /\ UNCHANGED <<next, ticks, retires, last, sourceVars, pc, cont, record,
                 scanVars, live, due>>

ReleaseHP(s) ==
  /\ s \in held
  /\ held' = held \ {s}
  /\ next' = [next EXCEPT ![s] = free]
  /\ free' = s
  /\ ticks' = (ticks + 1) % ScanDelay
  /\ \/ pc \in {"idle", "busy"} /\ ticks' # 0 /\ UNCHANGED <<pc, cont>>
     \/ pc = "idle" /\ ticks' = 0 /\ CallScan("helpScan")
  /\ UNCHANGED <<retires, last, sourceVars, record, scanVars, live, due>>

\* The thread exits; the entry goes to another one with what is left.
DestructThreadEntry ==
  /\ pc = "idle"
  /\ held = {}
  /\ next' = Linked
  /\ free' = 1
  /\ CallScan("helpScan")
  /\ UNCHANGED <<held, ticks, retires, last, sourceVars, record, scanVars, live, due>>

-----------------------------------------------------------------------------
(* retire(), of a client or of a disposer that scan() runs.                *)

PushBack(p) ==
  /\ last < MaxRetired
  /\ retires' = [retires EXCEPT ![last + 1] = p]
  /\ last' = last + 1
  /\ live' = [live EXCEPT ![p] = @ + 1]
  /\ due' = [due EXCEPT ![p] = @ + 1]

Retire(p) ==
  /\ pc \in {"idle", "busy"}
  /\ PushBack(p)
  /\ UNCHANGED <<slotVars, sourceVars, pc, cont, record, scanVars>>

\* while (thread_data.retires.full())
RetireFull(p) ==
  /\ pc = "idle"
  /\ last = MaxRetired
  /\ record' = p
  /\ CallScan("retire")
  /\ UNCHANGED <<slotVars, retires, last, sourceVars, scanVars, live, due>>

RetireGoesOn ==
  /\ pc = "retire"
  /\ \/ /\ last = MaxRetired
        /\ CallScan("retire")
        /\ UNCHANGED <<retires, last, record, live, due>>
     \/ /\ PushBack(record)
        /\ record' = 0
        /\ pc' = "idle"
        /\ UNCHANGED cont
  /\ UNCHANGED <<slotVars, sourceVars, scanVars>>

-----------------------------------------------------------------------------
(* scan(ThreadData &).                                                     *)

ScanNothing ==
  /\ pc = "begin"
  /\ last = 0
  /\ pc' = cont
  /\ UNCHANGED <<slotVars, retires, last, sourceVars, cont, record, scanVars, live, due>>

\* The sort, and the marks for the pointers that the slots of all threads
\* announce; which these are is for the others to say.
ScanBegin(announced) ==
  /\ pc = "begin"
  /\ last > 0
  /\ \E sorted \in Sortings(retires, last) :
       /\ retires' = [i \in Place |-> IF i <= last THEN sorted[i] ELSE retires[i]]
       /\ marked' = {i \in 1..last :
                       \E p \in announced : sorted[i] = p /\ LowerBound(sorted, last, p) = i}
  /\ it' = 1 /\ insert' = 1 /\ end' = last
  /\ due' = [p \in Ptr |-> IF p \in announced /\ due[p] > 0 THEN 1 ELSE 0]
  /\ pc' = "scan"
  /\ UNCHANGED <<slotVars, last, sourceVars, cont, record, live>>

\* it->dispose() calls the disposer, and clears the record when it returns.
ScanDispose ==
  /\ pc = "scan"
  /\ it \in (1..end) \ marked
  /\ live' = [live EXCEPT ![retires[it]] = @ - 1]
  /\ pc' = "busy"
  /\ UNCHANGED <<slotVars, retires, last, sourceVars, cont, record, scanVars, due>>

ScanDisposed ==
  /\ pc = "busy"
  /\ retires' = [retires EXCEPT ![it] = 0]
  /\ it' = it + 1
  /\ pc' = "scan"
  /\ UNCHANGED <<slotVars, last, sourceVars, cont, record, insert, end, marked, live, due>>

\* A record that is marked, or that a disposer has retired meanwhile.
ScanKeep ==
  /\ pc = "scan"
  /\ it \in marked \cup (end + 1)..last
  /\ retires' = IF insert = it THEN retires
                ELSE [MovedFrom(retires, it) EXCEPT ![insert] = retires[it]]
  /\ it' = it + 1
  /\ insert' = insert + 1
  /\ UNCHANGED <<slotVars, last, sourceVars, pc, cont, record, end, marked, live, due>>

\* Mutant: the records that disposers have retired are not moved up.
ScanEndEarly ==
  /\ pc = "scan"
  /\ it > end
  /\ last' = insert - 1
  /\ pc' = cont
  /\ UNCHANGED <<slotVars, retires, sourceVars, cont, record, scanVars, live, due>>

\* Mutant: the end is one place too far.
ScanEndPast ==
  /\ pc = "scan"
  /\ it > last
  /\ last' = insert
  /\ it' = 1 /\ insert' = 1 /\ end' = 0 /\ marked' = {}
  /\ pc' = cont
  /\ UNCHANGED <<slotVars, retires, sourceVars, cont, record, live, due>>

ScanEnd ==
  /\ pc = "scan"
  /\ it > last
  /\ last' = insert - 1
  /\ it' = 1 /\ insert' = 1 /\ end' = 0 /\ marked' = {}
  /\ pc' = cont
  /\ UNCHANGED <<slotVars, retires, sourceVars, cont, record, live, due>>

-----------------------------------------------------------------------------
(* helpScan(ThreadData &), with one other entry.                           *)

\* Another thread has had the entry.  Its last scan has left what it spared,
\* in order, and behind that what disposers have retired meanwhile.
SourceIsLeft(left, n) ==
  /\ pc = "idle"
  /\ sourceLast = 0
  /\ sourceLast' = n
  /\ source' = [i \in Place |-> IF i <= n THEN left[i] ELSE 0]
  /\ live' = [p \in Ptr |-> live[p] + Count(left, n, p)]
  /\ UNCHANGED <<slotVars, retires, last, hit, pc, cont, record, scanVars, due>>

\* The other entry is acquired or empty, or its records are adopted.
HelpBegin ==
  /\ pc = "helpScan"
  /\ \/ pc' = "idle" /\ UNCHANGED hit
     \/ sourceLast > 0 /\ hit' = sourceLast /\ pc' = "move"
  /\ UNCHANGED <<slotVars, retires, last, source, sourceLast, cont, record,
                 scanVars, live, due>>

HelpMove ==
  /\ pc \in {"move", "scanned"}
  /\ hit > 0
  /\ last < MaxRetired
  /\ retires' = [retires EXCEPT ![last + 1] = source[hit]]
  /\ last' = last + 1
  /\ source' = MovedFrom(source, hit)
  /\ hit' = hit - 1
  /\ pc' = "move"
  /\ due' = [due EXCEPT ![source[hit]] = @ + 1]
  /\ UNCHANGED <<slotVars, sourceLast, cont, record, scanVars, live>>

HelpFull ==
  /\ pc = "move"
  /\ hit > 0
  /\ last = MaxRetired
  /\ CallScan("scanned")
  /\ UNCHANGED <<slotVars, retires, last, sourceVars, record, scanVars, live, due>>

\* It is full again: other_td.retires.setLast(it + 1).
HelpStop ==
  /\ pc = "scanned"
  /\ last = MaxRetired
  /\ sourceLast' = hit
  /\ hit' = 0
  /\ pc' = "idle"
  /\ UNCHANGED <<slotVars, retires, last, source, cont, record, scanVars, live, due>>

\* RetiredList::clear() disposes of the records that are not empty.
Cleared(list, n) == [p \in Ptr |-> live[p] - Count(list, n, p)]

HelpDrained ==
  /\ pc = "move"
  /\ hit = 0
  /\ live' = Cleared(source, sourceLast)
  /\ sourceLast' = 0
  /\ CallScan("idle")
  /\ UNCHANGED <<slotVars, retires, last, source, hit, record, scanVars, due>>

\* ~HazardPointerDomain()
Clear ==
  /\ pc = "idle" /\ held = {}
  /\ live' = [p \in Ptr |-> Cleared(retires, last)[p] - Count(source, sourceLast, p)]
  /\ last' = 0 /\ sourceLast' = 0
  /\ due' = [p \in Ptr |-> 0]
  /\ pc' = "end"
  /\ UNCHANGED <<slotVars, retires, source, hit, cont, record, scanVars>>

Next ==
  \/ AcquireHP \/ (\E s \in Slot : ReleaseHP(s)) \/ DestructThreadEntry
  \/ \E p \in Ptr : Retire(p) \/ RetireFull(p)
  \/ RetireGoesOn
  \/ ScanNothing \/ (\E announced \in SUBSET Ptr : ScanBegin(announced))
  \/ ScanDispose \/ ScanDisposed \/ ScanKeep \/ ScanEnd
  \/ \E n \in Place : \E left \in [1..n -> Ptr] : SourceIsLeft(left, n)
  \/ HelpBegin \/ HelpMove \/ HelpFull \/ HelpStop \/ HelpDrained
  \/ Clear

Spec == Init /\ [][Next]_vars

-----------------------------------------------------------------------------
\* The types; ret_insert never passes it, and neither passes the end.
TypeOK ==
  /\ next \in [Slot -> Slot \cup {0}] /\ free \in Slot \cup {0} /\ held \subseteq Slot
  /\ \A list \in {retires, source} : list \in [Place -> Ptr \cup {0}]
  /\ last \in 0..MaxRetired /\ sourceLast \in 0..MaxRetired /\ hit \in 0..sourceLast
  /\ insert \in 1..it /\ it \in 1..(last + 1) /\ end \in 0..last
  /\ marked \subseteq 1..end

\* The free list has the slots of list, the first n.
FreeSlots(list, n) ==
  /\ {list[i] : i \in 1..n} = Slot \ held
  /\ \A i, j \in 1..n : list[i] = list[j] => i = j
  /\ free = IF n = 0 THEN 0 ELSE list[1]
  /\ \A i \in 1..n : next[list[i]] = IF i = n THEN 0 ELSE list[i + 1]

\* The free list runs once through exactly the slots that no guard holds, in
\* whatever order they have come back: no slot is given to two guards or
\* lost, and full() is right.
FreeListIsExact ==
  \E n \in 0..MaxHP : \E list \in [1..n -> Slot] : FreeSlots(list, n)

\* Each reference that is retired is in one record until its disposer is
\* called, through sorting, compaction, adoption and the moves between the
\* arrays: none is lost, none is disposed of twice.
RecordsAreKept ==
  \A p \in Ptr :
    live[p] = Count(retires, last, p) + Count(source, sourceLast, p)
                - (IF pc = "busy" /\ retires[it] = p THEN 1 ELSE 0)

\* Between scans the list holds what it ought to: one record of each pointer
\* that the last scan has found announced, and what has come since then, the
\* records that disposers have retired during the scan included.
KeepsWhatIsDue ==
  pc \notin {"begin", "scan", "busy"} =>
    /\ \A p \in Ptr : due[p] = Count(retires, last, p)
    /\ \A i \in 1..last : retires[i] # 0
=============================================================================
