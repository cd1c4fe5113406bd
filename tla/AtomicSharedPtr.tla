-------------------------- MODULE AtomicSharedPtr --------------------------
(***************************************************************************)
(* AtomicSharedPtr on top of a Reclaimer: who owns the references that the *)
(* counter of a control block counts.                                      *)
(*                                                                         *)
(* A thread has two SharedPtr variables, the expected and the desired of a *)
(* compareExchange(); load() goes to the first, store() takes the second.  *)
(* A control block whose counter has reached zero is gone and its address  *)
(* can be allocated again.                                                 *)
(***************************************************************************)
EXTENDS Reclaimer, FiniteSets

CONSTANTS
  Kind,       \* the disposer of this class: decrementRef for AtomicSharedPtr
  MaxRefs     \* bounds the counters, for TLC

ASSUME KindAssumption == Kind \in Disposer

\* A program has so many threads and atomic pointers, and a counter counts.
ASSUME FiniteAssumption ==
  IsFiniteSet(Thread) /\ IsFiniteSet(Cell) /\ MaxRefs \in Nat \ {0}

VARIABLES
  refs,               \* ref_counter_
  expected, desired,  \* the control blocks of the thread's SharedPtrs
  result,             \* the SharedPtr load() returns
  target,             \* the cell load() reads
  pc,                 \* where a thread is inside an operation
  cont,               \* where it goes on after load()
  handed              \* history: threads whose guard exchange() has overtaken

\* The atomic pointers of this class.
Cells == {c \in Cell : DisposerOf[c] = Kind}

handleVars == <<expected, desired, result>>
localVars == <<target, pc, cont>>
vars == <<reclaimerVars, refs, handleVars, localVars, handed>>

Goto(t, l) == pc' = [pc EXCEPT ![t] = l]

\* incrementRef(), decrementRef() of a block, or nothing for a null handle.
Incremented(p) == [refs EXCEPT ![p] = @ + 1]
Decremented(p) == IF p = NULL THEN refs ELSE [refs EXCEPT ![p] = @ - 1]

Init ==
  /\ ReclaimerInit
  /\ refs = [p \in Ptr |-> 0]
  /\ expected = [t \in Thread |-> NULL]
  /\ desired = [t \in Thread |-> NULL]
  /\ result = [t \in Thread |-> NULL]
  /\ target = [t \in Thread |-> NULL]
  /\ pc = [t \in Thread |-> "idle"]
  /\ cont = [t \in Thread |-> "idle"]
  /\ handed = {}

-----------------------------------------------------------------------------
(* SharedPtr: makeShared(), the copy constructor, the destructor.          *)

MakeShared(t) ==
  /\ pc[t] = "idle"
  /\ desired[t] = NULL
  /\ \E p \in Ptr :
       /\ refs[p] = 0
       /\ refs' = Incremented(p)
       /\ desired' = [desired EXCEPT ![t] = p]
  /\ UNCHANGED <<reclaimerVars, expected, result, localVars, handed>>

CopyShared(t) ==
  /\ pc[t] = "idle"
  /\ desired[t] = NULL
  /\ expected[t] # NULL
  /\ refs[expected[t]] < MaxRefs
  /\ refs' = Incremented(expected[t])
  /\ desired' = [desired EXCEPT ![t] = expected[t]]
  /\ UNCHANGED <<reclaimerVars, expected, result, localVars, handed>>

ResetExpected(t) ==
  /\ pc[t] = "idle"
  /\ expected[t] # NULL
  /\ refs' = Decremented(expected[t])
  /\ expected' = [expected EXCEPT ![t] = NULL]
  /\ UNCHANGED <<reclaimerVars, desired, result, localVars, handed>>

\* The destructor of the parameter desired of a failed compareExchange().
DropDesired(t) ==
  /\ pc[t] = "drop"
  /\ refs' = Decremented(desired[t])
  /\ desired' = [desired EXCEPT ![t] = NULL]
  /\ Goto(t, "idle")
  /\ UNCHANGED <<reclaimerVars, expected, result, target, cont, handed>>

-----------------------------------------------------------------------------
(* store(), exchange() and compareExchange().                              *)

\* Mutant: the old reference is dropped at once.
StoreUndeferred(t, c) ==
  /\ pc[t] = "idle"
  /\ cell' = [cell EXCEPT ![c] = desired[t]]
  /\ desired' = [desired EXCEPT ![t] = NULL]
  /\ refs' = Decremented(cell[c])
  /\ UNCHANGED <<inflight, guards, retired, blockers, expected, result,
                 localVars, handed>>

Store(t, c) ==
  /\ pc[t] = "idle"
  /\ Overwrite(t, c, desired[t])
  /\ desired' = [desired EXCEPT ![t] = NULL]
  /\ Goto(t, IF cell[c] = NULL THEN "idle" ELSE "retire")
  /\ UNCHANGED <<refs, expected, result, target, cont, handed>>

\* delayDecrementRef(old_ptr)
DelayDecrementRef(t) ==
  /\ pc[t] = "retire"
  /\ Retire(t)
  /\ Goto(t, "idle")
  /\ UNCHANGED <<refs, handleVars, target, cont, handed>>

\* The old reference goes to the caller as it is.  The cell must not be
\* empty: the constructor of the result calls get() on the old pointer.
Exchange(t, c) ==
  /\ pc[t] = "idle"
  /\ cell[c] # NULL
  /\ cell' = [cell EXCEPT ![c] = desired[t]]
  /\ desired' = [desired EXCEPT ![t] = cell[c]]
  /\ handed' = handed \cup
       {u \in Thread : target[u] = c /\ \E g \in guards[u] : g.value = cell[c]}
  /\ UNCHANGED <<inflight, guards, retired, blockers, refs, expected, result,
                 localVars>>

\* Mutant: desired.release() is missing, so the destructor of desired drops
\* the reference that the cell has got.
CompareExchangeKept(t, c) ==
  /\ pc[t] = "idle"
  /\ cell[c] = expected[t]
  /\ Overwrite(t, c, desired[t])
  /\ refs' = Decremented(desired[t])
  /\ desired' = [desired EXCEPT ![t] = NULL]
  /\ Goto(t, "swapped")
  /\ UNCHANGED <<expected, result, target, cont, handed>>

\* Mutant: whatever the cell holds is replaced.
CompareExchangeAny(t, c) ==
  /\ pc[t] = "idle"
  /\ Overwrite(t, c, desired[t])
  /\ desired' = [desired EXCEPT ![t] = NULL]
  /\ Goto(t, "swapped")
  /\ UNCHANGED <<refs, expected, result, target, cont, handed>>

\* compare_exchange_strong() finds the expected pointer.
CompareExchange(t, c) ==
  /\ pc[t] = "idle"
  /\ cell[c] = expected[t]
  /\ Overwrite(t, c, desired[t])
  /\ desired' = [desired EXCEPT ![t] = NULL]
  /\ Goto(t, "swapped")
  /\ UNCHANGED <<refs, expected, result, target, cont, handed>>

\* delayDecrementRef(expected_ptr), unless the cell was empty; return true.
CompareExchangeReturns(t) ==
  /\ pc[t] = "swapped"
  /\ IF inflight[t] = NoRecord THEN UNCHANGED reclaimerVars ELSE Retire(t)
  /\ Goto(t, "idle")
  /\ UNCHANGED <<refs, handleVars, target, cont, handed>>

\* It finds another one: expected = load().
CompareExchangeFails(t, c) ==
  /\ pc[t] = "idle"
  /\ cell[c] # expected[t]
  /\ target' = [target EXCEPT ![t] = c]
  /\ cont' = [cont EXCEPT ![t] = "drop"]
  /\ Goto(t, "load")
  /\ UNCHANGED <<reclaimerVars, refs, handleVars, handed>>

-----------------------------------------------------------------------------
(* load(), assigned to expected.                                           *)

Load(t, c) ==
  /\ pc[t] = "idle"
  /\ target' = [target EXCEPT ![t] = c]
  /\ cont' = [cont EXCEPT ![t] = "idle"]
  /\ Goto(t, "load")
  /\ UNCHANGED <<reclaimerVars, refs, handleVars, handed>>

\* auto guarded = protect(control_block_)
LoadProtect(t) ==
  /\ pc[t] = "load"
  /\ Protect(t, target[t])
  /\ Goto(t, IF cell[target[t]] = NULL THEN "unguard" ELSE "increment")
  /\ UNCHANGED <<refs, handleVars, target, cont, handed>>

\* Mutant: the guard is forgotten on the way out.
LoadIncrementKept(t) ==
  /\ pc[t] = "increment"
  /\ \E g \in guards[t] :
       /\ refs[g.value] < MaxRefs
       /\ refs' = Incremented(g.value)
       /\ result' = [result EXCEPT ![t] = g.value]
  /\ Goto(t, "assign")
  /\ UNCHANGED <<reclaimerVars, expected, desired, target, cont, handed>>

\* guarded->incrementRef()
LoadIncrement(t) ==
  /\ pc[t] = "increment"
  /\ \E g \in guards[t] :
       /\ refs[g.value] < MaxRefs
       /\ refs' = Incremented(g.value)
       /\ result' = [result EXCEPT ![t] = g.value]
  /\ Goto(t, "unguard")
  /\ UNCHANGED <<reclaimerVars, expected, desired, target, cont, handed>>

\* ~GuardedPtr()
LoadRelease(t) ==
  /\ pc[t] = "unguard"
  /\ \E g \in guards[t] : ReleaseGuard(t, g)
  /\ handed' = handed \ {t}
  /\ Goto(t, "assign")
  /\ UNCHANGED <<refs, handleVars, target, cont>>

\* The move assignment drops what expected has held.
LoadAssign(t) ==
  /\ pc[t] = "assign"
  /\ refs' = Decremented(expected[t])
  /\ expected' = [expected EXCEPT ![t] = result[t]]
  /\ result' = [result EXCEPT ![t] = NULL]
  /\ target' = [target EXCEPT ![t] = NULL]
  /\ cont' = [cont EXCEPT ![t] = "idle"]
  /\ Goto(t, cont[t])
  /\ UNCHANGED <<reclaimerVars, desired, handed>>

-----------------------------------------------------------------------------
\* ~AtomicSharedPtr(): the reference is dropped at once.  The program ends
\* the life of the object when no load() of it is running; another one can be
\* made in its place.
DestroyCell(t, c) ==
  /\ pc[t] = "idle"
  /\ cell[c] # NULL
  /\ \A u \in Thread : target[u] = c => pc[u] \notin {"load", "increment", "unguard"}
  /\ refs' = Decremented(cell[c])
  /\ cell' = [cell EXCEPT ![c] = NULL]
  /\ UNCHANGED <<inflight, guards, retired, blockers, handleVars, localVars, handed>>

\* The disposer of a record of p, called by a scan of any thread.
DisposeRef(p) ==
  /\ Dispose([pointer |-> p, disposer |-> Kind])
  /\ refs' = Decremented(p)
  /\ UNCHANGED <<handleVars, localVars, handed>>

Next ==
  \/ \E t \in Thread :
       \/ MakeShared(t) \/ CopyShared(t) \/ ResetExpected(t) \/ DropDesired(t)
       \/ \E c \in Cells :
            \/ Store(t, c) \/ Exchange(t, c) \/ Load(t, c) \/ DestroyCell(t, c)
            \/ CompareExchange(t, c) \/ CompareExchangeFails(t, c)
       \/ DelayDecrementRef(t) \/ CompareExchangeReturns(t)
       \/ LoadProtect(t) \/ LoadIncrement(t) \/ LoadRelease(t) \/ LoadAssign(t)
  \/ \E p \in Ptr : DisposeRef(p)

Spec == Init /\ [][Next]_vars

-----------------------------------------------------------------------------
\* The types, and a thread has a guard only while it loads.
TypeOK ==
  /\ ReclaimerTypeOK
  /\ refs \in [Ptr -> 0..MaxRefs]
  /\ \A h \in {expected, desired, result} : h \in [Thread -> Ptr \cup {NULL}]
  /\ target \in [Thread -> Cell \cup {NULL}]
  /\ pc \in [Thread -> {"idle", "retire", "swapped", "drop", "load", "increment",
                        "unguard", "assign"}]
  /\ cont \in [Thread -> {"idle", "drop"}]
  /\ handed \subseteq Thread
  /\ \A t \in Thread :
       guards[t] = {} <=> pc[t] \notin {"increment", "unguard"}

\* The owners of references of the block p.
Owners(p) ==
  Cardinality({c \in Cells : cell[c] = p})
  + Cardinality({t \in Thread : expected[t] = p})
  + Cardinality({t \in Thread : desired[t] = p})
  + Cardinality({t \in Thread : result[t] = p})
  + Cardinality({t \in Thread : inflight[t] = [pointer |-> p, disposer |-> Kind]})
  + retired[[pointer |-> p, disposer |-> Kind]]

\* The counter of a block is the number of its owners: no operation loses a
\* reference (a leak) or drops one twice (an early destruction), whether it
\* succeeds or fails.  In particular the block that a thread expects cannot
\* be destroyed and its address given to another object before the exchange.
CountIsExact == \A p \in Ptr : refs[p] = Owners(p)

\* load() increments the counter of a block that is alive, unless an exchange()
\* has taken that block out of the cell while this load() held its guard: the
\* caller of exchange() can drop the reference at once.  An exchange() that was
\* earlier, of another cell or overtaken by a store() does no harm.
GuardedIsAlive ==
  \A t \in Thread \ handed : \A g \in guards[t] :
    g.value # NULL => refs[g.value] > 0

\* What a load has found belongs to the thread from protect() on, although the
\* counter is incremented later.
Found(t) ==
  IF pc[t] = "increment" THEN (CHOOSE g \in guards[t] : TRUE).value ELSE result[t]

Pointer == INSTANCE AtomicPointer WITH
  cell <- [c \in Cells |-> cell[c]],
  loaded <- [t \in Thread |-> Found(t)],
  op <- [t \in Thread |->
           CASE pc[t] \in {"increment", "unguard", "assign"} -> "loaded"
             [] pc[t] = "retire" -> "idle"
             [] OTHER -> pc[t]]

\* The operations are those of an atomic pointer with a collector: a load
\* returns what the cell held at one moment of the call, and the address of a
\* block is not given to another object while a cell, a handle or a load that
\* is on its way back can reach it, as long as no load is under way that an
\* exchange() has overtaken.
ImplementsAtomicPointer ==
  Pointer!PointerInit
    /\ [][handed' = {} => Pointer!PointerNext \/ UNCHANGED Pointer!pointerVars]_vars
=============================================================================
