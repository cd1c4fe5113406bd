--------------------------- MODULE AtomicWeakPtr ---------------------------
(***************************************************************************)
(* AtomicWeakPtr and AtomicSharedPtr objects on one domain.  The weak      *)
(* class is the shared one with the other counter and the other disposer.  *)
(* All strong references of a block own one weak reference together: the   *)
(* last decrementRef() destroys the value and drops it, and the last       *)
(* decrementWeakRef() frees the block.  Both are one step here.            *)
(***************************************************************************)
EXTENDS AtomicSharedPtr

\* There are two classes, and each retires with a disposer of its own.
ASSUME BothAssumption ==
  Kind = "decrementRef" /\ Disposer = {"decrementRef", "decrementWeakRef"}

VARIABLES
  weaks,                      \* weak_counter_
  weakExpected, weakDesired,  \* the control blocks of the thread's WeakPtrs
  weakResult, weakTarget, weakPc, weakCont, weakHanded

strongVars == <<refs, handleVars, localVars, handed>>
weakVars == <<weakExpected, weakDesired, weakResult, weakTarget, weakPc,
              weakCont, weakHanded>>
allVars == <<vars, weaks, weakVars>>

Weak == INSTANCE AtomicSharedPtr WITH
  Kind <- "decrementWeakRef", MaxRefs <- MaxRefs + 1, refs <- weaks,
  expected <- weakExpected, desired <- weakDesired, result <- weakResult,
  target <- weakTarget, pc <- weakPc, cont <- weakCont, handed <- weakHanded

BothInit == Init /\ Weak!Init

\* decrementRef() to zero: destroy(), decrementWeakRef().
DropSharedWeak ==
  weaks' = [p \in Ptr |-> IF refs[p] > refs'[p] /\ refs'[p] = 0 THEN weaks[p] - 1
                                                               ELSE weaks[p]]

\* makeShared(): both counters of a new block are 1.
NewBlock(t) ==
  /\ weakPc[t] = "idle"
  /\ MakeShared(t)
  /\ \A p \in Ptr : refs'[p] > refs[p] => weaks[p] = 0
  /\ weaks' = [p \in Ptr |-> IF refs'[p] > refs[p] THEN 1 ELSE weaks[p]]
  /\ UNCHANGED weakVars

\* A load() that finds the counter at zero ends what the program defines.
LoadIncrementAlive(t) ==
  LoadIncrement(t) /\ \A g \in guards[t] : refs[g.value] > 0

\* The operations of AtomicSharedPtr, and of SharedPtr as its caller; what
\* exchange() gives out undeferred is the subject of AtomicSharedPtr.
Strong(t) ==
  /\ weakPc[t] = "idle"
  /\ \/ CopyShared(t) \/ ResetExpected(t) \/ DropDesired(t)
     \/ \E c \in Cells : \/ Store(t, c) \/ Load(t, c) \/ DestroyCell(t, c)
                         \/ CompareExchange(t, c) \/ CompareExchangeFails(t, c)
     \/ DelayDecrementRef(t) \/ CompareExchangeReturns(t)
     \/ LoadProtect(t) \/ LoadIncrementAlive(t) \/ LoadRelease(t) \/ LoadAssign(t)
  /\ DropSharedWeak
  /\ UNCHANGED weakVars

WeakLoadIncrementAlive(t) ==
  Weak!LoadIncrement(t) /\ \A g \in guards[t] : weaks[g.value] > 0

\* The copy, reset() and destructor of a WeakPtr.
WeakHandle(t) == Weak!CopyShared(t) \/ Weak!ResetExpected(t) \/ Weak!DropDesired(t)

\* The operations of AtomicWeakPtr, and of WeakPtr as its caller.
WeakStep(t) ==
  /\ pc[t] = "idle"
  /\ \/ WeakHandle(t)
     \/ \E c \in Weak!Cells :
          \/ Weak!Store(t, c) \/ Weak!Exchange(t, c) \/ Weak!Load(t, c)
          \/ Weak!CompareExchange(t, c) \/ Weak!CompareExchangeFails(t, c)
          \/ Weak!DestroyCell(t, c)
     \/ Weak!DelayDecrementRef(t) \/ Weak!CompareExchangeReturns(t)
     \/ Weak!LoadProtect(t) \/ WeakLoadIncrementAlive(t)
     \/ Weak!LoadRelease(t) \/ Weak!LoadAssign(t)
  /\ UNCHANGED strongVars

\* WeakPtr(const SharedPtr &)
MakeWeak(t) ==
  /\ pc[t] = "idle" /\ weakPc[t] = "idle"
  /\ expected[t] # NULL /\ weakDesired[t] = NULL
  /\ weaks[expected[t]] <= MaxRefs
  /\ weaks' = [weaks EXCEPT ![expected[t]] = @ + 1]
  /\ weakDesired' = [weakDesired EXCEPT ![t] = expected[t]]
  /\ UNCHANGED <<reclaimerVars, strongVars, weakExpected, weakResult, weakTarget,
                 weakPc, weakCont, weakHanded>>

\* Mutant: the counter is incremented whether it is zero or not.
LockAny(t) ==
  /\ pc[t] = "idle" /\ weakPc[t] = "idle"
  /\ weakExpected[t] # NULL /\ desired[t] = NULL
  /\ refs[weakExpected[t]] < MaxRefs
  /\ refs' = [refs EXCEPT ![weakExpected[t]] = @ + 1]
  /\ desired' = [desired EXCEPT ![t] = weakExpected[t]]
  /\ UNCHANGED <<reclaimerVars, expected, result, localVars, handed, weaks, weakVars>>

\* lock(): incrementNotZeroRef()
Lock(t) ==
  /\ pc[t] = "idle" /\ weakPc[t] = "idle"
  /\ weakExpected[t] # NULL /\ desired[t] = NULL
  /\ refs[weakExpected[t]] \in 1..(MaxRefs - 1)
  /\ refs' = [refs EXCEPT ![weakExpected[t]] = @ + 1]
  /\ desired' = [desired EXCEPT ![t] = weakExpected[t]]
  /\ UNCHANGED <<reclaimerVars, expected, result, localVars, handed, weaks, weakVars>>

BothNext ==
  \/ \E t \in Thread : NewBlock(t) \/ Strong(t) \/ WeakStep(t) \/ MakeWeak(t) \/ Lock(t)
  \/ \E p \in Ptr : DisposeRef(p) /\ DropSharedWeak /\ UNCHANGED weakVars
  \/ \E p \in Ptr : Weak!DisposeRef(p) /\ UNCHANGED strongVars

BothSpec == BothInit /\ [][BothNext]_allVars

-----------------------------------------------------------------------------
\* The types; a thread is in one operation, and has a guard only in a load.
BothTypeOK ==
  /\ ReclaimerTypeOK
  /\ refs \in [Ptr -> 0..MaxRefs] /\ weaks \in [Ptr -> 0..(MaxRefs + 1)]
  /\ \A t \in Thread :
       /\ pc[t] = "idle" \/ weakPc[t] = "idle"
       /\ guards[t] = {} <=> {pc[t], weakPc[t]} \cap {"increment", "unguard"} = {}

\* Both counters are exact: the weak one counts the weak owners, and one more
\* as long as there is a strong one.
BothCountsAreExact ==
  /\ CountIsExact
  /\ \A p \in Ptr :
       weaks[p] = Weak!Owners(p) + (IF refs[p] > 0 THEN 1 ELSE 0)

\* A guarded block is not freed, whichever of its strong and weak records the
\* scan has spared, unless the exchange() of an AtomicWeakPtr has overtaken the
\* load() that holds the guard: a strong reference is a weak one too.
GuardedIsNotFreed ==
  \A t \in Thread \ weakHanded : \A g \in guards[t] :
    g.value # NULL => weaks[g.value] > 0

\* A value that load() of an AtomicSharedPtr is about to own is alive, unless
\* a weak record of the same block is retired too: lower_bound can mark that
\* one, and the strong reference is dropped.
OnlyWeakRecordsUndercut ==
  \A t \in Thread : \A g \in guards[t] :
    g.value # NULL /\ weakPc[t] = "idle" /\ refs[g.value] = 0
      => retired[[pointer |-> g.value, disposer |-> "decrementWeakRef"]] > 0
=============================================================================
