------------------------ MODULE AtomicWeakPtrProofs ------------------------
(***************************************************************************)
(* Both counters of a control block are exact, and a guarded block is not  *)
(* freed, with AtomicSharedPtr and AtomicWeakPtr objects on one domain,    *)
(* for any threads, cells, blocks and guards.                              *)
(*                                                                         *)
(* The weak class is another instance of what is proved of the shared one: *)
(* every step of a class keeps the invariant of that class, and is, for    *)
(* the other one, a step of the reclaimer that it has to bear.  What is    *)
(* left is the weak reference that the strong ones of a block own          *)
(* together.                                                               *)
(***************************************************************************)
EXTENDS AtomicWeakPtr, AtomicSharedPtrProofs

W == INSTANCE AtomicSharedPtrProofs WITH
  Kind <- "decrementWeakRef", MaxRefs <- MaxRefs + 1, refs <- weaks,
  expected <- weakExpected, desired <- weakDesired, result <- weakResult,
  target <- weakTarget, pc <- weakPc, cont <- weakCont, handed <- weakHanded

\* The weak reference that the strong ones own together.
Common(n) == IF n > 0 THEN 1 ELSE 0

\* A thread is in one operation, and has a guard only in a load().
OneOperation ==
  \A t \in Thread :
    /\ pc[t] = "idle" \/ weakPc[t] = "idle"
    /\ guards[t] = {} <=> ~ Guarding(t) /\ ~ W!Guarding(t)

WeakCountIsExact == \A p \in Ptr : weaks[p] = W!Owners(p) + Common(refs[p])

BothInv ==
  /\ ClassInv /\ W!ClassInv
  /\ OneOperation
  /\ handed = {}
  /\ CountIsExact /\ WeakCountIsExact

-----------------------------------------------------------------------------
(* The weak class is an instance of the shared one.                        *)

\* What is assumed of the constants of the shared class holds of those of the
\* weak one.
LEMMA WeakConstants ==
  /\ "decrementWeakRef" \in Disposer
  /\ W!IsFiniteSet(Thread) /\ W!IsFiniteSet(Cell) /\ MaxRefs + 1 \in Nat \ {0}
  /\ NULL \notin Ptr /\ DisposerOf \in [Cell -> Disposer]
<1>1. "decrementWeakRef" \in Disposer
  BY BothAssumption
<1>2. MaxRefs + 1 \in Nat \ {0}
  BY FiniteAssumption
<1>3. W!IsFiniteSet(Thread) /\ W!IsFiniteSet(Cell)
  BY Zenon, FiniteAssumption DEF W!IsFiniteSet, IsFiniteSet
<1> QED
  BY <1>1, <1>2, <1>3, ReclaimerAssumption

\* Both classes see the same reclaimer.
LEMMA SameTypes ==
  /\ W!ReclaimerTypes <=> ReclaimerTypes
  /\ W!ReclaimerTypes' <=> ReclaimerTypes'
<1>1. W!ReclaimerTypes <=> ReclaimerTypes
  BY Zenon DEF W!ReclaimerTypes, W!ReclaimerTypeOK, W!OneGuardPerSlot, W!GuardsOn,
     W!Retired, W!NoRecord, W!Guard, ReclaimerTypes, ReclaimerTypeOK, OneGuardPerSlot,
     GuardsOn, Retired, NoRecord, Guard
<1>2. W!ReclaimerTypes' <=> ReclaimerTypes'
  BY Zenon DEF W!ReclaimerTypes, W!ReclaimerTypeOK, W!OneGuardPerSlot, W!GuardsOn,
     W!Retired, W!NoRecord, W!Guard, ReclaimerTypes, ReclaimerTypeOK, OneGuardPerSlot,
     GuardsOn, Retired, NoRecord, Guard
<1> QED
  BY <1>1, <1>2

LEMMA SameSteps ==
  ASSUME NEW t, NEW c, NEW x
  PROVE  /\ W!Protect(t, c) <=> Protect(t, c)
         /\ W!ReleaseGuard(t, x) <=> ReleaseGuard(t, x)
         /\ W!Overwrite(t, c, x) <=> Overwrite(t, c, x)
         /\ W!Retire(t) <=> Retire(t)
         /\ W!Dispose(x) <=> Dispose(x)
         /\ W!reclaimerVars = reclaimerVars /\ W!reclaimerVars' = reclaimerVars'
<1>1. W!Protect(t, c) <=> Protect(t, c)
  BY Zenon DEF W!Protect, Protect
<1>2. W!ReleaseGuard(t, x) <=> ReleaseGuard(t, x)
  BY Zenon DEF W!ReleaseGuard, ReleaseGuard
<1>3. W!Overwrite(t, c, x) <=> Overwrite(t, c, x)
  BY Zenon DEF W!Overwrite, Overwrite, W!NoRecord, NoRecord
<1>4. W!Retire(t) <=> Retire(t)
  BY Zenon DEF W!Retire, Retire, W!NoRecord, NoRecord, W!GuardsOn, GuardsOn
<1>5. W!Dispose(x) <=> Dispose(x)
  BY Zenon DEF W!Dispose, Dispose, W!StillRetired, StillRetired
<1>6. W!reclaimerVars = reclaimerVars /\ W!reclaimerVars' = reclaimerVars'
  BY Zenon DEF W!reclaimerVars, reclaimerVars
<1> QED
  BY <1>1, <1>2, <1>3, <1>4, <1>5, <1>6

LEMMA SameRecords ==
  /\ W!Retired = Retired /\ W!NoRecord = NoRecord
  /\ \A p : W!Rec(p) = [pointer |-> p, disposer |-> "decrementWeakRef"]
BY Zenon DEF W!Retired, Retired, W!NoRecord, NoRecord, W!Rec

\* A cell belongs to one class.
LEMMA CellsApart ==
  /\ \A c \in Cells : c \in Cell \ W!Cells
  /\ \A c \in W!Cells : c \in Cell \ Cells
BY BothAssumption DEF Cells, W!Cells

\* A step of one class is a step of the other for the reclaimer.
LEMMA StrongIsOther == ASSUME NEW t, OwnMove(t) PROVE W!OtherMove(t)
<1>1. ASSUME Retire(t), inflight[t].disposer = Kind
      PROVE  W!Retire(t) /\ inflight[t].disposer # "decrementWeakRef"
  BY <1>1, SameSteps, BothAssumption
<1> QED
  BY <1>1, SameSteps, CellsApart DEF OwnMove, W!OtherMove

LEMMA WeakIsOther == ASSUME NEW t, W!OwnMove(t) PROVE OtherMove(t)
<1>1. ASSUME W!Retire(t), inflight[t].disposer = "decrementWeakRef"
      PROVE  Retire(t) /\ inflight[t].disposer # Kind
  BY <1>1, SameSteps, BothAssumption
<1> QED
  BY <1>1, SameSteps, CellsApart DEF W!OwnMove, OtherMove

-----------------------------------------------------------------------------
(* A step of the shared class.                                             *)

StrongMoves ==
  \/ \E t \in Thread : weakPc[t] = "idle" /\ OwnStep(t)
  \/ \E p \in Ptr : Dispose(Rec(p)) /\ UNCHANGED <<guards, pc>>
  \/ UNCHANGED <<reclaimerVars, pc>>

\* A thread that takes a step of the shared class does nothing in the other.
LEMMA StrongOperation ==
  ASSUME OneOperation, StrongMoves, UNCHANGED weakPc
  PROVE  OneOperation'
<1>1. CASE UNCHANGED <<guards, pc>>
  BY <1>1 DEF OneOperation, Guarding, W!Guarding
<1>2. ASSUME NEW t \in Thread, weakPc[t] = "idle", OwnStep(t) PROVE OneOperation'
  <2> SUFFICES ASSUME NEW u \in Thread
               PROVE  /\ pc'[u] = "idle" \/ weakPc'[u] = "idle"
                      /\ guards'[u] = {} <=> ~ Guarding(u)' /\ ~ W!Guarding(u)'
    BY DEF OneOperation
  <2>1. /\ pc[u] = "idle" \/ weakPc[u] = "idle"
        /\ guards[u] = {} <=> ~ Guarding(u) /\ ~ W!Guarding(u)
    BY DEF OneOperation
  <2>2. CASE u # t
    BY <1>2, <2>1, <2>2 DEF OwnStep, Guarding, W!Guarding
  <2>3. CASE u = t
    <3>1. ~ W!Guarding(t) /\ ~ W!Guarding(t)'
      BY <1>2 DEF W!Guarding
    <3> QED
      BY <1>2, <2>1, <2>3, <3>1 DEF OwnStep
  <2> QED
    BY <2>2, <2>3
<1> QED
  BY <1>1, <1>2 DEF StrongMoves, reclaimerVars

\* For the weak class it is a step of the reclaimer.
LEMMA StrongSeen ==
  ASSUME BothInv, StrongMoves, UNCHANGED weakVars
  PROVE  /\ W!ReclaimerTypes' /\ W!HandleTypes' /\ W!GuardsHold'
         /\ \A t \in Thread : W!Stage(t)'
         /\ \A p \in Ptr : W!Owners(p)' = W!Owners(p)
<1>1. \/ \E t \in Thread : weakPc[t] = "idle" /\ W!OtherMove(t)
      \/ \E r \in W!Retired : r.disposer # "decrementWeakRef" /\ W!Dispose(r)
      \/ UNCHANGED W!reclaimerVars
  <2>1. ASSUME NEW t \in Thread, weakPc[t] = "idle", OwnStep(t) PROVE W!OtherMove(t)
    BY <2>1, StrongIsOther DEF OwnStep
  <2>2. ASSUME NEW p \in Ptr, Dispose(Rec(p))
        PROVE  Rec(p) \in W!Retired /\ Rec(p).disposer # "decrementWeakRef"
                 /\ W!Dispose(Rec(p))
    BY <2>2, BlockParts, SameSteps, SameRecords, BothAssumption DEF BothInv, ClassInv, Rec
  <2> QED
    BY <2>1, <2>2, SameSteps DEF StrongMoves
<1>2. UNCHANGED <<weakExpected, weakDesired, weakResult, weakTarget, weakPc, weakCont,
                  weakHanded>>
  BY DEF weakVars
<1> QED
  BY <1>1, <1>2, WeakConstants, W!OtherStepKeeps DEF BothInv

\* The step keeps both counts if it counts the common weak reference.
LEMMA StrongStepKeeps ==
  ASSUME BothInv, ClassKept, StrongMoves, UNCHANGED handed, UNCHANGED weakVars,
         weaks' \in [Ptr -> Int], \A p \in Ptr : weaks'[p] <= MaxRefs + 1,
         \A p \in Ptr : weaks'[p] + Common(refs[p]) = weaks[p] + Common(refs'[p])
  PROVE  BothInv'
<1>1. ClassInv' /\ CountIsExact'
  BY CountAfter DEF BothInv
<1>2. /\ W!ReclaimerTypes' /\ W!HandleTypes' /\ W!GuardsHold'
      /\ \A t \in Thread : W!Stage(t)'
      /\ \A p \in Ptr : W!Owners(p)' = W!Owners(p)
  BY StrongSeen
<1>3. ASSUME NEW p \in Ptr
      PROVE  weaks'[p] \in Nat /\ weaks'[p] = W!Owners(p)' + Common(refs'[p])
  <2>1. W!Owners(p) \in Nat
    BY WeakConstants, W!OwnersNat DEF BothInv
  <2>2. Common(refs[p]) \in Nat /\ Common(refs'[p]) \in Nat
    BY DEF Common
  <2>3. weaks[p] = W!Owners(p) + Common(refs[p])
    BY DEF BothInv, WeakCountIsExact
  <2>4. weaks'[p] + Common(refs[p]) = weaks[p] + Common(refs'[p]) /\ weaks'[p] \in Int
    OBVIOUS
  <2>5. weaks'[p] = W!Owners(p) + Common(refs'[p])
    BY <2>1, <2>2, <2>3, <2>4
  <2>6. W!Owners(p)' = W!Owners(p)
    BY <1>2
  <2>7. weaks'[p] \in Nat
    BY <2>1, <2>2, <2>5
  <2> QED
    BY <2>5, <2>6, <2>7
<1>4. W!ClassTypes'
  BY <1>2, <1>3 DEF W!ClassTypes
<1>5. W!ClassInv'
  BY <1>2, <1>4 DEF W!ClassInv
<1>6. WeakCountIsExact'
  BY <1>3 DEF WeakCountIsExact
<1>7. OneOperation'
  BY StrongOperation DEF BothInv, weakVars
<1> QED
  BY <1>1, <1>5, <1>6, <1>7 DEF BothInv

-----------------------------------------------------------------------------
(* A step of the weak class.                                               *)

WeakMoves ==
  \/ \E t \in Thread : pc[t] = "idle" /\ W!OwnStep(t)
  \/ \E p \in Ptr : W!Dispose(W!Rec(p)) /\ UNCHANGED <<guards, weakPc>>

LEMMA WeakOperation ==
  ASSUME OneOperation, WeakMoves, UNCHANGED pc
  PROVE  OneOperation'
<1>1. CASE \E p \in Ptr : W!Dispose(W!Rec(p)) /\ UNCHANGED <<guards, weakPc>>
  BY <1>1 DEF OneOperation, Guarding, W!Guarding
<1>2. ASSUME NEW t \in Thread, pc[t] = "idle", W!OwnStep(t) PROVE OneOperation'
  <2> SUFFICES ASSUME NEW u \in Thread
               PROVE  /\ pc'[u] = "idle" \/ weakPc'[u] = "idle"
                      /\ guards'[u] = {} <=> ~ Guarding(u)' /\ ~ W!Guarding(u)'
    BY DEF OneOperation
  <2>1. /\ pc[u] = "idle" \/ weakPc[u] = "idle"
        /\ guards[u] = {} <=> ~ Guarding(u) /\ ~ W!Guarding(u)
    BY DEF OneOperation
  <2>2. CASE u # t
    BY <1>2, <2>1, <2>2 DEF W!OwnStep, Guarding, W!Guarding
  <2>3. CASE u = t
    <3>1. ~ Guarding(t) /\ ~ Guarding(t)'
      BY <1>2 DEF Guarding
    <3> QED
      BY <1>2, <2>1, <2>3, <3>1 DEF W!OwnStep
  <2> QED
    BY <2>2, <2>3
<1> QED
  BY <1>1, <1>2 DEF WeakMoves

LEMMA WeakSeen ==
  ASSUME BothInv, WeakMoves, UNCHANGED strongVars
  PROVE  /\ ReclaimerTypes' /\ HandleTypes' /\ GuardsHold'
         /\ \A t \in Thread : Stage(t)'
         /\ \A p \in Ptr : Owners(p)' = Owners(p)
<1>1. \/ \E t \in Thread : pc[t] = "idle" /\ OtherMove(t)
      \/ \E r \in Retired : r.disposer # Kind /\ Dispose(r)
  <2>1. ASSUME NEW t \in Thread, pc[t] = "idle", W!OwnStep(t) PROVE OtherMove(t)
    BY <2>1, WeakIsOther DEF W!OwnStep
  <2>2. ASSUME NEW p \in Ptr, W!Dispose(W!Rec(p))
        PROVE  W!Rec(p) \in Retired /\ W!Rec(p).disposer # Kind /\ Dispose(W!Rec(p))
    BY <2>2, SameSteps, SameRecords, WeakConstants, BothAssumption DEF Retired
  <2> QED
    BY <2>1, <2>2 DEF WeakMoves
<1>2. UNCHANGED <<expected, desired, result, target, pc, cont, handed>>
  BY DEF strongVars, handleVars, localVars
<1> QED
  BY <1>1, <1>2, OtherStepKeeps DEF BothInv

LEMMA WeakStepKeeps ==
  ASSUME BothInv, W!ClassKept, WeakMoves, UNCHANGED strongVars
  PROVE  BothInv'
<1> DEFINE b == [p \in Ptr |-> Common(refs[p])]
<1>1. b \in [Ptr -> Nat] /\ \A p \in Ptr : weaks[p] = W!Owners(p) + b[p]
  BY DEF BothInv, WeakCountIsExact, Common
<1>2. \A p \in Ptr : b[p] = Common(refs[p])
  OBVIOUS
<1> HIDE DEF b
<1>3. W!ClassInv' /\ \A p \in Ptr : weaks'[p] = W!Owners(p)' + b[p]
  BY <1>1, WeakConstants, W!ClassAfter DEF BothInv
<1>4. /\ ReclaimerTypes' /\ HandleTypes' /\ GuardsHold'
      /\ \A t \in Thread : Stage(t)'
      /\ \A p \in Ptr : Owners(p)' = Owners(p)
  BY WeakSeen
<1>5. UNCHANGED <<refs, pc, handed>>
  BY DEF strongVars, localVars
<1>6. ClassInv'
  BY <1>4, <1>5 DEF BothInv, ClassInv, ClassTypes
<1>7. CountIsExact' /\ WeakCountIsExact'
  BY <1>2, <1>3, <1>4, <1>5 DEF BothInv, CountIsExact, WeakCountIsExact
<1>8. OneOperation'
  BY <1>5, WeakOperation DEF BothInv
<1> QED
  BY <1>3, <1>5, <1>6, <1>7, <1>8 DEF BothInv

-----------------------------------------------------------------------------
(* Every action keeps the invariant.                                       *)

LEMMA BothParts ==
  ASSUME BothInv
  PROVE  /\ ClassInv /\ W!ClassInv
         /\ \A p \in Ptr : /\ refs[p] \in Nat /\ refs[p] <= MaxRefs
                           /\ weaks[p] \in Nat /\ weaks[p] <= MaxRefs + 1
         /\ refs \in [Ptr -> Nat] /\ weaks \in [Ptr -> Nat]
         /\ expected \in [Thread -> Ptr \cup {NULL}]
         /\ weakExpected \in [Thread -> Ptr \cup {NULL}]
BY DEF BothInv, ClassInv, ClassTypes, HandleTypes, W!ClassInv, W!ClassTypes, W!HandleTypes

\* Who has a handle on a block has a reference of it.
LEMMA HandleHasRefs ==
  ASSUME BothInv, NEW t \in Thread, expected[t] # NULL
  PROVE  expected[t] \in Ptr /\ refs[expected[t]] > 0
<1>1. expected[t] \in Ptr
  BY BothParts
<1>2. retired[Rec(expected[t])] \in Nat
  BY <1>1, BlockParts DEF BothInv, ClassInv
<1>3. Owners(expected[t]) > 0
  BY <1>1, <1>2, OwnersPositive
<1> QED
  BY <1>1, <1>3 DEF BothInv, CountIsExact

\* What the operations of the shared class do: no reference of a block that
\* is gone appears again.
StrongDoes(t) ==
  /\ ClassKept /\ OwnStep(t) /\ UNCHANGED handed
  /\ \A p \in Ptr : refs[p] = 0 => refs'[p] <= 0

LEMMA DecrementedStaysZero ==
  ASSUME BothInv, NEW q \in Ptr \cup {NULL}, refs' = Decremented(q), NEW p \in Ptr,
         refs[p] = 0
  PROVE  refs'[p] <= 0
<1>1. refs'[p] = refs[p] - Is(q, p)
  BY DecrementedBy DEF BothInv, ClassInv
<1>2. Is(q, p) \in {0, 1}
  BY DEF Is
<1> QED
  BY <1>1, <1>2

LEMMA IncrementedStaysZero ==
  ASSUME BothInv, NEW q \in Ptr, refs[q] > 0, refs' = Incremented(q), NEW p \in Ptr,
         refs[p] = 0
  PROVE  refs'[p] <= 0
<1>1. p # q
  BY BothParts
<1>2. refs'[p] = refs[p]
  BY <1>1, BothParts DEF Incremented
<1> QED
  BY <1>2

LEMMA StrongCounts ==
  ASSUME BothInv, NEW t \in Thread,
         \/ CopyShared(t) \/ ResetExpected(t) \/ DropDesired(t) \/ DelayDecrementRef(t)
         \/ CompareExchangeReturns(t)
         \/ LoadIncrementAlive(t) \/ LoadAssign(t)
         \/ LoadProtect(t) \/ LoadRelease(t)
         \/ \E c \in Cells : \/ Store(t, c) \/ Load(t, c) \/ DestroyCell(t, c)
                             \/ CompareExchange(t, c) \/ CompareExchangeFails(t, c)
  PROVE  \A p \in Ptr : refs[p] = 0 => refs'[p] <= 0
<1>1. ASSUME UNCHANGED refs PROVE \A p \in Ptr : refs[p] = 0 => refs'[p] <= 0
  BY <1>1
<1>2. ASSUME NEW q \in Ptr \cup {NULL}, refs' = Decremented(q)
      PROVE  \A p \in Ptr : refs[p] = 0 => refs'[p] <= 0
  BY <1>2, DecrementedStaysZero
<1>3. ASSUME NEW q \in Ptr, refs[q] > 0, refs' = Incremented(q)
      PROVE  \A p \in Ptr : refs[p] = 0 => refs'[p] <= 0
  BY <1>3, IncrementedStaysZero
<1>4. expected[t] \in Ptr \cup {NULL} /\ desired[t] \in Ptr \cup {NULL}
  BY DEF BothInv, ClassInv, ClassTypes, HandleTypes
<1>5. \A c \in Cells : cell[c] \in Ptr \cup {NULL}
  BY CellsFinite DEF BothInv, ClassInv, ReclaimerTypes, ReclaimerTypeOK
<1>6. CASE CopyShared(t)
  BY <1>3, <1>6, HandleHasRefs DEF CopyShared
<1>7. CASE ResetExpected(t) \/ LoadAssign(t)
  BY <1>2, <1>4, <1>7 DEF ResetExpected, LoadAssign
<1>8. CASE DropDesired(t)
  BY <1>2, <1>4, <1>8 DEF DropDesired
<1>9. CASE LoadIncrementAlive(t)
  <2>1. PICK g \in guards[t] : refs' = Incremented(g.value)
    BY <1>9 DEF LoadIncrementAlive, LoadIncrement
  <2>2. pc[t] = "increment" /\ refs[g.value] > 0
    BY <1>9 DEF LoadIncrementAlive, LoadIncrement
  <2>3. g.value \in Ptr
    BY <2>2, GuardParts DEF BothInv, ClassInv, Stage
  <2> QED
    BY <1>3, <2>1, <2>2, <2>3
<1>10. CASE \E c \in Cells : DestroyCell(t, c)
  BY <1>2, <1>5, <1>10 DEF DestroyCell
<1>11. CASE \/ LoadProtect(t) \/ LoadRelease(t)
             \/ DelayDecrementRef(t) \/ CompareExchangeReturns(t)
  BY <1>1, <1>11 DEF LoadProtect, LoadRelease, DelayDecrementRef, CompareExchangeReturns
<1>12. CASE \E c \in Cells : \/ Store(t, c) \/ Load(t, c) \/ CompareExchange(t, c)
                             \/ CompareExchangeFails(t, c)
  BY <1>1, <1>12 DEF Store, Load, CompareExchange, CompareExchangeFails
<1> QED
  BY <1>6, <1>7, <1>8, <1>9, <1>10, <1>11, <1>12

LEMMA StrongHanded ==
  ASSUME handed = {}, NEW t \in Thread, Strong(t)
  PROVE  UNCHANGED handed
BY DEF Strong, CopyShared, ResetExpected, DropDesired, DelayDecrementRef,
   CompareExchangeReturns, LoadProtect, LoadIncrementAlive, LoadIncrement, LoadRelease,
   LoadAssign, Store, Load, DestroyCell, CompareExchange, CompareExchangeFails

LEMMA StrongParts ==
  ASSUME BothInv, NEW t \in Thread, Strong(t)
  PROVE  StrongDoes(t)
<1>1. ClassInv /\ weakPc[t] = "idle"
  BY DEF BothInv, Strong
<1>2. LoadProtect(t) => guards[t] = {}
  BY <1>1 DEF LoadProtect, BothInv, OneOperation, Guarding, W!Guarding
<1>3. \/ CopyShared(t) \/ ResetExpected(t) \/ DropDesired(t) \/ DelayDecrementRef(t)
      \/ CompareExchangeReturns(t)
      \/ LoadProtect(t) \/ LoadIncrementAlive(t) \/ LoadRelease(t) \/ LoadAssign(t)
      \/ \E c \in Cells : \/ Store(t, c) \/ Load(t, c) \/ DestroyCell(t, c)
                          \/ CompareExchange(t, c) \/ CompareExchangeFails(t, c)
  BY DEF Strong
<1>4. ClassKept /\ OwnStep(t)
  BY <1>1, <1>2, <1>3, CopySharedKeeps, ResetExpectedKeeps, DropDesiredKeeps,
     DelayDecrementRefKeeps, CompareExchangeReturnsKeeps, LoadProtectKeeps,
     LoadIncrementKeeps, LoadReleaseKeeps, LoadAssignKeeps, StoreKeeps, LoadKeeps, DestroyCellKeeps, CompareExchangeKeeps,
     CompareExchangeFailsKeeps DEF LoadIncrementAlive
<1> QED
  BY <1>3, <1>4, StrongCounts, StrongHanded DEF StrongDoes, BothInv

\* The last strong reference of a block takes the common weak one with it.
LEMMA CommonDropped ==
  ASSUME BothInv, ClassKept, DropSharedWeak, \A p \in Ptr : refs[p] = 0 => refs'[p] <= 0
  PROVE  /\ weaks' \in [Ptr -> Int] /\ \A p \in Ptr : weaks'[p] <= MaxRefs + 1
         /\ \A p \in Ptr : weaks'[p] + Common(refs[p]) = weaks[p] + Common(refs'[p])
<1>1. ClassInv' /\ CountIsExact'
  BY CountAfter DEF BothInv
<1>2. \A p \in Ptr : /\ refs[p] \in Nat /\ refs'[p] \in Nat
                     /\ weaks[p] \in Nat /\ weaks[p] <= MaxRefs + 1
  BY <1>1, BothParts DEF ClassInv, ClassTypes
<1>3. \A p \in Ptr :
        weaks'[p] = IF refs[p] > refs'[p] /\ refs'[p] = 0 THEN weaks[p] - 1 ELSE weaks[p]
  BY DEF DropSharedWeak
<1>4. weaks' \in [Ptr -> Int]
  BY <1>2 DEF DropSharedWeak
<1>5. \A p \in Ptr : weaks'[p] <= MaxRefs + 1
  BY <1>2, <1>3, FiniteAssumption
<1>6. \A p \in Ptr : weaks'[p] + Common(refs[p]) = weaks[p] + Common(refs'[p])
  BY <1>2, <1>3 DEF Common
<1> QED
  BY <1>4, <1>5, <1>6

LEMMA StrongKeeps == ASSUME BothInv, NEW t \in Thread, Strong(t) PROVE BothInv'
<1>1. StrongDoes(t)
  BY StrongParts
<1>2. weakPc[t] = "idle" /\ DropSharedWeak /\ UNCHANGED weakVars
  BY DEF Strong
<1>3. StrongMoves
  BY <1>1, <1>2 DEF StrongDoes, StrongMoves
<1> QED
  BY <1>1, <1>2, <1>3, CommonDropped, StrongStepKeeps DEF StrongDoes

LEMMA DisposeStrongKeeps ==
  ASSUME BothInv, NEW q \in Ptr, DisposeRef(q), DropSharedWeak, UNCHANGED weakVars
  PROVE  BothInv'
<1>1. ClassKept
  BY DisposeRefKeeps DEF BothInv
<1>2. /\ Dispose(Rec(q)) /\ refs' = Decremented(q)
      /\ UNCHANGED <<guards, pc, handed>>
  BY DEF DisposeRef, Dispose, Rec, localVars
<1>3. \A p \in Ptr : refs[p] = 0 => refs'[p] <= 0
  BY <1>2, DecrementedStaysZero
<1>4. StrongMoves
  BY <1>2 DEF StrongMoves
<1> QED
  BY <1>1, <1>2, <1>3, <1>4, CommonDropped, StrongStepKeeps

\* makeShared(): the block has a strong reference and the common weak one.
LEMMA NewBlockKeeps == ASSUME BothInv, NEW t \in Thread, NewBlock(t) PROVE BothInv'
<1>1. /\ weakPc[t] = "idle" /\ MakeShared(t) /\ UNCHANGED weakVars
      /\ \A p \in Ptr : refs'[p] > refs[p] => weaks[p] = 0
      /\ weaks' = [p \in Ptr |-> IF refs'[p] > refs[p] THEN 1 ELSE weaks[p]]
  BY DEF NewBlock
<1>2. ClassKept /\ OwnStep(t)
  BY <1>1, MakeSharedKeeps DEF BothInv
<1>3. StrongMoves /\ UNCHANGED handed
  BY <1>1, <1>2 DEF StrongMoves, MakeShared
<1>4. PICK q \in Ptr : refs[q] = 0 /\ refs' = Incremented(q)
  BY <1>1 DEF MakeShared
<1>5. \A p \in Ptr : refs'[p] = IF p = q THEN 1 ELSE refs[p]
  BY <1>4, BothParts DEF Incremented
<1>6. \A p \in Ptr : weaks'[p] = IF p = q THEN 1 ELSE weaks[p]
  BY <1>1, <1>4, <1>5, BothParts
<1>7. weaks[q] = 0
  BY <1>1, <1>4, <1>5
<1>8. weaks' \in [Ptr -> Int]
  BY <1>1, BothParts
<1>9. \A p \in Ptr : weaks'[p] <= MaxRefs + 1
  BY <1>6, BothParts, FiniteAssumption
<1>10. \A p \in Ptr : weaks'[p] + Common(refs[p]) = weaks[p] + Common(refs'[p])
  <2> TAKE p \in Ptr
  <2>1. CASE p = q
    BY <1>4, <1>5, <1>6, <1>7, <2>1 DEF Common
  <2>2. CASE p # q
    BY <1>5, <1>6, <2>2 DEF Common
  <2> QED
    BY <2>1, <2>2
<1> QED
  BY <1>1, <1>2, <1>3, <1>8, <1>9, <1>10, StrongStepKeeps

\* lock(): the block has a strong reference already.
LEMMA LockKeeps == ASSUME BothInv, NEW t \in Thread, Lock(t) PROVE BothInv'
<1> DEFINE q == weakExpected[t]
<1>1. /\ weakPc[t] = "idle" /\ desired[t] = NULL /\ q # NULL
      /\ refs[q] \in 1..(MaxRefs - 1)
      /\ refs' = Incremented(q) /\ desired' = [desired EXCEPT ![t] = q]
      /\ UNCHANGED <<reclaimerVars, expected, result, target, pc, cont, handed>>
      /\ UNCHANGED weaks /\ UNCHANGED weakVars
  BY DEF Lock, localVars, Incremented
<1>2. q \in Ptr /\ refs[q] < MaxRefs /\ refs[q] > 0
  BY <1>1, BothParts, FiniteAssumption
<1>3. ClassKept /\ OwnStep(t)
  BY <1>1, <1>2, SetDesiredKeeps DEF BothInv
<1>4. StrongMoves
  BY <1>1, <1>3 DEF StrongMoves
<1>5. \A p \in Ptr : refs'[p] = IF p = q THEN refs[q] + 1 ELSE refs[p]
  BY <1>1, <1>2, BothParts DEF Incremented
<1>6. \A p \in Ptr : Common(refs'[p]) = Common(refs[p])
  BY <1>2, <1>5, BothParts DEF Common
<1>7. /\ weaks' \in [Ptr -> Int] /\ \A p \in Ptr : weaks'[p] <= MaxRefs + 1
      /\ \A p \in Ptr : weaks'[p] + Common(refs[p]) = weaks[p] + Common(refs'[p])
  BY <1>1, <1>6, BothParts
<1> QED
  BY <1>1, <1>3, <1>4, <1>7, StrongStepKeeps

-----------------------------------------------------------------------------
(* The operations of the weak class are those of the shared one.           *)

LEMMA SameHandleSteps ==
  ASSUME NEW t \in Thread
  PROVE  /\ Weak!CopyShared(t) => W!CopyShared(t)
         /\ Weak!ResetExpected(t) => W!ResetExpected(t)
         /\ Weak!DropDesired(t) => W!DropDesired(t)
<1>1. Weak!CopyShared(t) => W!CopyShared(t)
  BY Zenon DEF W!CopyShared, Weak!CopyShared, W!Incremented, Weak!Incremented,
     W!reclaimerVars, Weak!reclaimerVars, W!localVars, Weak!localVars
<1>2. Weak!ResetExpected(t) => W!ResetExpected(t)
  BY Zenon DEF W!ResetExpected, Weak!ResetExpected, W!Decremented, Weak!Decremented,
     W!reclaimerVars, Weak!reclaimerVars, W!localVars, Weak!localVars
<1>3. Weak!DropDesired(t) => W!DropDesired(t)
  BY Zenon DEF W!DropDesired, Weak!DropDesired, W!Decremented, Weak!Decremented,
     W!reclaimerVars, Weak!reclaimerVars, W!Goto, Weak!Goto
<1> QED
  BY <1>1, <1>2, <1>3

LEMMA SameLoadSteps ==
  ASSUME NEW t \in Thread
  PROVE  /\ Weak!DelayDecrementRef(t) => W!DelayDecrementRef(t)
         /\ Weak!CompareExchangeReturns(t) => W!CompareExchangeReturns(t)
         /\ Weak!LoadProtect(t) => W!LoadProtect(t)
         /\ Weak!LoadIncrement(t) => W!LoadIncrement(t)
         /\ Weak!LoadRelease(t) => W!LoadRelease(t)
         /\ Weak!LoadAssign(t) => W!LoadAssign(t)
<1>1. Weak!DelayDecrementRef(t) => W!DelayDecrementRef(t)
  BY Zenon DEF W!DelayDecrementRef, Weak!DelayDecrementRef, W!Retire, Weak!Retire,
     W!NoRecord, Weak!NoRecord, W!GuardsOn, Weak!GuardsOn,
     W!handleVars, Weak!handleVars, W!Goto, Weak!Goto
<1>2. Weak!LoadProtect(t) => W!LoadProtect(t)
  BY Zenon DEF W!LoadProtect, Weak!LoadProtect, W!Protect, Weak!Protect,
     W!handleVars, Weak!handleVars, W!Goto, Weak!Goto
<1>3. Weak!LoadIncrement(t) => W!LoadIncrement(t)
  BY Zenon DEF W!LoadIncrement, Weak!LoadIncrement, W!Incremented, Weak!Incremented,
     W!reclaimerVars, Weak!reclaimerVars, W!Goto, Weak!Goto
<1>4. Weak!LoadRelease(t) => W!LoadRelease(t)
  BY Zenon DEF W!LoadRelease, Weak!LoadRelease, W!ReleaseGuard, Weak!ReleaseGuard,
     W!handleVars, Weak!handleVars, W!Goto, Weak!Goto
<1>5. Weak!LoadAssign(t) => W!LoadAssign(t)
  BY Zenon DEF W!LoadAssign, Weak!LoadAssign, W!Decremented, Weak!Decremented,
     W!reclaimerVars, Weak!reclaimerVars, W!Goto, Weak!Goto
<1>6. Weak!Retire(t) => W!Retire(t)
  BY Zenon DEF W!Retire, Weak!Retire, W!NoRecord, Weak!NoRecord, W!GuardsOn, Weak!GuardsOn
<1>7. Weak!CompareExchangeReturns(t) => W!CompareExchangeReturns(t)
  BY Zenon, <1>6 DEF W!CompareExchangeReturns, Weak!CompareExchangeReturns,
     W!NoRecord, Weak!NoRecord, W!reclaimerVars, Weak!reclaimerVars,
     W!handleVars, Weak!handleVars, W!Goto, Weak!Goto
<1> QED
  BY <1>1, <1>2, <1>3, <1>4, <1>5, <1>7

LEMMA SameCellSteps ==
  ASSUME NEW t \in Thread, NEW c \in Weak!Cells
  PROVE  /\ c \in W!Cells
         /\ Weak!Store(t, c) => W!Store(t, c)
         /\ Weak!Exchange(t, c) => W!Exchange(t, c)
         /\ Weak!Load(t, c) => W!Load(t, c)
         /\ Weak!CompareExchange(t, c) => W!CompareExchange(t, c)
         /\ Weak!CompareExchangeFails(t, c) => W!CompareExchangeFails(t, c)
         /\ Weak!DestroyCell(t, c) => W!DestroyCell(t, c)
<1>1. c \in W!Cells
  BY Zenon DEF W!Cells, Weak!Cells
<1>2. Weak!Overwrite(t, c, weakDesired[t]) => W!Overwrite(t, c, weakDesired[t])
  BY Zenon DEF W!Overwrite, Weak!Overwrite, W!NoRecord, Weak!NoRecord
<1>3. Weak!Store(t, c) => W!Store(t, c)
  BY Zenon, <1>2 DEF W!Store, Weak!Store, W!Goto, Weak!Goto
<1>4. Weak!Exchange(t, c) => W!Exchange(t, c)
  BY Zenon DEF W!Exchange, Weak!Exchange, W!localVars, Weak!localVars
<1>5. Weak!Load(t, c) => W!Load(t, c)
  BY Zenon DEF W!Load, Weak!Load, W!reclaimerVars, Weak!reclaimerVars,
     W!handleVars, Weak!handleVars, W!Goto, Weak!Goto
<1>6. Weak!CompareExchange(t, c) => W!CompareExchange(t, c)
  BY Zenon, <1>2 DEF W!CompareExchange, Weak!CompareExchange, W!Goto, Weak!Goto
<1>7. Weak!CompareExchangeFails(t, c) => W!CompareExchangeFails(t, c)
  BY Zenon DEF W!CompareExchangeFails, Weak!CompareExchangeFails,
     W!reclaimerVars, Weak!reclaimerVars, W!handleVars, Weak!handleVars, W!Goto, Weak!Goto
<1>8. Weak!DestroyCell(t, c) => W!DestroyCell(t, c)
  BY Zenon DEF W!DestroyCell, Weak!DestroyCell, W!Decremented, Weak!Decremented,
     W!handleVars, Weak!handleVars, W!localVars, Weak!localVars
<1> QED
  BY <1>1, <1>3, <1>4, <1>5, <1>6, <1>7, <1>8

LEMMA WeakStepKept == ASSUME BothInv, NEW t \in Thread, WeakStep(t) PROVE BothInv'
<1>1. W!ClassInv /\ pc[t] = "idle" /\ UNCHANGED strongVars
  BY DEF BothInv, WeakStep
<1>2. ASSUME W!LoadProtect(t) PROVE guards[t] = {}
  BY <1>1, <1>2 DEF W!LoadProtect, BothInv, OneOperation, Guarding, W!Guarding
<1>3. \/ W!CopyShared(t) \/ W!ResetExpected(t) \/ W!DropDesired(t)
      \/ W!DelayDecrementRef(t) \/ W!CompareExchangeReturns(t)
      \/ W!LoadProtect(t) \/ W!LoadIncrement(t) \/ W!LoadRelease(t) \/ W!LoadAssign(t)
      \/ \E c \in W!Cells :
           \/ W!Store(t, c) \/ W!Exchange(t, c) \/ W!Load(t, c) \/ W!DestroyCell(t, c)
           \/ W!CompareExchange(t, c) \/ W!CompareExchangeFails(t, c)
  BY SameHandleSteps, SameLoadSteps, SameCellSteps
     DEF WeakStep, WeakHandle, WeakLoadIncrementAlive
<1>4. ASSUME W!CopyShared(t) \/ W!ResetExpected(t) \/ W!DropDesired(t)
      PROVE  W!ClassKept /\ W!OwnStep(t)
  BY <1>1, <1>4, WeakConstants, W!CopySharedKeeps, W!ResetExpectedKeeps, W!DropDesiredKeeps
<1>5. ASSUME \/ W!DelayDecrementRef(t) \/ W!CompareExchangeReturns(t)
             \/ W!LoadProtect(t) \/ W!LoadIncrement(t) \/ W!LoadRelease(t) \/ W!LoadAssign(t)
      PROVE  W!ClassKept /\ W!OwnStep(t)
  BY <1>1, <1>2, <1>5, WeakConstants, W!DelayDecrementRefKeeps,
     W!CompareExchangeReturnsKeeps, W!LoadProtectKeeps, W!LoadIncrementKeeps,
     W!LoadReleaseKeeps, W!LoadAssignKeeps
<1>6. ASSUME NEW c \in W!Cells,
             \/ W!Store(t, c) \/ W!Exchange(t, c) \/ W!Load(t, c) \/ W!DestroyCell(t, c)
             \/ W!CompareExchange(t, c) \/ W!CompareExchangeFails(t, c)
      PROVE  W!ClassKept /\ W!OwnStep(t)
  BY <1>1, <1>6, WeakConstants, W!StoreKeeps, W!ExchangeKeeps, W!LoadKeeps,
     W!DestroyCellKeeps, W!CompareExchangeKeeps, W!CompareExchangeFailsKeeps
<1>7. W!ClassKept /\ W!OwnStep(t)
  BY <1>3, <1>4, <1>5, <1>6
<1>8. WeakMoves
  BY <1>1, <1>7 DEF WeakMoves
<1> QED
  BY <1>1, <1>7, <1>8, WeakStepKeeps

LEMMA DisposeWeakKeeps ==
  ASSUME BothInv, NEW q \in Ptr, Weak!DisposeRef(q), UNCHANGED strongVars
  PROVE  BothInv'
<1>1. W!DisposeRef(q)
  BY Zenon DEF W!DisposeRef, Weak!DisposeRef, W!Dispose, Weak!Dispose,
     W!StillRetired, Weak!StillRetired, W!Decremented, Weak!Decremented,
     W!handleVars, Weak!handleVars, W!localVars, Weak!localVars
<1>2. W!ClassKept
  BY <1>1, WeakConstants, W!DisposeRefKeeps DEF BothInv
<1>3. W!Dispose(W!Rec(q)) /\ UNCHANGED <<guards, weakPc>>
  BY <1>1 DEF W!DisposeRef, W!Dispose, W!Rec, W!localVars
<1>4. WeakMoves
  BY <1>3 DEF WeakMoves
<1> QED
  BY <1>2, <1>4, WeakStepKeeps

\* WeakPtr(const SharedPtr &)
LEMMA MakeWeakKeeps == ASSUME BothInv, NEW t \in Thread, MakeWeak(t) PROVE BothInv'
<1> DEFINE q == expected[t]
<1>1. /\ pc[t] = "idle" /\ weakDesired[t] = NULL /\ q # NULL /\ weaks[q] <= MaxRefs
      /\ weaks' = [weaks EXCEPT ![q] = @ + 1]
      /\ weakDesired' = [weakDesired EXCEPT ![t] = q]
      /\ UNCHANGED <<reclaimerVars, weakExpected, weakResult, weakTarget, weakPc, weakCont,
                     weakHanded>>
      /\ UNCHANGED strongVars
  BY DEF MakeWeak
<1>2. q \in Ptr /\ weaks[q] < MaxRefs + 1
  BY <1>1, BothParts, FiniteAssumption
<1>3. weaks' = W!Incremented(q)
  BY <1>1 DEF W!Incremented
<1>4. UNCHANGED W!reclaimerVars
  BY <1>1, SameSteps
<1> HIDE DEF q
<1>5. W!ClassKept /\ W!OwnStep(t)
  BY <1>1, <1>2, <1>3, <1>4, WeakConstants, W!SetDesiredKeeps DEF BothInv
<1>6. WeakMoves
  BY <1>1, <1>5 DEF WeakMoves
<1> QED
  BY <1>1, <1>5, <1>6, WeakStepKeeps

-----------------------------------------------------------------------------
(* The invariant and what it implies.                                      *)

LEMMA BothInitInv == BothInit => BothInv
<1> SUFFICES ASSUME BothInit PROVE BothInv
  OBVIOUS
<1>1. Init
  BY DEF BothInit
<1>2. W!Init
  BY Zenon DEF BothInit, Weak!Init, W!Init, Weak!ReclaimerInit, W!ReclaimerInit,
     Weak!NoRecord, W!NoRecord, Weak!Retired, W!Retired
<1>3. ClassInv /\ OwnGuards /\ CountIsExact
  BY <1>1, InitInv DEF IInv
<1>4. W!ClassInv /\ W!OwnGuards /\ W!CountIsExact
  BY <1>2, WeakConstants, W!InitInv DEF W!IInv
<1>5. handed = {} /\ \A t \in Thread : pc[t] = "idle" /\ weakPc[t] = "idle"
  BY <1>1, <1>2 DEF Init, W!Init
<1>6. \A p \in Ptr : refs[p] = 0 /\ weaks[p] = 0
  BY <1>1, <1>2 DEF Init, W!Init
<1>7. OneOperation
  BY <1>3, <1>5 DEF OneOperation, OwnGuards, Guarding, W!Guarding
<1>8. WeakCountIsExact
  BY <1>4, <1>6 DEF WeakCountIsExact, W!CountIsExact, Common
<1> QED
  BY <1>3, <1>4, <1>5, <1>7, <1>8 DEF BothInv

LEMMA BothNextInv == BothInv /\ [BothNext]_allVars => BothInv'
<1> SUFFICES ASSUME BothInv, [BothNext]_allVars PROVE BothInv'
  OBVIOUS
<1>1. CASE UNCHANGED allVars
  <2>1. UNCHANGED vars /\ UNCHANGED weaks /\ UNCHANGED weakVars
    BY <1>1 DEF allVars
  <2>2. UNCHANGED <<reclaimerVars, refs, pc, handed>>
    BY <2>1 DEF vars, localVars
  <2>3. ClassKept /\ StrongMoves
    BY <2>1, <2>2, StutterKeeps DEF BothInv, StrongMoves
  <2>4. /\ weaks' \in [Ptr -> Int] /\ \A p \in Ptr : weaks'[p] <= MaxRefs + 1
        /\ \A p \in Ptr : weaks'[p] + Common(refs[p]) = weaks[p] + Common(refs'[p])
    BY <2>1, <2>2, BothParts
  <2> QED
    BY <2>1, <2>2, <2>3, <2>4, StrongStepKeeps
<1>2. ASSUME NEW t \in Thread,
             NewBlock(t) \/ Strong(t) \/ WeakStep(t) \/ MakeWeak(t) \/ Lock(t)
      PROVE  BothInv'
  BY <1>2, NewBlockKeeps, StrongKeeps, WeakStepKept, MakeWeakKeeps, LockKeeps
<1>3. ASSUME NEW p \in Ptr, DisposeRef(p), DropSharedWeak, UNCHANGED weakVars
      PROVE  BothInv'
  BY <1>3, DisposeStrongKeeps
<1>4. ASSUME NEW p \in Ptr, Weak!DisposeRef(p), UNCHANGED strongVars PROVE BothInv'
  BY <1>4, DisposeWeakKeeps
<1> QED
  BY <1>1, <1>2, <1>3, <1>4 DEF BothNext

LEMMA BothInvariance == BothSpec => []BothInv
BY BothInitInv, BothNextInv, PTL DEF BothSpec

LEMMA BothInvTypes == BothInv => BothTypeOK
<1> SUFFICES ASSUME BothInv PROVE BothTypeOK
  OBVIOUS
<1>1. refs \in [Ptr -> 0..MaxRefs] /\ weaks \in [Ptr -> 0..(MaxRefs + 1)]
  <2>1. \A p \in Ptr : refs[p] \in 0..MaxRefs /\ weaks[p] \in 0..(MaxRefs + 1)
    BY BothParts, FiniteAssumption
  <2> QED
    BY <2>1, BothParts
<1>2. ASSUME NEW t \in Thread
      PROVE  /\ pc[t] = "idle" \/ weakPc[t] = "idle"
             /\ guards[t] = {} <=> {pc[t], weakPc[t]} \cap {"increment", "unguard"} = {}
  <2>1. /\ pc[t] = "idle" \/ weakPc[t] = "idle"
        /\ guards[t] = {} <=> ~ Guarding(t) /\ ~ W!Guarding(t)
    BY DEF BothInv, OneOperation
  <2>2. {pc[t], weakPc[t]} \cap {"increment", "unguard"} = {}
          <=> ~ Guarding(t) /\ ~ W!Guarding(t)
    BY DEF Guarding, W!Guarding
  <2> QED
    BY <2>1, <2>2
<1>3. ReclaimerTypeOK
  BY DEF BothInv, ClassInv, ReclaimerTypes
<1> QED
  BY <1>1, <1>2, <1>3 DEF BothTypeOK

LEMMA BothInvCounts == BothInv => BothCountsAreExact
<1> SUFFICES ASSUME BothInv PROVE BothCountsAreExact
  OBVIOUS
<1>1. ASSUME NEW p \in Ptr PROVE Weak!Owners(p) = W!Owners(p)
  BY Zenon DEF Weak!Owners, W!Owners, Weak!Cells, W!Cells, Weak!Cardinality, W!Cardinality
<1> QED
  BY <1>1 DEF BothInv, BothCountsAreExact, WeakCountIsExact, Common

\* A reference that is deferred for a guard is owned, by the one class or by
\* the other: of the records of a block the scan spares one.
LEMMA DeferredHasOwner ==
  ASSUME BothInv, NEW t, NEW s, NEW p \in Ptr
  PROVE  /\ Deferred({Kind}, t, s, p)
              => Owners(p) > 0 \/ retired[W!Rec(p)] > 0
         /\ W!Deferred({"decrementWeakRef"}, t, s, p)
              => Owners(p) > 0 \/ W!Owners(p) > 0
<1>1. /\ retired[Rec(p)] \in Nat /\ retired[W!Rec(p)] \in Nat
  BY BlockParts, SameRecords, WeakConstants
     DEF BothInv, ClassInv, ReclaimerTypes, ReclaimerTypeOK, Retired
<1>2. StillRetired(p) => retired[Rec(p)] > 0 \/ retired[W!Rec(p)] > 0
  BY SameRecords, BothAssumption DEF StillRetired, Rec
<1>3. retired[Rec(p)] > 0 => Owners(p) > 0
  BY <1>1, OwnersPositive
<1>4. retired[W!Rec(p)] > 0 => W!Owners(p) > 0
  BY <1>1, WeakConstants, W!OwnersPositive
<1>5. ASSUME NEW u \in Thread, NEW d, inflight[u].pointer = p, inflight[u].disposer = d
      PROVE  inflight[u] = [pointer |-> p, disposer |-> d]
  <2>1. inflight[u] # NoRecord
    BY <1>5, ReclaimerAssumption DEF NoRecord
  <2>2. inflight[u] \in Retired
    BY <2>1 DEF BothInv, ClassInv, ReclaimerTypes, ReclaimerTypeOK
  <2> QED
    BY <1>5, <2>2 DEF Retired
<1>6. (\E u \in Thread : inflight[u].pointer = p /\ inflight[u].disposer = Kind)
        => Owners(p) > 0
  BY <1>1, <1>5, OwnersPositive DEF Rec
<1>7. (\E u \in Thread : inflight[u].pointer = p /\ inflight[u].disposer = "decrementWeakRef")
        => W!Owners(p) > 0
  BY <1>1, <1>5, WeakConstants, W!OwnersPositive, SameRecords
<1>8. Deferred({Kind}, t, s, p) => Owners(p) > 0 \/ retired[W!Rec(p)] > 0
  BY <1>2, <1>3, <1>6 DEF Deferred
<1>9. W!StillRetired(p) => StillRetired(p)
  BY Zenon DEF W!StillRetired, StillRetired
<1>10. W!Deferred({"decrementWeakRef"}, t, s, p) => Owners(p) > 0 \/ W!Owners(p) > 0
  BY <1>2, <1>3, <1>4, <1>7, <1>9 DEF W!Deferred
<1> QED
  BY <1>8, <1>10

\* What a guard of a load() of the shared class holds.
LEMMA StrongGuardHolds ==
  ASSUME BothInv, NEW t \in Thread, Guarding(t), NEW g \in guards[t], g.value # NULL
  PROVE  g.value \in Ptr /\ (refs[g.value] > 0 \/ retired[W!Rec(g.value)] > 0)
<1>1. /\ g.value \in Ptr /\ target[t] \in Cells
      /\ cell[target[t]] = g.value \/ Deferred({Kind}, t, g.slot, g.value)
  BY GuardedParts DEF BothInv
<1>2. retired[Rec(g.value)] \in Nat
  BY <1>1, BlockParts DEF BothInv, ClassInv
<1>3. Owners(g.value) > 0 \/ retired[W!Rec(g.value)] > 0
  BY <1>1, <1>2, OwnersPositive, DeferredHasOwner
<1> QED
  BY <1>1, <1>3 DEF BothInv, CountIsExact

\* An owner of either class keeps the block.
LEMMA OwnedIsThere ==
  ASSUME BothInv, NEW p \in Ptr,
         refs[p] > 0 \/ W!Owners(p) > 0
  PROVE  weaks[p] > 0
<1>1. /\ weaks[p] = W!Owners(p) + Common(refs[p])
      /\ W!Owners(p) \in Nat /\ refs[p] \in Nat
  BY WeakConstants, BothParts, W!OwnersNat DEF BothInv, WeakCountIsExact
<1>2. Common(refs[p]) \in {0, 1} /\ (refs[p] > 0 => Common(refs[p]) = 1)
  BY DEF Common
<1> QED
  BY <1>1, <1>2

LEMMA BothInvNotFreed == BothInv => GuardedIsNotFreed
<1> SUFFICES ASSUME BothInv, NEW t \in Thread, NEW g \in guards[t],
                    g.value # NULL, t \notin weakHanded
             PROVE  weaks[g.value] > 0
  BY DEF GuardedIsNotFreed
<1>1. g.value \in Ptr
  BY GuardParts DEF BothInv, ClassInv
<1>2. retired[W!Rec(g.value)] \in Nat
  BY <1>1, SameRecords, WeakConstants
     DEF BothInv, ClassInv, ReclaimerTypes, ReclaimerTypeOK, Retired
<1>3. CASE Guarding(t)
  <2>1. refs[g.value] > 0 \/ retired[W!Rec(g.value)] > 0
    BY <1>3, StrongGuardHolds
  <2>2. retired[W!Rec(g.value)] > 0 => W!Owners(g.value) > 0
    BY <1>1, <1>2, WeakConstants, W!OwnersPositive
  <2> QED
    BY <1>1, <2>1, <2>2, OwnedIsThere
<1>4. CASE W!Guarding(t)
  <2>1. /\ weakTarget[t] \in W!Cells
        /\ \/ cell[weakTarget[t]] = g.value
           \/ W!Deferred({"decrementWeakRef"}, t, g.slot, g.value)
    BY <1>4, WeakConstants, W!GuardedParts DEF BothInv
  <2>2. cell[weakTarget[t]] = g.value => W!Owners(g.value) > 0
    BY <1>1, <1>2, <2>1, WeakConstants, W!OwnersPositive
  <2>3. Owners(g.value) > 0 \/ W!Owners(g.value) > 0
    BY <1>1, <2>1, <2>2, DeferredHasOwner
  <2>4. refs[g.value] = Owners(g.value)
    BY <1>1 DEF BothInv, CountIsExact
  <2> QED
    BY <1>1, <2>3, <2>4, OwnedIsThere
<1> QED
  BY <1>3, <1>4 DEF BothInv, OneOperation

LEMMA BothInvUndercut == BothInv => OnlyWeakRecordsUndercut
<1> SUFFICES ASSUME BothInv, NEW t \in Thread, NEW g \in guards[t],
                    g.value # NULL, weakPc[t] = "idle", refs[g.value] = 0
             PROVE  retired[[pointer |-> g.value, disposer |-> "decrementWeakRef"]] > 0
  BY DEF OnlyWeakRecordsUndercut
<1>1. Guarding(t)
  BY DEF BothInv, OneOperation, W!Guarding
<1>2. retired[W!Rec(g.value)] > 0
  BY <1>1, StrongGuardHolds
<1> QED
  BY <1>2, SameRecords

\* In every state the variables have their types, the counters stay within
\* their bounds, a thread is in an operation of one class at a time, and it
\* has a guard only inside load().
THEOREM BothTypeCorrect == BothSpec => []BothTypeOK
BY BothInvariance, BothInvTypes, PTL

\* The strong counter of a block is the number of its strong owners, the weak
\* one that of its weak owners and one more as long as there is a strong one:
\* the last decrementRef() drops the common weak reference once, lock() takes
\* no reference of a value that is gone, and neither class drops a reference
\* of the other.
THEOREM BothCountsCorrect == BothSpec => []BothCountsAreExact
BY BothInvariance, BothInvCounts, PTL

\* A block that a load() of either class holds in a guard is not freed,
\* whichever of its strong and weak records the scan has disposed of, unless
\* the exchange() of an AtomicWeakPtr has overtaken that load().
THEOREM NotFreedCorrect == BothSpec => []GuardedIsNotFreed
BY BothInvariance, BothInvNotFreed, PTL

\* The value that a load() of an AtomicSharedPtr is about to own is gone only
\* if a weak record of the same block is retired, the one that the scan has
\* spared instead of the strong one.
THEOREM UndercutCorrect == BothSpec => []OnlyWeakRecordsUndercut
BY BothInvariance, BothInvUndercut, PTL
=============================================================================
