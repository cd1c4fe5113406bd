--------------------------- MODULE AtomicPointer ---------------------------
(***************************************************************************)
(* What AtomicSharedPtr promises to the containers: a cell that is loaded, *)
(* stored and compared at one moment, with a collector that gives out the  *)
(* address of an object only when nobody can reach the old one.  There are *)
(* no counters, guards or retired records.                                 *)
(***************************************************************************)
CONSTANTS Thread, Ptr, Cells, NULL

VARIABLES
  cell,
  expected, desired,  \* the SharedPtrs of a thread
  loaded,             \* what a load has found, until it returns
  target,             \* the cell it reads
  op, cont            \* what a thread is about to do, and after a load

pointerVars == <<cell, expected, desired, loaded, target, op, cont>>

Reachable ==
  {cell[c] : c \in Cells} \cup UNION {{expected[t], desired[t], loaded[t]} : t \in Thread}

PointerInit ==
  /\ cell = [c \in Cells |-> NULL]
  /\ \A h \in {expected, desired, loaded, target} : h = [t \in Thread |-> NULL]
  /\ \A o \in {op, cont} : o = [t \in Thread |-> "idle"]

-----------------------------------------------------------------------------
SetDesired(t, p) ==
  /\ op[t] = "idle" /\ desired[t] = NULL
  /\ p \in (Ptr \ Reachable) \cup {expected[t]}
  /\ desired' = [desired EXCEPT ![t] = p]
  /\ UNCHANGED <<cell, expected, loaded, target, op, cont>>

ResetExpected(t) ==
  /\ op[t] = "idle"
  /\ expected' = [expected EXCEPT ![t] = NULL]
  /\ UNCHANGED <<cell, desired, loaded, target, op, cont>>

DropDesired(t) ==
  /\ op[t] = "drop"
  /\ desired' = [desired EXCEPT ![t] = NULL]
  /\ op' = [op EXCEPT ![t] = "idle"]
  /\ UNCHANGED <<cell, expected, loaded, target, cont>>

\* store(), and exchange(), which leaves the old pointer in the caller's hands.
Put(t, c) ==
  /\ op[t] = "idle"
  /\ cell' = [cell EXCEPT ![c] = desired[t]]
  /\ desired' \in {[desired EXCEPT ![t] = p] : p \in {NULL, cell[c]}}
  /\ UNCHANGED <<expected, loaded, target, op, cont>>

\* compareExchange() writes the cell only if it holds what is expected.
Swap(t, c) ==
  /\ op[t] = "idle"
  /\ cell[c] = expected[t]
  /\ cell' = [cell EXCEPT ![c] = desired[t]]
  /\ desired' = [desired EXCEPT ![t] = NULL]
  /\ op' = [op EXCEPT ![t] = "swapped"]
  /\ UNCHANGED <<expected, loaded, target, cont>>

SwapReturns(t) ==
  /\ op[t] = "swapped"
  /\ op' = [op EXCEPT ![t] = "idle"]
  /\ UNCHANGED <<cell, expected, desired, loaded, target, cont>>

Destroy(t, c) ==
  /\ op[t] = "idle"
  /\ cell' = [cell EXCEPT ![c] = NULL]
  /\ UNCHANGED <<expected, desired, loaded, target, op, cont>>

\* A load, or a compareExchange() that has found another pointer.
CallLoad(t, c) ==
  /\ op[t] = "idle"
  /\ \/ cont' = [cont EXCEPT ![t] = "idle"]
     \/ cell[c] # expected[t] /\ cont' = [cont EXCEPT ![t] = "drop"]
  /\ target' = [target EXCEPT ![t] = c]
  /\ op' = [op EXCEPT ![t] = "load"]
  /\ UNCHANGED <<cell, expected, desired, loaded>>

LoadTakesEffect(t) ==
  /\ op[t] = "load"
  /\ loaded' = [loaded EXCEPT ![t] = cell[target[t]]]
  /\ op' = [op EXCEPT ![t] = "loaded"]
  /\ UNCHANGED <<cell, expected, desired, target, cont>>

LoadReturns(t) ==
  /\ op[t] = "loaded"
  /\ expected' = [expected EXCEPT ![t] = loaded[t]]
  /\ loaded' = [loaded EXCEPT ![t] = NULL]
  /\ op' = [op EXCEPT ![t] = cont[t]]
  /\ target' = [target EXCEPT ![t] = NULL]
  /\ cont' = [cont EXCEPT ![t] = "idle"]
  /\ UNCHANGED <<cell, desired>>

PointerNext ==
  \E t \in Thread :
    \/ \E p \in Ptr : SetDesired(t, p)
    \/ ResetExpected(t) \/ DropDesired(t)
    \/ \E c \in Cells : Put(t, c) \/ Swap(t, c) \/ Destroy(t, c) \/ CallLoad(t, c)
    \/ SwapReturns(t) \/ LoadTakesEffect(t) \/ LoadReturns(t)

PointerSpec == PointerInit /\ [][PointerNext]_pointerVars

-----------------------------------------------------------------------------
=============================================================================
