-------------------------- MODULE DomainReclaimer --------------------------
(***************************************************************************)
(* HazardPointerDomain implements Reclaimer.  The blockers of a pointer    *)
(* are a history variable: they change nothing in the domain and remember  *)
(* which guards a retired record has found.                                *)
(***************************************************************************)
EXTENDS HazardPointerDomain

VARIABLE blockers

GuardsOn(p) ==
  {ts \in Thread \X Slot : [slot |-> ts[2], value |-> p] \in guards[ts[1]]}

\* A record of p is pushed onto a list by retire().
JustRetired(p) ==
  \E t \in Thread : inflight[t].pointer = p /\ inflight'[t] = NoRecord

DInit == Init /\ blockers = [p \in Ptr |-> {}]

DNext ==
  /\ Next
  /\ blockers' = [p \in Ptr |-> IF JustRetired(p) THEN GuardsOn(p)
                                ELSE blockers[p] \cap GuardsOn(p)']

DSpec == DInit /\ [][DNext]_<<vars, blockers>>

\* The records of all the lists, wherever they are.
RetiredBag ==
  [r \in Retired |->
     Cardinality({ei \in Entry \X Place : retires[ei[1]][ei[2]] = r})]

R == INSTANCE Reclaimer WITH retired <- RetiredBag

\* Announcing, validating, scanning, adopting lists and exiting amount to the
\* steps of Reclaimer, as long as no push has lost its entry.  The condition
\* is on the state a step leads to: a lost entry stays lost.
ImplementsReclaimer ==
  R!ReclaimerInit
    /\ [][NoLostEntry' => R!ReclaimerNext \/ UNCHANGED R!reclaimerVars]_<<vars, blockers>>
=============================================================================
