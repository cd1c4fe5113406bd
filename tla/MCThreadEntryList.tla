------------------------- MODULE MCThreadEntryList -------------------------
(* Instances of ThreadEntryList for TLC. *)
EXTENDS ThreadEntryList, TLC
CONSTANTS t1, t2, t3, e1, e2, e3
=============================================================================
