---------------------------- MODULE MCThreadData ----------------------------
(* An instance of ThreadData for TLC. *)
EXTENDS ThreadData
MCPtr == 1..3
=============================================================================
