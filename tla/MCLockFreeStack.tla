-------------------------- MODULE MCLockFreeStack --------------------------
(* Instances of LockFreeStack for TLC. *)
EXTENDS LockFreeStack, TLC
CONSTANTS t1, t2, n1, n2, n3, v1, v2
=============================================================================
