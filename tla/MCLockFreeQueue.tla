-------------------------- MODULE MCLockFreeQueue --------------------------
(* Instances of LockFreeQueue for TLC. *)
EXTENDS LockFreeQueue, TLC
CONSTANTS t1, t2, n1, n2, n3, n4, v1, v2
=============================================================================
