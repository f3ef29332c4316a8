------------------------------ MODULE MCLease ------------------------------
(* Lease on a small instance.                                              *)
EXTENDS Lease

CONSTANTS alice, bob, nobody

OwnName == [p \in Jobs |-> IF p = 1 THEN alice ELSE bob]
============================================================================
