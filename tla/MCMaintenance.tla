--------------------------- MODULE MCMaintenance ---------------------------
(* DataMaintenance on small instances.                                     *)
EXTENDS DataMaintenance, TLC

Symmetry == Permutations(Files)
===========================================================================
