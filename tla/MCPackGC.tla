------------------------------ MODULE MCPackGC ------------------------------
(* PackGC on small instances. *)
EXTENDS PackGC
============================================================================
