------------------------------ MODULE MCHead ------------------------------
(* HeadDiscovery on small instances.                                       *)
EXTENDS HeadDiscovery
===========================================================================
