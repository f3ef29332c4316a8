---------------------------- MODULE MCBootstrap ----------------------------
(* Bootstrap on small instances.                                           *)
EXTENDS Bootstrap, TLC
===========================================================================
