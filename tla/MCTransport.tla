---------------------------- MODULE MCTransport ----------------------------
(* Transport on small payloads.                                            *)
EXTENDS Transport, TLC
===========================================================================
