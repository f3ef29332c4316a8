----------------------------- MODULE MCSweep ------------------------------
(* PayloadSweep on small instances.                                        *)
EXTENDS PayloadSweep, TLC

Appends == {[classes |-> {"blind_append"}, policy |-> "append_only_replay"]}
===========================================================================
