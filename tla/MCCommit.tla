----------------------------- MODULE MCCommit -----------------------------
(* CommitProtocol on small instances.  The writers are interchangeable:    *)
(* which transaction each of them runs is chosen in Init.                  *)
EXTENDS CommitProtocol, TLC

\* One transaction per rule of decide_rebase that the properties tell apart.
Blind(p) == [classes |-> {"blind_append"}, policy |-> p]

BlindAppend == Blind("append_only_replay")
ReadThenAppend == [BlindAppend EXCEPT !.classes = @ \cup {"read"}]
StateDependent == [BlindAppend EXCEPT !.classes = {"state_dependent_dml"}]
Migration == [classes |-> {"ddl", "blind_append"}, policy |-> "replay_all"]
ReplayAllUpdate == [StateDependent EXCEPT !.policy = "replay_all"]
NeverReplay == Blind("abort_all")
ReadOnly == [BlindAppend EXCEPT !.classes = {}]

Appends == {BlindAppend}
EveryRule == {BlindAppend, ReadThenAppend, StateDependent, Migration,
              ReplayAllUpdate, NeverReplay, ReadOnly}

\* Retries that a writer has made, and timed-out PUTs that may still take effect.
Retries(w) == attempt[w] + local[w] + fetches[w]
Faults ==
    Cardinality(lateMarkers) + Cardinality(latePayloads)
        + FoldSet(LAMBDA w, n : n + Retries(w), 0, Writers)

\* A bound of commit_collected: a third writer joins the other two only while the
\* retries and the pending requests of all three are at most two.
ThirdWriterInCalm == (\A w \in Writers : pc[w] # "idle") => Faults <= 2

Symmetry == Permutations(Writers)
===========================================================================
