---------------------------- MODULE CatalogLog ----------------------------
(***************************************************************************)
(* What a lake promises its callers, without saying how: one append-only   *)
(* log of transactions, each in it at most once, and an answer to every    *)
(* caller that agrees with the log.  This is the reading of README.md and  *)
(* docs/DESIGN.md that CommitProtocol is checked to implement: a commit is *)
(* one append, CommitResult means the append happened, ConflictAbortError  *)
(* means that it did not and never will.                                   *)
(***************************************************************************)
EXTENDS Sequences

CONSTANT Writers    \* the transactions that may run against the lake

VARIABLES
    log,            \* the transactions applied to the lake, oldest first
    answer          \* what each transaction's caller has been told

logVars == <<log, answer>>

Applied == {log[i] : i \in DOMAIN log}

LogTypeOK ==
    /\ log \in Seq(Writers)
    /\ answer \in [Writers -> {"none", "committed", "aborted"}]

Init ==
    /\ log = << >>
    /\ answer = [w \in Writers |-> "none"]

\* The transaction takes effect, on top of everything applied before it.
\* A caller that was told nothing (a crash, an ExternalServiceError) may
\* still see its transaction take effect later.
Publish(w) ==
    /\ answer[w] = "none"
    /\ w \notin Applied
    /\ log' = Append(log, w)
    /\ UNCHANGED answer

Acknowledge(w) ==
    /\ answer[w] = "none"
    /\ w \in Applied
    /\ answer' = [answer EXCEPT ![w] = "committed"]
    /\ UNCHANGED log

Refuse(w) ==
    /\ answer[w] = "none"
    /\ w \notin Applied
    /\ answer' = [answer EXCEPT ![w] = "aborted"]
    /\ UNCHANGED log

Next == \E w \in Writers : Publish(w) \/ Acknowledge(w) \/ Refuse(w)

Spec == Init /\ [][Next]_logVars
===========================================================================
