----------------------------- MODULE Bootstrap -----------------------------
(***************************************************************************)
(* Lake.bootstrap and BlobStore.bootstrap: several processes create        *)
(* generation 0 of one prefix at the same time.  Each first races threads  *)
(* of its own for a probe key, to see whether the store's create-only PUT  *)
(* is exclusive under concurrency, then uploads its catalog and creates    *)
(* the marker of generation 0, or adopts the one that beat it.  What       *)
(* CommitProtocol starts from is the outcome.                              *)
(*                                                                         *)
(* Two kinds of store: one that decides and writes in one step, and one    *)
(* that checks the condition first and writes later, as the docstrings     *)
(* describe iDrive E2 and garage.  An answer may be lost, and a timed-out  *)
(* request may take effect later.                                          *)
(***************************************************************************)
EXTENDS Naturals, FiniteSets

CONSTANTS
    Processes,          \* processes that run bootstrap once
    Racers,             \* threads of one probe
    TransportRetries,   \* times the S3 client repeats an unanswered request
    MaxAttempts,        \* max_attempts of create_marker_resolving
    Nobody              \* no process

ASSUME BootAssumption ==
    /\ IsFiniteSet(Racers) /\ Racers # {}
    /\ TransportRetries \in Nat
    /\ MaxAttempts \in Nat \ {0}
    /\ Nobody \notin Processes

VARIABLES
    atomic,         \* the store: is its conditional PUT one step?
    marker,         \* whose document roots/0 holds
    payloads,       \* whose payloads are in the store
    lateMarkers,    \* whose marker PUTs timed out and may still take effect
    pc,             \* where a process is in bootstrap
    local,          \* its local_attempt in create_marker_resolving
    returned,       \* whose document its bootstrap returned
    probed,         \* is its probe key in the store?
    racer,          \* where each thread of its probe is
    tries,          \* how often the client has repeated the thread's PUT
    stray,          \* threads whose timed-out PUT may still take effect
    effects         \* how many PUTs to its probe key have taken effect

storeVars == <<atomic, marker, payloads, lateMarkers>>
probeVars == <<probed, racer, tries, stray, effects>>
vars == <<storeVars, pc, local, returned, probeVars>>

Ended == {"returned", "failed", "unsafe"}

BootTypeOK ==
    /\ atomic \in BOOLEAN
    /\ marker \in Processes \cup {Nobody}
    /\ payloads \subseteq Processes
    /\ lateMarkers \subseteq Processes
    /\ pc \in [Processes -> Ended \cup {"probe", "diagnose", "payload", "marker",
                                        "overwrite", "resolve", "adopt", "hint"}]
    /\ local \in [Processes -> 0 .. MaxAttempts - 1]
    /\ returned \in [Processes -> Processes \cup {Nobody}]
    /\ probed \in [Processes -> BOOLEAN]
    /\ racer \in [Processes -> [Racers -> {"ready", "checked", "won", "lost", "error"}]]
    /\ tries \in [Processes -> [Racers -> 0 .. TransportRetries]]
    /\ stray \in [Processes -> SUBSET Racers]
    /\ effects \in [Processes -> Nat]

\* Every process chooses whether it verifies the backend.
Init ==
    /\ atomic \in BOOLEAN
    /\ marker = Nobody
    /\ payloads = {}
    /\ lateMarkers = {}
    /\ pc \in [Processes -> {"probe", "payload"}]
    /\ local = [p \in Processes |-> 0]
    /\ returned = [p \in Processes |-> Nobody]
    /\ probed = [p \in Processes |-> FALSE]
    /\ racer = [p \in Processes |-> [r \in Racers |-> "ready"]]
    /\ tries = [p \in Processes |-> [r \in Racers |-> 0]]
    /\ stray = [p \in Processes |-> {}]
    /\ effects = [p \in Processes |-> 0]

Goto(p, where) == pc' = [pc EXCEPT ![p] = where]

---------------------------------------------------------------------------
(* The probe: one contention round *)

\* A thread whose request got no answer: the client sends it again, below the
\* adapter, until it has no repetitions left; then the thread reports an error.
Unanswered(p, r) ==
    IF tries[p][r] < TransportRetries
    THEN /\ racer' = [racer EXCEPT ![p][r] = "ready"]
         /\ tries' = [tries EXCEPT ![p][r] = @ + 1]
    ELSE /\ racer' = [racer EXCEPT ![p][r] = "error"]
         /\ UNCHANGED tries

Answered(p, r, outcome) ==
    /\ racer' = [racer EXCEPT ![p][r] = outcome]
    /\ UNCHANGED tries

TakesEffect(p) ==
    /\ probed' = [probed EXCEPT ![p] = TRUE]
    /\ effects' = [effects EXCEPT ![p] = @ + 1]

\* The request is not answered in time and is still on its way.
RaceTimeout(p, r) ==
    /\ pc[p] = "probe" /\ racer[p][r] = "ready"
    /\ Unanswered(p, r)
    /\ stray' = [stray EXCEPT ![p] = @ \cup {r}]
    /\ UNCHANGED <<storeVars, pc, local, returned, probed, effects>>

RaceStray(p) ==
    /\ pc[p] = "probe"
    /\ \E r \in stray[p] :
          /\ stray' = [stray EXCEPT ![p] = @ \ {r}]
          /\ IF probed[p] /\ atomic THEN UNCHANGED <<probed, effects>> ELSE TakesEffect(p)
    /\ UNCHANGED <<storeVars, pc, local, returned, racer, tries>>

\* The create-only PUT reaches the store.
RaceCreate(p, r) ==
    /\ pc[p] = "probe" /\ racer[p][r] = "ready"
    /\ \/ /\ probed[p]
          /\ Answered(p, r, "lost") \/ Unanswered(p, r)
          /\ UNCHANGED <<probed, effects>>
       \/ /\ ~probed[p] /\ atomic
          /\ Answered(p, r, "won") \/ Unanswered(p, r)
          /\ TakesEffect(p)
       \/ /\ ~probed[p] /\ ~atomic
          /\ Answered(p, r, "checked")
          /\ UNCHANGED <<probed, effects>>
    /\ UNCHANGED <<storeVars, pc, local, returned, stray>>

RaceOverwrite(p, r) ==
    /\ pc[p] = "probe" /\ racer[p][r] = "checked"
    /\ Answered(p, r, "won") \/ Unanswered(p, r)
    /\ TakesEffect(p)
    /\ UNCHANGED <<storeVars, pc, local, returned, stray>>

Outcome(p, o) == {r \in Racers : racer[p][r] = o}

\* (Mutants: an error is nobody's win, and no more than that; several winners
\* are as good as one.)
ErrorsIgnored(p) == FALSE
AnyWinner(p) == Outcome(p, "won") # {}

Indeterminate(p) == Outcome(p, "error") # {}

OneWinner(p) == Cardinality(Outcome(p, "won")) = 1

\* The probe key is the process's own, and nothing looks at it again.
ProbeOver(p) ==
    /\ probed' = [probed EXCEPT ![p] = FALSE]
    /\ racer' = [racer EXCEPT ![p] = [r \in Racers |-> "ready"]]
    /\ tries' = [tries EXCEPT ![p] = [r \in Racers |-> 0]]
    /\ stray' = [stray EXCEPT ![p] = {}]
    /\ effects' = [effects EXCEPT ![p] = 0]

\* All threads have joined, and the probe key is deleted; if that fails, so
\* does the bootstrap.  A store that is refused is probed once more for the
\* diagnostic.
Judge(p) ==
    /\ pc[p] = "probe"
    /\ \A r \in Racers : racer[p][r] \in {"won", "lost", "error"}
    /\ \/ Goto(p, "failed")
       \/ ~Indeterminate(p) /\ OneWinner(p) /\ Goto(p, "payload")
       \/ ~Indeterminate(p) /\ ~OneWinner(p) /\ Goto(p, "diagnose")
    /\ ProbeOver(p)
    /\ UNCHANGED <<storeVars, local, returned>>

\* Its races only word the refusal, unless a request of theirs fails.
Diagnose(p) ==
    /\ pc[p] = "diagnose"
    /\ Goto(p, "unsafe") \/ Goto(p, "failed")
    /\ UNCHANGED <<storeVars, local, returned, probeVars>>

---------------------------------------------------------------------------
(* Generation 0 *)

\* (Mutant: an upload that may have failed is taken for landed.)
UploadAssumed(p) ==
    /\ pc[p] = "payload"
    /\ payloads' \in {payloads, payloads \cup {p}}
    /\ Goto(p, "marker")
    /\ UNCHANGED <<atomic, marker, lateMarkers, local, returned, probeVars>>

\* An unanswered upload is not resolved, it raises; so does the 412 of an upload
\* that the client repeated after it had landed.
PutPayload(p) ==
    /\ pc[p] = "payload"
    /\ \/ payloads' = payloads \cup {p} /\ Goto(p, "marker")
       \/ payloads' \in {payloads, payloads \cup {p}} /\ Goto(p, "failed")
    /\ UNCHANGED <<atomic, marker, lateMarkers, local, returned, probeVars>>

MarkerTimeout(p) ==
    /\ pc[p] = "marker"
    /\ lateMarkers' = lateMarkers \cup {p}
    /\ Goto(p, "resolve")
    /\ UNCHANGED <<atomic, marker, payloads, local, returned, probeVars>>

\* A late marker PUT takes effect; it may do so again when its twin does.
Deliver(p) ==
    /\ p \in lateMarkers
    /\ marker = Nobody \/ ~atomic
    /\ marker' = p
    /\ UNCHANGED <<atomic, payloads, lateMarkers, pc, local, returned, probeVars>>

CreateMarker(p) ==
    /\ pc[p] = "marker"
    /\ \/ marker # Nobody /\ Goto(p, "resolve") /\ UNCHANGED marker
       \/ /\ marker = Nobody /\ atomic
          /\ marker' = p
          /\ Goto(p, "hint") \/ Goto(p, "resolve")
       \/ marker = Nobody /\ ~atomic /\ Goto(p, "overwrite") /\ UNCHANGED marker
    /\ UNCHANGED <<atomic, payloads, lateMarkers, local, returned, probeVars>>

OverwriteMarker(p) ==
    /\ pc[p] = "overwrite"
    /\ marker' = p
    /\ Goto(p, "hint") \/ Goto(p, "resolve")
    /\ UNCHANGED <<atomic, payloads, lateMarkers, local, returned, probeVars>>

\* (Mutants: a marker that is there is taken for one's own; a re-send is not
\* charged, or is charged too late.)
WonIfPresent(p) ==
    IF marker = Nobody THEN "absent" ELSE "won"
LocalForgotten(p) == local[p]
OneMoreAttempt(p) == local[p] < MaxAttempts

MarkerOutcome(p) ==
    CASE marker = p -> "won" [] marker = Nobody -> "absent" [] OTHER -> "lost"

NextLocal(p) == local[p] + 1

AttemptsLeft(p) == NextLocal(p) < MaxAttempts

\* One GET; a GET that fails is a Crash.
ResolveMarker(p) ==
    /\ pc[p] = "resolve"
    /\ \/ MarkerOutcome(p) = "won" /\ Goto(p, "hint") /\ UNCHANGED local
       \/ MarkerOutcome(p) = "lost" /\ Goto(p, "adopt") /\ UNCHANGED local
       \/ /\ MarkerOutcome(p) = "absent" /\ AttemptsLeft(p)
          /\ local' = [local EXCEPT ![p] = NextLocal(p)]
          /\ Goto(p, "marker")
       \/ /\ MarkerOutcome(p) = "absent" /\ ~AttemptsLeft(p)
          /\ Goto(p, "failed")
          /\ UNCHANGED local
    /\ UNCHANGED <<storeVars, returned, probeVars>>

\* (Mutant: the loser returns the document it made.)
OwnDoc(p) == p

AdoptedDoc(p) == marker

\* The loser reads the winner's marker with a GET of its own.
Adopt(p) ==
    /\ pc[p] = "adopt"
    /\ returned' = [returned EXCEPT ![p] = AdoptedDoc(p)]
    /\ Goto(p, "returned")
    /\ UNCHANGED <<storeVars, local, probeVars>>

\* The hint is best effort.
WriteHint(p) ==
    /\ pc[p] = "hint"
    /\ returned' = [returned EXCEPT ![p] = p]
    /\ Goto(p, "returned")
    /\ UNCHANGED <<storeVars, local, probeVars>>

\* The process stops, or meets an error that bootstrap does not catch.
Crash(p) ==
    /\ pc[p] \notin Ended
    /\ Goto(p, "failed")
    /\ ProbeOver(p)
    /\ UNCHANGED <<storeVars, local, returned>>

Step(p) ==
    \/ \E r \in Racers : RaceTimeout(p, r) \/ RaceCreate(p, r) \/ RaceOverwrite(p, r)
    \/ Judge(p) \/ Diagnose(p)
    \/ PutPayload(p) \/ MarkerTimeout(p) \/ CreateMarker(p) \/ OverwriteMarker(p)
    \/ ResolveMarker(p) \/ Adopt(p) \/ WriteHint(p)

Next == \E p \in Processes : Step(p) \/ RaceStray(p) \/ Deliver(p) \/ Crash(p)

Spec == Init /\ [][Next]_vars

\* Every request is answered or times out, and the code goes on.
FairSpec == Spec /\ \A p \in Processes : WF_vars(Step(p))

---------------------------------------------------------------------------
(* Properties *)

\* On a store with an atomic create, every bootstrap that returns returns the
\* one document that is in roots/0: the writers, the losers that adopted it, and
\* those that had to find out whether they had won.
OneGenesis ==
    atomic => \A p \in Processes : pc[p] = "returned" => returned[p] = marker

\* Whoever reads the marker, while bootstraps race, fail or crash and late
\* markers arrive, finds the payload it names, on either kind of store.
GenesisIsReadable == marker # Nobody => marker \in payloads

\* A bootstrap returns or raises: re-sends of the marker are bounded, and a
\* loser has somebody to adopt.
BootstrapEnds == \A p \in Processes : <>(pc[p] \in Ended)

\* The gate decides on what the store did, as long as no answer comes from a
\* repetition below the adapter: a probe that passes had one PUT of its round take
\* effect, and a store that is refused is one whose create is not atomic.
GateIsSound ==
    [][\A p \in Processes :
          pc[p] = "probe" /\ (\A r \in Racers : racer[p][r] # "error" => tries[p][r] = 0) =>
              /\ pc'[p] = "payload" => effects[p] = 1
              /\ pc'[p] = "diagnose" => ~atomic]_vars

\* The same whatever the client does, as its caller reads it: "a safety gate must
\* fail loud, never certify atomicity from a winner count distorted by a
\* swallowed error" (objectstore.py, _count_concurrent_winners).
CertifiedOnEvidence ==
    [][\A p \in Processes :
          pc[p] = "probe" /\ pc'[p] = "payload" => effects[p] = 1]_vars
===========================================================================
