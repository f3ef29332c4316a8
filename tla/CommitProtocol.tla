-------------------------- MODULE CommitProtocol --------------------------
(***************************************************************************)
(* The marker protocol: how concurrent transactions against one lake are   *)
(* serialised by create-only PUTs of generation markers.  Models           *)
(*   commit.py   run_commit, _advance, _publish_resolved,                  *)
(*               create_marker_resolving, _try_create_marker               *)
(*   root.py     create_marker, resolve_marker, write_hint (and what       *)
(*               resolve_head promises: HeadDiscovery models how)          *)
(*   rebase.py   decide_rebase                                             *)
(*   session.py  Lake.transaction, _fetch_current_base, replay_onto_head   *)
(* against an object store whose requests can be lost, or time out and     *)
(* still take effect later.                                                *)
(*                                                                         *)
(* A writer is ONE transaction, run by some process; a process that runs   *)
(* several, or restarts after a crash, is several writers.  Every action   *)
(* is one request to the store with the local computation that follows it, *)
(* so the steps of different writers interleave wherever the code can be   *)
(* overtaken.  The catalog file is abstracted to the sequence of           *)
(* transactions that have been applied to it.                              *)
(***************************************************************************)
EXTENDS Integers, Sequences, FiniteSetsExt

CONSTANTS
    Writers,        \* transactions that may run
    Bootstrapper,   \* the process that created generation 0
    Transactions,   \* what a transaction can be, see TransactionType
    MaxGeneration,  \* models.MAX_GENERATION, scaled down
    MaxAttempts,    \* Lake._max_attempts
    Collecting      \* whether garbage collectors run beside the transactions

StatementClass == {"blind_append", "state_dependent_dml", "ddl", "read"}
ConflictPolicy == {"append_only_replay", "replay_all", "abort_all"}

\* A changeset is abstracted to the set of the classes of its statements.
TransactionType == [classes : SUBSET StatementClass, policy : ConflictPolicy]

ASSUME CommitAssumption ==
    /\ Bootstrapper \notin Writers
    /\ Transactions \subseteq TransactionType
    /\ MaxGeneration \in Nat
    /\ MaxAttempts \in Nat \ {0}
    /\ Collecting \in BOOLEAN

VARIABLES
    \* the object store
    markers,        \* roots/<generation>: the RootDocs
    payloads,       \* payload/<generation>-<uuid>: the catalog files
    lateMarkers,    \* create-only PUTs of markers that timed out, not yet applied
    latePayloads,   \* the same for payloads
    hint,           \* root-hint
    \* the writers: one _Attempt phase each, and where it is
    pc,
    txn,            \* the transaction: its changeset and the lake's policy
    seen,           \* the head when the current resolve_head began
    base,           \* _Attempt.base
    work,           \* _Attempt.work: the transactions applied in the work copy
    attempt,        \* _Attempt.attempt
    local,          \* create_marker_resolving's local_attempt
    fetches,        \* rounds of _fetch_current_base's loop
    \* history, read by no action
    published,      \* every payload that was ever in the store
    readBase,       \* the generation the caller's SQL first ran against
    unlanded,       \* attempts spent on uploads reported NotLanded
    lostAt          \* the head when the writer lost its first race

storeVars == <<markers, payloads, lateMarkers, latePayloads, hint, published>>
history == <<readBase, unlanded, lostAt>>
vars == <<markers, payloads, lateMarkers, latePayloads, hint, published,
          pc, txn, seen, base, work, attempt, local, fetches,
          readBase, unlanded, lostAt>>

Generations == 0..MaxGeneration
Attempts == 0..(MaxAttempts - 1)

\* uuid4 is drawn once per _advance, so a writer and an attempt name it.
Uuids == [writer : Writers \cup {Bootstrapper}, attempt : Attempts]
RootDocs == [generation : Generations, uuid : Uuids]
Catalogs == Seq(Writers)
PayloadObjects == [doc : RootDocs, catalog : Catalogs]

Active == {"resolving", "fetching", "uploading", "checking_upload",
           "marking", "resolving_marker", "hinting"}
Ended == {"committed", "aborted", "failed"}
Phases == {"idle"} \cup Active \cup Ended

---------------------------------------------------------------------------
(* Reading the store *)

Genesis == [generation |-> 0, uuid |-> [writer |-> Bootstrapper, attempt |-> 0]]

Committed == {d.generation : d \in markers}

HeadGeneration == Max(Committed)

\* The payload object a marker names: payload_key is its generation and uuid.
PayloadOf(d) == {p \in payloads : p.doc = d}

\* The transactions applied in the catalog of the committed generation g, which
\* a collector may have taken since.
CatalogAt(g) ==
    LET d == CHOOSE m \in markers : m.generation = g
        p == CHOOSE o \in published : o.doc = d
    IN  p.catalog

\* (Mutant: a store on which every concurrent create-only PUT "wins".)
MarkerAlwaysFree(g) == TRUE

\* If-None-Match: * on roots/<g>.
MarkerFree(g) == g \notin Committed

\* The store after a PUT of marker d: one object per key.
WithMarker(d) == {m \in markers : m.generation # d.generation} \cup {d}

\* (Mutant: a replay goes onto the marker collided with, not onto the head.)
CollidedMarker(w) ==
    {d \in markers : IF attempt[w] = 0
                     THEN d.generation >= seen[w]
                     ELSE d.generation = base[w].generation + 1}

\* What a resolve_head that began when the head was `seen` may return: any
\* committed generation at least that recent (HeadDiscovery).
HeadCandidates(w) == {d \in markers : d.generation >= seen[w]}

---------------------------------------------------------------------------
(* The writer's local computations *)

Target(w) == base[w].generation + 1

\* The marker a writer is trying to create in its current attempt.
NewDoc(w) ==
    [generation |-> Target(w), uuid |-> [writer |-> w, attempt |-> attempt[w]]]

NewPayload(w) == [doc |-> NewDoc(w), catalog |-> work[w]]

\* (Mutant: a replay publishes the losing work copy again.)
StaleWork(w, catalog) ==
    IF attempt[w] = 0 THEN Append(catalog, w) ELSE work[w]

\* (Mutant: the bound of the key format is one too high.)
OneMoreKey(g) == g <= MaxGeneration + 1

\* _check_generation: the keys of a generation can be formatted.
HasKey(g) == g <= MaxGeneration

\* Re-execution of the recorded statements on a fetched catalog.
Executed(w, catalog) == Append(catalog, w)

\* (Mutant: an ambiguous upload is taken for a success.)
UploadAssumed(w) == TRUE

\* One GET of the payload key decides the outcome of an uncertain upload.
UploadLanded(w) == PayloadOf(NewDoc(w)) # {}

\* (Mutant: the uuid in the marker is not compared.)
WonIfPresent(w) == IF MarkerFree(Target(w)) THEN "absent" ELSE "won"

\* (Mutant: an absent marker counts as lost, and the attempt is redone.)
LostUnlessPresent(w) == IF NewDoc(w) \in markers THEN "won" ELSE "lost"

\* One GET of the marker decides the outcome of an uncertain create.
MarkerOutcome(w) ==
    CASE NewDoc(w) \in markers  -> "won"
      [] MarkerFree(Target(w))  -> "absent"
      [] OTHER                  -> "lost"

\* (Mutant: reads of the lake do not count as a dependency.)
IgnoreReads(t, n) ==
    IF \/ n >= MaxAttempts
       \/ "ddl" \in t.classes
       \/ t.policy = "abort_all"
       \/ t.classes = {}
       \/ t.policy # "replay_all" /\ "state_dependent_dml" \in t.classes
    THEN "abort"
    ELSE "replay"

DecideRebase(t, n) ==
    IF \/ n >= MaxAttempts
       \/ "ddl" \in t.classes
       \/ t.policy = "abort_all"
       \/ t.classes = {}
       \/ /\ t.policy # "replay_all"
          /\ t.classes \cap {"state_dependent_dml", "read"} # {}
    THEN "abort"
    ELSE "replay"

\* Whether attempt n may be followed by another.
AttemptsLeft(n) == n + 1 < MaxAttempts

\* (Mutant: the re-sends of a marker are not counted.)
UncountedResend(w) == local[w]

CountedResend(w) == local[w] + 1

---------------------------------------------------------------------------

\* A bootstrapped lake: generation 0 is committed and its catalog is empty.
Init ==
    /\ markers = {Genesis}
    /\ payloads = {[doc |-> Genesis, catalog |-> << >>]}
    /\ lateMarkers = {}
    /\ latePayloads = {}
    /\ hint = 0
    /\ published = payloads
    /\ pc = [w \in Writers |-> "idle"]
    /\ txn \in [Writers -> Transactions]
    /\ seen = [w \in Writers |-> 0]
    /\ base = [w \in Writers |-> Genesis]
    /\ work = [w \in Writers |-> << >>]
    /\ attempt = [w \in Writers |-> 0]
    /\ local = [w \in Writers |-> 0]
    /\ fetches = [w \in Writers |-> 0]
    /\ readBase = [w \in Writers |-> 0]
    /\ unlanded = [w \in Writers |-> 0]
    /\ lostAt = [w \in Writers |-> 0]

Goto(w, phase) == pc' = [pc EXCEPT ![w] = phase]

\* resolve_head begins: whatever it returns is at least as recent as this.
StartResolve(w) ==
    /\ Goto(w, "resolving")
    /\ seen' = [seen EXCEPT ![w] = HeadGeneration]

---------------------------------------------------------------------------
(* Lake.transaction and _fetch_current_base *)

Begin(w) ==
    /\ pc[w] = "idle"
    /\ StartResolve(w)
    /\ fetches' = [fetches EXCEPT ![w] = 0]
    /\ UNCHANGED <<storeVars, txn, base, work, attempt, local, history>>

ResolveHead(w) ==
    /\ pc[w] = "resolving"
    /\ \E d \in HeadCandidates(w) : base' = [base EXCEPT ![w] = d]
    /\ Goto(w, "fetching")
    /\ UNCHANGED <<storeVars, txn, seen, work, attempt, local, fetches, history>>

\* The catalog is there: copy it and run the transaction's SQL on the copy,
\* for the first time or as a replay.
FetchCatalog(w) ==
    /\ pc[w] = "fetching"
    /\ \E p \in PayloadOf(base[w]) :
          work' = [work EXCEPT ![w] = Executed(w, p.catalog)]
    /\ readBase' = IF attempt[w] = 0
                   THEN [readBase EXCEPT ![w] = base[w].generation]
                   ELSE readBase
    /\ Goto(w, "uploading")
    /\ UNCHANGED <<storeVars, txn, seen, base, attempt, local, fetches, unlanded,
                   lostAt>>

\* A collector swept it in between: resolve the head again, a bounded number
\* of times.
FetchMiss(w) ==
    /\ pc[w] = "fetching"
    /\ PayloadOf(base[w]) = {}
    /\ \/ /\ AttemptsLeft(fetches[w])
          /\ fetches' = [fetches EXCEPT ![w] = fetches[w] + 1]
          /\ StartResolve(w)
       \/ /\ ~AttemptsLeft(fetches[w])
          /\ Goto(w, "failed")
          /\ UNCHANGED <<seen, fetches>>
    /\ UNCHANGED <<storeVars, txn, base, work, attempt, local, history>>

---------------------------------------------------------------------------
(* _publish_resolved *)

\* format_payload_key refuses the generation after the last one.
UploadRefused(w) ==
    /\ pc[w] = "uploading"
    /\ ~HasKey(Target(w))
    /\ Goto(w, "failed")
    /\ UNCHANGED <<storeVars, txn, seen, base, work, attempt, local, fetches, history>>

\* Create-only PUT of the payload: it lands, or its outcome is unknown, in
\* which case it may still land at any later moment, or never.
UploadPayload(w) ==
    /\ pc[w] = "uploading"
    /\ HasKey(Target(w))
    /\ \/ /\ payloads' = payloads \cup {NewPayload(w)}
          /\ published' = published \cup {NewPayload(w)}
          /\ Goto(w, "marking")
          /\ UNCHANGED latePayloads
       \/ /\ latePayloads' = latePayloads \cup {NewPayload(w)}
          /\ Goto(w, "checking_upload")
          /\ UNCHANGED <<payloads, published>>
    /\ local' = [local EXCEPT ![w] = 0]
    /\ UNCHANGED <<markers, lateMarkers, hint, txn, seen, base, work, attempt,
                   fetches, history>>

\* The GET that follows an ambiguous upload: landed, or NotLanded, which
\* _advance answers with a new attempt on the same base under a new uuid.
CheckUpload(w) ==
    /\ pc[w] = "checking_upload"
    /\ \/ /\ UploadLanded(w)
          /\ Goto(w, "marking")
          /\ UNCHANGED <<attempt, unlanded>>
       \/ /\ ~UploadLanded(w)
          /\ ~AttemptsLeft(attempt[w])
          /\ Goto(w, "aborted")
          /\ UNCHANGED <<attempt, unlanded>>
       \/ /\ ~UploadLanded(w)
          /\ AttemptsLeft(attempt[w])
          /\ Goto(w, "uploading")
          /\ attempt' = [attempt EXCEPT ![w] = attempt[w] + 1]
          /\ unlanded' = [unlanded EXCEPT ![w] = unlanded[w] + 1]
    /\ UNCHANGED <<storeVars, txn, seen, base, work, local, fetches, readBase,
                   lostAt>>

---------------------------------------------------------------------------
(* create_marker_resolving and _try_create_marker *)

\* Create-only PUT of the marker, the commit point.  It lands; or it does not
\* and answers 412, 409 or nothing at all; or it times out and stays pending.
CreateMarker(w) ==
    /\ pc[w] = "marking"
    /\ \/ /\ MarkerFree(Target(w))
          /\ markers' = WithMarker(NewDoc(w))
          /\ Goto(w, "hinting")
          /\ UNCHANGED lateMarkers
       \/ /\ Goto(w, "resolving_marker")
          /\ UNCHANGED <<markers, lateMarkers>>
       \/ /\ lateMarkers' = lateMarkers \cup {NewDoc(w)}
          /\ Goto(w, "resolving_marker")
          /\ UNCHANGED markers
    /\ UNCHANGED <<payloads, latePayloads, hint, published, txn, seen, base, work,
                   attempt, local, fetches, history>>

MarkerWon(w) ==
    /\ pc[w] = "resolving_marker"
    /\ MarkerOutcome(w) = "won"
    /\ Goto(w, "hinting")
    /\ UNCHANGED <<storeVars, txn, seen, base, work, attempt, local, fetches, history>>

\* Nothing there yet: create the SAME marker again, while attempts last.  An
\* exhausted budget raises ExternalServiceError: the outcome stays unknown.
MarkerAbsent(w) ==
    /\ pc[w] = "resolving_marker"
    /\ MarkerOutcome(w) = "absent"
    /\ \/ /\ AttemptsLeft(attempt[w] + local[w])
          /\ local' = [local EXCEPT ![w] = CountedResend(w)]
          /\ Goto(w, "marking")
       \/ /\ ~AttemptsLeft(attempt[w] + local[w])
          /\ Goto(w, "failed")
          /\ UNCHANGED local
    /\ UNCHANGED <<storeVars, txn, seen, base, work, attempt, fetches, history>>

\* A rival owns the generation: abort, or replay onto the head.
MarkerLost(w) ==
    /\ pc[w] = "resolving_marker"
    /\ MarkerOutcome(w) = "lost"
    /\ \/ /\ DecideRebase(txn[w], attempt[w] + 1) = "abort"
          /\ Goto(w, "aborted")
          /\ UNCHANGED <<seen, attempt, fetches, lostAt>>
       \/ /\ DecideRebase(txn[w], attempt[w] + 1) = "replay"
          /\ attempt' = [attempt EXCEPT ![w] = attempt[w] + 1]
          /\ fetches' = [fetches EXCEPT ![w] = 0]
          /\ StartResolve(w)
          /\ lostAt' = IF attempt[w] = unlanded[w]
                       THEN [lostAt EXCEPT ![w] = HeadGeneration]
                       ELSE lostAt
    /\ UNCHANGED <<storeVars, txn, base, work, local, readBase, unlanded>>

\* write_hint, whose failure is swallowed; then CommitResult is returned.
WriteHint(w) ==
    /\ pc[w] = "hinting"
    /\ hint' \in {hint, Target(w)}
    /\ Goto(w, "committed")
    /\ UNCHANGED <<markers, payloads, lateMarkers, latePayloads, published, txn,
                   seen, base, work, attempt, local, fetches, history>>

---------------------------------------------------------------------------
(* Failures and the store's late deliveries *)

\* The process dies, or an error the commit loop does not catch ends the
\* transaction (a failed GET, a rejected work copy, a 4xx on an upload).
Stop(w) ==
    /\ pc[w] \in Active
    /\ Goto(w, "failed")
    /\ UNCHANGED <<storeVars, txn, seen, base, work, attempt, local, fetches, history>>

LandPayload(p) ==
    /\ p \in latePayloads
    /\ latePayloads' = latePayloads \ {p}
    /\ payloads' = payloads \cup {p}
    /\ published' = published \cup {p}
    /\ UNCHANGED <<markers, lateMarkers, hint, pc, txn, seen, base, work, attempt,
                   local, fetches, history>>

\* Create-only is evaluated when the request takes effect.
LandMarker(d) ==
    /\ d \in lateMarkers
    /\ lateMarkers' = lateMarkers \ {d}
    /\ markers' = IF MarkerFree(d.generation) THEN WithMarker(d) ELSE markers
    /\ UNCHANGED <<payloads, latePayloads, hint, published, pc, txn, seen, base,
                   work, attempt, local, fetches, history>>

---------------------------------------------------------------------------
(* What a garbage collector does to the lake: PayloadSweep models how *)

Superseded(p) == \E d \in markers : p.doc.generation < d.generation

\* It deletes a payload older than some head that it has resolved.
Collect(p) ==
    /\ Collecting
    /\ p \in payloads
    /\ Superseded(p)
    /\ payloads' = payloads \ {p}
    /\ UNCHANGED <<markers, lateMarkers, latePayloads, hint, published, pc, txn, seen,
                   base, work, attempt, local, fetches, history>>

\* It sets the hint to a head that it has resolved.
CollectorHint(d) ==
    /\ Collecting
    /\ d \in markers
    /\ hint' = d.generation
    /\ UNCHANGED <<markers, payloads, lateMarkers, latePayloads, published, pc, txn,
                   seen, base, work, attempt, local, fetches, history>>

Collector ==
    \/ \E p \in payloads : Collect(p)
    \/ \E d \in markers : CollectorHint(d)

---------------------------------------------------------------------------

Step(w) ==
    \/ Begin(w) \/ ResolveHead(w) \/ FetchCatalog(w) \/ FetchMiss(w)
    \/ UploadRefused(w) \/ UploadPayload(w) \/ CheckUpload(w)
    \/ CreateMarker(w) \/ MarkerWon(w) \/ MarkerAbsent(w) \/ MarkerLost(w)
    \/ WriteHint(w)

Deliver ==
    \/ \E p \in latePayloads : LandPayload(p)
    \/ \E d \in lateMarkers : LandMarker(d)

\* Every transaction has ended and no request is pending.
Finished ==
    /\ \A w \in Writers : pc[w] \in Ended
    /\ lateMarkers = {} /\ latePayloads = {}
    /\ UNCHANGED vars

Next ==
    \/ \E w \in Writers : Step(w) \/ Stop(w)
    \/ Deliver
    \/ Collector
    \/ Finished

Spec == Init /\ [][Next]_vars

---------------------------------------------------------------------------
(* Properties *)

TypeOK ==
    /\ markers \subseteq RootDocs
    /\ payloads \subseteq PayloadObjects
    /\ lateMarkers \subseteq RootDocs
    /\ latePayloads \subseteq PayloadObjects
    /\ hint \in Generations
    /\ published \subseteq PayloadObjects
    /\ pc \in [Writers -> Phases]
    /\ txn \in [Writers -> Transactions]
    /\ seen \in [Writers -> Generations]
    /\ base \in [Writers -> RootDocs]
    /\ work \in [Writers -> Catalogs]
    /\ attempt \in [Writers -> Attempts]
    /\ local \in [Writers -> Attempts]
    /\ fetches \in [Writers -> Attempts]
    /\ readBase \in [Writers -> Generations]
    /\ unlanded \in [Writers -> Attempts]
    /\ lostAt \in [Writers -> Generations]

\* A marker, once created, is never replaced or removed (DESIGN.md invariant 1:
\* "markers are immutable and immortal"): every acknowledged commit stays in
\* the history, whatever late requests arrive.
MarkersImmortal == [][markers \subseteq markers']_vars

\* The committed history has no lost update: each generation is its
\* predecessor plus exactly the transaction of the writer that won it, and the
\* predecessor exists.  A replay that published its stale work copy, or a
\* create that skipped a generation, would break it.
Lineage ==
    \A d \in markers : d.generation > 0 =>
        /\ d.generation - 1 \in Committed
        /\ CatalogAt(d.generation) =
              Append(CatalogAt(d.generation - 1), d.uuid.writer)

\* The head can always be read: its payload is in the store, although the
\* upload's outcome may first have been unknown and although collectors delete
\* whatever is older than a head they know.
HeadPayloadPresent ==
    \A d \in markers : d.generation = HeadGeneration => PayloadOf(d) # {}

\* A transaction takes effect at most once, although its marker is re-sent and
\* its changeset is replayed under new uuids while an earlier request may
\* still be pending.
AtMostOnce ==
    \A c, d \in markers : c.uuid.writer = d.uuid.writer => c = d

\* CommitResult is returned only for a transaction whose own marker is the one
\* in the store.
CommittedIsDurable ==
    \A w \in Writers : pc[w] = "committed" => NewDoc(w) \in markers

\* ConflictAbortError is final: a transaction reported aborted has no marker
\* and no pending request of it can still become one.
AbortedNeverCommits ==
    \A w \in Writers : pc[w] = "aborted" =>
        /\ \A d \in markers : d.uuid.writer # w
        /\ \A d \in lateMarkers :
              d.uuid.writer = w => ~MarkerFree(d.generation)

\* No write skew: a transaction that read the lake, depends on its state,
\* changes the schema or runs under abort_all commits only directly on top of
\* the generation its own SQL ran against.
ReplaySafe(t) ==
    /\ "ddl" \notin t.classes
    /\ t.policy # "abort_all"
    /\ t.policy = "replay_all" \/ t.classes \subseteq {"blind_append"}

NoWriteSkew ==
    \A d \in markers : \A w \in Writers :
        d.uuid.writer = w /\ ~ReplaySafe(txn[w]) => d.generation = readBase[w] + 1

\* "A stale writer must not burn one attempt per generation of lag" (commit.py,
\* _advance).  Its first lost race is the whole price of its lag: from the head
\* of that moment on, each further race it loses is paid for by a generation
\* that a rival has committed since.  A replay that stops at the marker collided
\* with, short of that head, would break it.
LostRaces(w) == attempt[w] - unlanded[w]

LagIsNotCharged ==
    \A w \in Writers :
        /\ pc[w] \in {"fetching", "uploading", "checking_upload", "marking",
                      "resolving_marker"}
        /\ LostRaces(w) > 0
        => LostRaces(w) - 1 <= base[w].generation - lostAt[w]

\* Every transaction that starts gets an answer: the attempts, the marker
\* re-sends and the catalog fetches are all bounded.
TransactionsEnd ==
    \A w \in Writers : pc[w] = "resolving" ~> pc[w] \in Ended

---------------------------------------------------------------------------
(* The lake implements the abstract log *)

\* What the callers have been told; an ended transaction with no result (a
\* crash, an ExternalServiceError) may yet take effect, like a running one.
Answer(phase) == IF phase \in {"committed", "aborted"} THEN phase ELSE "none"

Log == INSTANCE CatalogLog WITH
    log <- CatalogAt(HeadGeneration),
    answer <- [w \in Writers |-> Answer(pc[w])]

\* Every step of the marker protocol is one step of the abstract log or leaves
\* it alone: one append per commit, and answers that agree with the log.
ImplementsCatalogLog == Log!Spec
===========================================================================
