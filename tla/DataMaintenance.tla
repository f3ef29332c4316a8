-------------------------- MODULE DataMaintenance --------------------------
(***************************************************************************)
(* gc.maintain_data beside committing writers: the Parquet files of a lake *)
(* are deleted physically, outside the CAS, before the catalog that        *)
(* forgets them is committed, and that commit may lose.                    *)
(*                                                                         *)
(* DuckLake's three CALLs and its inserts are external, modelled from the  *)
(* arguments maintain_data gives them and from what its docstring relies   *)
(* on: expire_snapshots drops old snapshots and schedules the files that   *)
(* only they used, cleanup_old_files deletes what was scheduled long ago,  *)
(* delete_orphaned_files deletes old files that the catalog does not know. *)
(* A catalog is its snapshots and its schedule; the marker protocol below  *)
(* it is CommitProtocol's, here a compare-and-swap of the generation.      *)
(* There are two clocks: the store's stamps files, and the runner's, which *)
(* may be ahead, decides about them.                                       *)
(***************************************************************************)
EXTENDS Naturals, FiniteSets

CONSTANTS
    Files,              \* data files that may be written, each once
    Writers,            \* transactions that run against the lake
    Runners,            \* processes that run maintain_data
    ExpireAge,          \* expire_older_than
    Delay,              \* physical_delete_delay
    ReplayAll,          \* whether the lake's ConflictPolicy is replay_all
    MaxStage,           \* longest time from staging a file to its commit
    MaxSkew,            \* how far a runner's clock may be ahead
    MaxTime             \* bound of the model: the last moment

ASSUME MaintenanceAssumption ==
    /\ {ExpireAge, Delay, MaxStage, MaxSkew, MaxTime} \subseteq Nat
    /\ MaxTime # 0
    /\ ReplayAll \in BOOLEAN
    /\ MaxStage + MaxSkew <= Delay

VARIABLES
    now,                \* the store's clock
    bucket,             \* the files under DATA_PATH
    written,            \* when each was written
    used,               \* when a file was last in the head's newest snapshot
    head,               \* the head generation: its number and catalog
    pc,                 \* where a writer is
    base,               \* the generation its work copy was made from
    staged,             \* the file it has written
    kind,               \* what it does: append to a table, or rewrite it
    phase,              \* where a runner is
    started,            \* the clock it read at the start
    mbase,              \* the generation its transaction runs on
    work,               \* the catalog of its transaction
    doomed              \* files its current CALL has yet to delete

writerVars == <<pc, base, staged, kind>>
runnerVars == <<phase, started, mbase, work, doomed>>
vars == <<now, bucket, written, used, head, writerVars, runnerVars>>

Times == 0 .. MaxTime + MaxSkew     \* 0 is before everything

\* A snapshot is the files it sees and the time of its commit; a schedule row is
\* a file and the time it was scheduled.
Snapshots == [files : SUBSET Files, time : Times]
Schedules == [file : Files, time : Times]
Catalogs == [snapshots : SUBSET Snapshots, newest : Snapshots, schedule : SUBSET Schedules]

NoFiles == [files |-> {}, time |-> 0]
Empty == [snapshots |-> {NoFiles}, newest |-> NoFiles, schedule |-> {}]
Generation0 == [number |-> 0, catalog |-> Empty]

Reachable(cat) == UNION {s.files : s \in cat.snapshots}
Scheduled(cat) == {r.file : r \in cat.schedule}

Init ==
    /\ now = 1
    /\ bucket = {}
    /\ written = [f \in Files |-> 0]
    /\ used = [f \in Files |-> 0]
    /\ head = Generation0
    /\ pc = [w \in Writers |-> "idle"]
    /\ base = [w \in Writers |-> Generation0]
    /\ staged = [w \in Writers |-> {}]
    /\ kind = [w \in Writers |-> "append"]
    /\ phase = [m \in Runners |-> "idle"]
    /\ started = [m \in Runners |-> 0]
    /\ mbase = [m \in Runners |-> Generation0]
    /\ work = [m \in Runners |-> Empty]
    /\ doomed = [m \in Runners |-> {}]

\* What a runner's clock may say.
Clock == now .. now + MaxSkew

---------------------------------------------------------------------------
(* Writers *)

Goto(w, where) == pc' = [pc EXCEPT ![w] = where]

Begin(w) ==
    /\ pc[w] = "idle"
    /\ base' = [base EXCEPT ![w] = head]
    /\ \E k \in {"append", "rewrite"} : kind' = [kind EXCEPT ![w] = k]
    /\ Goto(w, "running")
    /\ UNCHANGED <<now, bucket, written, used, head, staged, runnerVars>>

\* The transaction spills its Parquet to DATA_PATH at once.
Stage(w) ==
    /\ pc[w] = "running"
    /\ \E f \in Files :
          /\ f \notin bucket /\ written[f] = 0
          /\ bucket' = bucket \cup {f}
          /\ written' = [written EXCEPT ![f] = now]
          /\ staged' = [staged EXCEPT ![w] = {f}]
    /\ Goto(w, "staged")
    /\ UNCHANGED <<now, used, head, base, kind, runnerVars>>

\* The catalog of the writer's work copy: a snapshot more, as old as its file.
Written(w) ==
    LET old == base[w].catalog
        kept == IF kind[w] = "append" THEN old.newest.files ELSE {}
        snapshot == [files |-> kept \cup staged[w],
                     time |-> written[CHOOSE f \in staged[w] : TRUE]]
    IN [old EXCEPT !.newest = snapshot, !.snapshots = @ \cup {snapshot}]

\* A new head; the files of the newest snapshot it replaces have been in use until
\* now.
Land(cat) ==
    /\ head' = [number |-> head.number + 1, catalog |-> cat]
    /\ used' = [f \in Files |-> IF f \in head.catalog.newest.files THEN now ELSE used[f]]

EndTransaction(w) ==
    /\ Goto(w, "idle")
    /\ base' = [base EXCEPT ![w] = Generation0]
    /\ staged' = [staged EXCEPT ![w] = {}]
    /\ kind' = [kind EXCEPT ![w] = "append"]

\* The CAS.  An append that loses is replayed on the new head, and writes another
\* file; a rewrite that loses aborts, unless the policy is replay_all and attempts
\* are left.  The file of the lost attempt stays behind.
Commit(w) ==
    /\ pc[w] = "staged"
    /\ \/ /\ head.number = base[w].number
          /\ Land(Written(w))
          /\ EndTransaction(w)
       \/ /\ head.number # base[w].number
          /\ kind[w] = "append" \/ ReplayAll
          /\ base' = [base EXCEPT ![w] = head]
          /\ staged' = [staged EXCEPT ![w] = {}]
          /\ Goto(w, "running")
          /\ UNCHANGED <<used, head, kind>>
       \/ /\ head.number # base[w].number /\ kind[w] = "rewrite"
          /\ EndTransaction(w)
          /\ UNCHANGED <<used, head>>
    /\ UNCHANGED <<now, bucket, written, runnerVars>>

\* The transaction aborts, or its process dies.
Abandon(w) ==
    /\ pc[w] # "idle"
    /\ EndTransaction(w)
    /\ UNCHANGED <<now, bucket, written, used, head, runnerVars>>

---------------------------------------------------------------------------
(* Maintenance.  The lease is not relied on: several runners may be active, as *)
(* when a lease has expired under a slow one.                                   *)

SetPhase(m, where) == phase' = [phase EXCEPT ![m] = where]

\* older_than
Older(m, time, age) == time + age < started[m]

\* (Mutants: the delay is left out of a CALL.)
ScheduledAtAll(m, row) == TRUE
OrphanAtAll(m, f) == TRUE

Cleanable(m, row) == Older(m, row.time, Delay)

OldOrphan(m, f) == Older(m, written[f], Delay)

\* (Mutant: whatever an expired snapshot saw is scheduled.)
AllItsFiles(before, after) == UNION {s.files : s \in before \ after}

Expirable(m, cat) ==
    {s \in cat.snapshots : s # cat.newest /\ Older(m, s.time, ExpireAge)}

Exclusive(before, after) ==
    (UNION {s.files : s \in before}) \ (UNION {s.files : s \in after})

Expired(m, cat, time) ==
    LET kept == cat.snapshots \ Expirable(m, cat)
        rows == {[file |-> f, time |-> time] : f \in Exclusive(cat.snapshots, kept)}
    IN [cat EXCEPT !.snapshots = kept, !.schedule = @ \cup rows]

ToClean(m, cat) == {r \in cat.schedule : Cleanable(m, r)}

Orphans(m, cat) ==
    {f \in bucket \ (Reachable(cat) \cup Scheduled(cat)) : OldOrphan(m, f)}

\* The run ends: report, error, or the process dies.
EndPass(m) ==
    /\ SetPhase(m, "idle")
    /\ started' = [started EXCEPT ![m] = 0]
    /\ mbase' = [mbase EXCEPT ![m] = Generation0]
    /\ work' = [work EXCEPT ![m] = Empty]
    /\ doomed' = [doomed EXCEPT ![m] = {}]

Start(m) ==
    /\ phase[m] = "idle"
    /\ \E t \in Clock : started' = [started EXCEPT ![m] = t]
    /\ SetPhase(m, "probe")
    /\ UNCHANGED <<now, bucket, written, used, head, writerVars, mbase, work, doomed>>

\* The dry CALLs on a scratch copy of the head: a pass with nothing to do ends
\* here, as a dry run does.
Probe(m) ==
    /\ phase[m] = "probe"
    /\ LET cat == head.catalog
       IN Expirable(m, cat) # {} \/ ToClean(m, cat) # {} \/ Orphans(m, cat) # {}
    /\ SetPhase(m, "begin")
    /\ UNCHANGED <<now, bucket, written, used, head, writerVars, started, mbase, work,
                   doomed>>

\* The CALLs are run on a copy of the head of now: the first changes the copy only,
\* the second lists what it will delete.
RunCalls(m) ==
    /\ mbase' = [mbase EXCEPT ![m] = head]
    /\ \E t \in Clock :
          LET cat == Expired(m, head.catalog, t)
          IN /\ work' = [work EXCEPT ![m] = cat]
             /\ doomed' = [doomed EXCEPT ![m] = {r.file : r \in ToClean(m, cat)}]
    /\ SetPhase(m, "clean")
    /\ UNCHANGED <<now, bucket, written, used, head, writerVars, started>>

\* The lease is renewed and the transaction begins.
BeginPass(m) ==
    /\ phase[m] = "begin"
    /\ RunCalls(m)

DeleteFile(m) ==
    /\ phase[m] \in {"clean", "orphans"}
    /\ \E f \in doomed[m] :
          /\ bucket' = bucket \ {f}
          /\ doomed' = [doomed EXCEPT ![m] = @ \ {f}]
    /\ UNCHANGED <<now, written, used, head, writerVars, phase, started, mbase, work>>

\* The second CALL has deleted its files and forgets them; the third lists
\* DATA_PATH.
ListOrphans(m) ==
    /\ phase[m] = "clean" /\ doomed[m] = {}
    /\ LET cat == [work[m] EXCEPT !.schedule = @ \ ToClean(m, work[m])]
       IN /\ work' = [work EXCEPT ![m] = cat]
          /\ doomed' = [doomed EXCEPT ![m] = Orphans(m, cat)]
    /\ SetPhase(m, "orphans")
    /\ UNCHANGED <<now, bucket, written, used, head, writerVars, started, mbase>>

\* The lease is renewed once more, and the catalog is committed.  A pass that has
\* lost the lease or the CAS aborts (AbortPass), save for ReplayPass.
CommitPass(m) ==
    /\ phase[m] = "orphans" /\ doomed[m] = {}
    /\ head.number = mbase[m].number
    /\ Land(work[m])
    /\ EndPass(m)
    /\ UNCHANGED <<now, bucket, written, writerVars>>

\* The recorder takes a CALL for state-dependent DML, which replay_all replays: a
\* pass that has lost the CAS runs its CALLs again on the new head, with the
\* cut-offs it was started with, and renews no lease.
ReplayPass(m) ==
    /\ ReplayAll
    /\ phase[m] = "orphans" /\ doomed[m] = {}
    /\ head.number # mbase[m].number
    /\ RunCalls(m)

AbortPass(m) ==
    /\ phase[m] # "idle"
    /\ EndPass(m)
    /\ UNCHANGED <<now, bucket, written, used, head, writerVars>>

---------------------------------------------------------------------------

\* Time passes, but not while a transaction has been staging for too long: this is
\* the window physical_delete_delay has to exceed.
Tick ==
    /\ now < MaxTime
    /\ \A w \in Writers : \A f \in staged[w] : now + 1 <= written[f] + MaxStage
    /\ now' = now + 1
    /\ UNCHANGED <<bucket, written, used, head, writerVars, runnerVars>>

Next ==
    \/ \E w \in Writers : Begin(w) \/ Stage(w) \/ Commit(w) \/ Abandon(w)
    \/ \E m \in Runners :
          \/ Start(m) \/ Probe(m) \/ BeginPass(m) \/ DeleteFile(m)
          \/ ListOrphans(m) \/ CommitPass(m) \/ ReplayPass(m) \/ AbortPass(m)
    \/ Tick

Spec == Init /\ [][Next]_vars

---------------------------------------------------------------------------
(* Properties *)

CatalogOK(cat) ==
    /\ cat \in [snapshots : SUBSET Snapshots, newest : Snapshots, schedule : SUBSET Schedules]
    /\ cat.newest \in cat.snapshots
    /\ Reachable(cat) \cap Scheduled(cat) = {}

\* In no catalog, published or being written, is a file both in use and scheduled
\* for deletion.
MaintenanceTypeOK ==
    /\ now \in Times
    /\ bucket \subseteq Files
    /\ written \in [Files -> Times] /\ used \in [Files -> Times]
    /\ CatalogOK(head.catalog)
    /\ \A w \in Writers : staged[w] \subseteq Files /\ CatalogOK(base[w].catalog)
    /\ \A m \in Runners : doomed[m] \subseteq Files /\ CatalogOK(work[m])

\* Whatever a pass deletes before a commit that it may lose, whatever was committed
\* since the catalog it works on, and beside other passes: the files that the head
\* can reach are in the bucket, and so are those a transaction is about to commit.
NeededFilesPresent ==
    /\ Reachable(head.catalog) \subseteq bucket
    /\ \A w \in Writers : staged[w] \subseteq bucket

\* A reader that pinned a generation has its files for physical_delete_delay after
\* they left the newest snapshot, less what the clocks differ by.
DeletedLongAfterUse ==
    [][\A f \in bucket \ bucket' : used[f] # 0 => now + MaxSkew > used[f] + Delay]_vars
===========================================================================
