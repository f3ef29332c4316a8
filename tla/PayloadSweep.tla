--------------------------- MODULE PayloadSweep ---------------------------
(***************************************************************************)
(* The payload half of garbage collection (gc._collect_locked), composed   *)
(* with the committing writers of CommitProtocol.  A collector resolves    *)
(* the head, lists payload/, and deletes what lies below the retention     *)
(* window of the head it resolved, one key at a time, while commits land   *)
(* and while it falls behind.  Whether several collectors can be active is *)
(* the lease's business; here they may, as when a lease has expired under  *)
(* a slow holder, and the sweep has to be safe all the same.               *)
(***************************************************************************)
EXTENDS CommitProtocol

CONSTANTS
    Collectors,         \* processes that run collect()
    RetainGenerations   \* its retain_generations

\* The collectors below are the only ones.
ASSUME SweepAssumption ==
    /\ RetainGenerations \in Nat \ {0}
    /\ Collecting = FALSE

VARIABLES
    gcPhase,            \* where a collector is
    gcSeen,             \* the head when its resolve_head began
    current,            \* the head it resolved
    doomed              \* listed keys below the floor, not yet deleted

gcVars == <<gcPhase, gcSeen, current, doomed>>
lakeVars == <<vars, gcVars>>

SweepTypeOK ==
    /\ gcPhase \in [Collectors -> {"idle", "resolving", "listing", "deleting"}]
    /\ gcSeen \in [Collectors -> Generations]
    /\ current \in [Collectors -> RootDocs]
    /\ doomed \in [Collectors -> SUBSET RootDocs]

\* (Mutant: the window is one generation short.)
FloorTooHigh(c) == current[c].generation - RetainGenerations + 2

Floor(c) == current[c].generation - RetainGenerations + 1

\* (Mutant: whatever no marker names is garbage.)
Unreferenced(c) ==
    {p.doc : p \in {o \in payloads : o.doc \notin markers}}

\* The listed keys a sweep deletes.  A payload key is a generation and a uuid,
\* so the key is the doc.
Sweepable(c) ==
    {p.doc : p \in {o \in payloads : /\ o.doc.generation < Floor(c)
                                     /\ o.doc # current[c]}}

SweepInit ==
    /\ Init
    /\ gcPhase = [c \in Collectors |-> "idle"]
    /\ gcSeen = [c \in Collectors |-> 0]
    /\ current = [c \in Collectors |-> Genesis]
    /\ doomed = [c \in Collectors |-> {}]

SweepGoto(c, phase) == gcPhase' = [gcPhase EXCEPT ![c] = phase]

SweepBegin(c) ==
    /\ gcPhase[c] = "idle"
    /\ SweepGoto(c, "resolving")
    /\ gcSeen' = [gcSeen EXCEPT ![c] = HeadGeneration]
    /\ UNCHANGED <<vars, current, doomed>>

SweepResolve(c) ==
    /\ gcPhase[c] = "resolving"
    /\ \E d \in markers :
          /\ d.generation >= gcSeen[c]
          /\ current' = [current EXCEPT ![c] = d]
    /\ SweepGoto(c, "listing")
    /\ UNCHANGED <<vars, gcSeen, doomed>>

\* A run ends, done or not: nothing of it outlives the run.
EndRun(c) ==
    /\ SweepGoto(c, "idle")
    /\ gcSeen' = [gcSeen EXCEPT ![c] = 0]
    /\ current' = [current EXCEPT ![c] = Genesis]
    /\ doomed' = [doomed EXCEPT ![c] = {}]

\* One listing of payload/.  A head whose payload is not in it refuses the
\* sweep; otherwise the hint is advanced, best effort, before any delete.
SweepList(c) ==
    /\ gcPhase[c] = "listing"
    /\ \/ /\ PayloadOf(current[c]) = {}
          /\ EndRun(c)
          /\ UNCHANGED vars
       \/ /\ PayloadOf(current[c]) # {}
          /\ doomed' = [doomed EXCEPT ![c] = Sweepable(c)]
          /\ hint' \in {hint, current[c].generation}
          /\ SweepGoto(c, "deleting")
          /\ UNCHANGED <<markers, payloads, lateMarkers, latePayloads, published,
                         pc, txn, seen, base, work, attempt, local, fetches,
                         history, gcSeen, current>>

SweepDelete(c) ==
    /\ gcPhase[c] = "deleting"
    /\ \E d \in doomed[c] :
          /\ payloads' = {p \in payloads : p.doc # d}
          /\ doomed' = [doomed EXCEPT ![c] = @ \ {d}]
    /\ UNCHANGED <<markers, lateMarkers, latePayloads, hint, published, pc, txn,
                   seen, base, work, attempt, local, fetches, history, gcPhase,
                   gcSeen, current>>

\* The sweep is complete; or the run is cut short, by a crash, by an error, or
\* by the loss of its lease found at a renewal.
SweepEnd(c) ==
    /\ gcPhase[c] # "idle"
    /\ EndRun(c)
    /\ UNCHANGED vars

SweepStep(c) ==
    SweepBegin(c) \/ SweepResolve(c) \/ SweepList(c) \/ SweepDelete(c) \/ SweepEnd(c)

SweepNext ==
    \/ Next /\ UNCHANGED gcVars
    \/ \E c \in Collectors : SweepStep(c)

SweepSpec == SweepInit /\ [][SweepNext]_lakeVars

\* A running transaction keeps going; nothing obliges the store to deliver a
\* timed-out request, or a collector to make progress.
SweepFairSpec ==
    SweepSpec /\ \A w \in Writers : WF_lakeVars(Step(w) /\ pc[w] # "idle" /\ UNCHANGED gcVars)

---------------------------------------------------------------------------
(* Properties *)

SweptTypeOK == TypeOK /\ SweepTypeOK

\* A collector with a stale head, or two of them, never delete the payload of
\* a generation inside the retention window of the true head: a reader pinned
\* there, and every reader of the head, finds its catalog.
RetainedPayloadsPresent ==
    \A d \in markers :
        d.generation > HeadGeneration - RetainGenerations => PayloadOf(d) # {}

\* No payload is deleted while it could still be committed: a sweep touches a
\* generation only after some marker has decided it, so an upload that is
\* waiting for its marker is out of reach however long its writer stalls.
SweptIsDecided ==
    [][\A p \in payloads \ payloads' : ~MarkerFree(p.doc.generation)]_lakeVars

\* The collector is one that CommitProtocol allows for: beside the lease and
\* with a stale head, it deletes only what a newer commit has superseded.  What
\* holds of CommitProtocol with any collector holds of the lake with this one.
Commit == INSTANCE CommitProtocol WITH Collecting <- TRUE

SweepImplementsCommit == Commit!Spec
===========================================================================
