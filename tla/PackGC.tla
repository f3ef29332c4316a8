------------------------------- MODULE PackGC -------------------------------
(***************************************************************************)
(* Garbage collection of packs (gc.py, _pack_sweep) beside the writers of  *)
(* chunked generations (chunk.py, publish_packs and verify_packs; commit.py*)
(* sends the manifest and the marker).  A pack is named by its content, so *)
(* that writers share packs, and no request replaces one by another.       *)
(*                                                                         *)
(* Ages are those of the store's timestamps, in some unit of which Grace   *)
(* is the pack_grace.  Nothing excludes a collector from running beside    *)
(* another one, as when a lease has expired: the lease is not relied on.   *)
(* That a writer is not too slow between the refresh of its packs and its  *)
(* manifest, nor a collector between its listing and its deletes, is what  *)
(* Tick assumes: MaxStall + MaxCycle <= Grace.                             *)
(***************************************************************************)
EXTENDS Integers, FiniteSetsExt

CONSTANTS
    Packs,              \* contents of packs
    Writers,            \* processes that commit chunked generations
    Collectors,         \* processes that run collect()
    RetainGenerations,  \* retain_generations
    MaxGeneration,      \* the last generation of an instance
    Grace,              \* pack_grace
    MaxStall,           \* time from the first refreshed pack to the manifest
    MaxCycle,           \* time from a collector's listing to its last delete
    MayPause,           \* whether an attempt may take time before that
    QuietGap,           \* whether no refresh lands between re-HEAD and DELETE
    BreakerMin,         \* _BREAKER_MIN
    MaxFaults           \* aborted cycles and lost ledgers there may be

ASSUME PackAssumption ==
    /\ RetainGenerations \in Nat \ {0}
    /\ {MaxGeneration, Grace, MaxStall, MaxCycle, BreakerMin, MaxFaults} \subseteq Nat
    /\ {MayPause, QuietGap} \subseteq BOOLEAN

VARIABLES
    packs,      \* the age of each pack in the store, Absent if there is none
    manifests,  \* the payloads in the store: generation, packs and whether
                \* the marker of the generation names it
    head,       \* the newest generation that has a marker
    ledger,     \* gc/pack-tombstones: the age of each tombstone
    attempt,    \* each writer's attempt
    cycle,      \* each collector's cycle
    faults      \* how many faults there have been

packVars == <<packs, manifests, head, ledger, attempt, cycle, faults>>

---------------------------------------------------------------------------
(* Ages *)

Absent == -1
MaxAge == Grace + 1 + MaxCycle
Ages == Absent..MaxAge

\* now is the age of the clock probe.  The gates compare with <= grace.
Young(age, now) == age - now <= Grace

\* Ages are told apart as long as a gate may: packs up to MaxAge, since the last
\* gate is as old as its probe, and what is compared with a new probe up to OldAge.
OldAge == Grace + 1
Older(age, limit) == IF age = Absent \/ age >= limit THEN age ELSE age + 1
AllOlder(ages, limit) == [p \in Packs |-> Older(ages[p], limit)]
Capped(ages) == [p \in Packs |-> Min({ages[p], OldAge})]
Nothing == [p \in Packs |-> Absent]
Present(ages) == {p \in Packs : ages[p] # Absent}

---------------------------------------------------------------------------
(* Generations *)

Generations == 0..MaxGeneration
Floor == head - RetainGenerations + 1
Manifests == [generation : Generations, packs : SUBSET Packs, won : BOOLEAN]
PacksOf(payloads) == UNION {m.packs : m \in payloads}
Won(payloads) == {m \in payloads : m.won}
HeadPacks == PacksOf({m \in Won(manifests) : m.generation = head})

Idle == [at |-> "idle"]
Trying ==
    [at : {"publishing", "verifying", "marking"}, base : Generations,
     novel : SUBSET Packs, refs : SUBSET Packs, left : SUBSET Packs, stall : 0..MaxStall]
Cycling ==
    [at : {"listing", "resolving", "deciding", "committing", "rechecking", "deleting"},
     kept : SUBSET Manifests, listed : [Packs -> Absent..OldAge],
     read : [Packs -> Absent..OldAge], cold : [Packs -> Absent..OldAge],
     delete : SUBSET Packs, condemned : SUBSET Packs, now : 0..MaxCycle, age : 0..MaxCycle]
Attempts == {Idle} \cup Trying
Cycles == {Idle} \cup Cycling

PackTypeOK ==
    /\ packs \in [Packs -> Ages]
    /\ manifests \subseteq Manifests
    /\ head \in Generations
    /\ ledger \in [Packs -> Absent..OldAge]
    /\ attempt \in [Writers -> Attempts]
    /\ cycle \in [Collectors -> Cycles]
    /\ faults \in 0..MaxFaults

\* A lake whose only generation has the packs that are in the store, if any.
Init ==
    /\ \E old \in SUBSET Packs :
          /\ packs = [p \in Packs |-> IF p \in old THEN MaxAge ELSE Absent]
          /\ manifests = {[generation |-> 0, packs |-> old, won |-> TRUE]}
    /\ head = 0
    /\ ledger = Nothing
    /\ attempt = [w \in Writers |-> Idle]
    /\ cycle = [c \in Collectors |-> Idle]
    /\ faults = 0

---------------------------------------------------------------------------
(* A writer *)

collecting == <<ledger, cycle, faults>>

Mine(w) == attempt[w]
AtStep(w, at) == attempt[w].at = at

\* The manifest is built against that of the base: it reuses some of its packs,
\* and the other chunks go into packs that are not among them.
Build(w) ==
    /\ AtStep(w, "idle")
    /\ head < MaxGeneration
    /\ \E reused \in SUBSET HeadPacks, novel \in SUBSET (Packs \ HeadPacks) :
          attempt' = [attempt EXCEPT ![w] =
              [at |-> "publishing", base |-> head, novel |-> novel,
               refs |-> reused \cup novel, left |-> novel, stall |-> 0]]
    /\ UNCHANGED <<packs, manifests, head>>
    /\ UNCHANGED collecting

\* put_pack: create-only; a pack that exists is left as old as it is.
PutPack(w, p) ==
    /\ AtStep(w, "publishing")
    /\ p \in Mine(w).left
    /\ packs' = [packs EXCEPT ![p] = IF @ = Absent THEN 0 ELSE @]
    /\ attempt' = [attempt EXCEPT ![w].left = @ \ {p}]
    /\ UNCHANGED <<manifests, head>>
    /\ UNCHANGED collecting

Published(w) ==
    /\ AtStep(w, "publishing")
    /\ Mine(w).left = {}
    /\ attempt' = [attempt EXCEPT ![w] = [@ EXCEPT !.at = "verifying", !.left = Mine(w).refs]]
    /\ UNCHANGED <<packs, manifests, head>>
    /\ UNCHANGED collecting

\* (Mutant: a novel pack that is there is left alone.)
HealedOnly(w, p) == [packs EXCEPT ![p] = IF @ = Absent THEN 0 ELSE @]

\* A novel pack is PUT again whether or not it is there.
Refreshed(w, p) == IF p \in Mine(w).novel THEN [packs EXCEPT ![p] = 0] ELSE packs

\* What a collector is about to delete.
Condemned(c) == IF cycle[c].at = "deleting" THEN cycle[c].condemned ELSE {}

\* verify_packs on one pack.  A base pack must be there.
VerifyPack(w, p) ==
    /\ AtStep(w, "verifying")
    /\ p \in Mine(w).left
    /\ p \in Mine(w).novel \cup Present(packs)
    /\ QuietGap => \A c \in Collectors : p \notin Condemned(c)
    /\ packs' = Refreshed(w, p)
    /\ attempt' = [attempt EXCEPT ![w].left = @ \ {p}]
    /\ UNCHANGED <<manifests, head>>
    /\ UNCHANGED collecting

\* The manifest lands at the payload key.
Manifest(w) == [generation |-> Mine(w).base + 1, packs |-> Mine(w).refs, won |-> FALSE]
PutManifest(w) ==
    /\ AtStep(w, "verifying")
    /\ Mine(w).left = {}
    /\ manifests' = manifests \cup {Manifest(w)}
    /\ attempt' = [attempt EXCEPT ![w] =
           [@ EXCEPT !.at = "marking", !.novel = {}, !.stall = 0]]
    /\ UNCHANGED <<packs, head>>
    /\ UNCHANGED collecting

\* (Mutant: the marker replaces a rival's.)
AlwaysWins(w) == TRUE

\* No rival's marker is there.
Wins(w) == Mine(w).base = head

\* The marker is created, unless a rival's is there already.
CreateMarker(w) ==
    /\ AtStep(w, "marking")
    /\ IF Wins(w)
       THEN /\ head' = head + 1
            /\ manifests' = (manifests \ {Manifest(w)}) \cup {[Manifest(w) EXCEPT !.won = TRUE]}
       ELSE UNCHANGED <<head, manifests>>
    /\ attempt' = [attempt EXCEPT ![w] = Idle]
    /\ UNCHANGED packs
    /\ UNCHANGED collecting

\* A failed check, a lost race of the next attempt, or a crash, at any time.
\* Whatever was PUT stays.
GiveUp(w) ==
    /\ ~AtStep(w, "idle")
    /\ attempt' = [attempt EXCEPT ![w] = Idle]
    /\ UNCHANGED <<packs, manifests, head>>
    /\ UNCHANGED collecting

Write(w) ==
    \/ \E p \in Packs : PutPack(w, p) \/ VerifyPack(w, p)
    \/ Published(w) \/ PutManifest(w) \/ CreateMarker(w)

---------------------------------------------------------------------------
(* A collector *)

writing == <<head, attempt>>

This(c) == cycle[c]
AtPhase(c, at) == cycle[c].at = at

\* resolve_head, the listing of payload/ and the sweep below the floor, whose
\* own races PayloadSweep is about.
ListPayloads(c) ==
    /\ AtPhase(c, "idle")
    /\ manifests' = {m \in manifests : m.generation >= Floor}
    /\ cycle' = [cycle EXCEPT ![c] =
           [at |-> "listing", kept |-> manifests', listed |-> Nothing,
            read |-> Nothing, cold |-> Nothing, delete |-> {}, condemned |-> {},
            now |-> 0, age |-> 0]]
    /\ UNCHANGED <<packs, ledger, faults>>
    /\ UNCHANGED writing

\* The packs are listed with their LastModified.
ListPacks(c) ==
    /\ AtPhase(c, "listing")
    /\ cycle' = [cycle EXCEPT ![c] =
           [@ EXCEPT !.at = "resolving", !.listed = Capped(packs)]]
    /\ UNCHANGED <<packs, manifests, ledger, faults>>
    /\ UNCHANGED writing

\* What was kept, as it is now: a payload may have got its marker meanwhile, and
\* another collector may have swept it.
Kept(c) == {m \in manifests : [m EXCEPT !.won = FALSE] \in This(c).kept
                              \/ [m EXCEPT !.won = TRUE] \in This(c).kept}
CommittedRefs(c) == PacksOf(Won(Kept(c)))

\* Packs that a committed manifest needs and the listing missed are looked up.
Listed(c) == [p \in Packs |-> IF This(c).listed[p] = Absent /\ p \in CommittedRefs(c)
                              THEN Capped(packs)[p] ELSE This(c).listed[p]]

\* (Mutant: orphans are not sniffed.)
CommittedOnly(c) == Won(Kept(c))

\* The manifests that protect their packs: those of lost races too.
Marking(c) == Kept(c)

\* resolve_payloads and the re-HEAD of what is missing.  With neither packs nor
\* references to any the cycle ends here.
Resolve(c) ==
    /\ AtPhase(c, "resolving")
    /\ Won(This(c).kept) \subseteq manifests
    /\ cycle' = [cycle EXCEPT ![c] =
           IF This(c).listed = Nothing /\ CommittedRefs(c) = {} THEN Idle
           ELSE [@ EXCEPT !.at = "deciding", !.listed = Listed(c), !.kept = Marking(c)]]
    /\ UNCHANGED <<packs, manifests, ledger, faults>>
    /\ UNCHANGED writing

\* decide_pack_sweep.
Cold(c) == {p \in Present(This(c).listed) :
               p \notin PacksOf(This(c).kept) /\ ~Young(This(c).listed[p], 0)}

\* Cold now, and tombstoned more than a grace ago.
Deletable(c) == {p \in Cold(c) : ledger[p] # Absent /\ ~Young(ledger[p], 0)}

\* (Mutant: every cycle begins the grace of what is cold anew.)
Restamped(c) == [p \in Packs |-> IF p \in Cold(c) \ Deletable(c) THEN 0 ELSE Absent]

\* The ledger of the next cycle: old tombstones of packs that are listed and cold,
\* new ones for packs that have become cold, none for what is about to go.
NewCold(c) == [p \in Packs |->
    CASE p \notin Cold(c) \/ p \in Deletable(c) -> Absent
      [] ledger[p] = Absent -> 0
      [] OTHER -> ledger[p]]

\* The reasons to stop with nothing deleted: a committed manifest that is gone,
\* a committed pack that is gone, a mass delete.
Missing(c) == PacksOf(Won(This(c).kept)) \ Present(This(c).listed)
Breaker(c) ==
    /\ Cardinality(Present(This(c).listed)) >= BreakerMin
    /\ 5 * Cardinality(Deletable(c)) > 2 * Cardinality(Present(This(c).listed))

\* The ledger is loaded, the clock is probed, and the plan is made.
Decide(c) ==
    /\ AtPhase(c, "deciding")
    /\ Missing(c) = {} /\ ~Breaker(c)
    /\ cycle' = [cycle EXCEPT ![c] =
           [@ EXCEPT !.at = "committing", !.read = ledger, !.cold = NewCold(c),
                     !.delete = Deletable(c), !.listed = Nothing, !.kept = {}]]
    /\ UNCHANGED <<packs, manifests, ledger, faults>>
    /\ UNCHANGED writing

\* The fence: the ledger's ETag is that of the content which was read.
Fenced(c) == ledger = This(c).read

\* The new ledger is written, after the lease has been renewed.
CommitLedger(c) ==
    /\ AtPhase(c, "committing")
    /\ Fenced(c)
    /\ ledger' = This(c).cold
    /\ cycle' = [cycle EXCEPT ![c] =
           [@ EXCEPT !.at = "rechecking", !.read = Nothing, !.cold = Nothing]]
    /\ UNCHANGED <<packs, manifests, faults>>
    /\ UNCHANGED writing

\* One more clock probe, for all deletes.
ProbeAgain(c) ==
    /\ AtPhase(c, "rechecking")
    /\ cycle' = [cycle EXCEPT ![c] = [@ EXCEPT !.at = "deleting", !.now = 0]]
    /\ UNCHANGED <<packs, manifests, ledger, faults>>
    /\ UNCHANGED writing

\* (Mutant: no re-HEAD.)
AlwaysStillCold(c, p) == packs[p] # Absent

\* The re-HEAD before a delete.
StillCold(c, p) == packs[p] # Absent /\ ~Young(packs[p], This(c).now)

\* A candidate that is gone or was refreshed is skipped.
Spare(c, p) ==
    /\ AtPhase(c, "deleting")
    /\ p \in This(c).delete /\ This(c).condemned = {}
    /\ ~StillCold(c, p)
    /\ cycle' = [cycle EXCEPT ![c].delete = @ \ {p}]
    /\ UNCHANGED <<packs, manifests, ledger, faults>>
    /\ UNCHANGED writing

\* The others are deleted; there is a gap between HEAD and DELETE.
Condemn(c, p) ==
    /\ AtPhase(c, "deleting")
    /\ p \in This(c).delete /\ This(c).condemned = {}
    /\ StillCold(c, p)
    /\ cycle' = [cycle EXCEPT ![c].condemned = {p}]
    /\ UNCHANGED <<packs, manifests, ledger, faults>>
    /\ UNCHANGED writing

Delete(c, p) ==
    /\ AtPhase(c, "deleting")
    /\ p \in This(c).condemned
    /\ packs' = [packs EXCEPT ![p] = Absent]
    /\ cycle' = [cycle EXCEPT ![c] = [This(c) EXCEPT !.delete = @ \ {p}, !.condemned = {}]]
    /\ UNCHANGED <<manifests, ledger, faults>>
    /\ UNCHANGED writing

Finish(c) ==
    /\ AtPhase(c, "deleting")
    /\ This(c).delete = {}
    /\ cycle' = [cycle EXCEPT ![c] = Idle]
    /\ UNCHANGED <<packs, manifests, ledger, faults>>
    /\ UNCHANGED writing

\* The code refuses to go on.
Refuses(c) ==
    \/ AtPhase(c, "resolving") /\ ~(Won(This(c).kept) \subseteq manifests)
    \/ AtPhase(c, "deciding") /\ (Missing(c) # {} \/ Breaker(c))
    \/ AtPhase(c, "committing") /\ ~Fenced(c)

Fault == faults < MaxFaults /\ faults' = faults + 1

\* It does, or the lease is lost, a request fails, or the process dies.
Abort(c) ==
    /\ ~AtPhase(c, "idle")
    /\ IF Refuses(c) THEN UNCHANGED faults ELSE Fault
    /\ cycle' = [cycle EXCEPT ![c] = Idle]
    /\ UNCHANGED <<packs, manifests, ledger>>
    /\ UNCHANGED writing

\* The ledger is lost or corrupt, which resets coldness.
LoseLedger ==
    /\ Fault
    /\ ledger # Nothing
    /\ ledger' = Nothing
    /\ UNCHANGED <<packs, manifests, cycle>>
    /\ UNCHANGED writing

Sweep(c) ==
    \/ ListPayloads(c) \/ ListPacks(c) \/ Resolve(c) \/ Decide(c)
    \/ CommitLedger(c) \/ ProbeAgain(c) \/ Finish(c)
    \/ \E p \in Packs : Spare(c, p) \/ Condemn(c, p) \/ Delete(c, p)

---------------------------------------------------------------------------
(* Time *)

Refreshing(w) == AtStep(w, "verifying") /\ Mine(w).left # Mine(w).refs

InTime ==
    /\ \A w \in Writers : IF Refreshing(w) THEN Mine(w).stall < MaxStall
                           ELSE AtStep(w, "idle") \/ MayPause
    /\ \A c \in Collectors : ~AtPhase(c, "idle") => This(c).age < MaxCycle

Tick ==
    /\ InTime
    /\ packs' = AllOlder(packs, MaxAge)
    /\ ledger' = AllOlder(ledger, OldAge)
    /\ attempt' = [w \in Writers |->
           IF Refreshing(w) THEN [Mine(w) EXCEPT !.stall = @ + 1] ELSE Mine(w)]
    /\ cycle' = [c \in Collectors |->
           IF AtPhase(c, "idle") THEN Idle
           ELSE [This(c) EXCEPT !.age = @ + 1,
                                !.now = IF AtPhase(c, "deleting") THEN @ + 1 ELSE 0,
                                !.listed = AllOlder(@, OldAge),
                                !.read = AllOlder(@, OldAge),
                                !.cold = AllOlder(@, OldAge)]]
    /\ UNCHANGED <<manifests, head, faults>>

Next ==
    \/ \E w \in Writers : Build(w) \/ Write(w) \/ GiveUp(w)
    \/ \E c \in Collectors : Sweep(c) \/ Abort(c)
    \/ LoseLedger
    \/ Tick

Spec == Init /\ [][Next]_packVars

\* Collectors are run again and again, and time passes; a writer that has begun
\* goes on or gives up.
FairSpec ==
    /\ Spec
    /\ WF_packVars(Tick)
    /\ \A w \in Writers : WF_packVars(Write(w) \/ GiveUp(w))
    /\ \A c \in Collectors :
          WF_packVars(Sweep(c) \/ (Refuses(c) /\ Abort(c)))

---------------------------------------------------------------------------
(* Properties *)

Retained == {m \in manifests : m.generation >= Floor}

\* The packs of every retained generation are in the store: no writer's commit
\* rests on a pack that some collector, of this or of an earlier cycle, listed as
\* cold and went on to delete.
CommittedPacksPresent == PacksOf(Won(Retained)) \subseteq Present(packs)

\* The same, as the docstring of verify_packs has it: a pack is lost only with a
\* writer that stalled for a full grace.
NoLossWithoutStall ==
    ~MayPause /\ MaxStall < Grace => CommittedPacksPresent

\* What a marker that may still be created needs.
Pending == UNION {Mine(w).refs : w \in {v \in Writers : AtStep(v, "marking") /\ Wins(v)}}

\* No delete, at whatever time it was decided, hits a pack that was written less
\* than a grace ago, one that a retained generation refers to, or one of a manifest
\* that has landed and may still be committed.
DeletesAreSafe ==
    [][\A p \in Packs : packs[p] # Absent /\ packs'[p] = Absent =>
           packs[p] > Grace /\ p \notin PacksOf(Won(Retained)) \cup Pending]_packVars

\* No pack that nothing refers to stays for ever.
ColdPacksReclaimed ==
    \A p \in Packs : []<>(packs[p] = Absent \/ p \in PacksOf(Retained) \/ Young(packs[p], 0))
============================================================================
