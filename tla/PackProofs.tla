----------------------------- MODULE PackProofs -----------------------------
(***************************************************************************)
(* Proofs about PackGC: its types, and that no collector deletes a pack    *)
(* which a retained generation, or a manifest that may still be committed, *)
(* refers to, as long as stalls and cycles fit into the grace.             *)
(***************************************************************************)
EXTENDS PackGC, TLAPS

---------------------------------------------------------------------------
(* The inductive invariant *)

\* The assumption on time: a writer's stall and a cycle fit into the grace together,
\* and nothing is refreshed between re-HEAD and DELETE.
Punctual == QuietGap /\ MaxStall + MaxCycle <= Grace

\* What bounds the counters of attempts and cycles.
CountersOK ==
    /\ \A w \in Writers : ~AtStep(w, "idle") => Mine(w).base < MaxGeneration
    /\ \A c \in Collectors : ~AtPhase(c, "idle") => This(c).now <= This(c).age

\* Each retained generation has its winner, and none is younger than the head.
ManifestsOK ==
    /\ \A m \in Won(manifests) : m.generation <= head
    /\ \A g \in Generations : Floor <= g /\ g <= head =>
          \E m \in Won(manifests) : m.generation = g

\* An attempt on the head reuses packs of the head.  A novel pack that has been
\* refreshed is as young as the stall, and about to be deleted by nobody.  The
\* manifest of an attempt that may still win is in the store.
AttemptOK(w) ==
    /\ ~AtStep(w, "idle") => Mine(w).base <= head
    /\ AtStep(w, "publishing") \/ AtStep(w, "verifying") =>
          /\ Mine(w).novel \subseteq Mine(w).refs
          /\ Mine(w).base = head => Mine(w).refs \ Mine(w).novel \subseteq HeadPacks
    /\ AtStep(w, "verifying") =>
          \A p \in Mine(w).novel \ Mine(w).left :
              /\ packs[p] \in 0..Mine(w).stall
              /\ \A c \in Collectors : p \notin Condemned(c)
    /\ AtStep(w, "marking") /\ Wins(w) => Manifest(w) \in manifests

\* The payload is there, whether or not it has got its marker.
StillThere(m) == \E n \in manifests : n.generation = m.generation /\ n.packs = m.packs

\* Until it resolves what it has kept, a cycle has kept a winner at or below each
\* manifest: none of them is swept under it unless one of the winners is.
ListingOK(c) ==
    AtPhase(c, "listing") \/ AtPhase(c, "resolving") =>
        /\ \A m \in Won(This(c).kept) : m.generation <= head
        /\ \A m \in This(c).kept : \E n \in Won(This(c).kept) : n.generation <= m.generation
        /\ Won(This(c).kept) \subseteq manifests => \A m \in This(c).kept : StillThere(m)

\* What has to stay, and what a cycle cannot take for old.
Needed == PacksOf(Won(Retained)) \cup Pending
Fresh(c, p) == packs[p] <= MaxStall + This(c).age

\* A pack that has to stay is marked by a manifest the cycle has kept, or it was
\* refreshed for a manifest that has landed since.
Shielded(c, p) ==
    /\ AtPhase(c, "listing") \/ AtPhase(c, "resolving") \/ AtPhase(c, "deciding") =>
          p \in PacksOf(This(c).kept) \/ Fresh(c, p)
    /\ AtPhase(c, "committing") \/ AtPhase(c, "rechecking") \/ AtPhase(c, "deleting") =>
          p \notin This(c).delete \/ Fresh(c, p)
    /\ p \notin Condemned(c)

NeededOK ==
    /\ Needed \subseteq Present(packs)
    /\ \A c \in Collectors : \A p \in Needed : Shielded(c, p)

\* Only a cycle that deletes has condemned a pack.
CondemnedOK(c) ==
    ~AtPhase(c, "idle") /\ ~AtPhase(c, "deleting") => This(c).condemned = {}

PackInv ==
    /\ PackTypeOK /\ CountersOK /\ ManifestsOK /\ NeededOK
    /\ \A w \in Writers : AttemptOK(w)
    /\ \A c \in Collectors : ListingOK(c) /\ CondemnedOK(c)

\* With a single collector, what is about to be deleted stays as old as its re-HEAD
\* has found it.
CondemnedAreOld == \A c \in Collectors : \A p \in Condemned(c) : packs[p] > Grace

---------------------------------------------------------------------------
(* Ages and records *)

LEMMA Numbers ==
    /\ RetainGenerations \in Nat /\ RetainGenerations # 0
    /\ MaxGeneration \in Nat /\ Grace \in Nat /\ MaxStall \in Nat /\ MaxCycle \in Nat
    /\ MaxFaults \in Nat /\ QuietGap \in BOOLEAN
    /\ Absent = -1 /\ MaxAge \in Nat /\ MaxAge = Grace + 1 + MaxCycle
    /\ OldAge \in Nat /\ OldAge = Grace + 1
<1> QED
  BY PackAssumption DEF Absent, MaxAge, OldAge

LEMMA MinOfTwo ==
    ASSUME NEW a \in Int, NEW b \in Int
    PROVE  Min({a, b}) = IF a <= b THEN a ELSE b
<1>1. CASE a <= b
  BY <1>1 DEF Min
<1>2. CASE ~(a <= b)
  BY <1>2 DEF Min
<1> QED
  BY <1>1, <1>2

\* An age only grows, and not past its limit.
LEMMA OlderAge ==
    ASSUME NEW limit \in Nat, NEW age \in Absent..limit
    PROVE  /\ Older(age, limit) \in Absent..limit
           /\ Older(age, limit) = Absent <=> age = Absent
           /\ age <= Older(age, limit) /\ Older(age, limit) <= age + 1
<1> QED
  BY Numbers DEF Older

LEMMA AgeFunctions ==
    /\ Nothing \in [Packs -> Absent..OldAge]
    /\ \A ages \in [Packs -> Ages] : Capped(ages) \in [Packs -> Absent..OldAge]
    /\ \A ages \in [Packs -> Absent..OldAge] : AllOlder(ages, OldAge) \in [Packs -> Absent..OldAge]
    /\ \A ages \in [Packs -> Ages] : AllOlder(ages, MaxAge) \in [Packs -> Ages]
<1>1. Nothing \in [Packs -> Absent..OldAge]
  BY Numbers DEF Nothing
<1>2. ASSUME NEW ages \in [Packs -> Ages] PROVE Capped(ages) \in [Packs -> Absent..OldAge]
  <2>1. ASSUME NEW p \in Packs PROVE Min({ages[p], OldAge}) \in Absent..OldAge
    <3>1. ages[p] \in Int /\ -1 <= ages[p]
      BY Numbers DEF Ages
    <3> QED
      BY <3>1, MinOfTwo, Numbers
  <2> QED
    BY <2>1 DEF Capped
<1>3. ASSUME NEW ages \in [Packs -> Absent..OldAge]
      PROVE  AllOlder(ages, OldAge) \in [Packs -> Absent..OldAge]
  BY OlderAge, Numbers DEF AllOlder
<1>4. ASSUME NEW ages \in [Packs -> Ages] PROVE AllOlder(ages, MaxAge) \in [Packs -> Ages]
  BY OlderAge, Numbers DEF AllOlder, Ages
<1> QED
  BY <1>1, <1>2, <1>3, <1>4

\* An attempt, or a cycle, that is not idle has all its fields.
LEMMA Shapes ==
    /\ Attempts = {Idle} \cup Trying /\ Cycles = {Idle} \cup Cycling
    /\ Idle.at = "idle"
    /\ PackTypeOK => \A w \in Writers : IF AtStep(w, "idle") THEN attempt[w] = Idle
                                        ELSE attempt[w] \in Trying
    /\ PackTypeOK => \A c \in Collectors : IF AtPhase(c, "idle") THEN cycle[c] = Idle
                                           ELSE cycle[c] \in Cycling
<1>1. Attempts = {Idle} \cup Trying /\ Cycles = {Idle} \cup Cycling /\ Idle.at = "idle"
  BY DEF Attempts, Cycles, Trying, Cycling, Idle
<1>2. \A r \in Trying : r.at # "idle"
  BY DEF Trying
<1>3. \A r \in Cycling : r.at # "idle"
  BY DEF Cycling
<1> QED
  BY <1>1, <1>2, <1>3 DEF PackTypeOK, AtStep, AtPhase

---------------------------------------------------------------------------
(* What the steps of a writer change, and the types after them *)

BuildRec(w, reused, novel) ==
    [at |-> "publishing", base |-> head, novel |-> novel,
     refs |-> reused \cup novel, left |-> novel, stall |-> 0]

\* A writer's step replaces its attempt, and leaves the others.
LEMMA AttemptChanges ==
    ASSUME PackTypeOK, NEW w \in Writers, NEW r \in Attempts,
           attempt' = [attempt EXCEPT ![w] = r]
    PROVE  /\ attempt' \in [Writers -> Attempts] /\ attempt'[w] = r
           /\ \A v \in Writers : v # w => attempt'[v] = attempt[v]
<1> QED
  BY DEF PackTypeOK

LEMMA BuildTypes ==
    ASSUME PackTypeOK, CountersOK, NEW w \in Writers, Build(w)
    PROVE  /\ PackTypeOK' /\ CountersOK'
           /\ UNCHANGED <<packs, manifests, head, ledger, cycle, faults>>
           /\ \A v \in Writers : v # w => attempt'[v] = attempt[v]
           /\ attempt'[w].at = "publishing" /\ attempt'[w].base = head
           /\ attempt'[w].novel \subseteq attempt'[w].refs
           /\ attempt'[w].refs \ attempt'[w].novel \subseteq HeadPacks
<1>1. PICK reused \in SUBSET HeadPacks, novel \in SUBSET (Packs \ HeadPacks) :
         attempt' = [attempt EXCEPT ![w] = BuildRec(w, reused, novel)]
  BY DEF Build, BuildRec
<1>2. HeadPacks \subseteq Packs
  BY DEF HeadPacks, PacksOf, Won, PackTypeOK, Manifests
<1>3. BuildRec(w, reused, novel) \in Trying
  BY <1>2, Numbers DEF BuildRec, Trying, PackTypeOK
<1>4. /\ attempt' \in [Writers -> Attempts] /\ attempt'[w] = BuildRec(w, reused, novel)
      /\ \A v \in Writers : v # w => attempt'[v] = attempt[v]
  BY <1>1, <1>3, AttemptChanges, Shapes
<1>5. UNCHANGED <<packs, manifests, head, ledger, cycle, faults>> /\ head < MaxGeneration
  BY DEF Build, collecting
<1>6. PackTypeOK'
  BY <1>4, <1>5 DEF PackTypeOK
<1>7. CountersOK'
  BY <1>4, <1>5 DEF CountersOK, AtStep, Mine, AtPhase, This, BuildRec
<1> QED
  BY <1>4, <1>5, <1>6, <1>7 DEF BuildRec

LEMMA PutPackTypes ==
    ASSUME PackTypeOK, CountersOK, NEW w \in Writers, NEW p \in Packs, PutPack(w, p)
    PROVE  /\ PackTypeOK' /\ CountersOK'
           /\ UNCHANGED <<manifests, head, ledger, cycle, faults>>
           /\ \A v \in Writers : v # w => attempt'[v] = attempt[v]
           /\ AtStep(w, "publishing")
           /\ attempt'[w] = [attempt[w] EXCEPT !.left = @ \ {p}]
           /\ attempt[w] \in Trying
           /\ packs'[p] = (IF packs[p] = Absent THEN 0 ELSE packs[p])
           /\ \A q \in Packs : q # p => packs'[q] = packs[q]
<1> DEFINE r == [attempt[w] EXCEPT !.left = @ \ {p}]
<1>1. AtStep(w, "publishing") /\ attempt[w] \in Trying
  BY Shapes DEF PutPack, AtStep
<1>2. r \in Trying /\ r.at = "publishing" /\ r.base = attempt[w].base
  BY <1>1 DEF Trying, AtStep
<1>3. attempt' = [attempt EXCEPT ![w] = r]
  BY DEF PutPack, Mine
<1> HIDE DEF r
<1>4. /\ attempt' \in [Writers -> Attempts] /\ attempt'[w] = r
      /\ \A v \in Writers : v # w => attempt'[v] = attempt[v]
  BY <1>2, <1>3, AttemptChanges, Shapes
<1>5. UNCHANGED <<manifests, head, ledger, cycle, faults>>
  BY DEF PutPack, collecting
<1>6. /\ packs' \in [Packs -> Ages]
      /\ packs'[p] = (IF packs[p] = Absent THEN 0 ELSE packs[p])
      /\ \A q \in Packs : q # p => packs'[q] = packs[q]
  BY Numbers DEF PutPack, PackTypeOK, Ages
<1>7. PackTypeOK'
  BY <1>4, <1>5, <1>6 DEF PackTypeOK
<1>8. CountersOK'
  BY <1>1, <1>2, <1>4, <1>5 DEF CountersOK, AtStep, Mine, AtPhase, This
<1> QED
  BY <1>1, <1>4, <1>5, <1>6, <1>7, <1>8 DEF r

LEMMA PublishedTypes ==
    ASSUME PackTypeOK, CountersOK, NEW w \in Writers, Published(w)
    PROVE  /\ PackTypeOK' /\ CountersOK'
           /\ UNCHANGED <<packs, manifests, head, ledger, cycle, faults>>
           /\ \A v \in Writers : v # w => attempt'[v] = attempt[v]
           /\ AtStep(w, "publishing")
           /\ attempt'[w].at = "verifying" /\ attempt'[w].left = attempt[w].refs
           /\ attempt'[w].novel = attempt[w].novel /\ attempt'[w].refs = attempt[w].refs
           /\ attempt'[w].base = attempt[w].base
<1> DEFINE r == [attempt[w] EXCEPT !.at = "verifying", !.left = attempt[w].refs]
<1>1. AtStep(w, "publishing") /\ attempt[w] \in Trying
  BY Shapes DEF Published, AtStep
<1>2. /\ r \in Trying /\ r.at = "verifying" /\ r.base = attempt[w].base
      /\ r.left = attempt[w].refs /\ r.novel = attempt[w].novel /\ r.refs = attempt[w].refs
  BY <1>1 DEF Trying
<1>3. attempt' = [attempt EXCEPT ![w] = r]
  BY DEF Published, Mine
<1> HIDE DEF r
<1>4. /\ attempt' \in [Writers -> Attempts] /\ attempt'[w] = r
      /\ \A v \in Writers : v # w => attempt'[v] = attempt[v]
  BY <1>2, <1>3, AttemptChanges, Shapes
<1>5. UNCHANGED <<packs, manifests, head, ledger, cycle, faults>>
  BY DEF Published, collecting
<1>6. PackTypeOK'
  BY <1>4, <1>5 DEF PackTypeOK
<1>7. CountersOK'
  BY <1>1, <1>2, <1>4, <1>5 DEF CountersOK, AtStep, Mine, AtPhase, This
<1> QED
  BY <1>1, <1>2, <1>4, <1>5, <1>6, <1>7

LEMMA VerifyPackTypes ==
    ASSUME PackTypeOK, CountersOK, NEW w \in Writers, NEW p \in Packs, VerifyPack(w, p)
    PROVE  /\ PackTypeOK' /\ CountersOK'
           /\ UNCHANGED <<manifests, head, ledger, cycle, faults>>
           /\ \A v \in Writers : v # w => attempt'[v] = attempt[v]
           /\ AtStep(w, "verifying")
           /\ attempt'[w] = [attempt[w] EXCEPT !.left = @ \ {p}]
           /\ attempt[w] \in Trying
           /\ packs'[p] = (IF p \in attempt[w].novel THEN 0 ELSE packs[p])
           /\ \A q \in Packs : q # p => packs'[q] = packs[q]
<1> DEFINE r == [attempt[w] EXCEPT !.left = @ \ {p}]
<1>1. AtStep(w, "verifying") /\ attempt[w] \in Trying
  BY Shapes DEF VerifyPack, AtStep
<1>2. r \in Trying /\ r.at = "verifying" /\ r.base = attempt[w].base
  BY <1>1 DEF Trying, AtStep
<1>3. attempt' = [attempt EXCEPT ![w] = r]
  BY DEF VerifyPack, Mine
<1> HIDE DEF r
<1>4. /\ attempt' \in [Writers -> Attempts] /\ attempt'[w] = r
      /\ \A v \in Writers : v # w => attempt'[v] = attempt[v]
  BY <1>2, <1>3, AttemptChanges, Shapes
<1>5. UNCHANGED <<manifests, head, ledger, cycle, faults>>
  BY DEF VerifyPack, collecting
<1>6. /\ packs' \in [Packs -> Ages]
      /\ packs'[p] = (IF p \in attempt[w].novel THEN 0 ELSE packs[p])
      /\ \A q \in Packs : q # p => packs'[q] = packs[q]
  <2>1. packs' = IF p \in attempt[w].novel THEN [packs EXCEPT ![p] = 0] ELSE packs
    BY DEF VerifyPack, Refreshed, Mine
  <2> QED
    BY <2>1, Numbers DEF PackTypeOK, Ages
<1>7. PackTypeOK'
  BY <1>4, <1>5, <1>6 DEF PackTypeOK
<1>8. CountersOK'
  BY <1>1, <1>2, <1>4, <1>5 DEF CountersOK, AtStep, Mine, AtPhase, This
<1> QED
  BY <1>1, <1>4, <1>5, <1>6, <1>7, <1>8 DEF r

LEMMA PutManifestTypes ==
    ASSUME PackTypeOK, CountersOK, NEW w \in Writers, PutManifest(w)
    PROVE  /\ PackTypeOK' /\ CountersOK'
           /\ UNCHANGED <<packs, head, ledger, cycle, faults>>
           /\ \A v \in Writers : v # w => attempt'[v] = attempt[v]
           /\ AtStep(w, "verifying") /\ attempt[w].left = {} /\ attempt[w] \in Trying
           /\ attempt'[w].at = "marking" /\ attempt'[w].base = attempt[w].base
           /\ attempt'[w].refs = attempt[w].refs
           /\ manifests' = manifests \cup {Manifest(w)} /\ Manifest(w) \in Manifests
           /\ Manifest(w)' = Manifest(w)
<1> DEFINE r == [attempt[w] EXCEPT !.at = "marking", !.novel = {}, !.stall = 0]
<1>1. AtStep(w, "verifying") /\ attempt[w] \in Trying
  BY Shapes DEF PutManifest, AtStep
<1>2. /\ r \in Trying /\ r.at = "marking" /\ r.base = attempt[w].base
      /\ r.refs = attempt[w].refs
  <2>1. 0 \in 0..MaxStall
    BY Numbers
  <2> QED
    BY <1>1, <2>1 DEF Trying
<1>3. attempt' = [attempt EXCEPT ![w] = r]
  BY DEF PutManifest, Mine
<1> HIDE DEF r
<1>4. /\ attempt' \in [Writers -> Attempts] /\ attempt'[w] = r
      /\ \A v \in Writers : v # w => attempt'[v] = attempt[v]
  BY <1>2, <1>3, AttemptChanges, Shapes
<1>5. /\ UNCHANGED <<packs, head, ledger, cycle, faults>>
      /\ manifests' = manifests \cup {Manifest(w)} /\ attempt[w].left = {}
  BY DEF PutManifest, collecting, Mine
<1>6. Manifest(w) \in Manifests
  <2>1. attempt[w].base \in Generations /\ attempt[w].base < MaxGeneration
        /\ attempt[w].refs \subseteq Packs
    BY <1>1 DEF CountersOK, Trying, Mine, AtStep
  <2> QED
    BY <2>1, Numbers DEF Manifest, Manifests, Generations, Mine
<1>7. PackTypeOK'
  BY <1>4, <1>5, <1>6 DEF PackTypeOK
<1>8. CountersOK'
  BY <1>1, <1>2, <1>4, <1>5 DEF CountersOK, AtStep, Mine, AtPhase, This
<1>9. Manifest(w)' = Manifest(w)
  BY <1>2, <1>4 DEF Manifest, Mine
<1> QED
  BY <1>1, <1>2, <1>4, <1>5, <1>6, <1>7, <1>8, <1>9

LEMMA CreateMarkerTypes ==
    ASSUME PackTypeOK, CountersOK, NEW w \in Writers, CreateMarker(w)
    PROVE  /\ PackTypeOK' /\ CountersOK'
           /\ UNCHANGED <<packs, ledger, cycle, faults>>
           /\ \A v \in Writers : v # w => attempt'[v] = attempt[v]
           /\ AtStep(w, "marking") /\ attempt[w] \in Trying /\ attempt'[w] = Idle
           /\ Manifest(w) \in Manifests /\ Manifest(w).generation = attempt[w].base + 1
           /\ ~Wins(w) => UNCHANGED <<head, manifests>>
           /\ Wins(w) =>
                /\ head' = head + 1
                /\ manifests' = (manifests \ {Manifest(w)}) \cup {[Manifest(w) EXCEPT !.won = TRUE]}
<1>1. AtStep(w, "marking") /\ attempt[w] \in Trying
  BY Shapes DEF CreateMarker, AtStep
<1>2. /\ attempt' \in [Writers -> Attempts] /\ attempt'[w] = Idle
      /\ \A v \in Writers : v # w => attempt'[v] = attempt[v]
  BY AttemptChanges, Shapes DEF CreateMarker
<1>3. attempt[w].base \in Generations /\ attempt[w].base < MaxGeneration
      /\ attempt[w].refs \subseteq Packs
  BY <1>1 DEF CountersOK, Trying, Mine, AtStep
<1>4. attempt[w].base + 1 \in Generations
  BY <1>3, Numbers DEF Generations
<1>5. /\ Manifest(w) \in Manifests /\ Manifest(w).generation = attempt[w].base + 1
      /\ [Manifest(w) EXCEPT !.won = TRUE] \in Manifests
  BY <1>3, <1>4 DEF Manifest, Manifests, Mine
<1>6. UNCHANGED <<packs, ledger, cycle, faults>>
  BY DEF CreateMarker, collecting
<1>7. manifests' \subseteq Manifests /\ head' \in Generations
  BY <1>3, <1>4, <1>5 DEF CreateMarker, Wins, Mine, PackTypeOK
<1>8. PackTypeOK'
  BY <1>2, <1>6, <1>7 DEF PackTypeOK
<1>9. CountersOK'
  BY <1>2, <1>6, Shapes DEF CountersOK, AtStep, Mine, AtPhase, This
<1> QED
  BY <1>1, <1>2, <1>5, <1>6, <1>8, <1>9 DEF CreateMarker

LEMMA GiveUpTypes ==
    ASSUME PackTypeOK, CountersOK, NEW w \in Writers, GiveUp(w)
    PROVE  /\ PackTypeOK' /\ CountersOK'
           /\ UNCHANGED <<packs, manifests, head, ledger, cycle, faults>>
           /\ \A v \in Writers : v # w => attempt'[v] = attempt[v]
           /\ attempt'[w] = Idle
<1>1. /\ attempt' \in [Writers -> Attempts] /\ attempt'[w] = Idle
      /\ \A v \in Writers : v # w => attempt'[v] = attempt[v]
  BY AttemptChanges, Shapes DEF GiveUp
<1>2. UNCHANGED <<packs, manifests, head, ledger, cycle, faults>>
  BY DEF GiveUp, collecting
<1>3. PackTypeOK' /\ CountersOK'
  BY <1>1, <1>2, Shapes DEF PackTypeOK, CountersOK, AtStep, Mine, AtPhase, This
<1> QED
  BY <1>1, <1>2, <1>3

---------------------------------------------------------------------------
(* What the steps of a collector change, and the types after them *)

LEMMA CycleChanges ==
    ASSUME PackTypeOK, NEW c \in Collectors, NEW r \in Cycles,
           cycle' = [cycle EXCEPT ![c] = r]
    PROVE  /\ cycle' \in [Collectors -> Cycles] /\ cycle'[c] = r
           /\ \A d \in Collectors : d # c => cycle'[d] = cycle[d]
<1> QED
  BY DEF PackTypeOK

\* A cycle that goes on is as old as it was; its clock probe is no older.
LEMMA CycleTypes ==
    ASSUME PackTypeOK, CountersOK, NEW c \in Collectors, NEW r \in Cycling \cup {Idle},
           cycle' = [cycle EXCEPT ![c] = r], r # Idle => r.now <= r.age,
           UNCHANGED <<head, attempt>>, manifests' \subseteq manifests,
           packs' \in [Packs -> Ages], ledger' \in [Packs -> Absent..OldAge],
           faults' \in 0..MaxFaults
    PROVE  /\ PackTypeOK' /\ CountersOK'
           /\ cycle'[c] = r
           /\ \A d \in Collectors : d # c => cycle'[d] = cycle[d]
<1>1. /\ cycle' \in [Collectors -> Cycles] /\ cycle'[c] = r
      /\ \A d \in Collectors : d # c => cycle'[d] = cycle[d]
  BY CycleChanges, Shapes
<1>2. PackTypeOK'
  BY <1>1 DEF PackTypeOK
<1>3. CountersOK'
  BY <1>1, Shapes DEF CountersOK, AtStep, Mine, AtPhase, This
<1> QED
  BY <1>1, <1>2, <1>3

LEMMA ListPayloadsTypes ==
    ASSUME PackTypeOK, CountersOK, NEW c \in Collectors, ListPayloads(c)
    PROVE  /\ PackTypeOK' /\ CountersOK'
           /\ UNCHANGED <<packs, ledger, faults, head, attempt>>
           /\ \A d \in Collectors : d # c => cycle'[d] = cycle[d]
           /\ manifests' = {m \in manifests : m.generation >= Floor}
           /\ AtPhase(c, "idle")
           /\ cycle'[c].at = "listing" /\ cycle'[c].kept = manifests'
           /\ cycle'[c].condemned = {}
<1> DEFINE r == [at |-> "listing", kept |-> manifests', listed |-> Nothing,
                 read |-> Nothing, cold |-> Nothing, delete |-> {}, condemned |-> {},
                 now |-> 0, age |-> 0]
<1>1. /\ UNCHANGED <<packs, ledger, faults, head, attempt>> /\ AtPhase(c, "idle")
      /\ manifests' = {m \in manifests : m.generation >= Floor}
      /\ cycle' = [cycle EXCEPT ![c] = r]
  BY DEF ListPayloads, writing
<1>2. r \in Cycling /\ r.now <= r.age
  <2>1. manifests' \subseteq Manifests /\ 0 \in 0..MaxCycle
    BY <1>1, Numbers DEF PackTypeOK
  <2> QED
    BY <2>1, AgeFunctions DEF Cycling
<1>3. r.at = "listing" /\ r.kept = manifests' /\ r.condemned = {}
  OBVIOUS
<1> HIDE DEF r
<1>4. /\ PackTypeOK' /\ CountersOK' /\ cycle'[c] = r
      /\ \A d \in Collectors : d # c => cycle'[d] = cycle[d]
  <2>1. /\ packs' \in [Packs -> Ages] /\ ledger' \in [Packs -> Absent..OldAge]
        /\ faults' \in 0..MaxFaults /\ manifests' \subseteq manifests
    BY <1>1 DEF PackTypeOK
  <2> QED
    BY <1>1, <1>2, <2>1, CycleTypes
<1> QED
  BY <1>1, <1>3, <1>4

LEMMA ListPacksTypes ==
    ASSUME PackTypeOK, CountersOK, NEW c \in Collectors, ListPacks(c)
    PROVE  /\ PackTypeOK' /\ CountersOK'
           /\ UNCHANGED <<packs, manifests, ledger, faults, head, attempt>>
           /\ \A d \in Collectors : d # c => cycle'[d] = cycle[d]
           /\ AtPhase(c, "listing") /\ cycle[c] \in Cycling /\ cycle'[c] \in Cycling
           /\ cycle'[c].at = "resolving" /\ cycle'[c].kept = cycle[c].kept
           /\ cycle'[c].condemned = cycle[c].condemned /\ cycle'[c].age = cycle[c].age
<1> DEFINE r == [cycle[c] EXCEPT !.at = "resolving", !.listed = Capped(packs)]
<1>1. /\ UNCHANGED <<packs, manifests, ledger, faults, head, attempt>> /\ AtPhase(c, "listing")
      /\ cycle' = [cycle EXCEPT ![c] = r]
  BY DEF ListPacks, writing
<1>2. cycle[c] \in Cycling /\ cycle[c].now <= cycle[c].age
  BY <1>1, Shapes DEF AtPhase, CountersOK, This
<1>3. /\ r \in Cycling /\ r.now <= r.age /\ r.at = "resolving" /\ r.kept = cycle[c].kept
      /\ r.condemned = cycle[c].condemned /\ r.age = cycle[c].age
  <2>1. Capped(packs) \in [Packs -> Absent..OldAge]
    BY AgeFunctions DEF PackTypeOK
  <2> QED
    BY <1>2, <2>1 DEF Cycling
<1> HIDE DEF r
<1>4. /\ PackTypeOK' /\ CountersOK' /\ cycle'[c] = r
      /\ \A d \in Collectors : d # c => cycle'[d] = cycle[d]
  <2>1. /\ packs' \in [Packs -> Ages] /\ ledger' \in [Packs -> Absent..OldAge]
        /\ faults' \in 0..MaxFaults /\ manifests' \subseteq manifests
    BY <1>1 DEF PackTypeOK
  <2> QED
    BY <1>1, <1>3, <2>1, CycleTypes
<1> QED
  BY <1>1, <1>2, <1>3, <1>4

LEMMA ResolveTypes ==
    ASSUME PackTypeOK, CountersOK, NEW c \in Collectors, Resolve(c)
    PROVE  /\ PackTypeOK' /\ CountersOK'
           /\ UNCHANGED <<packs, manifests, ledger, faults, head, attempt>>
           /\ \A d \in Collectors : d # c => cycle'[d] = cycle[d]
           /\ AtPhase(c, "resolving") /\ cycle[c] \in Cycling
           /\ \/ cycle'[c] = Idle
              \/ /\ cycle'[c] \in Cycling
                 /\ cycle'[c].at = "deciding" /\ cycle'[c].kept = Kept(c)
                 /\ cycle'[c].condemned = cycle[c].condemned /\ cycle'[c].age = cycle[c].age
<1> DEFINE r == [cycle[c] EXCEPT !.at = "deciding", !.listed = Listed(c), !.kept = Kept(c)]
<1>1. /\ UNCHANGED <<packs, manifests, ledger, faults, head, attempt>> /\ AtPhase(c, "resolving")
      /\ \/ cycle' = [cycle EXCEPT ![c] = Idle]
         \/ cycle' = [cycle EXCEPT ![c] = r]
  BY DEF Resolve, writing, This, Marking
<1>2. cycle[c] \in Cycling /\ cycle[c].now <= cycle[c].age
  BY <1>1, Shapes DEF AtPhase, CountersOK, This
<1>3. /\ r \in Cycling /\ r.now <= r.age /\ r.at = "deciding" /\ r.kept = Kept(c)
      /\ r.condemned = cycle[c].condemned /\ r.age = cycle[c].age
  <2>1. Capped(packs) \in [Packs -> Absent..OldAge] /\ cycle[c].listed \in [Packs -> Absent..OldAge]
    BY <1>2, AgeFunctions DEF PackTypeOK, Cycling
  <2>2. Listed(c) \in [Packs -> Absent..OldAge]
    <3> HIDE DEF Capped
    <3> QED
      BY <2>1 DEF Listed, This
  <2>3. Kept(c) \subseteq Manifests
    BY DEF Kept, PackTypeOK
  <2> HIDE DEF Listed, Kept
  <2> QED
    BY <1>2, <2>2, <2>3 DEF Cycling
<1> HIDE DEF r
<1>4. /\ packs' \in [Packs -> Ages] /\ ledger' \in [Packs -> Absent..OldAge]
      /\ faults' \in 0..MaxFaults /\ manifests' \subseteq manifests
  BY <1>1 DEF PackTypeOK
<1>5. CASE cycle' = [cycle EXCEPT ![c] = Idle]
  BY <1>1, <1>2, <1>4, <1>5, CycleTypes
<1>6. CASE cycle' = [cycle EXCEPT ![c] = r]
  BY <1>1, <1>2, <1>3, <1>4, <1>6, CycleTypes
<1> QED
  BY <1>1, <1>5, <1>6

LEMMA DecideTypes ==
    ASSUME PackTypeOK, CountersOK, NEW c \in Collectors, Decide(c)
    PROVE  /\ PackTypeOK' /\ CountersOK'
           /\ UNCHANGED <<packs, manifests, ledger, faults, head, attempt>>
           /\ \A d \in Collectors : d # c => cycle'[d] = cycle[d]
           /\ AtPhase(c, "deciding") /\ cycle[c] \in Cycling /\ cycle'[c] \in Cycling
           /\ cycle'[c].at = "committing" /\ cycle'[c].delete = Deletable(c)
           /\ cycle'[c].condemned = cycle[c].condemned /\ cycle'[c].age = cycle[c].age
<1> DEFINE r == [cycle[c] EXCEPT !.at = "committing", !.read = ledger, !.cold = NewCold(c),
                                   !.delete = Deletable(c), !.listed = Nothing, !.kept = {}]
<1>1. /\ UNCHANGED <<packs, manifests, ledger, faults, head, attempt>> /\ AtPhase(c, "deciding")
      /\ cycle' = [cycle EXCEPT ![c] = r]
  BY DEF Decide, writing, This
<1>2. cycle[c] \in Cycling /\ cycle[c].now <= cycle[c].age
  BY <1>1, Shapes DEF AtPhase, CountersOK, This
<1>3. /\ r \in Cycling /\ r.now <= r.age
      /\ r.at = "committing" /\ r.delete = Deletable(c)
      /\ r.condemned = cycle[c].condemned /\ r.age = cycle[c].age
  <2>1. ledger \in [Packs -> Absent..OldAge] /\ Deletable(c) \subseteq Packs
    BY DEF PackTypeOK, Deletable, Cold, Present
  <2>2. NewCold(c) \in [Packs -> Absent..OldAge]
    BY <2>1, Numbers DEF NewCold
  <2> HIDE DEF Deletable, NewCold
  <2> QED
    BY <1>2, <2>1, <2>2, AgeFunctions DEF Cycling
<1> HIDE DEF r
<1>4. /\ PackTypeOK' /\ CountersOK' /\ cycle'[c] = r
      /\ \A d \in Collectors : d # c => cycle'[d] = cycle[d]
  <2>1. /\ packs' \in [Packs -> Ages] /\ ledger' \in [Packs -> Absent..OldAge]
        /\ faults' \in 0..MaxFaults /\ manifests' \subseteq manifests
    BY <1>1 DEF PackTypeOK
  <2> QED
    BY <1>1, <1>3, <2>1, CycleTypes
<1> QED
  BY <1>1, <1>2, <1>3, <1>4

LEMMA CommitLedgerTypes ==
    ASSUME PackTypeOK, CountersOK, NEW c \in Collectors, CommitLedger(c)
    PROVE  /\ PackTypeOK' /\ CountersOK'
           /\ UNCHANGED <<packs, manifests, faults, head, attempt>>
           /\ \A d \in Collectors : d # c => cycle'[d] = cycle[d]
           /\ AtPhase(c, "committing") /\ cycle[c] \in Cycling /\ cycle'[c] \in Cycling
           /\ cycle'[c].at = "rechecking" /\ cycle'[c].delete = cycle[c].delete
           /\ cycle'[c].condemned = cycle[c].condemned /\ cycle'[c].age = cycle[c].age
<1> DEFINE r == [cycle[c] EXCEPT !.at = "rechecking", !.read = Nothing, !.cold = Nothing]
<1>1. /\ UNCHANGED <<packs, manifests, faults, head, attempt>> /\ AtPhase(c, "committing")
      /\ cycle' = [cycle EXCEPT ![c] = r]
  BY DEF CommitLedger, writing, This
<1>2. cycle[c] \in Cycling /\ cycle[c].now <= cycle[c].age
  BY <1>1, Shapes DEF AtPhase, CountersOK, This
<1>3. /\ r \in Cycling /\ r.now <= r.age
      /\ r.at = "rechecking" /\ r.delete = cycle[c].delete
      /\ r.condemned = cycle[c].condemned /\ r.age = cycle[c].age
  BY <1>2, AgeFunctions DEF Cycling
<1> HIDE DEF r
<1>4. /\ PackTypeOK' /\ CountersOK' /\ cycle'[c] = r
      /\ \A d \in Collectors : d # c => cycle'[d] = cycle[d]
  <2>1. /\ packs' \in [Packs -> Ages] /\ ledger' \in [Packs -> Absent..OldAge]
        /\ faults' \in 0..MaxFaults /\ manifests' \subseteq manifests
    BY <1>1, <1>2 DEF PackTypeOK, CommitLedger, This, Cycling
  <2> QED
    BY <1>1, <1>3, <2>1, CycleTypes
<1> QED
  BY <1>1, <1>2, <1>3, <1>4

LEMMA ProbeAgainTypes ==
    ASSUME PackTypeOK, CountersOK, NEW c \in Collectors, ProbeAgain(c)
    PROVE  /\ PackTypeOK' /\ CountersOK'
           /\ UNCHANGED <<packs, manifests, ledger, faults, head, attempt>>
           /\ \A d \in Collectors : d # c => cycle'[d] = cycle[d]
           /\ AtPhase(c, "rechecking") /\ cycle[c] \in Cycling /\ cycle'[c] \in Cycling
           /\ cycle'[c].at = "deleting" /\ cycle'[c].delete = cycle[c].delete
           /\ cycle'[c].condemned = cycle[c].condemned /\ cycle'[c].age = cycle[c].age
<1> DEFINE r == [cycle[c] EXCEPT !.at = "deleting", !.now = 0]
<1>1. /\ UNCHANGED <<packs, manifests, ledger, faults, head, attempt>> /\ AtPhase(c, "rechecking")
      /\ cycle' = [cycle EXCEPT ![c] = r]
  BY DEF ProbeAgain, writing, This
<1>2. cycle[c] \in Cycling /\ cycle[c].now <= cycle[c].age
  BY <1>1, Shapes DEF AtPhase, CountersOK, This
<1>3. /\ r \in Cycling /\ r.now <= r.age
      /\ r.at = "deleting" /\ r.delete = cycle[c].delete
      /\ r.condemned = cycle[c].condemned /\ r.age = cycle[c].age
  <2>1. 0 \in 0..MaxCycle /\ cycle[c].age \in 0..MaxCycle
    BY <1>2, Numbers DEF Cycling
  <2>2. 0 <= cycle[c].age
    BY <2>1, Numbers
  <2> QED
    BY <1>2, <2>1, <2>2 DEF Cycling
<1> HIDE DEF r
<1>4. /\ PackTypeOK' /\ CountersOK' /\ cycle'[c] = r
      /\ \A d \in Collectors : d # c => cycle'[d] = cycle[d]
  <2>1. /\ packs' \in [Packs -> Ages] /\ ledger' \in [Packs -> Absent..OldAge]
        /\ faults' \in 0..MaxFaults /\ manifests' \subseteq manifests
    BY <1>1 DEF PackTypeOK
  <2> QED
    BY <1>1, <1>3, <2>1, CycleTypes
<1> QED
  BY <1>1, <1>2, <1>3, <1>4

LEMMA SpareTypes ==
    ASSUME PackTypeOK, CountersOK, NEW c \in Collectors, NEW p \in Packs, Spare(c, p)
    PROVE  /\ PackTypeOK' /\ CountersOK'
           /\ UNCHANGED <<packs, manifests, ledger, faults, head, attempt>>
           /\ \A d \in Collectors : d # c => cycle'[d] = cycle[d]
           /\ AtPhase(c, "deleting") /\ cycle[c] \in Cycling /\ cycle'[c] \in Cycling
           /\ cycle'[c].at = "deleting" /\ cycle'[c].age = cycle[c].age
           /\ cycle'[c].delete = cycle[c].delete \ {p} /\ cycle'[c].condemned = cycle[c].condemned
<1> DEFINE r == [cycle[c] EXCEPT !.delete = @ \ {p}]
<1>1. /\ UNCHANGED <<packs, manifests, ledger, faults, head, attempt>> /\ AtPhase(c, "deleting")
      /\ cycle' = [cycle EXCEPT ![c] = r]
  BY DEF Spare, writing, This
<1>2. cycle[c] \in Cycling /\ cycle[c].now <= cycle[c].age
  BY <1>1, Shapes DEF AtPhase, CountersOK, This
<1>3. /\ r \in Cycling /\ r.now <= r.age
      /\ r.at = "deleting" /\ r.age = cycle[c].age
      /\ r.delete = cycle[c].delete \ {p} /\ r.condemned = cycle[c].condemned
  BY <1>1, <1>2 DEF Cycling, AtPhase
<1> HIDE DEF r
<1>4. /\ PackTypeOK' /\ CountersOK' /\ cycle'[c] = r
      /\ \A d \in Collectors : d # c => cycle'[d] = cycle[d]
  <2>1. /\ packs' \in [Packs -> Ages] /\ ledger' \in [Packs -> Absent..OldAge]
        /\ faults' \in 0..MaxFaults /\ manifests' \subseteq manifests
    BY <1>1 DEF PackTypeOK
  <2> QED
    BY <1>1, <1>3, <2>1, CycleTypes
<1> QED
  BY <1>1, <1>2, <1>3, <1>4

LEMMA CondemnTypes ==
    ASSUME PackTypeOK, CountersOK, NEW c \in Collectors, NEW p \in Packs, Condemn(c, p)
    PROVE  /\ PackTypeOK' /\ CountersOK'
           /\ UNCHANGED <<packs, manifests, ledger, faults, head, attempt>>
           /\ \A d \in Collectors : d # c => cycle'[d] = cycle[d]
           /\ AtPhase(c, "deleting") /\ cycle[c] \in Cycling /\ cycle'[c] \in Cycling
           /\ cycle'[c].at = "deleting" /\ cycle'[c].age = cycle[c].age
           /\ cycle'[c].delete = cycle[c].delete /\ cycle'[c].condemned = {p}
<1> DEFINE r == [cycle[c] EXCEPT !.condemned = {p}]
<1>1. /\ UNCHANGED <<packs, manifests, ledger, faults, head, attempt>> /\ AtPhase(c, "deleting")
      /\ cycle' = [cycle EXCEPT ![c] = r]
  BY DEF Condemn, writing, This
<1>2. cycle[c] \in Cycling /\ cycle[c].now <= cycle[c].age
  BY <1>1, Shapes DEF AtPhase, CountersOK, This
<1>3. /\ r \in Cycling /\ r.now <= r.age
      /\ r.at = "deleting" /\ r.age = cycle[c].age
      /\ r.delete = cycle[c].delete /\ r.condemned = {p}
  BY <1>1, <1>2 DEF Cycling, AtPhase
<1> HIDE DEF r
<1>4. /\ PackTypeOK' /\ CountersOK' /\ cycle'[c] = r
      /\ \A d \in Collectors : d # c => cycle'[d] = cycle[d]
  <2>1. /\ packs' \in [Packs -> Ages] /\ ledger' \in [Packs -> Absent..OldAge]
        /\ faults' \in 0..MaxFaults /\ manifests' \subseteq manifests
    BY <1>1 DEF PackTypeOK
  <2> QED
    BY <1>1, <1>3, <2>1, CycleTypes
<1> QED
  BY <1>1, <1>2, <1>3, <1>4

LEMMA DeleteTypes ==
    ASSUME PackTypeOK, CountersOK, NEW c \in Collectors, NEW p \in Packs, Delete(c, p)
    PROVE  /\ PackTypeOK' /\ CountersOK'
           /\ UNCHANGED <<manifests, ledger, faults, head, attempt>>
           /\ \A d \in Collectors : d # c => cycle'[d] = cycle[d]
           /\ AtPhase(c, "deleting") /\ cycle[c] \in Cycling /\ cycle'[c] \in Cycling
           /\ cycle'[c].at = "deleting" /\ cycle'[c].age = cycle[c].age
           /\ cycle'[c].delete = cycle[c].delete \ {p} /\ cycle'[c].condemned = {}
           /\ p \in cycle[c].condemned /\ packs' = [packs EXCEPT ![p] = Absent]
<1> DEFINE r == [cycle[c] EXCEPT !.delete = @ \ {p}, !.condemned = {}]
<1>1. /\ UNCHANGED <<manifests, ledger, faults, head, attempt>> /\ AtPhase(c, "deleting")
      /\ cycle' = [cycle EXCEPT ![c] = r]
      /\ p \in cycle[c].condemned /\ packs' = [packs EXCEPT ![p] = Absent]
  BY DEF Delete, writing, This
<1>2. cycle[c] \in Cycling /\ cycle[c].now <= cycle[c].age
  BY <1>1, Shapes DEF AtPhase, CountersOK, This
<1>3. /\ r \in Cycling /\ r.now <= r.age
      /\ r.at = "deleting" /\ r.age = cycle[c].age
      /\ r.delete = cycle[c].delete \ {p} /\ r.condemned = {}
  BY <1>1, <1>2 DEF Cycling, AtPhase
<1> HIDE DEF r
<1>4. /\ PackTypeOK' /\ CountersOK' /\ cycle'[c] = r
      /\ \A d \in Collectors : d # c => cycle'[d] = cycle[d]
  <2>1. /\ packs' \in [Packs -> Ages] /\ ledger' \in [Packs -> Absent..OldAge]
        /\ faults' \in 0..MaxFaults /\ manifests' \subseteq manifests
    BY <1>1, <1>3, Numbers DEF PackTypeOK, Ages
  <2> QED
    BY <1>1, <1>3, <2>1, CycleTypes
<1> QED
  BY <1>1, <1>2, <1>3, <1>4

\* A cycle ends, whole or not.
LEMMA EndTypes ==
    ASSUME PackTypeOK, CountersOK, NEW c \in Collectors, Finish(c) \/ Abort(c)
    PROVE  /\ PackTypeOK' /\ CountersOK'
           /\ UNCHANGED <<packs, manifests, ledger, head, attempt>>
           /\ \A d \in Collectors : d # c => cycle'[d] = cycle[d]
           /\ cycle'[c] = Idle
<1>1. /\ UNCHANGED <<packs, manifests, ledger, head, attempt>>
      /\ cycle' = [cycle EXCEPT ![c] = Idle]
  BY DEF Finish, Abort, writing
<1>2. faults' \in 0..MaxFaults
  BY Numbers DEF Finish, Abort, Fault, PackTypeOK
<1>3. packs' \in [Packs -> Ages] /\ ledger' \in [Packs -> Absent..OldAge]
  BY <1>1 DEF PackTypeOK
<1> QED
  BY <1>1, <1>2, <1>3, CycleTypes

LEMMA LoseLedgerTypes ==
    ASSUME PackTypeOK, CountersOK, LoseLedger
    PROVE  /\ PackTypeOK' /\ CountersOK'
           /\ UNCHANGED <<packs, manifests, head, attempt, cycle>>
<1>1. UNCHANGED <<packs, manifests, head, attempt, cycle>>
  BY DEF LoseLedger, writing
<1>2. faults' \in 0..MaxFaults /\ ledger' \in [Packs -> Absent..OldAge]
  BY Numbers, AgeFunctions DEF LoseLedger, Fault, PackTypeOK
<1> QED
  BY <1>1, <1>2 DEF PackTypeOK, CountersOK, AtStep, Mine, AtPhase, This

---------------------------------------------------------------------------
(* Time, and the types *)

LEMMA TickTypes ==
    ASSUME PackTypeOK, CountersOK, Tick
    PROVE  /\ PackTypeOK' /\ CountersOK'
           /\ UNCHANGED <<manifests, head>>
           /\ \A p \in Packs : packs'[p] = Older(packs[p], MaxAge)
           /\ \A w \in Writers :
                 attempt'[w] = IF Refreshing(w) THEN [attempt[w] EXCEPT !.stall = @ + 1]
                               ELSE attempt[w]
           /\ \A c \in Collectors :
                 IF AtPhase(c, "idle") THEN cycle'[c] = Idle
                 ELSE /\ cycle[c] \in Cycling /\ cycle'[c] \in Cycling
                      /\ cycle'[c].at = cycle[c].at /\ cycle'[c].kept = cycle[c].kept
                      /\ cycle'[c].delete = cycle[c].delete
                      /\ cycle'[c].condemned = cycle[c].condemned
                      /\ cycle'[c].age = cycle[c].age + 1
<1> DEFINE older(c) == [cycle[c] EXCEPT !.age = @ + 1,
                            !.now = IF AtPhase(c, "deleting") THEN @ + 1 ELSE 0,
                            !.listed = AllOlder(@, OldAge),
                            !.read = AllOlder(@, OldAge),
                            !.cold = AllOlder(@, OldAge)]
<1>1. /\ UNCHANGED <<manifests, head, faults>>
      /\ packs' = AllOlder(packs, MaxAge) /\ ledger' = AllOlder(ledger, OldAge)
      /\ \A c \in Collectors : ~AtPhase(c, "idle") => cycle[c].age < MaxCycle
  BY DEF Tick, InTime, This
<1>2. packs' \in [Packs -> Ages] /\ ledger' \in [Packs -> Absent..OldAge]
  <2> HIDE DEF AllOlder
  <2> QED
    BY <1>1, AgeFunctions DEF PackTypeOK
<1>3. \A p \in Packs : packs'[p] = Older(packs[p], MaxAge)
  BY <1>1 DEF AllOlder
<1>4. /\ attempt' = [w \in Writers |->
             IF Refreshing(w) THEN [attempt[w] EXCEPT !.stall = @ + 1] ELSE attempt[w]]
      /\ \A w \in Writers : Refreshing(w) => attempt[w].stall < MaxStall
  BY DEF Tick, InTime, Mine
<1>5. \A w \in Writers :
          /\ attempt'[w] \in Attempts
          /\ attempt'[w].at = attempt[w].at /\ attempt'[w].base = attempt[w].base
  <2> SUFFICES ASSUME NEW w \in Writers
               PROVE  /\ attempt'[w] \in Attempts
                      /\ attempt'[w].at = attempt[w].at /\ attempt'[w].base = attempt[w].base
    OBVIOUS
  <2>1. CASE ~Refreshing(w)
    BY <1>4, <2>1 DEF PackTypeOK
  <2>2. CASE Refreshing(w)
    <3>1. attempt[w] \in Trying
      BY <2>2, Shapes DEF Refreshing, AtStep
    <3>2. attempt[w].stall + 1 \in 0..MaxStall
      BY <1>4, <2>2, <3>1, Numbers DEF Trying
    <3> QED
      BY <1>4, <2>2, <3>1, <3>2, Shapes DEF Trying
  <2> QED
    BY <2>1, <2>2
<1>6. cycle' = [c \in Collectors |-> IF AtPhase(c, "idle") THEN Idle ELSE older(c)]
  BY DEF Tick, This
<1>7. \A c \in Collectors : ~AtPhase(c, "idle") =>
          /\ cycle[c] \in Cycling /\ older(c) \in Cycling
          /\ older(c).at = cycle[c].at /\ older(c).kept = cycle[c].kept
          /\ older(c).delete = cycle[c].delete
          /\ older(c).condemned = cycle[c].condemned
          /\ older(c).age = cycle[c].age + 1 /\ older(c).now <= older(c).age
  <2> SUFFICES ASSUME NEW c \in Collectors, ~AtPhase(c, "idle")
               PROVE  /\ cycle[c] \in Cycling /\ older(c) \in Cycling
                      /\ older(c).at = cycle[c].at /\ older(c).kept = cycle[c].kept
                      /\ older(c).delete = cycle[c].delete
                      /\ older(c).condemned = cycle[c].condemned
                      /\ older(c).age = cycle[c].age + 1 /\ older(c).now <= older(c).age
    OBVIOUS
  <2>1. cycle[c] \in Cycling /\ cycle[c].age < MaxCycle /\ cycle[c].now <= cycle[c].age
    BY <1>1, Shapes DEF CountersOK, This
  <2> DEFINE time == IF AtPhase(c, "deleting") THEN cycle[c].now + 1 ELSE 0
             l == AllOlder(cycle[c].listed, OldAge)
             r == AllOlder(cycle[c].read, OldAge)
             d == AllOlder(cycle[c].cold, OldAge)
  <2>2. /\ time \in 0..MaxCycle /\ cycle[c].age + 1 \in 0..MaxCycle
        /\ time <= cycle[c].age + 1
    BY <2>1, Numbers DEF Cycling
  <2>3. /\ l \in [Packs -> Absent..OldAge] /\ r \in [Packs -> Absent..OldAge]
        /\ d \in [Packs -> Absent..OldAge]
    <3> HIDE DEF AllOlder
    <3> QED
      BY <2>1, AgeFunctions DEF Cycling
  <2>4. older(c) = [cycle[c] EXCEPT !.age = cycle[c].age + 1, !.now = time, !.listed = l,
                                    !.read = r, !.cold = d]
    OBVIOUS
  <2> HIDE DEF time, l, r, d, older
  <2> QED
    BY <2>1, <2>2, <2>3, <2>4 DEF Cycling
<1> HIDE DEF older
<1>8. PackTypeOK'
  <2>1. attempt' \in [Writers -> Attempts]
    BY <1>4, <1>5
  <2>2. cycle' \in [Collectors -> Cycles]
    BY <1>6, <1>7, Shapes
  <2> QED
    BY <1>1, <1>2, <2>1, <2>2 DEF PackTypeOK
<1>9. CountersOK'
  <2>1. \A w \in Writers : ~AtStep(w, "idle")' => attempt'[w].base < MaxGeneration
    BY <1>5 DEF CountersOK, AtStep, Mine
  <2>2. \A c \in Collectors : ~AtPhase(c, "idle")' => cycle'[c].now <= cycle'[c].age
    BY <1>6, <1>7, Shapes DEF AtPhase
  <2> QED
    BY <2>1, <2>2 DEF CountersOK, Mine, This
<1>10. \A c \in Collectors :
          IF AtPhase(c, "idle") THEN cycle'[c] = Idle
          ELSE /\ cycle[c] \in Cycling /\ cycle'[c] \in Cycling
               /\ cycle'[c].at = cycle[c].at /\ cycle'[c].kept = cycle[c].kept
               /\ cycle'[c].delete = cycle[c].delete
               /\ cycle'[c].condemned = cycle[c].condemned
               /\ cycle'[c].age = cycle[c].age + 1
  BY <1>6, <1>7
<1> QED
  BY <1>1, <1>3, <1>4, <1>8, <1>9, <1>10

LEMMA InitTypes == Init => PackTypeOK /\ CountersOK
<1> SUFFICES ASSUME Init PROVE PackTypeOK /\ CountersOK
  OBVIOUS
<1>1. PICK old \in SUBSET Packs :
        /\ packs = [p \in Packs |-> IF p \in old THEN MaxAge ELSE Absent]
        /\ manifests = {[generation |-> 0, packs |-> old, won |-> TRUE]}
  BY DEF Init
<1>2. packs \in [Packs -> Ages]
  BY <1>1, Numbers DEF Ages
<1>3. manifests \subseteq Manifests /\ head \in Generations
  BY <1>1, Numbers DEF Manifests, Generations, Init
<1>4. faults \in 0..MaxFaults
  BY Numbers DEF Init
<1>5. PackTypeOK
  BY <1>2, <1>3, <1>4, AgeFunctions, Shapes DEF PackTypeOK, Init
<1> QED
  BY <1>5, Shapes DEF CountersOK, Init, AtStep, AtPhase

LEMMA NextTypes ==
    ASSUME PackTypeOK, CountersOK, [Next]_packVars
    PROVE  PackTypeOK' /\ CountersOK'
<1>1. ASSUME NEW w \in Writers, Build(w) \/ Write(w) \/ GiveUp(w)
      PROVE  PackTypeOK' /\ CountersOK'
  BY <1>1, BuildTypes, PutPackTypes, PublishedTypes, VerifyPackTypes, PutManifestTypes,
     CreateMarkerTypes, GiveUpTypes DEF Write
<1>2. ASSUME NEW c \in Collectors, Sweep(c) \/ Abort(c)
      PROVE  PackTypeOK' /\ CountersOK'
  BY <1>2, ListPayloadsTypes, ListPacksTypes, ResolveTypes, DecideTypes, CommitLedgerTypes,
     ProbeAgainTypes, SpareTypes, CondemnTypes, DeleteTypes, EndTypes DEF Sweep
<1>3. CASE LoseLedger \/ Tick
  BY <1>3, LoseLedgerTypes, TickTypes
<1>4. CASE UNCHANGED packVars
  BY <1>4 DEF packVars, PackTypeOK, CountersOK, AtStep, Mine, AtPhase, This
<1> QED
  BY <1>1, <1>2, <1>3, <1>4 DEF Next

\* The store, the ledger, every attempt and every cycle keep their types: no age
\* passes its bound, no cycle or stall outlasts the time it is given.
THEOREM PackTypeCorrect == Spec => []PackTypeOK
<1>1. PackTypeOK /\ CountersOK /\ [Next]_packVars => (PackTypeOK /\ CountersOK)'
  BY NextTypes
<1> QED
  BY InitTypes, <1>1, PTL DEF Spec

---------------------------------------------------------------------------
(* What has to stay *)

LEMMA Membership ==
    /\ \A m : m \in Won(manifests) <=> m \in manifests /\ m.won
    /\ \A p : p \in HeadPacks <=>
          \E m \in manifests : m.won /\ m.generation = head /\ p \in m.packs
    /\ \A p : p \in Needed <=>
          \/ \E m \in manifests : m.won /\ m.generation >= Floor /\ p \in m.packs
          \/ \E v \in Writers : AtStep(v, "marking") /\ Wins(v) /\ p \in attempt[v].refs
<1>1. \A p : p \in HeadPacks <=>
          \E m \in manifests : m.won /\ m.generation = head /\ p \in m.packs
  BY DEF HeadPacks, PacksOf, Won
<1>2. \A p : p \in PacksOf(Won(Retained)) <=>
          \E m \in manifests : m.won /\ m.generation >= Floor /\ p \in m.packs
  BY DEF PacksOf, Won, Retained
<1>3. \A p : p \in Pending <=>
          \E v \in Writers : AtStep(v, "marking") /\ Wins(v) /\ p \in attempt[v].refs
  BY DEF Pending, Mine
<1> QED
  BY <1>1, <1>2, <1>3 DEF Needed, Won

\* The same after a step.
LEMMA MembershipNext ==
   (/\ \A m : m \in Won(manifests) <=> m \in manifests /\ m.won
    /\ \A p : p \in HeadPacks <=>
          \E m \in manifests : m.won /\ m.generation = head /\ p \in m.packs
    /\ \A p : p \in Needed <=>
          \/ \E m \in manifests : m.won /\ m.generation >= Floor /\ p \in m.packs
          \/ \E v \in Writers : AtStep(v, "marking") /\ Wins(v) /\ p \in attempt[v].refs)'
<1> QED
  BY Membership, PTL

LEMMA FloorOfHead ==
    ASSUME PackTypeOK
    PROVE  head \in Nat /\ Floor \in Int /\ Floor <= head /\ Floor = head - RetainGenerations + 1
<1>1. head \in Nat
  BY Numbers DEF PackTypeOK, Generations
<1> QED
  BY <1>1, Numbers DEF Floor

\* The packs of the head have to stay.
LEMMA HeadIsNeeded ==
    ASSUME PackTypeOK
    PROVE  HeadPacks \subseteq Needed
<1> QED
  BY Membership, FloorOfHead

LEMMA PackAges ==
    ASSUME PackTypeOK, NEW p \in Packs
    PROVE  packs[p] \in Int /\ (packs[p] # Absent <=> 0 <= packs[p])
<1> QED
  BY Numbers DEF PackTypeOK, Ages

LEMMA NeededArePacks ==
    ASSUME PackTypeOK
    PROVE  Needed \subseteq Packs
<1>1. \A m \in manifests : m.packs \subseteq Packs
  BY DEF PackTypeOK, Manifests
<1>2. \A v \in Writers : AtStep(v, "marking") => attempt[v].refs \subseteq Packs
  BY Shapes DEF AtStep, Trying
<1> QED
  BY <1>1, <1>2, Membership

---------------------------------------------------------------------------
(* The steps of a writer *)

\* When no pack that has to stay is added, none goes and none grows older, a
\* writer's step leaves it shielded.
LEMMA ShieldsStay ==
    ASSUME PackTypeOK, NeededOK, Needed' \subseteq Needed, cycle' = cycle,
           packs' \in [Packs -> Ages],
           \A p \in Needed : packs'[p] # Absent /\ packs'[p] <= packs[p]
    PROVE  NeededOK'
<1>1. Needed' \subseteq Present(packs)'
  BY NeededArePacks DEF Present
<1>2. ASSUME NEW c \in Collectors, NEW p \in Needed'
      PROVE  Shielded(c, p)'
  <2>1. p \in Packs /\ Shielded(c, p) /\ packs'[p] <= packs[p]
    BY <1>2, NeededArePacks DEF NeededOK
  <2>2. ~AtPhase(c, "idle") /\ Fresh(c, p) => Fresh(c, p)'
    <3>1. packs[p] \in Int /\ packs'[p] \in Int
      BY <2>1, Numbers DEF PackTypeOK, Ages
    <3>2. ~AtPhase(c, "idle") => cycle[c].age \in Nat
      BY Shapes, Numbers DEF Cycling
    <3> QED
      BY <2>1, <3>1, <3>2, Numbers DEF Fresh, This
  <2> QED
    BY <2>1, <2>2 DEF Shielded, AtPhase, This, Condemned
<1> QED
  BY <1>1, <1>2 DEF NeededOK

\* A writer's step that leaves manifests, head and cycles alone leaves what the
\* cycles have seen, and what is known of an attempt it is not about.
LEMMA ViewStays ==
    ASSUME UNCHANGED <<manifests, head, cycle>>
    PROVE  /\ ManifestsOK => ManifestsOK'
           /\ HeadPacks' = HeadPacks
           /\ \A c \in Collectors : (ListingOK(c) => ListingOK(c)') /\ (CondemnedOK(c) => CondemnedOK(c)')
           /\ \A c \in Collectors : Condemned(c)' = Condemned(c)
<1>1. HeadPacks' = HeadPacks /\ Won(manifests)' = Won(manifests)
  BY DEF HeadPacks, PacksOf, Won
<1>2. ManifestsOK => ManifestsOK'
  BY <1>1 DEF ManifestsOK, Floor
<1>3. \A c \in Collectors : (ListingOK(c) => ListingOK(c)') /\ (CondemnedOK(c) => CondemnedOK(c)')
  BY DEF ListingOK, CondemnedOK, AtPhase, This, StillThere, Won
<1>4. \A c \in Collectors : Condemned(c)' = Condemned(c)
  BY DEF Condemned
<1> QED
  BY <1>1, <1>2, <1>3, <1>4

\* An attempt whose writer does not move: its refreshed packs must stay young.
LEMMA AttemptStays ==
    ASSUME NEW v \in Writers, AttemptOK(v), attempt'[v] = attempt[v],
           UNCHANGED <<manifests, head, cycle>>,
           AtStep(v, "verifying") =>
               \A p \in attempt[v].novel \ attempt[v].left : packs'[p] \in 0..attempt[v].stall
    PROVE  AttemptOK(v)'
<1>1. HeadPacks' = HeadPacks /\ \A c \in Collectors : Condemned(c)' = Condemned(c)
  BY ViewStays
<1> QED
  BY <1>1 DEF AttemptOK, AtStep, Mine, Wins, Manifest

\* No writer's attempt is at its marker that was not before: nothing new has to stay.
LEMMA NeededStays ==
    ASSUME UNCHANGED <<manifests, head>>,
           \A v \in Writers : AtStep(v, "marking")' /\ Wins(v)' =>
               AtStep(v, "marking") /\ attempt'[v] = attempt[v]
    PROVE  Needed' \subseteq Needed
<1> QED
  BY Membership, MembershipNext DEF Wins, Mine, Floor

LEMMA BuildKeeps ==
    ASSUME PackInv, NEW w \in Writers, Build(w)
    PROVE  PackInv'
<1> USE DEF PackInv
<1>1. UNCHANGED <<packs, manifests, head, cycle>> /\ PackTypeOK' /\ CountersOK'
  BY BuildTypes
<1>2. \A v \in Writers : AttemptOK(v)'
  <2>1. ASSUME NEW v \in Writers, v # w PROVE AttemptOK(v)'
    <3>1. attempt'[v] = attempt[v] /\ AttemptOK(v)
      BY <2>1, BuildTypes
    <3> QED
      BY <1>1, <3>1, AttemptStays DEF AttemptOK, Mine
  <2>2. AttemptOK(w)'
    <3>1. head \in Nat /\ HeadPacks' = HeadPacks
      BY <1>1, FloorOfHead, ViewStays
    <3>2. /\ attempt'[w].at = "publishing" /\ attempt'[w].base = head
          /\ attempt'[w].novel \subseteq attempt'[w].refs
          /\ attempt'[w].refs \ attempt'[w].novel \subseteq HeadPacks
      BY BuildTypes
    <3> QED
      BY <1>1, <3>1, <3>2 DEF AttemptOK, AtStep, Mine
  <2> QED
    BY <2>1, <2>2
<1>3. NeededOK'
  <2>1. Needed' \subseteq Needed
    BY <1>1, BuildTypes, NeededStays DEF AtStep
  <2>2. \A p \in Needed : packs'[p] # Absent /\ packs'[p] <= packs[p]
    BY <1>1, NeededArePacks, PackAges DEF NeededOK, Present
  <2> QED
    BY <1>1, <2>1, <2>2, ShieldsStay DEF PackTypeOK
<1> QED
  BY <1>1, <1>2, <1>3, ViewStays

LEMMA PutPackKeeps ==
    ASSUME PackInv, NEW w \in Writers, NEW q \in Packs, PutPack(w, q)
    PROVE  PackInv'
<1> USE DEF PackInv
<1>1. UNCHANGED <<manifests, head, cycle>> /\ PackTypeOK' /\ CountersOK'
  BY PutPackTypes
<1>2. \A p \in Packs : packs[p] # Absent => packs'[p] = packs[p]
  BY PutPackTypes
<1>3. \A v \in Writers : AttemptOK(v)'
  <2>1. ASSUME NEW v \in Writers, v # w PROVE AttemptOK(v)'
    <3>1. attempt'[v] = attempt[v] /\ AttemptOK(v)
      BY <2>1, PutPackTypes
    <3>2. AtStep(v, "verifying") =>
               \A p \in attempt[v].novel \ attempt[v].left : packs'[p] \in 0..attempt[v].stall
      <4> SUFFICES ASSUME AtStep(v, "verifying"), NEW p \in attempt[v].novel \ attempt[v].left
                   PROVE  packs'[p] \in 0..attempt[v].stall
        OBVIOUS
      <4>1. packs[p] \in 0..attempt[v].stall /\ attempt[v] \in Trying
        BY <3>1, Shapes DEF AttemptOK, Mine, AtStep
      <4>2. p \in Packs /\ packs[p] # Absent
        BY <4>1, Numbers DEF Trying
      <4> QED
        BY <1>2, <4>1, <4>2
    <3> QED
      BY <1>1, <3>1, <3>2, AttemptStays
  <2>2. AttemptOK(w)'
    <3>1. AttemptOK(w) /\ HeadPacks' = HeadPacks
      BY <1>1, ViewStays
    <3>2. /\ AtStep(w, "publishing")
          /\ attempt'[w].at = attempt[w].at /\ attempt'[w].base = attempt[w].base
          /\ attempt'[w].novel = attempt[w].novel /\ attempt'[w].refs = attempt[w].refs
      <4>1. /\ AtStep(w, "publishing") /\ attempt[w] \in Trying
            /\ attempt'[w] = [attempt[w] EXCEPT !.left = @ \ {q}]
        BY PutPackTypes
      <4> HIDE DEF PackInv
      <4> QED
        BY <4>1 DEF Trying
    <3> QED
      BY <1>1, <3>1, <3>2 DEF AttemptOK, AtStep, Mine
  <2> QED
    BY <2>1, <2>2
<1>4. NeededOK'
  <2>1. Needed' \subseteq Needed
    <3>1. attempt'[w].at # "marking"
      <4>1. /\ AtStep(w, "publishing") /\ attempt[w] \in Trying
            /\ attempt'[w] = [attempt[w] EXCEPT !.left = @ \ {q}]
        BY PutPackTypes
      <4> HIDE DEF PackInv
      <4> QED
        BY <4>1 DEF Trying, AtStep
    <3> QED
      BY <1>1, <3>1, PutPackTypes, NeededStays DEF AtStep
  <2>2. \A p \in Needed : packs'[p] # Absent /\ packs'[p] <= packs[p]
    BY <1>2, NeededArePacks, PackAges DEF NeededOK, Present
  <2> QED
    BY <1>1, <2>1, <2>2, ShieldsStay DEF PackTypeOK
<1> QED
  BY <1>1, <1>3, <1>4, ViewStays

LEMMA PublishedKeeps ==
    ASSUME PackInv, NEW w \in Writers, Published(w)
    PROVE  PackInv'
<1> USE DEF PackInv
<1>1. UNCHANGED <<packs, manifests, head, cycle>> /\ PackTypeOK' /\ CountersOK'
  BY PublishedTypes
<1>2. \A v \in Writers : AttemptOK(v)'
  <2>1. ASSUME NEW v \in Writers, v # w PROVE AttemptOK(v)'
    <3>1. attempt'[v] = attempt[v] /\ AttemptOK(v)
      BY <2>1, PublishedTypes
    <3> QED
      BY <1>1, <3>1, AttemptStays DEF AttemptOK, Mine
  <2>2. AttemptOK(w)'
    <3>1. AttemptOK(w) /\ HeadPacks' = HeadPacks
      BY <1>1, ViewStays
    <3>2. AttemptOK(w) /\ AtStep(w, "publishing")
      BY PublishedTypes
    <3>3. /\ attempt'[w].at = "verifying" /\ attempt'[w].left = attempt[w].refs
          /\ attempt'[w].novel = attempt[w].novel /\ attempt'[w].refs = attempt[w].refs
          /\ attempt'[w].base = attempt[w].base
      BY PublishedTypes
    <3> QED
      BY <1>1, <3>1, <3>2, <3>3 DEF AttemptOK, AtStep, Mine
  <2> QED
    BY <2>1, <2>2
<1>3. NeededOK'
  <2>1. Needed' \subseteq Needed
    BY <1>1, PublishedTypes, NeededStays DEF AtStep
  <2>2. \A p \in Needed : packs'[p] # Absent /\ packs'[p] <= packs[p]
    BY <1>1, NeededArePacks, PackAges DEF NeededOK, Present
  <2> QED
    BY <1>1, <2>1, <2>2, ShieldsStay DEF PackTypeOK
<1> QED
  BY <1>1, <1>2, <1>3, ViewStays

\* A novel pack is refreshed, and nobody is about to delete it.
LEMMA VerifyPackKeeps ==
    ASSUME PackInv, QuietGap, NEW w \in Writers, NEW q \in Packs, VerifyPack(w, q)
    PROVE  PackInv'
<1> USE DEF PackInv
<1>1. UNCHANGED <<manifests, head, cycle>> /\ PackTypeOK' /\ CountersOK'
  BY VerifyPackTypes
<1>2. /\ AtStep(w, "verifying") /\ attempt[w] \in Trying /\ AttemptOK(w)
      /\ attempt'[w].at = attempt[w].at /\ attempt'[w].base = attempt[w].base
      /\ attempt'[w].novel = attempt[w].novel /\ attempt'[w].refs = attempt[w].refs
      /\ attempt'[w].left = attempt[w].left \ {q} /\ attempt'[w].stall = attempt[w].stall
  <2>1. /\ AtStep(w, "verifying") /\ attempt[w] \in Trying
        /\ attempt'[w] = [attempt[w] EXCEPT !.left = @ \ {q}]
    BY VerifyPackTypes
  <2>2. AttemptOK(w)
    OBVIOUS
  <2>3. /\ attempt'[w].at = attempt[w].at /\ attempt'[w].base = attempt[w].base
        /\ attempt'[w].novel = attempt[w].novel /\ attempt'[w].refs = attempt[w].refs
        /\ attempt'[w].left = attempt[w].left \ {q} /\ attempt'[w].stall = attempt[w].stall
    <3> HIDE DEF PackInv
    <3> QED
      BY <2>1 DEF Trying
  <2> QED
    BY <2>1, <2>2, <2>3
<1>3. /\ \A p \in Packs : packs'[p] = packs[p] \/ (p = q /\ p \in attempt[w].novel /\ packs'[p] = 0)
      /\ q \in attempt[w].novel => packs'[q] = 0
  <2>1. /\ packs'[q] = (IF q \in attempt[w].novel THEN 0 ELSE packs[q])
        /\ \A p \in Packs : p # q => packs'[p] = packs[p]
    BY VerifyPackTypes
  <2> HIDE DEF PackInv
  <2> QED
    BY <2>1
<1>4. \A v \in Writers : AtStep(v, "verifying") => attempt[v] \in Trying /\ 0 \in 0..attempt[v].stall
  BY Shapes, Numbers DEF AtStep, Trying
<1>5. \A v \in Writers : AttemptOK(v)'
  <2>1. ASSUME NEW v \in Writers, v # w PROVE AttemptOK(v)'
    <3>1. attempt'[v] = attempt[v] /\ AttemptOK(v)
      BY <2>1, VerifyPackTypes
    <3>2. AtStep(v, "verifying") =>
               \A p \in attempt[v].novel \ attempt[v].left : packs'[p] \in 0..attempt[v].stall
      BY <1>3, <1>4, <3>1 DEF AttemptOK, Mine, Trying
    <3> QED
      BY <1>1, <3>1, <3>2, AttemptStays
  <2>2. AttemptOK(w)'
    <3>1. /\ HeadPacks' = HeadPacks
          /\ \A c \in Collectors : Condemned(c)' = Condemned(c) /\ q \notin Condemned(c)
      BY <1>1, ViewStays DEF VerifyPack
    <3>2. \A p \in attempt[w].novel \ (attempt[w].left \ {q}) :
              packs'[p] \in 0..attempt[w].stall /\ \A c \in Collectors : p \notin Condemned(c)
      <4> SUFFICES ASSUME NEW p \in attempt[w].novel \ (attempt[w].left \ {q})
                   PROVE  packs'[p] \in 0..attempt[w].stall /\ \A c \in Collectors : p \notin Condemned(c)
        OBVIOUS
      <4>1. CASE p = q
        <5>1. 0 \in 0..attempt[w].stall
          BY <1>2, <1>4
        <5>2. packs'[q] = 0 /\ \A c \in Collectors : q \notin Condemned(c)
          BY <1>3, <3>1, <4>1
        <5> HIDE DEF PackInv
        <5> QED
          BY <4>1, <5>1, <5>2
      <4>2. CASE p # q
        <5>1. p \in Packs /\ p \in attempt[w].novel \ attempt[w].left
          BY <1>2, <4>2 DEF Trying
        <5> QED
          BY <1>2, <1>3, <4>2, <5>1 DEF AttemptOK, Mine
      <4> QED
        BY <4>1, <4>2
    <3> QED
      BY <1>1, <1>2, <3>1, <3>2 DEF AttemptOK, AtStep, Mine
  <2> QED
    BY <2>1, <2>2
<1>6. NeededOK'
  <2>1. Needed' \subseteq Needed
    BY <1>1, <1>2, VerifyPackTypes, NeededStays DEF AtStep
  <2>2. \A p \in Needed : packs'[p] # Absent /\ packs'[p] <= packs[p]
    BY <1>3, NeededArePacks, PackAges, Numbers DEF NeededOK, Present
  <2> QED
    BY <1>1, <2>1, <2>2, ShieldsStay DEF PackTypeOK
<1> QED
  BY <1>1, <1>5, <1>6, ViewStays

LEMMA GiveUpKeeps ==
    ASSUME PackInv, NEW w \in Writers, GiveUp(w)
    PROVE  PackInv'
<1> USE DEF PackInv
<1>1. UNCHANGED <<packs, manifests, head, cycle>> /\ PackTypeOK' /\ CountersOK'
  BY GiveUpTypes
<1>2. \A v \in Writers : AttemptOK(v)'
  <2>1. ASSUME NEW v \in Writers, v # w PROVE AttemptOK(v)'
    <3>1. attempt'[v] = attempt[v] /\ AttemptOK(v)
      BY <2>1, GiveUpTypes
    <3> QED
      BY <1>1, <3>1, AttemptStays DEF AttemptOK, Mine
  <2>2. AttemptOK(w)'
    BY GiveUpTypes, Shapes DEF AttemptOK, AtStep
  <2> QED
    BY <2>1, <2>2
<1>3. NeededOK'
  <2>1. Needed' \subseteq Needed
    BY <1>1, GiveUpTypes, NeededStays, Shapes DEF AtStep
  <2>2. \A p \in Needed : packs'[p] # Absent /\ packs'[p] <= packs[p]
    BY <1>1, NeededArePacks, PackAges DEF NeededOK, Present
  <2> QED
    BY <1>1, <2>1, <2>2, ShieldsStay DEF PackTypeOK
<1> QED
  BY <1>1, <1>2, <1>3, ViewStays

\* When the manifest of an attempt on the head lands, its packs have to stay.  The
\* reused ones had to already; the novel ones are younger than any cycle can overlook.
LEMMA PutManifestKeeps ==
    ASSUME PackInv, NEW w \in Writers, PutManifest(w)
    PROVE  PackInv'
<1> USE DEF PackInv
<1>1. /\ UNCHANGED <<packs, head, cycle>> /\ PackTypeOK' /\ CountersOK'
      /\ manifests' = manifests \cup {Manifest(w)} /\ Manifest(w)' = Manifest(w)
  BY PutManifestTypes
<1>2. /\ AtStep(w, "verifying") /\ attempt[w].left = {} /\ attempt[w] \in Trying
      /\ attempt'[w].at = "marking" /\ attempt'[w].base = attempt[w].base
      /\ attempt'[w].refs = attempt[w].refs /\ AttemptOK(w)
  BY PutManifestTypes
<1>3. Manifest(w).won = FALSE
  BY DEF Manifest
<1>4. Won(manifests)' = Won(manifests) /\ HeadPacks' = HeadPacks
  <2>1. Won(manifests)' = Won(manifests)
    BY <1>1, <1>3 DEF Won
  <2> QED
    BY <1>1, <2>1 DEF HeadPacks
<1>5. ManifestsOK'
  BY <1>1, <1>4 DEF ManifestsOK, Floor
<1>6. \A c \in Collectors : ListingOK(c)' /\ CondemnedOK(c)'
  <2> SUFFICES ASSUME NEW c \in Collectors PROVE ListingOK(c)' /\ CondemnedOK(c)'
    OBVIOUS
  <2>1. \A m : StillThere(m) => StillThere(m)'
    BY <1>1 DEF StillThere
  <2>2. Won(This(c).kept) \subseteq manifests' => Won(This(c).kept) \subseteq manifests
    BY <1>1, <1>3 DEF Won
  <2>3. ListingOK(c) /\ CondemnedOK(c)
    OBVIOUS
  <2> QED
    BY <1>1, <2>1, <2>2, <2>3 DEF ListingOK, CondemnedOK, AtPhase, This, Won
<1>7. \A v \in Writers : AttemptOK(v)'
  <2>1. ASSUME NEW v \in Writers, v # w PROVE AttemptOK(v)'
    <3>1. attempt'[v] = attempt[v] /\ AttemptOK(v)
      BY <2>1, PutManifestTypes
    <3>2. \A c \in Collectors : Condemned(c)' = Condemned(c)
      BY <1>1 DEF Condemned
    <3> QED
      BY <1>1, <1>4, <3>1, <3>2 DEF AttemptOK, AtStep, Mine, Wins, Manifest
  <2>2. AttemptOK(w)'
    BY <1>1, <1>2 DEF AttemptOK, AtStep, Mine
  <2> QED
    BY <2>1, <2>2
<1>8. ASSUME NEW p \in Needed'
      PROVE  \/ p \in Needed
             \/ /\ p \in attempt[w].novel /\ p \in Packs
                /\ packs[p] \in 0..MaxStall /\ \A c \in Collectors : p \notin Condemned(c)
  <2>1. CASE \E m \in manifests' : m.won /\ m.generation >= Floor' /\ p \in m.packs
    BY <1>1, <1>3, <2>1, Membership DEF Floor
  <2>2. CASE \E v \in Writers \ {w} : AtStep(v, "marking")' /\ Wins(v)' /\ p \in attempt'[v].refs
    BY <1>1, <2>2, Membership, PutManifestTypes DEF AtStep, Wins, Mine
  <2>3. CASE Wins(w)' /\ p \in attempt'[w].refs
    <3>1. attempt[w].base = head /\ p \in attempt[w].refs
      BY <1>1, <1>2, <2>3 DEF Wins, Mine
    <3>2. CASE p \notin attempt[w].novel
      BY <1>2, <3>1, <3>2, HeadIsNeeded DEF AttemptOK, Mine
    <3>3. CASE p \in attempt[w].novel
      <4>1. packs[p] \in 0..attempt[w].stall /\ \A c \in Collectors : p \notin Condemned(c)
        BY <1>2, <3>3 DEF AttemptOK, Mine
      <4>2. attempt[w].stall \in 0..MaxStall /\ p \in Packs
        BY <1>2, <3>3 DEF Trying
      <4> QED
        BY <3>3, <4>1, <4>2, Numbers
    <3> QED
      BY <3>2, <3>3
  <2> QED
    BY <2>1, <2>2, <2>3, MembershipNext
<1>9. NeededOK'
  <2>1. Needed' \subseteq Present(packs)'
    BY <1>1, <1>8, PackAges DEF NeededOK, Present
  <2>2. ASSUME NEW c \in Collectors, NEW p \in Needed' PROVE Shielded(c, p)'
    <3>1. CASE p \in Needed
      BY <1>1, <3>1 DEF NeededOK, Shielded, AtPhase, This, Fresh, Condemned
    <3>2. CASE p \notin Needed
      <4>1. packs[p] \in 0..MaxStall /\ p \notin Condemned(c)
        BY <1>8, <3>2
      <4>2. ~AtPhase(c, "idle") => cycle[c].age \in Nat
        BY Shapes, Numbers DEF Cycling
      <4>3. ~AtPhase(c, "idle") => Fresh(c, p)
        BY <4>1, <4>2, Numbers DEF Fresh, This
      <4> QED
        BY <1>1, <4>1, <4>3 DEF Shielded, AtPhase, This, Fresh, Condemned
    <3> QED
      BY <3>1, <3>2
  <2> QED
    BY <2>1, <2>2 DEF NeededOK
<1> QED
  BY <1>1, <1>5, <1>6, <1>7, <1>9

\* The marker of an attempt on the head: what it commits had to stay already, and
\* no other attempt can win any more.
LEMMA WinKeeps ==
    ASSUME PackInv, NEW w \in Writers, CreateMarker(w), Wins(w)
    PROVE  PackInv'
<1> USE DEF PackInv
<1> DEFINE won == [Manifest(w) EXCEPT !.won = TRUE]
<1>1. /\ UNCHANGED <<packs, cycle>> /\ PackTypeOK' /\ CountersOK'
      /\ head' = head + 1
      /\ manifests' = (manifests \ {Manifest(w)}) \cup {won}
      /\ AtStep(w, "marking") /\ attempt'[w] = Idle
      /\ \A v \in Writers : v # w => attempt'[v] = attempt[v]
  BY CreateMarkerTypes
<1>2. attempt[w].base = head /\ head \in Nat /\ Floor \in Int /\ Floor <= head /\ Floor' = Floor + 1
  <2>1. attempt[w].base = head /\ head \in Nat /\ Floor \in Int /\ Floor <= head
    BY FloorOfHead DEF Wins, Mine
  <2>2. Floor' = Floor + 1
    BY <1>1, <2>1, Numbers DEF Floor
  <2> QED
    BY <2>1, <2>2
<1>3. /\ Manifest(w).won = FALSE /\ won.won = TRUE
      /\ won.generation = head + 1 /\ won.packs = attempt[w].refs
      /\ Manifest(w).generation = head + 1 /\ Manifest(w).packs = attempt[w].refs
  BY <1>2 DEF Manifest, Mine
<1> HIDE DEF won
<1>4. \A m : m \in Won(manifests)' <=> m \in Won(manifests) \/ m = won
  BY <1>1, <1>3 DEF Won
<1>5. ManifestsOK'
  <2>1. \A m \in Won(manifests)' : m.generation <= head'
    <3>1. \A m \in Won(manifests) : m.generation \in Nat /\ m.generation <= head
      BY Numbers DEF ManifestsOK, Won, PackTypeOK, Manifests, Generations
    <3> QED
      BY <1>1, <1>2, <1>3, <1>4, <3>1
  <2>2. ASSUME NEW g \in Generations, Floor' <= g, g <= head'
        PROVE  \E m \in Won(manifests)' : m.generation = g
    <3>1. g \in Int
      BY Numbers DEF Generations
    <3>2. CASE g = head + 1
      BY <1>3, <1>4, <3>2
    <3>3. CASE g # head + 1
      <4>1. Floor <= g /\ g <= head
        BY <1>1, <1>2, <2>2, <3>1, <3>3
      <4> QED
        BY <1>4, <4>1 DEF ManifestsOK
    <3> QED
      BY <3>2, <3>3
  <2> QED
    BY <2>1, <2>2 DEF ManifestsOK
<1>6. ASSUME NEW c \in Collectors PROVE ListingOK(c)' /\ CondemnedOK(c)'
  <2>1. CondemnedOK(c)'
    BY <1>1 DEF CondemnedOK, AtPhase, This
  <2>2. \A m : StillThere(m) => StillThere(m)'
    BY <1>1, <1>3 DEF StillThere
  <2>3. CASE AtPhase(c, "listing") \/ AtPhase(c, "resolving")
    <3>1. /\ \A m \in Won(This(c).kept) : m.generation <= head
          /\ \A m \in This(c).kept : \E n \in Won(This(c).kept) : n.generation <= m.generation
          /\ Won(This(c).kept) \subseteq manifests => \A m \in This(c).kept : StillThere(m)
      BY <2>3 DEF ListingOK
    <3>2. \A m \in Won(This(c).kept) : m.generation \in Nat
      <4>1. cycle[c] \in Cycling
        BY <2>3, Shapes DEF AtPhase
      <4> QED
        BY <4>1, Numbers DEF Cycling, Manifests, Generations, Won, This
    <3>3. won \notin Won(This(c).kept)
      BY <1>2, <1>3, <3>1
    <3>4. Won(This(c).kept) \subseteq manifests' => Won(This(c).kept) \subseteq manifests
      BY <1>1, <3>3
    <3>5. \A m \in Won(This(c).kept) : m.generation <= head'
      BY <1>1, <1>2, <3>1, <3>2
    <3>6. This(c)' = This(c) /\ Won(This(c).kept)' = Won(This(c).kept)
      BY <1>1 DEF This, Won
    <3> QED
      BY <2>1, <2>2, <3>1, <3>4, <3>5, <3>6 DEF ListingOK
  <2>4. CASE ~(AtPhase(c, "listing") \/ AtPhase(c, "resolving"))
    BY <1>1, <2>1, <2>4 DEF ListingOK, AtPhase
  <2> QED
    BY <2>3, <2>4
<1>7. ASSUME NEW v \in Writers PROVE AttemptOK(v)'
  <2>1. CASE v = w
    BY <1>1, <2>1, Shapes DEF AttemptOK, AtStep
  <2>2. CASE v # w
    <3>1. attempt'[v] = attempt[v] /\ AttemptOK(v)
      BY <1>1, <2>2
    <3>2. ~AtStep(v, "idle") => attempt[v].base \in Nat /\ attempt[v].base <= head
      BY <3>1, Shapes, Numbers DEF AttemptOK, Mine, Trying, Generations
    <3>3. ~AtStep(v, "idle") => attempt[v].base # head' /\ attempt[v].base <= head'
      BY <1>1, <1>2, <3>2
    <3>4. \A c \in Collectors : Condemned(c)' = Condemned(c)
      BY <1>1 DEF Condemned
    <3> QED
      BY <1>1, <3>1, <3>3, <3>4 DEF AttemptOK, AtStep, Mine, Wins
  <2> QED
    BY <2>1, <2>2
<1>8. Needed' \subseteq Needed
  <2> SUFFICES ASSUME NEW p \in Needed' PROVE p \in Needed
    OBVIOUS
  <2>1. CASE \E m \in manifests' : m.won /\ m.generation >= Floor' /\ p \in m.packs
    <3>1. PICK m \in manifests' : m.won /\ m.generation >= Floor' /\ p \in m.packs
      BY <2>1
    <3>2. CASE m = won
      BY <1>1, <1>3, <3>1, <3>2, Membership, CreateMarkerTypes
    <3>3. CASE m # won
      <4>1. m \in manifests /\ m.generation \in Nat
        BY <1>1, <3>1, <3>3, Numbers DEF PackTypeOK, Manifests, Generations
      <4>2. m.generation >= Floor
        BY <1>2, <3>1, <4>1
      <4> QED
        BY <3>1, <4>1, <4>2, Membership
    <3> QED
      BY <3>2, <3>3
  <2>2. CASE \E v \in Writers : AtStep(v, "marking")' /\ Wins(v)' /\ p \in attempt'[v].refs
    <3>1. PICK v \in Writers : AtStep(v, "marking")' /\ Wins(v)'
      BY <2>2
    <3>2. v # w
      BY <1>1, <3>1, Shapes DEF AtStep
    <3>3. attempt'[v] = attempt[v] /\ AttemptOK(v) /\ attempt[v].base = head + 1
      BY <1>1, <3>1, <3>2 DEF Wins, Mine
    <3>4. attempt[v].base <= head
      BY <3>1, <3>3 DEF AttemptOK, AtStep, Mine
    <3> QED
      BY <1>2, <3>3, <3>4
  <2> QED
    BY <2>1, <2>2, MembershipNext
<1>9. NeededOK'
  <2>1. \A p \in Needed : packs'[p] # Absent /\ packs'[p] <= packs[p]
    BY <1>1, NeededArePacks, PackAges DEF NeededOK, Present
  <2> QED
    BY <1>1, <1>8, <2>1, ShieldsStay DEF PackTypeOK
<1> QED
  BY <1>1, <1>5, <1>6, <1>7, <1>9

LEMMA LoseKeeps ==
    ASSUME PackInv, NEW w \in Writers, CreateMarker(w), ~Wins(w)
    PROVE  PackInv'
<1> USE DEF PackInv
<1>1. UNCHANGED <<packs, manifests, head, cycle>> /\ PackTypeOK' /\ CountersOK'
  BY CreateMarkerTypes
<1>2. \A v \in Writers : AttemptOK(v)'
  <2>1. ASSUME NEW v \in Writers, v # w PROVE AttemptOK(v)'
    <3>1. attempt'[v] = attempt[v] /\ AttemptOK(v)
      BY <2>1, CreateMarkerTypes
    <3> QED
      BY <1>1, <3>1, AttemptStays DEF AttemptOK, Mine
  <2>2. AttemptOK(w)'
    BY CreateMarkerTypes, Shapes DEF AttemptOK, AtStep
  <2> QED
    BY <2>1, <2>2
<1>3. NeededOK'
  <2>1. Needed' \subseteq Needed
    BY <1>1, CreateMarkerTypes, NeededStays, Shapes DEF AtStep
  <2>2. \A p \in Needed : packs'[p] # Absent /\ packs'[p] <= packs[p]
    BY <1>1, NeededArePacks, PackAges DEF NeededOK, Present
  <2> QED
    BY <1>1, <2>1, <2>2, ShieldsStay DEF PackTypeOK
<1> QED
  BY <1>1, <1>2, <1>3, ViewStays

---------------------------------------------------------------------------
(* The steps of a collector *)

\* A collector's step that leaves the store, the head and the other cycles alone:
\* what remains to be shown is about its own cycle.
LEMMA CycleKeeps ==
    ASSUME PackInv, NEW c \in Collectors,
           UNCHANGED <<packs, manifests, head, attempt>>,
           \A d \in Collectors : d # c => cycle'[d] = cycle[d],
           PackTypeOK', CountersOK', ListingOK(c)', CondemnedOK(c)',
           \A p \in Needed : Shielded(c, p)',
           \A w \in Writers : AtStep(w, "verifying") =>
               \A p \in attempt[w].novel \ attempt[w].left : p \notin Condemned(c)'
    PROVE  PackInv'
<1> USE DEF PackInv
<1>1. /\ HeadPacks' = HeadPacks /\ Won(manifests)' = Won(manifests) /\ Needed' = Needed
      /\ Floor' = Floor
  BY DEF HeadPacks, PacksOf, Won, Needed, Retained, Pending, Floor, Mine, AtStep, Wins
<1>2. ManifestsOK'
  BY <1>1 DEF ManifestsOK
<1>3. ASSUME NEW d \in Collectors, d # c
      PROVE  /\ ListingOK(d)' /\ CondemnedOK(d)' /\ Condemned(d)' = Condemned(d)
             /\ \A p : Shielded(d, p) => Shielded(d, p)'
  <2>1. cycle'[d] = cycle[d] /\ ListingOK(d) /\ CondemnedOK(d)
    BY <1>3
  <2>2. ListingOK(d)' /\ CondemnedOK(d)'
    BY <2>1 DEF ListingOK, CondemnedOK, AtPhase, This, Won, StillThere
  <2>3. \A p : Shielded(d, p) => Shielded(d, p)'
    BY <2>1 DEF Shielded, AtPhase, This, Condemned, Fresh, PacksOf
  <2> QED
    BY <2>1, <2>2, <2>3 DEF Condemned
<1>4. ASSUME NEW w \in Writers PROVE AttemptOK(w)'
  <2>1. AttemptOK(w)
    OBVIOUS
  <2>2. AtStep(w, "verifying") => \A p \in attempt[w].novel \ attempt[w].left :
            \A d \in Collectors : p \notin Condemned(d)'
    BY <1>3, <2>1 DEF AttemptOK, Mine
  <2> QED
    BY <1>1, <2>1, <2>2 DEF AttemptOK, AtStep, Mine, Wins, Manifest
<1>5. NeededOK'
  BY <1>1, <1>3 DEF NeededOK, Present
<1> QED
  BY <1>2, <1>3, <1>4, <1>5

\* The same when it condemns nothing more.
LEMMA QuietKeeps ==
    ASSUME PackInv, NEW c \in Collectors,
           UNCHANGED <<packs, manifests, head, attempt>>,
           \A d \in Collectors : d # c => cycle'[d] = cycle[d],
           PackTypeOK', CountersOK', ListingOK(c)', CondemnedOK(c)',
           \A p \in Needed : Shielded(c, p)', Condemned(c)' \subseteq Condemned(c)
    PROVE  PackInv'
<1>1. \A w \in Writers : AtStep(w, "verifying") =>
         \A p \in attempt[w].novel \ attempt[w].left : p \notin Condemned(c)'
  BY DEF PackInv, AttemptOK, Mine
<1> QED
  BY <1>1, CycleKeeps

LEMMA EndKeeps ==
    ASSUME PackInv, NEW c \in Collectors, UNCHANGED <<packs, manifests, head, attempt>>,
           \A d \in Collectors : d # c => cycle'[d] = cycle[d],
           PackTypeOK', CountersOK', cycle'[c] = Idle
    PROVE  PackInv'
<1>1. cycle'[c].at = "idle"
  BY Shapes
<1>2. ListingOK(c)' /\ CondemnedOK(c)' /\ Condemned(c)' = {} /\ \A p \in Needed : Shielded(c, p)'
  BY <1>1 DEF ListingOK, CondemnedOK, Condemned, Shielded, AtPhase
<1> QED
  BY <1>2, QuietKeeps

LEMMA ListPacksKeeps ==
    ASSUME PackInv, NEW c \in Collectors, ListPacks(c)
    PROVE  PackInv'
<1>1. /\ UNCHANGED <<packs, manifests, head, attempt>> /\ PackTypeOK' /\ CountersOK'
      /\ \A d \in Collectors : d # c => cycle'[d] = cycle[d]
      /\ AtPhase(c, "listing") /\ cycle'[c].at = "resolving" /\ cycle'[c].kept = cycle[c].kept
      /\ cycle'[c].condemned = cycle[c].condemned /\ cycle'[c].age = cycle[c].age
  BY ListPacksTypes DEF PackInv
<1>2. ListingOK(c)'
  BY <1>1 DEF PackInv, ListingOK, AtPhase, This, Won, StillThere
<1>3. CondemnedOK(c)' /\ Condemned(c)' = {}
  BY <1>1 DEF PackInv, CondemnedOK, Condemned, AtPhase, This
<1>4. \A p \in Needed : Shielded(c, p)'
  BY <1>1, <1>3 DEF PackInv, NeededOK, Shielded, AtPhase, This, Fresh, PacksOf
<1> QED
  BY <1>1, <1>2, <1>3, <1>4, QuietKeeps

\* What is kept is still in the store, as the winners below it are, and goes on
\* protecting its packs.
LEMMA KeptStays ==
    ASSUME PackInv, NEW c \in Collectors, AtPhase(c, "resolving"),
           Won(This(c).kept) \subseteq manifests
    PROVE  PacksOf(This(c).kept) \subseteq PacksOf(Kept(c))
<1>1. cycle[c] \in Cycling
  BY Shapes DEF PackInv, AtPhase
<1>2. This(c).kept \subseteq Manifests /\ manifests \subseteq Manifests
  BY <1>1 DEF PackInv, PackTypeOK, Cycling, This
<1>3. ASSUME NEW m \in This(c).kept PROVE \E n \in Kept(c) : n.packs = m.packs
  <2>1. PICK n \in manifests : n.generation = m.generation /\ n.packs = m.packs
    BY DEF PackInv, ListingOK, StillThere
  <2>2. m = [n EXCEPT !.won = m.won] /\ m.won \in BOOLEAN
    BY <1>2, <2>1 DEF Manifests
  <2>3. n \in Kept(c)
    BY <2>2 DEF Kept
  <2> QED
    BY <2>1, <2>3
<1> QED
  BY <1>3 DEF PacksOf

LEMMA ResolveKeeps ==
    ASSUME PackInv, NEW c \in Collectors, Resolve(c)
    PROVE  PackInv'
<1>1. /\ UNCHANGED <<packs, manifests, head, attempt>> /\ PackTypeOK' /\ CountersOK'
      /\ \A d \in Collectors : d # c => cycle'[d] = cycle[d]
      /\ AtPhase(c, "resolving") /\ Won(This(c).kept) \subseteq manifests
      /\ \/ cycle'[c] = Idle
         \/ /\ cycle'[c].at = "deciding" /\ cycle'[c].kept = Kept(c)
            /\ cycle'[c].condemned = cycle[c].condemned /\ cycle'[c].age = cycle[c].age
  BY ResolveTypes DEF PackInv, Resolve
<1>2. CASE cycle'[c] = Idle
  BY <1>1, <1>2, EndKeeps
<1>3. CASE /\ cycle'[c].at = "deciding" /\ cycle'[c].kept = Kept(c)
           /\ cycle'[c].condemned = cycle[c].condemned /\ cycle'[c].age = cycle[c].age
  <2>1. ListingOK(c)'
    BY <1>3 DEF ListingOK, AtPhase
  <2>2. CondemnedOK(c)' /\ Condemned(c)' = {}
    BY <1>1, <1>3 DEF PackInv, CondemnedOK, Condemned, AtPhase, This
  <2>3. \A p \in Needed : Shielded(c, p)'
    <3>1. PacksOf(This(c).kept) \subseteq PacksOf(Kept(c))
      BY <1>1, KeptStays
    <3>2. \A p \in Needed : p \in PacksOf(This(c).kept) \/ Fresh(c, p)
      BY <1>1 DEF PackInv, NeededOK, Shielded
    <3>3. \A p : (p \in PacksOf(This(c).kept))' <=> p \in PacksOf(Kept(c))
      BY <1>3 DEF PacksOf, This
    <3>4. \A p : Fresh(c, p) => Fresh(c, p)'
      BY <1>1, <1>3 DEF Fresh, This
    <3> QED
      BY <1>3, <2>2, <3>1, <3>2, <3>3, <3>4 DEF Shielded, AtPhase
  <2> QED
    BY <1>1, <2>1, <2>2, <2>3, QuietKeeps
<1> QED
  BY <1>1, <1>2, <1>3

\* Only what no kept manifest refers to becomes a candidate.
LEMMA DecideKeeps ==
    ASSUME PackInv, NEW c \in Collectors, Decide(c)
    PROVE  PackInv'
<1>1. /\ UNCHANGED <<packs, manifests, head, attempt>> /\ PackTypeOK' /\ CountersOK'
      /\ \A d \in Collectors : d # c => cycle'[d] = cycle[d]
      /\ AtPhase(c, "deciding") /\ cycle'[c].at = "committing"
      /\ cycle'[c].delete = Deletable(c)
      /\ cycle'[c].condemned = cycle[c].condemned /\ cycle'[c].age = cycle[c].age
  BY DecideTypes DEF PackInv
<1>2. ListingOK(c)' /\ CondemnedOK(c)' /\ Condemned(c)' = {}
  BY <1>1 DEF PackInv, ListingOK, CondemnedOK, Condemned, AtPhase, This
<1>3. \A p \in Needed : Shielded(c, p)'
  <2>1. \A p \in Needed : p \in PacksOf(This(c).kept) \/ Fresh(c, p)
    BY <1>1 DEF PackInv, NeededOK, Shielded
  <2>2. \A p \in PacksOf(This(c).kept) : p \notin Deletable(c)
    BY DEF Deletable, Cold
  <2>3. \A p : Fresh(c, p) => Fresh(c, p)'
    BY <1>1 DEF Fresh, This
  <2> QED
    BY <1>1, <1>2, <2>1, <2>2, <2>3 DEF Shielded, AtPhase, This
<1> QED
  BY <1>1, <1>2, <1>3, QuietKeeps

\* The listing of payloads sweeps those below the floor: nothing that has to stay
\* is among them, and whoever has kept one of them has kept a winner below the floor
\* too, and will notice.
LEMMA ListPayloadsKeeps ==
    ASSUME PackInv, NEW c \in Collectors, ListPayloads(c)
    PROVE  PackInv'
<1> USE DEF PackInv
<1>1. /\ UNCHANGED <<packs, head, attempt>> /\ PackTypeOK' /\ CountersOK'
      /\ \A d \in Collectors : d # c => cycle'[d] = cycle[d]
      /\ manifests' = {m \in manifests : m.generation >= Floor}
      /\ cycle'[c].at = "listing" /\ cycle'[c].kept = manifests' /\ cycle'[c].condemned = {}
  BY ListPayloadsTypes
<1>2. /\ head \in Nat /\ Floor \in Int /\ Floor <= head /\ Floor' = Floor
      /\ \A m \in manifests : m.generation \in Int /\ m.generation \in Generations
  <2>1. head \in Nat /\ Floor \in Int /\ Floor <= head
    BY FloorOfHead
  <2>2. Floor' = Floor
    BY <1>1 DEF Floor
  <2>3. \A m \in manifests : m.generation \in Int /\ m.generation \in Generations
    BY Numbers DEF PackTypeOK, Manifests, Generations
  <2> QED
    BY <2>1, <2>2, <2>3
<1>3. HeadPacks' = HeadPacks
  BY <1>1, <1>2, Membership, MembershipNext
<1>4. Needed' = Needed
  BY <1>1, <1>2, Membership, MembershipNext DEF AtStep, Wins, Mine
<1>5. ManifestsOK'
  <2>1. \A m \in Won(manifests)' : m.generation <= head'
    BY <1>1 DEF ManifestsOK, Won
  <2>2. ASSUME NEW g \in Generations, Floor <= g, g <= head
        PROVE  \E m \in Won(manifests)' : m.generation = g
    <3>1. PICK m \in Won(manifests) : m.generation = g
      BY <2>2 DEF ManifestsOK
    <3>2. m \in manifests' /\ m.won
      BY <1>1, <1>2, <2>2, <3>1 DEF Won
    <3> QED
      BY <3>1, <3>2 DEF Won
  <2> QED
    BY <1>1, <1>2, <2>1, <2>2 DEF ManifestsOK
<1>6. ASSUME NEW w \in Writers
      PROVE  /\ AtStep(w, "marking") /\ Wins(w) => Manifest(w) \in manifests'
             /\ Manifest(w)' = Manifest(w)
  <2>1. ASSUME AtStep(w, "marking"), Wins(w) PROVE Manifest(w) \in manifests'
    <3>1. Manifest(w) \in manifests
      BY <2>1 DEF AttemptOK
    <3>2. Manifest(w).generation = head + 1
      BY <2>1 DEF Manifest, Wins, Mine
    <3> QED
      BY <1>1, <1>2, <3>1, <3>2
  <2> QED
    BY <1>1, <2>1 DEF Manifest, Mine
<1>7. \A d \in Collectors : Condemned(d)' \subseteq Condemned(d)
  BY <1>1 DEF Condemned
<1>8. ASSUME NEW w \in Writers PROVE AttemptOK(w)'
  <2>1. AttemptOK(w)
    OBVIOUS
  <2> QED
    BY <1>1, <1>3, <1>6, <1>7, <2>1 DEF AttemptOK, AtStep, Mine, Wins
<1>9. ListingOK(c)' /\ CondemnedOK(c)'
  <2>1. (Won(This(c).kept) \subseteq manifests => \A m \in This(c).kept : StillThere(m))'
    BY <1>1 DEF This, StillThere
  <2>2. This(c)'.kept = manifests' /\ Won(This(c).kept)' = Won(manifests)'
    BY <1>1 DEF This, Won
  <2>3. \A m \in Won(This(c).kept)' : m.generation <= head'
    BY <1>5, <2>2 DEF ManifestsOK
  <2>4. ASSUME NEW m \in manifests'
        PROVE  \E n \in Won(manifests)' : n.generation <= m.generation
    <3>1. m.generation \in Generations /\ m.generation \in Int /\ Floor <= m.generation
      BY <1>1, <1>2
    <3>2. CASE m.generation <= head
      <4>1. \E n \in Won(manifests)' : n.generation = m.generation
        BY <1>1, <1>2, <1>5, <3>1, <3>2 DEF ManifestsOK
      <4> QED
        BY <3>1, <4>1
    <3>3. CASE ~(m.generation <= head)
      <4>1. head \in Generations
        BY DEF PackTypeOK
      <4>2. PICK n \in Won(manifests)' : n.generation = head
        BY <1>1, <1>2, <1>5, <4>1 DEF ManifestsOK
      <4> QED
        BY <1>2, <3>1, <3>3, <4>2
    <3> QED
      BY <3>2, <3>3
  <2> QED
    BY <1>1, <2>1, <2>2, <2>3, <2>4 DEF ListingOK, CondemnedOK, AtPhase, This
<1>10. ASSUME NEW d \in Collectors, d # c PROVE ListingOK(d)' /\ CondemnedOK(d)'
  <2>1. cycle'[d] = cycle[d] /\ ListingOK(d) /\ CondemnedOK(d)
    BY <1>1, <1>10
  <2>2. CondemnedOK(d)'
    BY <2>1 DEF CondemnedOK, AtPhase, This
  <2>3. CASE ~(AtPhase(d, "listing") \/ AtPhase(d, "resolving"))
    BY <2>1, <2>2, <2>3 DEF ListingOK, AtPhase
  <2>4. CASE AtPhase(d, "listing") \/ AtPhase(d, "resolving")
    <3>1. /\ \A m \in Won(This(d).kept) : m.generation <= head
          /\ \A m \in This(d).kept : \E n \in Won(This(d).kept) : n.generation <= m.generation
          /\ Won(This(d).kept) \subseteq manifests => \A m \in This(d).kept : StillThere(m)
      BY <2>1, <2>4 DEF ListingOK
    <3>2. ASSUME Won(This(d).kept) \subseteq manifests', NEW m \in This(d).kept
          PROVE  StillThere(m)'
      <4>1. PICK n \in Won(This(d).kept) : n.generation <= m.generation
        BY <3>1
      <4>2. n.generation >= Floor /\ n.generation \in Int
        BY <1>1, <1>2, <3>2
      <4>3. PICK k \in manifests : k.generation = m.generation /\ k.packs = m.packs
        BY <1>1, <3>1, <3>2 DEF StillThere
      <4>4. k \in manifests'
        BY <1>1, <1>2, <4>1, <4>2, <4>3
      <4> QED
        BY <4>3, <4>4 DEF StillThere
    <3>3. This(d)' = This(d) /\ Won(This(d).kept)' = Won(This(d).kept)
      BY <2>1 DEF This, Won
    <3> QED
      BY <1>1, <2>2, <3>1, <3>2, <3>3 DEF ListingOK
  <2> QED
    BY <2>3, <2>4
<1>11. ASSUME NEW p \in Needed PROVE Shielded(c, p)'
  <2>1. \E m \in manifests' : p \in m.packs
    <3>1. CASE \E m \in manifests : m.won /\ m.generation >= Floor /\ p \in m.packs
      BY <1>1, <3>1
    <3>2. CASE \E v \in Writers : AtStep(v, "marking") /\ Wins(v) /\ p \in attempt[v].refs
      BY <1>6, <3>2 DEF Manifest, Mine
    <3> QED
      BY <3>1, <3>2, Membership
  <2>2. (p \in PacksOf(This(c).kept))'
    BY <1>1, <2>1 DEF PacksOf, This
  <2> QED
    BY <1>1, <2>2 DEF Shielded, AtPhase, Condemned
<1>12. NeededOK'
  <2>1. \A d \in Collectors : d # c => \A p : Shielded(d, p) => Shielded(d, p)'
    BY <1>1 DEF Shielded, AtPhase, This, Condemned, Fresh, PacksOf
  <2> QED
    BY <1>1, <1>4, <1>11, <2>1 DEF NeededOK, Present
<1> QED
  BY <1>1, <1>5, <1>8, <1>9, <1>10, <1>12

\* The steps between the decision and the deletes.
LEMMA OnwardKeeps ==
    ASSUME PackInv, NEW c \in Collectors,
           CommitLedger(c) \/ ProbeAgain(c) \/ \E q \in Packs : Spare(c, q)
    PROVE  PackInv'
<1>1. /\ UNCHANGED <<packs, manifests, head, attempt>> /\ PackTypeOK' /\ CountersOK'
      /\ \A d \in Collectors : d # c => cycle'[d] = cycle[d]
      /\ AtPhase(c, "committing") \/ AtPhase(c, "rechecking") \/ AtPhase(c, "deleting")
      /\ cycle'[c].at \in {"rechecking", "deleting"}
      /\ cycle'[c].delete \subseteq cycle[c].delete
      /\ cycle'[c].condemned = cycle[c].condemned /\ cycle'[c].age = cycle[c].age
      /\ AtPhase(c, "deleting") \/ cycle'[c].at = "rechecking" \/ AtPhase(c, "rechecking")
  <2>1. CASE CommitLedger(c)
    BY <2>1, CommitLedgerTypes DEF PackInv
  <2>2. CASE ProbeAgain(c)
    BY <2>2, ProbeAgainTypes DEF PackInv
  <2>3. CASE \E q \in Packs : Spare(c, q)
    BY <2>3, SpareTypes DEF PackInv
  <2> QED
    BY <2>1, <2>2, <2>3
<1>2. AtPhase(c, "deleting") => cycle'[c].at = "deleting"
  BY SpareTypes, CommitLedgerTypes, ProbeAgainTypes DEF PackInv, AtPhase
<1>3. ~AtPhase(c, "deleting") => cycle[c].condemned = {}
  BY <1>1 DEF PackInv, CondemnedOK, AtPhase, This
<1>4. ListingOK(c)' /\ CondemnedOK(c)' /\ Condemned(c)' \subseteq Condemned(c)
  BY <1>1, <1>2, <1>3 DEF ListingOK, CondemnedOK, Condemned, AtPhase, This
<1>5. \A p \in Needed : Shielded(c, p)'
  <2>1. \A p \in Needed : (p \notin cycle[c].delete \/ Fresh(c, p)) /\ p \notin Condemned(c)
    BY <1>1 DEF PackInv, NeededOK, Shielded, This
  <2>2. \A p : Fresh(c, p) => Fresh(c, p)'
    BY <1>1 DEF Fresh, This
  <2> QED
    BY <1>1, <1>4, <2>1, <2>2 DEF Shielded, AtPhase, This
<1> QED
  BY <1>1, <1>4, <1>5, QuietKeeps

\* No pack that was fresh when the cycle began, or has been refreshed since, is
\* older than the grace at the re-HEAD.
LEMMA CondemnKeeps ==
    ASSUME PackInv, Punctual, NEW c \in Collectors, NEW q \in Packs, Condemn(c, q)
    PROVE  PackInv'
<1>1. /\ UNCHANGED <<packs, manifests, head, attempt>> /\ PackTypeOK' /\ CountersOK'
      /\ \A d \in Collectors : d # c => cycle'[d] = cycle[d]
      /\ AtPhase(c, "deleting") /\ cycle[c] \in Cycling
      /\ cycle'[c].at = "deleting" /\ cycle'[c].age = cycle[c].age
      /\ cycle'[c].delete = cycle[c].delete /\ cycle'[c].condemned = {q}
  BY CondemnTypes DEF PackInv
<1>2. /\ cycle[c].now \in Nat /\ cycle[c].age \in Nat /\ cycle[c].age <= MaxCycle
      /\ MaxStall + MaxCycle <= Grace
  BY <1>1, Numbers DEF Cycling, Punctual
<1>3. q \in cycle[c].delete /\ packs[q] \in Int /\ packs[q] > Grace
  <2>1. q \in cycle[c].delete /\ packs[q] - cycle[c].now > Grace
    BY <1>2, PackAges, Numbers DEF PackInv, Condemn, StillCold, Young, This
  <2> QED
    BY <1>2, <2>1, PackAges, Numbers DEF PackInv
<1>4. q \notin Needed
  <2>1. ASSUME q \in Needed PROVE Fresh(c, q)
    BY <1>1, <1>3, <2>1 DEF PackInv, NeededOK, Shielded, This
  <2>2. ~Fresh(c, q)
    BY <1>2, <1>3, Numbers DEF Fresh, This
  <2> QED
    BY <2>1, <2>2
<1>5. \A w \in Writers : AtStep(w, "verifying") =>
         \A p \in attempt[w].novel \ attempt[w].left : p \notin Condemned(c)'
  <2> SUFFICES ASSUME NEW w \in Writers, AtStep(w, "verifying"),
                      q \in attempt[w].novel \ attempt[w].left
               PROVE  FALSE
    BY <1>1 DEF Condemned
  <2>1. packs[q] \in 0..attempt[w].stall
    BY DEF PackInv, AttemptOK, Mine
  <2>2. attempt[w].stall \in 0..MaxStall
    BY Shapes DEF PackInv, AtStep, Trying
  <2> QED
    BY <1>2, <1>3, <2>1, <2>2, Numbers
<1>6. ListingOK(c)' /\ CondemnedOK(c)'
  BY <1>1 DEF ListingOK, CondemnedOK, AtPhase
<1>7. \A p \in Needed : Shielded(c, p)'
  <2>1. \A p \in Needed : p \notin cycle[c].delete \/ Fresh(c, p)
    BY <1>1 DEF PackInv, NeededOK, Shielded, This
  <2>2. \A p : Fresh(c, p) => Fresh(c, p)'
    BY <1>1 DEF Fresh, This
  <2> QED
    BY <1>1, <1>4, <2>1, <2>2 DEF Shielded, AtPhase, This, Condemned
<1> QED
  BY <1>1, <1>5, <1>6, <1>7, CycleKeeps

\* A delete hits what has been condemned: nothing that has to stay, and nothing an
\* attempt has refreshed.
LEMMA DeleteKeeps ==
    ASSUME PackInv, NEW c \in Collectors, NEW q \in Packs, Delete(c, q)
    PROVE  PackInv'
<1> USE DEF PackInv
<1>1. /\ UNCHANGED <<manifests, head, attempt>> /\ PackTypeOK' /\ CountersOK'
      /\ \A d \in Collectors : d # c => cycle'[d] = cycle[d]
      /\ AtPhase(c, "deleting") /\ cycle'[c].at = "deleting" /\ cycle'[c].age = cycle[c].age
      /\ cycle'[c].delete \subseteq cycle[c].delete /\ cycle'[c].condemned = {}
      /\ q \in Condemned(c)
  BY DeleteTypes DEF Condemned, AtPhase
<1>2. \A p \in Packs : p # q => packs'[p] = packs[p]
  BY DeleteTypes DEF PackTypeOK
<1>3. /\ HeadPacks' = HeadPacks /\ Won(manifests)' = Won(manifests) /\ Needed' = Needed
      /\ Floor' = Floor
  BY <1>1 DEF HeadPacks, PacksOf, Won, Needed, Retained, Pending, Floor, Mine, AtStep, Wins
<1>4. q \notin Needed
  BY <1>1 DEF NeededOK, Shielded
<1>5. \A d \in Collectors : Condemned(d)' \subseteq Condemned(d)
  BY <1>1 DEF Condemned
<1>6. ASSUME NEW w \in Writers PROVE AttemptOK(w)'
  <2>1. AttemptOK(w)
    OBVIOUS
  <2>2. AtStep(w, "verifying") => \A p \in attempt[w].novel \ attempt[w].left :
            packs'[p] \in 0..attempt[w].stall /\ \A d \in Collectors : p \notin Condemned(d)'
    <3> SUFFICES ASSUME AtStep(w, "verifying"), NEW p \in attempt[w].novel \ attempt[w].left
                 PROVE  packs'[p] \in 0..attempt[w].stall /\ \A d \in Collectors : p \notin Condemned(d)'
      OBVIOUS
    <3>1. packs[p] \in 0..attempt[w].stall /\ \A d \in Collectors : p \notin Condemned(d)
      BY <2>1 DEF AttemptOK, Mine
    <3>2. p \in Packs /\ p # q
      BY <1>1, <3>1, Shapes DEF AtStep, Trying
    <3> QED
      BY <1>2, <1>5, <3>1, <3>2
  <2> QED
    BY <1>1, <1>3, <2>1, <2>2 DEF AttemptOK, AtStep, Mine, Wins, Manifest
<1>7. ManifestsOK'
  BY <1>1, <1>3 DEF ManifestsOK
<1>8. ListingOK(c)' /\ CondemnedOK(c)'
  BY <1>1 DEF ListingOK, CondemnedOK, AtPhase
<1>9. ASSUME NEW d \in Collectors, d # c PROVE ListingOK(d)' /\ CondemnedOK(d)'
  <2>1. cycle'[d] = cycle[d] /\ ListingOK(d) /\ CondemnedOK(d)
    BY <1>1, <1>9
  <2> QED
    BY <1>1, <2>1 DEF ListingOK, CondemnedOK, AtPhase, This, Won, StillThere
<1>10. NeededOK'
  <2>1. Needed' \subseteq Present(packs)'
    BY <1>2, <1>3, <1>4 DEF NeededOK, Present
  <2>2. ASSUME NEW d \in Collectors, NEW p \in Needed PROVE Shielded(d, p)'
    <3>1. Shielded(d, p) /\ packs'[p] = packs[p] /\ p \notin Condemned(d)'
      BY <1>2, <1>4, <1>5, NeededArePacks DEF NeededOK, Shielded
    <3>2. CASE d = c
      BY <1>1, <3>1, <3>2 DEF Shielded, AtPhase, This, Fresh
    <3>3. CASE d # c
      <4>1. cycle'[d] = cycle[d]
        BY <1>1, <3>3
      <4> QED
        BY <3>1, <4>1 DEF Shielded, AtPhase, This, Fresh, PacksOf
    <3> QED
      BY <3>2, <3>3
  <2> QED
    BY <1>3, <2>1, <2>2 DEF NeededOK
<1> QED
  BY <1>1, <1>6, <1>7, <1>8, <1>9, <1>10

---------------------------------------------------------------------------
(* Time *)

\* Packs, the stalls of those who refresh them and the cycles grow older together.
LEMMA TickKeeps ==
    ASSUME PackInv, Tick
    PROVE  PackInv'
<1> USE DEF PackInv
<1>1. UNCHANGED <<manifests, head>> /\ PackTypeOK' /\ CountersOK'
  BY TickTypes
<1>2. \A p \in Packs : /\ packs[p] \in Int /\ packs'[p] \in Int
                       /\ packs'[p] <= packs[p] + 1 /\ packs[p] <= packs'[p]
                       /\ packs[p] = Absent <=> packs'[p] = Absent
  <2> SUFFICES ASSUME NEW p \in Packs
               PROVE  /\ packs[p] \in Int /\ packs'[p] \in Int
                      /\ packs'[p] <= packs[p] + 1 /\ packs[p] <= packs'[p]
                      /\ packs[p] = Absent <=> packs'[p] = Absent
    OBVIOUS
  <2>1. packs[p] \in Absent..MaxAge /\ packs'[p] = Older(packs[p], MaxAge) /\ MaxAge \in Nat
    BY TickTypes, Numbers DEF PackTypeOK, Ages
  <2>2. /\ packs'[p] \in Absent..MaxAge /\ (packs'[p] = Absent <=> packs[p] = Absent)
        /\ packs[p] <= packs'[p] /\ packs'[p] <= packs[p] + 1
    BY <2>1, OlderAge
  <2> QED
    BY <2>1, <2>2, Numbers
<1>3. ASSUME NEW w \in Writers
      PROVE  /\ attempt'[w].at = attempt[w].at
             /\ ~AtStep(w, "idle") =>
                  /\ attempt'[w].base = attempt[w].base /\ attempt'[w].novel = attempt[w].novel
                  /\ attempt'[w].refs = attempt[w].refs /\ attempt'[w].left = attempt[w].left
             /\ Refreshing(w) => attempt'[w].stall = attempt[w].stall + 1
  <2>1. attempt'[w] = IF Refreshing(w) THEN [attempt[w] EXCEPT !.stall = @ + 1] ELSE attempt[w]
    BY TickTypes
  <2>2. Refreshing(w) => attempt[w] \in Trying
    BY Shapes DEF Refreshing, AtStep
  <2> HIDE DEF PackInv
  <2> QED
    BY <2>1, <2>2 DEF Trying, AtStep
<1>4. ASSUME NEW c \in Collectors
      PROVE  IF AtPhase(c, "idle") THEN cycle'[c].at = "idle" /\ cycle[c].at = "idle"
             ELSE /\ cycle'[c].at = cycle[c].at /\ cycle'[c].kept = cycle[c].kept
                  /\ cycle'[c].delete = cycle[c].delete
                  /\ cycle'[c].condemned = cycle[c].condemned
                  /\ cycle'[c].age = cycle[c].age + 1 /\ cycle[c].age \in Nat
  BY TickTypes, Shapes, Numbers DEF AtPhase, Cycling
<1>5. \A c \in Collectors : Condemned(c)' = Condemned(c)
  BY <1>4 DEF Condemned, AtPhase
<1>6. HeadPacks' = HeadPacks /\ Won(manifests)' = Won(manifests) /\ Floor' = Floor
  BY <1>1 DEF HeadPacks, PacksOf, Won, Floor
<1>7. Needed' = Needed
  <2>1. \A v \in Writers : AtStep(v, "marking") =>
           AtStep(v, "marking")' /\ attempt'[v].refs = attempt[v].refs /\ (Wins(v)' <=> Wins(v))
    BY <1>1, <1>3 DEF AtStep, Wins, Mine
  <2>2. \A v \in Writers : AtStep(v, "marking")' => AtStep(v, "marking")
    BY <1>3 DEF AtStep
  <2> QED
    BY <1>1, <1>6, <2>1, <2>2, Membership, MembershipNext
<1>8. ManifestsOK'
  BY <1>1, <1>6 DEF ManifestsOK
<1>9. ASSUME NEW w \in Writers PROVE AttemptOK(w)'
  <2>1. AttemptOK(w)
    OBVIOUS
  <2>2. CASE AtStep(w, "idle")
    BY <1>3, <2>2 DEF AttemptOK, AtStep
  <2>3. CASE ~AtStep(w, "idle")
    <3>1. AtStep(w, "verifying") => \A p \in attempt[w].novel \ attempt[w].left :
              /\ packs'[p] \in 0..attempt'[w].stall
              /\ \A c \in Collectors : p \notin Condemned(c)'
      <4> SUFFICES ASSUME AtStep(w, "verifying"), NEW p \in attempt[w].novel \ attempt[w].left
                   PROVE  /\ packs'[p] \in 0..attempt'[w].stall
                          /\ \A c \in Collectors : p \notin Condemned(c)'
        OBVIOUS
      <4>1. packs[p] \in 0..attempt[w].stall /\ \A c \in Collectors : p \notin Condemned(c)
        BY <2>1 DEF AttemptOK, Mine
      <4>2. Refreshing(w)
        BY <2>1 DEF AttemptOK, Refreshing, Mine
      <4>3. p \in Packs /\ attempt[w].stall \in Nat
        BY Shapes, Numbers DEF AtStep, Trying
      <4>4. packs'[p] \in 0..(attempt[w].stall + 1)
        BY <1>2, <4>1, <4>3
      <4> QED
        BY <1>3, <1>5, <4>1, <4>2, <4>4
    <3>2. Manifest(w)' = Manifest(w) /\ (Wins(w)' <=> Wins(w))
      BY <1>1, <1>3, <2>3 DEF Manifest, Wins, Mine
    <3> QED
      BY <1>1, <1>3, <1>6, <2>1, <2>3, <3>1, <3>2 DEF AttemptOK, AtStep, Mine
  <2> QED
    BY <2>2, <2>3
<1>10. ASSUME NEW c \in Collectors PROVE ListingOK(c)' /\ CondemnedOK(c)'
  <2>1. ListingOK(c) /\ CondemnedOK(c)
    OBVIOUS
  <2> QED
    BY <1>1, <1>4, <2>1 DEF ListingOK, CondemnedOK, AtPhase, This, Won, StillThere
<1>11. NeededOK'
  <2>1. Needed' \subseteq Present(packs)'
    BY <1>2, <1>7 DEF NeededOK, Present
  <2>2. ASSUME NEW c \in Collectors, NEW p \in Needed PROVE Shielded(c, p)'
    <3>1. Shielded(c, p) /\ p \in Packs
      BY NeededArePacks DEF NeededOK
    <3>2. ~AtPhase(c, "idle") /\ Fresh(c, p) => Fresh(c, p)'
      BY <1>2, <1>4, <3>1, Numbers DEF Fresh, This
    <3> QED
      BY <1>4, <1>5, <3>1, <3>2 DEF Shielded, AtPhase, This, PacksOf
  <2> QED
    BY <1>7, <2>1, <2>2 DEF NeededOK
<1> QED
  BY <1>1, <1>8, <1>9, <1>10, <1>11

---------------------------------------------------------------------------
(* The invariant *)

LEMMA InitKeeps == Init => PackInv
<1> SUFFICES ASSUME Init PROVE PackInv
  OBVIOUS
<1>1. PICK old \in SUBSET Packs :
        /\ packs = [p \in Packs |-> IF p \in old THEN MaxAge ELSE Absent]
        /\ manifests = {[generation |-> 0, packs |-> old, won |-> TRUE]}
  BY DEF Init
<1>2. PackTypeOK /\ CountersOK /\ head = 0
  BY InitTypes DEF Init
<1>3. /\ \A w \in Writers : attempt[w].at = "idle"
      /\ \A c \in Collectors : cycle[c].at = "idle"
  BY Shapes DEF Init
<1>4. ManifestsOK
  <2>1. Won(manifests) = {[generation |-> 0, packs |-> old, won |-> TRUE]}
    BY <1>1 DEF Won
  <2>2. \A g \in Generations : g <= 0 => g = 0
    BY Numbers DEF Generations
  <2>3. \A m \in Won(manifests) : m.generation = 0
    BY <2>1
  <2>4. \E m \in Won(manifests) : m.generation = 0
    BY <2>1
  <2> QED
    BY <1>2, <2>2, <2>3, <2>4 DEF ManifestsOK
<1>5. NeededOK
  <2>1. Needed \subseteq Present(packs)
    <3> SUFFICES ASSUME NEW p \in Needed PROVE p \in Present(packs)
      OBVIOUS
    <3>1. p \in old
      BY <1>1, <1>3, Membership DEF AtStep
    <3> QED
      BY <1>1, <3>1, Numbers DEF Present
  <2>2. \A c \in Collectors, p \in Needed : Shielded(c, p)
    BY <1>3 DEF Shielded, AtPhase, Condemned
  <2> QED
    BY <2>1, <2>2 DEF NeededOK
<1>6. \A w \in Writers : AttemptOK(w)
  BY <1>3 DEF AttemptOK, AtStep
<1>7. \A c \in Collectors : ListingOK(c) /\ CondemnedOK(c)
  BY <1>3 DEF ListingOK, CondemnedOK, AtPhase
<1> QED
  BY <1>2, <1>4, <1>5, <1>6, <1>7 DEF PackInv

LEMMA NextKeeps ==
    ASSUME PackInv, Punctual, [Next]_packVars
    PROVE  PackInv'
<1>1. ASSUME NEW w \in Writers, Build(w) \/ Write(w) \/ GiveUp(w)
      PROVE  PackInv'
  <2>1. QuietGap
    BY DEF Punctual
  <2> QED
    BY <1>1, <2>1, BuildKeeps, PutPackKeeps, PublishedKeeps, VerifyPackKeeps, PutManifestKeeps,
       WinKeeps, LoseKeeps, GiveUpKeeps DEF Write
<1>2. ASSUME NEW c \in Collectors, Sweep(c)
      PROVE  PackInv'
  <2>1. CASE Finish(c)
    BY <2>1, EndTypes, EndKeeps DEF PackInv
  <2> QED
    BY <1>2, <2>1, ListPayloadsKeeps, ListPacksKeeps, ResolveKeeps, DecideKeeps, OnwardKeeps,
       CondemnKeeps, DeleteKeeps DEF Sweep
<1>3. ASSUME NEW c \in Collectors, Abort(c)
      PROVE  PackInv'
  BY <1>3, EndTypes, EndKeeps DEF PackInv
<1>4. CASE LoseLedger
  <2>1. UNCHANGED <<packs, manifests, head, attempt, cycle>> /\ PackTypeOK' /\ CountersOK'
    BY <1>4, LoseLedgerTypes DEF PackInv
  <2>2. \A w \in Writers : AttemptOK(w)'
    BY <2>1, AttemptStays DEF PackInv, AttemptOK, Mine
  <2>3. NeededOK'
    BY <2>1 DEF PackInv, NeededOK, Needed, Retained, Pending, PacksOf, Won, Floor, AtStep, Wins,
       Mine, Present, Shielded, AtPhase, This, Fresh, Condemned
  <2> QED
    BY <2>1, <2>2, <2>3, ViewStays DEF PackInv
<1>5. CASE Tick
  BY <1>5, TickKeeps
<1>6. CASE UNCHANGED packVars
  <2>1. UNCHANGED <<packs, manifests, head, attempt, cycle, ledger, faults>>
    BY <1>6 DEF packVars
  <2>2. PackTypeOK' /\ CountersOK'
    BY <2>1 DEF PackInv, PackTypeOK, CountersOK, AtStep, Mine, AtPhase, This
  <2>3. \A w \in Writers : AttemptOK(w)'
    BY <2>1, AttemptStays DEF PackInv, AttemptOK, Mine
  <2>4. NeededOK'
    BY <2>1 DEF PackInv, NeededOK, Needed, Retained, Pending, PacksOf, Won, Floor, AtStep, Wins,
       Mine, Present, Shielded, AtPhase, This, Fresh, Condemned
  <2> QED
    BY <2>1, <2>2, <2>3, <2>4, ViewStays DEF PackInv
<1> QED
  BY <1>1, <1>2, <1>3, <1>4, <1>5, <1>6 DEF Next

\* As long as a writer's stall and a cycle fit into the grace together, the packs of
\* every generation that is retained, and of every manifest that may still be
\* committed, stay, and no cycle, of whatever age, can go on to delete one of them.
THEOREM PackInvariantHolds ==
    ASSUME Punctual PROVE Spec => []PackInv
<1>1. PackInv /\ [Next]_packVars => PackInv'
  BY NextKeeps
<1> QED
  BY InitKeeps, <1>1, PTL DEF Spec

---------------------------------------------------------------------------
(* What is lost, and what is deleted *)

\* The packs of every retained generation are in the store, with however many
\* writers and collectors, as long as stalls and cycles fit into the grace.
THEOREM CommittedPacksStay ==
    ASSUME Punctual PROVE Spec => []CommittedPacksPresent
<1>1. PackInv => CommittedPacksPresent
  BY DEF PackInv, NeededOK, Needed, CommittedPacksPresent
<1> QED
  BY <1>1, PackInvariantHolds, PTL

\* Only a delete takes a pack away.
LEMMA OnlyDeletes ==
    ASSUME PackTypeOK, CountersOK, [Next]_packVars,
           NEW p \in Packs, packs[p] # Absent, packs'[p] = Absent
    PROVE  \E c \in Collectors : Delete(c, p)
<1>1. Absent # 0
  BY Numbers
<1>2. ASSUME NEW w \in Writers, Build(w) \/ Write(w) \/ GiveUp(w)
      PROVE  FALSE
  <2>1. CASE \E q \in Packs : PutPack(w, q) \/ VerifyPack(w, q)
    BY <1>1, <2>1, PutPackTypes, VerifyPackTypes
  <2>2. CASE Build(w) \/ Published(w) \/ PutManifest(w) \/ CreateMarker(w) \/ GiveUp(w)
    BY <2>2, BuildTypes, PublishedTypes, PutManifestTypes, CreateMarkerTypes, GiveUpTypes
  <2> QED
    BY <1>2, <2>1, <2>2 DEF Write
<1>3. ASSUME NEW c \in Collectors, Sweep(c) \/ Abort(c)
      PROVE  Delete(c, p)
  <2>1. CASE \E q \in Packs : Delete(c, q)
    BY <2>1, DeleteTypes DEF PackTypeOK
  <2>2. CASE ~\E q \in Packs : Delete(c, q)
    <3>1. UNCHANGED packs
      BY <1>3, <2>2 DEF Sweep, ListPayloads, ListPacks, Resolve, Decide, CommitLedger,
         ProbeAgain, Finish, Spare, Condemn, Abort
    <3> QED
      BY <3>1
  <2> QED
    BY <2>1, <2>2
<1>4. CASE LoseLedger
  BY <1>4, LoseLedgerTypes
<1>5. CASE Tick
  <2>1. packs[p] \in Absent..MaxAge /\ packs'[p] = Older(packs[p], MaxAge) /\ MaxAge \in Nat
    BY <1>5, TickTypes, Numbers DEF PackTypeOK, Ages
  <2> QED
    BY <2>1, OlderAge
<1>6. CASE UNCHANGED packVars
  BY <1>6 DEF packVars
<1> QED
  BY <1>2, <1>3, <1>4, <1>5, <1>6 DEF Next

\* No delete of any collector, at whatever time it was decided, hits a pack that a
\* retained generation or a manifest that may still be committed refers to.
THEOREM NeededAreNeverDeleted ==
    ASSUME Punctual
    PROVE  Spec => [][\A p \in Packs : packs[p] # Absent /\ packs'[p] = Absent =>
                          p \notin Needed]_packVars
<1>1. PackInv /\ [Next]_packVars =>
          [\A p \in Packs : packs[p] # Absent /\ packs'[p] = Absent => p \notin Needed]_packVars
  <2> SUFFICES ASSUME PackInv, [Next]_packVars, NEW p \in Packs,
                      packs[p] # Absent, packs'[p] = Absent
               PROVE  p \notin Needed
    OBVIOUS
  <2>1. PICK c \in Collectors : Delete(c, p)
    BY OnlyDeletes DEF PackInv
  <2>2. p \in Condemned(c)
    BY <2>1 DEF Delete, Condemned, This, AtPhase
  <2> QED
    BY <2>2 DEF PackInv, NeededOK, Shielded
<1> QED
  BY <1>1, PackInvariantHolds, PTL DEF Spec

\* With one collector, a step leaves what is condemned as old as it was: only a
\* delete could make room for a new pack of that name, and it ends the sentence.
LEMMA CondemnedStayOld ==
    ASSUME PackInv, CondemnedAreOld, QuietGap,
           \A c, d \in Collectors : c = d, [Next]_packVars
    PROVE  CondemnedAreOld'
<1>0. PackTypeOK /\ CountersOK /\ \A c \in Collectors : CondemnedOK(c)
  BY DEF PackInv
<1>1. \A c \in Collectors : Condemned(c) \subseteq Packs
  BY <1>0, Shapes DEF Condemned, Cycling, AtPhase
<1>2. \A p \in Packs : packs[p] > Grace => packs[p] \in Int /\ packs[p] # Absent
  BY <1>0, PackAges, Numbers
<1>3. ASSUME UNCHANGED cycle, \A c \in Collectors : \A p \in Condemned(c) : packs'[p] = packs[p]
      PROVE  CondemnedAreOld'
  BY <1>3 DEF CondemnedAreOld, Condemned
<1>4. ASSUME NEW w \in Writers, Build(w) \/ Write(w) \/ GiveUp(w)
      PROVE  CondemnedAreOld'
  <2>1. CASE \E q \in Packs : PutPack(w, q)
    <3>1. PICK q \in Packs : PutPack(w, q)
      BY <2>1
    <3>2. PackTypeOK /\ CountersOK
      BY <1>0
    <3>3. /\ UNCHANGED cycle /\ \A p \in Packs : p # q => packs'[p] = packs[p]
          /\ packs'[q] = IF packs[q] = Absent THEN 0 ELSE packs[q]
      BY <3>1, <3>2, PutPackTypes
    <3>4. \A c \in Collectors : \A p \in Condemned(c) : packs[p] # Absent
      BY <1>1, <1>2 DEF CondemnedAreOld
    <3>5. \A c \in Collectors : \A p \in Condemned(c) : packs'[p] = packs[p]
      BY <1>1, <3>3, <3>4
    <3> QED
      BY <1>3, <3>3, <3>5
  <2>2. CASE \E q \in Packs : VerifyPack(w, q)
    <3>1. PICK q \in Packs : VerifyPack(w, q)
      BY <2>2
    <3>2. \A c \in Collectors : q \notin Condemned(c)
      BY <3>1 DEF VerifyPack
    <3>3. PackTypeOK /\ CountersOK
      BY <1>0
    <3>4. UNCHANGED cycle /\ \A p \in Packs : p # q => packs'[p] = packs[p]
      BY <3>1, <3>3, VerifyPackTypes
    <3> QED
      BY <1>1, <1>3, <3>2, <3>4
  <2>3. CASE Build(w) \/ Published(w) \/ PutManifest(w) \/ CreateMarker(w) \/ GiveUp(w)
    BY <1>0, <1>3, <2>3, BuildTypes, PublishedTypes, PutManifestTypes, CreateMarkerTypes, GiveUpTypes
  <2> QED
    BY <1>4, <2>1, <2>2, <2>3 DEF Write
<1>5. ASSUME NEW c \in Collectors, UNCHANGED packs, Condemned(c)' \subseteq Condemned(c)
      PROVE  CondemnedAreOld'
  <2>1. ASSUME NEW d \in Collectors, NEW p \in Condemned(d)' PROVE packs'[p] > Grace
    BY <1>5, <2>1 DEF CondemnedAreOld
  <2> QED
    BY <2>1 DEF CondemnedAreOld
<1>6. ASSUME NEW c \in Collectors, Sweep(c) \/ Abort(c)
      PROVE  CondemnedAreOld'
  <2>1. CASE \E q \in Packs : Delete(c, q)
    <3>1. Condemned(c)' = {}
      BY <1>0, <2>1, DeleteTypes DEF Condemned
    <3>2. \A d \in Collectors : Condemned(d)' = {}
      BY <3>1
    <3> QED
      BY <3>2 DEF CondemnedAreOld
  <2>2. CASE \E q \in Packs : Condemn(c, q)
    <3>1. PICK q \in Packs : Condemn(c, q)
      BY <2>2
    <3>2. cycle[c].now \in Nat /\ packs[q] - cycle[c].now > Grace
      <4>1. cycle[c] \in Cycling /\ StillCold(c, q)
        BY <1>0, <3>1, CondemnTypes DEF Condemn
      <4>2. cycle[c].now \in Nat
        BY <4>1, Numbers DEF Cycling
      <4>3. packs[q] \in Int /\ ~(packs[q] - cycle[c].now <= Grace)
        BY <1>0, <3>1, <4>1, PackAges DEF StillCold, Young, This
      <4> QED
        BY <4>2, <4>3, Numbers
    <3>3. packs[q] > Grace
      BY <1>0, <3>1, <3>2, PackAges, Numbers
    <3>4. Condemned(c)' = {q} /\ UNCHANGED packs
      BY <1>0, <3>1, CondemnTypes DEF Condemned
    <3>5. \A d \in Collectors : Condemned(d)' = {q}
      BY <3>4
    <3> QED
      BY <3>3, <3>4, <3>5 DEF CondemnedAreOld
  <2>3. CASE Finish(c) \/ Abort(c)
    BY <1>0, <1>5, <2>3, EndTypes, Shapes DEF Condemned
  <2>4. CASE \E q \in Packs : Spare(c, q)
    BY <1>0, <1>5, <2>4, SpareTypes DEF Condemned, AtPhase
  <2>5. CASE ListPayloads(c) \/ ListPacks(c) \/ Resolve(c) \/ Decide(c) \/ CommitLedger(c)
    BY <1>0, <1>5, <2>5, ListPayloadsTypes, ListPacksTypes, ResolveTypes, DecideTypes,
       CommitLedgerTypes, Shapes DEF Condemned
  <2>6. CASE ProbeAgain(c)
    <3>1. AtPhase(c, "rechecking") /\ cycle'[c].condemned = cycle[c].condemned /\ UNCHANGED packs
      BY <1>0, <2>6, ProbeAgainTypes
    <3>2. Condemned(c)' = {}
      BY <1>0, <2>6, <3>1, ProbeAgainTypes DEF Condemned, CondemnedOK, AtPhase, This
    <3> QED
      BY <1>5, <3>1, <3>2
  <2> QED
    BY <1>6, <2>1, <2>2, <2>3, <2>4, <2>5, <2>6 DEF Sweep
<1>7. CASE Tick
  <2> SUFFICES ASSUME NEW c \in Collectors, NEW p \in Condemned(c)' PROVE packs'[p] > Grace
    BY DEF CondemnedAreOld
  <2>1. p \in Condemned(c) /\ p \in Packs
    BY <1>0, <1>1, <1>7, TickTypes, Shapes DEF Condemned, AtPhase
  <2>2. packs[p] > Grace /\ packs[p] \in Absent..MaxAge /\ packs'[p] = Older(packs[p], MaxAge)
    <3>1. packs[p] > Grace
      BY <2>1 DEF CondemnedAreOld
    <3>2. packs[p] \in Absent..MaxAge
      BY <1>0, <2>1 DEF PackTypeOK, Ages
    <3>3. packs'[p] = Older(packs[p], MaxAge)
      BY <1>0, <1>7, <2>1, TickTypes
    <3> QED
      BY <3>1, <3>2, <3>3
  <2>3. packs[p] <= packs'[p] /\ packs'[p] \in Int
    <3>1. MaxAge \in Nat
      BY Numbers
    <3>2. packs'[p] \in Absent..MaxAge /\ packs[p] <= packs'[p]
      BY <2>2, <3>1, OlderAge
    <3> QED
      BY <3>1, <3>2, Numbers
  <2>4. packs[p] \in Int
    BY <2>2, Numbers
  <2> QED
    BY <2>2, <2>3, <2>4, Numbers
<1>8. CASE LoseLedger \/ UNCHANGED packVars
  BY <1>0, <1>3, <1>8, LoseLedgerTypes DEF packVars
<1> QED
  BY <1>4, <1>6, <1>7, <1>8 DEF Next

\* With a single collector, which is what the lease is for, no delete hits a pack
\* younger than the grace either.  (Two that have condemned the same pack may delete
\* it one after the other, and a writer may have put it back in between.)
THEOREM DeletesSafeUnderLease ==
    ASSUME Punctual, \A c, d \in Collectors : c = d
    PROVE  Spec => DeletesAreSafe
<1>1. Init => CondemnedAreOld
  <2>1. Init => \A c \in Collectors : Condemned(c) = {}
    BY Shapes DEF Init, Condemned
  <2> QED
    BY <2>1 DEF CondemnedAreOld
<1>2. PackInv /\ CondemnedAreOld /\ [Next]_packVars => CondemnedAreOld'
  BY CondemnedStayOld DEF Punctual
<1>3. PackInv /\ CondemnedAreOld /\ [Next]_packVars =>
          [\A p \in Packs : packs[p] # Absent /\ packs'[p] = Absent =>
               packs[p] > Grace /\ p \notin PacksOf(Won(Retained)) \cup Pending]_packVars
  <2> SUFFICES ASSUME PackInv, CondemnedAreOld, [Next]_packVars, NEW p \in Packs,
                      packs[p] # Absent, packs'[p] = Absent
               PROVE  packs[p] > Grace /\ p \notin Needed
    BY DEF Needed
  <2>1. PICK c \in Collectors : Delete(c, p)
    BY OnlyDeletes DEF PackInv
  <2>2. p \in Condemned(c)
    BY <2>1 DEF Delete, Condemned, This, AtPhase
  <2> QED
    BY <2>2 DEF PackInv, NeededOK, Shielded, CondemnedAreOld
<1> QED
  BY <1>1, <1>2, <1>3, PackInvariantHolds, PTL DEF Spec, DeletesAreSafe

============================================================================
