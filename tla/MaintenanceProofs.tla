------------------------- MODULE MaintenanceProofs -------------------------
(***************************************************************************)
(* Proofs about DataMaintenance: that no pass deletes a file that the head *)
(* or a transaction needs, and that a file is deleted long after its last  *)
(* use.  Both rest on one invariant, MaintenanceInv.                       *)
(***************************************************************************)
EXTENDS DataMaintenance, TLAPS

---------------------------------------------------------------------------
(* The inductive invariant *)

\* Every file a catalog names, and every catalog somebody may still work on.
Known(cat) == Reachable(cat) \cup Scheduled(cat)
Bases == {Generation0} \cup {base[w] : w \in Writers} \cup {mbase[m] : m \in Runners}
InPlay == {head.catalog} \cup {g.catalog : g \in Bases} \cup {work[m] : m \in Runners}

\* Where everybody is, and what that place implies.
PlacesOK ==
    /\ now \in 1..MaxTime
    /\ bucket \subseteq Files
    /\ written \in [Files -> 0..now] /\ used \in [Files -> 0..now]
    /\ head \in [number : Nat, catalog : Catalogs]
    /\ pc \in [Writers -> {"idle", "running", "staged"}]
    /\ base \in [Writers -> [number : Nat, catalog : Catalogs]]
    /\ staged \in [Writers -> SUBSET Files]
    /\ kind \in [Writers -> {"append", "rewrite"}]
    /\ phase \in [Runners -> {"idle", "probe", "begin", "clean", "orphans"}]
    /\ started \in [Runners -> 0..(now + MaxSkew)]
    /\ mbase \in [Runners -> [number : Nat, catalog : Catalogs]]
    /\ work \in [Runners -> Catalogs]
    /\ doomed \in [Runners -> SUBSET Files]
    /\ \A w \in Writers : pc[w] # "staged" => staged[w] = {}
    /\ \A m \in Runners : phase[m] \notin {"clean", "orphans"} => doomed[m] = {}

\* A catalog schedules no file that it can reach, and names files that were written.
CatalogsOK ==
    \A cat \in InPlay :
        /\ CatalogOK(cat)
        /\ \A f \in Known(cat) : written[f] # 0

\* A generation is as old as the head only if it is the head.
BasesOK ==
    \A g \in Bases : g.number <= head.number /\ (g.number = head.number => g = head)

\* A staged file is one writer's, is young and in the bucket, and no catalog names it.
StagedOK ==
    /\ \A w \in Writers : pc[w] = "staged" =>
          \E f \in bucket : staged[w] = {f} /\ now <= written[f] + MaxStage
    /\ \A v, w \in Writers : v # w => staged[v] \cap staged[w] = {}
    /\ \A w \in Writers, cat \in InPlay : staged[w] \cap Known(cat) = {}

\* The head's files are there; its schedule is later than their use; and a file
\* that was ever in use is deleted before the catalog forgets it.
HeadOK ==
    /\ Reachable(head.catalog) \subseteq bucket
    /\ \A r \in head.catalog.schedule : used[r.file] <= r.time
    /\ \A f \in bucket : written[f] # 0
    /\ \A f \in Files : used[f] # 0 => written[f] # 0
    /\ \A f \in bucket : used[f] # 0 => f \in Known(head.catalog)

\* A pass only forgets files that are gone.  What the head has come to know since
\* the pass began is too young to be an orphan.
PassOK(m) ==
    LET known == Known(mbase[m].catalog)
    IN /\ Reachable(work[m]) \subseteq Reachable(mbase[m].catalog)
       /\ work[m].newest = mbase[m].catalog.newest
       /\ known \cap bucket \subseteq Known(work[m]) /\ Known(work[m]) \subseteq known
       /\ phase[m] = "clean" =>
             \A r \in ToClean(m, work[m]) : r.file \in doomed[m] \/ r.file \notin bucket
       /\ \A f \in Known(head.catalog) \ known :
             started[m] <= written[f] + MaxStage + MaxSkew
       /\ mbase[m].number = head.number =>
             \A r \in work[m].schedule : used[r.file] <= r.time

PassesOK == \A m \in Runners : phase[m] \in {"clean", "orphans"} => PassOK(m)

\* What a CALL has yet to delete is neither reachable nor about to be, and was
\* last used long ago.
DoomedOK ==
    \A m \in Runners : \A f \in doomed[m] :
        /\ written[f] # 0
        /\ f \notin Reachable(head.catalog)
        /\ \A w \in Writers : f \notin staged[w]
        /\ used[f] # 0 => now + MaxSkew > used[f] + Delay

MaintenanceInv ==
    /\ PlacesOK /\ CatalogsOK /\ BasesOK /\ StagedOK
    /\ HeadOK /\ PassesOK /\ DoomedOK

---------------------------------------------------------------------------
(* Catalogs *)

\* The parameters are numbers, and the first moment is one of the model's.
LEMMA Numbers ==
    /\ ExpireAge \in Nat /\ Delay \in Nat /\ MaxStage \in Nat /\ MaxSkew \in Nat
    /\ MaxTime \in Nat /\ 1 <= MaxTime /\ MaxStage + MaxSkew <= Delay
    /\ \A t : t \in Times <=> t \in Nat /\ t <= MaxTime + MaxSkew
<1>1. /\ ExpireAge \in Nat /\ Delay \in Nat /\ MaxStage \in Nat /\ MaxSkew \in Nat
      /\ MaxTime \in Nat /\ MaxTime # 0 /\ MaxStage + MaxSkew <= Delay
  BY MaintenanceAssumption
<1> QED
  BY <1>1 DEF Times

\* The catalog of an empty lake names nothing.
LEMMA EmptyNamesNothing ==
    /\ Empty \in Catalogs /\ CatalogOK(Empty) /\ Known(Empty) = {}
    /\ Generation0 \in [number : Nat, catalog : Catalogs]
    /\ Generation0.number = 0 /\ Generation0.catalog = Empty
<1>1. NoFiles \in Snapshots /\ NoFiles.files = {}
  BY MaintenanceAssumption DEF NoFiles, Snapshots, Times
<1>2. Empty \in Catalogs
  BY <1>1 DEF Empty, Catalogs, Schedules
<1>3. /\ Empty.snapshots = {NoFiles} /\ Empty.newest = NoFiles
      /\ Empty.schedule = {}
  BY DEF Empty
<1>4. Reachable(Empty) = {} /\ Scheduled(Empty) = {}
  BY <1>1, <1>3 DEF Reachable, Scheduled
<1> QED
  BY <1>2, <1>3, <1>4 DEF CatalogOK, Known, Generation0, Catalogs

\* A transaction adds its file to what the catalog reaches, and schedules nothing.
LEMMA WrittenCatalog ==
    ASSUME MaintenanceInv, NEW w \in Writers, pc[w] = "staged"
    PROVE  LET old == base[w].catalog
               new == Written(w)
           IN /\ CatalogOK(new)
              /\ Reachable(new) = Reachable(old) \cup staged[w]
              /\ new.schedule = old.schedule
<1> DEFINE old == base[w].catalog
           new == Written(w)
           kept == IF kind[w] = "append" THEN old.newest.files ELSE {}
           snapshot == [files |-> kept \cup staged[w],
                        time |-> written[CHOOSE f \in staged[w] : TRUE]]
<1>1. old \in InPlay /\ base[w] \in [number : Nat, catalog : Catalogs]
  BY DEF MaintenanceInv, PlacesOK, InPlay, Bases
<1>2. CatalogOK(old) /\ staged[w] \cap Known(old) = {}
  BY <1>1 DEF MaintenanceInv, CatalogsOK, StagedOK
<1>3. PICK f \in Files : staged[w] = {f}
  BY DEF MaintenanceInv, StagedOK, PlacesOK
<1>4. written[CHOOSE g \in staged[w] : TRUE] \in Times
  <2>1. (CHOOSE g \in staged[w] : TRUE) = f
    BY <1>3
  <2> QED
    BY <1>3, <2>1, Numbers DEF MaintenanceInv, PlacesOK
<1>5. kept \subseteq old.newest.files /\ old.newest \in Snapshots
      /\ old.newest \in old.snapshots
  BY <1>2 DEF CatalogOK
<1>6. snapshot \in Snapshots
  BY <1>3, <1>4, <1>5 DEF Snapshots
<1>7. new = [old EXCEPT !.newest = snapshot, !.snapshots = @ \cup {snapshot}]
  BY DEF Written
<1>8. /\ new \in [snapshots : SUBSET Snapshots, newest : Snapshots, schedule : SUBSET Schedules]
      /\ new.newest = snapshot /\ new.snapshots = old.snapshots \cup {snapshot}
      /\ new.schedule = old.schedule
  <2>1. old \in [snapshots : SUBSET Snapshots, newest : Snapshots, schedule : SUBSET Schedules]
    BY <1>2 DEF CatalogOK
  <2> HIDE DEF snapshot, old, new
  <2>2. new = [old EXCEPT !.newest = snapshot, !.snapshots = @ \cup {snapshot}]
    BY <1>7 DEF old, new, snapshot
  <2> QED
    BY <1>6, <2>1, <2>2
<1>9. Reachable(new) = Reachable(old) \cup snapshot.files
  BY <1>8 DEF Reachable
<1>10. Reachable(new) = Reachable(old) \cup staged[w]
  BY <1>5, <1>9 DEF Reachable
<1>11. Scheduled(new) = Scheduled(old)
  BY <1>8 DEF Scheduled
<1> HIDE DEF new, old, snapshot
<1>12. CatalogOK(new)
  BY <1>2, <1>8, <1>10, <1>11 DEF CatalogOK, Known
<1> QED
  BY <1>8, <1>10, <1>12 DEF old, new

\* expire_snapshots forgets no file: what no snapshot sees any more is scheduled.
LEMMA ExpiredCatalog ==
    ASSUME NEW m \in Runners, NEW cat, CatalogOK(cat), NEW t \in Times
    PROVE  LET new == Expired(m, cat, t)
           IN /\ CatalogOK(new)
              /\ new.newest = cat.newest
              /\ Reachable(new) \subseteq Reachable(cat)
              /\ Known(new) = Known(cat)
              /\ \A r \in new.schedule : \/ r \in cat.schedule
                                         \/ r.time = t /\ r.file \notin Reachable(new)
<1> DEFINE new == Expired(m, cat, t)
           kept == cat.snapshots \ Expirable(m, cat)
           gone == Exclusive(cat.snapshots, kept)
           rows == {[file |-> f, time |-> t] : f \in gone}
<1>1. /\ cat \in [snapshots : SUBSET Snapshots, newest : Snapshots, schedule : SUBSET Schedules]
      /\ cat.newest \in cat.snapshots
      /\ Reachable(cat) \cap Scheduled(cat) = {}
  BY DEF CatalogOK
<1>2. cat.newest \in kept /\ kept \subseteq cat.snapshots
  BY <1>1 DEF Expirable
<1>3. new = [cat EXCEPT !.snapshots = kept, !.schedule = @ \cup rows]
  BY DEF Expired
<1>4. gone = Reachable(cat) \ (UNION {s.files : s \in kept}) /\ gone \subseteq Files
  <2>1. gone = Reachable(cat) \ (UNION {s.files : s \in kept})
    BY DEF Exclusive, Reachable
  <2>2. \A s \in cat.snapshots : s.files \subseteq Files
    BY <1>1 DEF Snapshots
  <2>3. Reachable(cat) \subseteq Files
    BY <2>2 DEF Reachable
  <2>4. gone \subseteq Reachable(cat)
    BY DEF Exclusive, Reachable
  <2>5. gone \subseteq Files
    BY <2>3, <2>4
  <2> QED
    BY <2>1, <2>5
<1> HIDE DEF kept, gone
<1>5. rows \subseteq Schedules
  BY <1>4 DEF Schedules
<1>6. /\ new \in [snapshots : SUBSET Snapshots, newest : Snapshots, schedule : SUBSET Schedules]
      /\ new.snapshots = kept /\ new.newest = cat.newest
      /\ new.schedule = cat.schedule \cup rows
  <2> HIDE DEF rows, new
  <2> QED
    BY <1>1, <1>2, <1>3, <1>5
<1>7. Reachable(new) = UNION {s.files : s \in kept}
  BY <1>6 DEF Reachable
<1>8. gone = Reachable(cat) \ Reachable(new)
  BY <1>4, <1>7
<1>9. Reachable(new) \subseteq Reachable(cat)
  BY <1>2, <1>7 DEF Reachable
<1>10. Scheduled(new) = Scheduled(cat) \cup gone
  <2>1. \A f \in gone : \E r \in rows : r.file = f
    <3>1. \A f \in gone : [file |-> f, time |-> t] \in rows /\ [file |-> f, time |-> t].file = f
      OBVIOUS
    <3> QED
      BY <3>1
  <2>2. \A r \in rows : r.file \in gone
    OBVIOUS
  <2> HIDE DEF rows, new
  <2>3. \A f \in Scheduled(new) : f \in Scheduled(cat) \/ f \in gone
    BY <1>6, <2>2 DEF Scheduled
  <2>4. \A f : f \in Scheduled(cat) \/ f \in gone => f \in Scheduled(new)
    BY <1>6, <2>1 DEF Scheduled
  <2> QED
    BY <2>3, <2>4
<1> HIDE DEF new
<1>11. CatalogOK(new)
  BY <1>1, <1>2, <1>6, <1>8, <1>9, <1>10 DEF CatalogOK
<1>12. Known(new) = Known(cat)
  BY <1>8, <1>9, <1>10 DEF Known
<1>13. \A r \in new.schedule : \/ r \in cat.schedule
                               \/ r.time = t /\ r.file \notin Reachable(new)
  BY <1>6, <1>8
<1> QED
  BY <1>6, <1>9, <1>11, <1>12, <1>13 DEF new

\* A catalog without some of the rows of its deletion schedule.
Cleaned(cat, rows) == [cat EXCEPT !.schedule = @ \ rows]

\* cleanup_old_files forgets the rows whose files it has deleted, and nothing else.
LEMMA CleanedCatalog ==
    ASSUME NEW cat, CatalogOK(cat), NEW rows
    PROVE  /\ CatalogOK(Cleaned(cat, rows))
           /\ Cleaned(cat, rows).newest = cat.newest
           /\ Cleaned(cat, rows).schedule = cat.schedule \ rows
           /\ Reachable(Cleaned(cat, rows)) = Reachable(cat)
           /\ Known(Cleaned(cat, rows)) \subseteq Known(cat)
           /\ \A f \in Known(cat) \ Known(Cleaned(cat, rows)) : \E r \in rows : r.file = f
<1> DEFINE new == Cleaned(cat, rows)
<1>1. /\ cat \in [snapshots : SUBSET Snapshots, newest : Snapshots, schedule : SUBSET Schedules]
      /\ cat.newest \in cat.snapshots
      /\ Reachable(cat) \cap Scheduled(cat) = {}
  BY DEF CatalogOK
<1>2. /\ new \in [snapshots : SUBSET Snapshots, newest : Snapshots, schedule : SUBSET Schedules]
      /\ new.snapshots = cat.snapshots /\ new.newest = cat.newest
      /\ new.schedule = cat.schedule \ rows
  BY <1>1 DEF Cleaned
<1>3. Reachable(new) = Reachable(cat)
  BY <1>2 DEF Reachable
<1>4. Scheduled(new) \subseteq Scheduled(cat)
  BY <1>2 DEF Scheduled
<1>5. \A f \in Scheduled(cat) \ Scheduled(new) : \E r \in rows : r.file = f
  BY <1>2 DEF Scheduled
<1> HIDE DEF new
<1>6. CatalogOK(new)
  BY <1>1, <1>2, <1>3, <1>4 DEF CatalogOK
<1>7. /\ Known(new) \subseteq Known(cat)
      /\ \A f \in Known(cat) \ Known(new) : \E r \in rows : r.file = f
  BY <1>3, <1>4, <1>5 DEF Known
<1> QED
  BY <1>2, <1>3, <1>6, <1>7 DEF new

---------------------------------------------------------------------------
(* The conjuncts of the invariant that many steps leave alone *)

\* The bases and the catalogs in play, one by one.
LEMMA Players ==
    /\ Generation0 \in Bases
    /\ \A w \in Writers : base[w] \in Bases
    /\ \A m \in Runners : mbase[m] \in Bases
    /\ head.catalog \in InPlay
    /\ \A g \in Bases : g.catalog \in InPlay
    /\ \A m \in Runners : work[m] \in InPlay
<1> QED
  BY DEF Bases, InPlay

\* Where a base, or a catalog in play, comes from when each base is an earlier one
\* or the head of before the step.
LEMMA BasesOnlyFromHead ==
    ASSUME \A w \in Writers : base'[w] \in Bases \cup {head},
           \A m \in Runners : mbase'[m] \in Bases \cup {head}
    PROVE  /\ Bases' \subseteq Bases \cup {head}
           /\ \A g \in Bases' : g.catalog \in InPlay
<1>1. Bases' \subseteq Bases \cup {head}
  BY Players DEF Bases
<1> QED
  BY <1>1, Players

\* A writer that takes the head for its base, or none, adds no other base.
LEMMA WriterTakesBase ==
    ASSUME base \in [Writers -> [number : Nat, catalog : Catalogs]], mbase' = mbase,
           NEW w \in Writers, NEW g \in {Generation0, head}, base' = [base EXCEPT ![w] = g]
    PROVE  /\ Bases' \subseteq Bases \cup {head}
           /\ \A b \in Bases' : b.catalog \in InPlay
<1>1. \A v \in Writers : base'[v] = IF v = w THEN g ELSE base[v]
  OBVIOUS
<1>2. \A v \in Writers : base'[v] \in Bases \cup {head}
  BY <1>1, Players
<1>3. \A m \in Runners : mbase'[m] \in Bases \cup {head}
  BY Players
<1> QED
  BY <1>2, <1>3, BasesOnlyFromHead

\* A step that keeps the head keeps what is known of its age.
LEMMA BasesStay ==
    ASSUME PlacesOK, BasesOK, head' = head, Bases' \subseteq Bases \cup {head}
    PROVE  BasesOK'
<1> QED
  BY DEF BasesOK, PlacesOK

\* A new head is younger than every base there is.
LEMMA BasesAge ==
    ASSUME PlacesOK, BasesOK, head'.number = head.number + 1,
           Bases' \subseteq Bases \cup {head}
    PROVE  BasesOK'
<1>1. head.number \in Nat
  BY DEF PlacesOK
<1>2. \A g \in Bases : g.number \in Nat
  BY EmptyNamesNothing DEF PlacesOK, Bases
<1>3. \A g \in Bases' : g.number \in Nat /\ g.number <= head.number
  BY <1>1, <1>2 DEF BasesOK
<1> QED
  BY <1>1, <1>3 DEF BasesOK

\* A new catalog in play that is sound keeps all of them sound.
LEMMA CatalogsStay ==
    ASSUME CatalogsOK, NEW new, InPlay' \subseteq InPlay \cup {new},
           CatalogOK(new), \A f \in Known(new) : written[f] # 0,
           \A f : written[f] # 0 => written'[f] # 0
    PROVE  CatalogsOK'
<1> QED
  BY DEF CatalogsOK

\* A step that stages nothing keeps what is known of staged files.
LEMMA StagedStay ==
    ASSUME StagedOK, NEW new, InPlay' \subseteq InPlay \cup {new},
           \A v \in Writers : staged'[v] \subseteq staged[v],
           \A v \in Writers : pc'[v] = "staged" => pc[v] = "staged" /\ staged'[v] = staged[v],
           \A v \in Writers : staged'[v] \subseteq bucket',
           \A v \in Writers : staged'[v] \cap Known(new) = {},
           written' = written, now' = now
    PROVE  StagedOK'
<1>1. \A v \in Writers : pc'[v] = "staged" =>
          \E f \in bucket' : staged'[v] = {f} /\ now' <= written'[f] + MaxStage
  <2> SUFFICES ASSUME NEW v \in Writers, pc'[v] = "staged"
               PROVE  \E f \in bucket' : staged'[v] = {f} /\ now' <= written'[f] + MaxStage
    OBVIOUS
  <2>1. PICK f \in bucket : staged[v] = {f} /\ now <= written[f] + MaxStage
    BY DEF StagedOK
  <2> QED
    BY <2>1
<1>2. \A v, w \in Writers : v # w => staged'[v] \cap staged'[w] = {}
  BY DEF StagedOK
<1>3. \A v \in Writers, cat \in InPlay' : staged'[v] \cap Known(cat) = {}
  BY DEF StagedOK
<1> QED
  BY <1>1, <1>2, <1>3 DEF StagedOK

\* A step of a writer that leaves the store and the head alone disturbs no pass.
LEMMA PassesStay ==
    ASSUME PassesOK, UNCHANGED <<head, bucket, written, used, runnerVars>>
    PROVE  PassesOK'
<1>1. \A m \in Runners : PassOK(m) => PassOK(m)'
  BY DEF PassOK, runnerVars, ToClean, Cleanable, Older
<1> QED
  BY <1>1 DEF PassesOK, runnerVars

LEMMA DoomedStay ==
    ASSUME DoomedOK, UNCHANGED <<head, written, used, now>>,
           \A w \in Writers : staged'[w] \subseteq staged[w],
           \A m \in Runners : doomed'[m] \subseteq doomed[m]
    PROVE  DoomedOK'
<1> QED
  BY DEF DoomedOK

LEMMA HeadStays ==
    ASSUME HeadOK, UNCHANGED <<head, bucket, written, used>>
    PROVE  HeadOK'
<1> QED
  BY DEF HeadOK

---------------------------------------------------------------------------
(* The steps of a writer *)

LEMMA InitInvariant == Init => MaintenanceInv
<1> SUFFICES ASSUME Init PROVE MaintenanceInv
  OBVIOUS
<1>1. PlacesOK
  BY EmptyNamesNothing, Numbers DEF PlacesOK, Init
<1>2. Bases \subseteq {Generation0} /\ InPlay \subseteq {Empty}
  BY EmptyNamesNothing DEF Bases, InPlay, Init
<1>3. CatalogsOK
  BY <1>2, EmptyNamesNothing DEF CatalogsOK
<1>4. BasesOK
  BY <1>2, EmptyNamesNothing DEF BasesOK, Init
<1>5. StagedOK
  BY EmptyNamesNothing DEF StagedOK, Init
<1>6. HeadOK
  <2>1. Reachable(Empty) = {} /\ Empty.schedule = {} /\ head.catalog = Empty
    BY EmptyNamesNothing DEF Known, Empty, Init
  <2> QED
    BY <2>1 DEF HeadOK, Init
<1>7. PassesOK /\ DoomedOK
  BY DEF PassesOK, DoomedOK, Init
<1> QED
  BY <1>1, <1>3, <1>4, <1>5, <1>6, <1>7 DEF MaintenanceInv

LEMMA BeginKeeps ==
    ASSUME MaintenanceInv, NEW w \in Writers, Begin(w)
    PROVE  MaintenanceInv'
<1> USE DEF MaintenanceInv
<1>1. PlacesOK'
  BY DEF PlacesOK, Begin, Goto, runnerVars
<1>2. Bases' \subseteq Bases \cup {head} /\ \A g \in Bases' : g.catalog \in InPlay
  <2>1. /\ base \in [Writers -> [number : Nat, catalog : Catalogs]] /\ mbase' = mbase
        /\ base' = [base EXCEPT ![w] = head]
    BY DEF Begin, PlacesOK, runnerVars
  <2> HIDE DEF MaintenanceInv
  <2> QED
    BY <2>1, WriterTakesBase
<1>3. InPlay' \subseteq InPlay \cup {Empty}
  BY <1>2, Players DEF InPlay, Begin, runnerVars
<1>4. CatalogsOK'
  BY <1>3, CatalogsStay, EmptyNamesNothing DEF Begin
<1>5. BasesOK'
  BY <1>2, BasesStay DEF Begin
<1>6. StagedOK'
  <2>1. \A v \in Writers : staged[v] \subseteq bucket
    BY DEF StagedOK, PlacesOK
  <2>2. \A v \in Writers : pc'[v] = "staged" => pc[v] = "staged"
    BY DEF Begin, Goto, PlacesOK
  <2> QED
    BY <1>3, <2>1, <2>2, StagedStay, EmptyNamesNothing DEF Begin
<1>7. HeadOK' /\ PassesOK' /\ DoomedOK'
  BY HeadStays, PassesStay, DoomedStay DEF Begin, runnerVars
<1> QED
  BY <1>1, <1>4, <1>5, <1>6, <1>7

LEMMA AbandonKeeps ==
    ASSUME MaintenanceInv, NEW w \in Writers, Abandon(w)
    PROVE  MaintenanceInv'
<1> USE DEF MaintenanceInv
<1>1. PlacesOK'
  BY EmptyNamesNothing DEF PlacesOK, Abandon, EndTransaction, Goto, runnerVars
<1>2. Bases' \subseteq Bases \cup {head} /\ \A g \in Bases' : g.catalog \in InPlay
  <2>1. /\ base \in [Writers -> [number : Nat, catalog : Catalogs]] /\ mbase' = mbase
        /\ base' = [base EXCEPT ![w] = Generation0]
    BY DEF Abandon, EndTransaction, PlacesOK, runnerVars
  <2> HIDE DEF MaintenanceInv
  <2> QED
    BY <2>1, WriterTakesBase
<1>3. InPlay' \subseteq InPlay \cup {Empty}
  BY <1>2, Players DEF InPlay, Abandon, runnerVars
<1>4. CatalogsOK'
  BY <1>3, CatalogsStay, EmptyNamesNothing DEF Abandon
<1>5. BasesOK'
  BY <1>2, BasesStay DEF Abandon
<1>6. \A v \in Writers : staged'[v] = IF v = w THEN {} ELSE staged[v]
  BY DEF Abandon, EndTransaction, PlacesOK
<1>7. StagedOK'
  <2>1. \A v \in Writers : staged[v] \subseteq bucket
    BY DEF StagedOK, PlacesOK
  <2>2. \A v \in Writers : pc'[v] = "staged" => pc[v] = "staged" /\ v # w
    BY DEF Abandon, EndTransaction, Goto, PlacesOK
  <2> QED
    BY <1>3, <1>6, <2>1, <2>2, StagedStay, EmptyNamesNothing DEF Abandon
<1>8. HeadOK' /\ PassesOK' /\ DoomedOK'
  BY <1>6, HeadStays, PassesStay, DoomedStay DEF Abandon, runnerVars
<1> QED
  BY <1>1, <1>4, <1>5, <1>7, <1>8

\* A new file belongs to nobody and to no catalog.
LEMMA StageKeeps ==
    ASSUME MaintenanceInv, NEW w \in Writers, Stage(w)
    PROVE  MaintenanceInv'
<1> USE DEF MaintenanceInv
<1>1. PICK f \in Files :
        /\ f \notin bucket /\ written[f] = 0
        /\ bucket' = bucket \cup {f}
        /\ written' = [written EXCEPT ![f] = now]
        /\ staged' = [staged EXCEPT ![w] = {f}]
  BY DEF Stage
<1>2. now \in Nat /\ now # 0 /\ written'[f] = now
      /\ \A g \in Files : g # f => written'[g] = written[g]
  BY <1>1, Numbers DEF PlacesOK
<1>3. /\ \A v \in Writers : staged'[v] = IF v = w THEN {f} ELSE staged[v]
      /\ \A v \in Writers : pc'[v] = IF v = w THEN "staged" ELSE pc[v]
  BY <1>1 DEF Stage, Goto, PlacesOK
<1>4. PlacesOK'
  <2>1. written' \in [Files -> 0..now']
    BY <1>1, <1>2 DEF PlacesOK, Stage
  <2> QED
    BY <1>1, <1>3, <2>1 DEF PlacesOK, Stage, Goto, runnerVars
<1>5. InPlay' = InPlay /\ Bases' = Bases
  BY DEF InPlay, Bases, Stage, runnerVars
<1>6. \A cat \in InPlay : f \notin Known(cat) /\ Known(cat) \subseteq Files
  <2> SUFFICES ASSUME NEW cat \in InPlay
               PROVE  f \notin Known(cat) /\ Known(cat) \subseteq Files
    OBVIOUS
  <2>1. /\ cat \in [snapshots : SUBSET Snapshots, newest : Snapshots, schedule : SUBSET Schedules]
        /\ f \notin Known(cat)
    BY <1>1 DEF CatalogsOK, CatalogOK
  <2> QED
    BY <2>1 DEF Known, Reachable, Scheduled, Snapshots, Schedules
<1>7. CatalogsOK'
  BY <1>2, <1>5, <1>6 DEF CatalogsOK
<1>8. BasesOK'
  BY <1>5 DEF BasesOK, Stage
<1>9. StagedOK'
  <2>1. \A v \in Writers : staged[v] \subseteq bucket
    BY DEF StagedOK, PlacesOK
  <2>2. now' <= written'[f] + MaxStage
    BY <1>2, Numbers DEF Stage
  <2>3. \A v \in Writers : pc'[v] = "staged" =>
            \E g \in bucket' : staged'[v] = {g} /\ now' <= written'[g] + MaxStage
    <3> SUFFICES ASSUME NEW v \in Writers, v # w, pc[v] = "staged"
                 PROVE  \E g \in bucket' : staged'[v] = {g} /\ now' <= written'[g] + MaxStage
      BY <1>1, <1>3, <2>2
    <3>1. PICK g \in bucket : staged[v] = {g} /\ now <= written[g] + MaxStage
      BY DEF StagedOK
    <3>2. g # f /\ g \in Files
      BY <1>1 DEF PlacesOK
    <3> QED
      BY <1>1, <1>2, <1>3, <3>1, <3>2 DEF Stage
  <2>4. \A u, v \in Writers : u # v => staged'[u] \cap staged'[v] = {}
    BY <1>1, <1>3, <2>1 DEF StagedOK
  <2>5. \A v \in Writers, cat \in InPlay' : staged'[v] \cap Known(cat) = {}
    BY <1>3, <1>5, <1>6 DEF StagedOK
  <2> QED
    BY <2>3, <2>4, <2>5 DEF StagedOK
<1>10. HeadOK'
  <2>1. f \notin Known(head.catalog)
    BY <1>6, Players
  <2>2. used' = used /\ head' = head
    BY DEF Stage
  <2>3. \A g \in bucket' : written'[g] # 0
    BY <1>1, <1>2 DEF HeadOK, PlacesOK
  <2>4. used[f] = 0 /\ \A g \in Files : used'[g] # 0 => written'[g] # 0
    BY <1>1, <1>2, <2>2 DEF HeadOK
  <2> QED
    BY <1>1, <2>1, <2>2, <2>3, <2>4 DEF HeadOK
<1>11. PassesOK'
  <2> SUFFICES ASSUME NEW m \in Runners, phase[m] \in {"clean", "orphans"}
               PROVE  PassOK(m)'
    BY DEF PassesOK, Stage, runnerVars
  <2>1. PassOK(m) /\ UNCHANGED <<head, used, runnerVars>>
    BY DEF PassesOK, Stage
  <2>2. /\ f \notin Known(mbase[m].catalog) /\ f \notin Known(work[m])
        /\ f \notin Known(head.catalog) /\ Known(head.catalog) \subseteq Files
    BY <1>6, Players
  <2>3. \A r \in work[m].schedule : r.file # f
    BY <2>2 DEF Known, Scheduled
  <2>4. ToClean(m, work[m])' = ToClean(m, work[m]) /\ ToClean(m, work[m]) \subseteq work[m].schedule
    BY <2>1 DEF ToClean, Cleanable, Older, runnerVars
  <2> QED
    BY <1>1, <1>2, <2>1, <2>2, <2>3, <2>4 DEF PassOK, runnerVars
<1>12. DoomedOK'
  <2> SUFFICES ASSUME NEW m \in Runners, NEW g \in doomed[m]
               PROVE  /\ written'[g] # 0
                      /\ g \notin Reachable(head'.catalog)
                      /\ \A v \in Writers : g \notin staged'[v]
                      /\ used'[g] # 0 => now' + MaxSkew > used'[g] + Delay
    BY DEF DoomedOK, Stage, runnerVars
  <2>1. g # f /\ g \in Files
    BY <1>1 DEF DoomedOK, PlacesOK
  <2> QED
    BY <1>2, <1>3, <2>1 DEF DoomedOK, Stage
<1> QED
  BY <1>4, <1>7, <1>8, <1>9, <1>10, <1>11, <1>12

\* The CAS of a writer is lost: what it staged is forgotten, and nobody else's.
LEMMA LostCommitKeeps ==
    ASSUME MaintenanceInv, NEW w \in Writers, Commit(w), head' = head
    PROVE  MaintenanceInv'
<1> USE DEF MaintenanceInv
<1>1. /\ UNCHANGED <<now, bucket, written, used, runnerVars>>
      /\ \/ EndTransaction(w)
         \/ /\ base' = [base EXCEPT ![w] = head]
            /\ staged' = [staged EXCEPT ![w] = {}]
            /\ Goto(w, "running") /\ kind' = kind
  <2>1. head.number \in Nat /\ head'.number = head.number
    BY DEF PlacesOK
  <2>2. ~Land(Written(w))
    BY <2>1 DEF Land
  <2> QED
    BY <2>2 DEF Commit
<1>2. /\ base'[w] \in {Generation0, head} /\ staged'[w] = {} /\ pc'[w] # "staged"
      /\ base' = [base EXCEPT ![w] = base'[w]]
      /\ staged' = [staged EXCEPT ![w] = {}]
      /\ pc' = [pc EXCEPT ![w] = pc'[w]] /\ pc'[w] \in {"idle", "running"}
      /\ kind' \in [Writers -> {"append", "rewrite"}]
      /\ base' \in [Writers -> [number : Nat, catalog : Catalogs]]
      /\ pc' \in [Writers -> {"idle", "running", "staged"}]
      /\ staged' \in [Writers -> SUBSET Files]
      /\ \A v \in Writers : pc'[v] # "staged" => staged'[v] = {}
  <2>1. CASE EndTransaction(w)
    BY <2>1, EmptyNamesNothing DEF EndTransaction, Goto, PlacesOK
  <2>2. CASE /\ base' = [base EXCEPT ![w] = head]
             /\ staged' = [staged EXCEPT ![w] = {}]
             /\ Goto(w, "running") /\ kind' = kind
    BY <2>2 DEF Goto, PlacesOK
  <2> QED
    BY <1>1, <2>1, <2>2
<1>3. PlacesOK'
  <2>1. UNCHANGED <<now, bucket, written, used, head, runnerVars>>
    BY <1>1
  <2> QED
    BY <1>2, <2>1 DEF PlacesOK, runnerVars
<1>4. Bases' \subseteq Bases \cup {head} /\ \A g \in Bases' : g.catalog \in InPlay
  <2>1. base \in [Writers -> [number : Nat, catalog : Catalogs]] /\ mbase' = mbase
    BY <1>1 DEF PlacesOK, runnerVars
  <2>2. base'[w] \in {Generation0, head} /\ base' = [base EXCEPT ![w] = base'[w]]
    BY <1>2
  <2> HIDE DEF MaintenanceInv
  <2> QED
    BY <2>1, <2>2, WriterTakesBase
<1>5. InPlay' \subseteq InPlay \cup {Empty}
  BY <1>1, <1>4, Players DEF InPlay, runnerVars
<1>6. CatalogsOK'
  BY <1>1, <1>5, CatalogsStay, EmptyNamesNothing
<1>7. BasesOK'
  BY <1>4, BasesStay
<1>8. \A v \in Writers : staged'[v] = IF v = w THEN {} ELSE staged[v]
  BY <1>2 DEF PlacesOK
<1>9. StagedOK'
  <2>1. \A v \in Writers : staged[v] \subseteq bucket
    BY DEF StagedOK, PlacesOK
  <2>2. \A v \in Writers : pc'[v] = "staged" => pc[v] = "staged" /\ v # w
    BY <1>2 DEF PlacesOK
  <2> QED
    BY <1>1, <1>5, <1>8, <2>1, <2>2, StagedStay, EmptyNamesNothing
<1>10. HeadOK' /\ PassesOK' /\ DoomedOK'
  BY <1>1, <1>8, HeadStays, PassesStay, DoomedStay DEF runnerVars
<1> QED
  BY <1>3, <1>6, <1>7, <1>9, <1>10

\* The CAS is won: the head now knows the writer's file as well.
LEMMA WonCommitKeeps ==
    ASSUME MaintenanceInv, NEW w \in Writers, pc[w] = "staged",
           head.number = base[w].number, Land(Written(w)), EndTransaction(w),
           UNCHANGED <<now, bucket, written, runnerVars>>
    PROVE  MaintenanceInv'
<1> USE DEF MaintenanceInv
<1> DEFINE new == Written(w)
           old == head.catalog
<1>1. base[w] = head
  BY Players DEF BasesOK
<1>2. /\ CatalogOK(new)
      /\ Reachable(new) = Reachable(old) \cup staged[w]
      /\ new.schedule = old.schedule
  BY <1>1, WrittenCatalog
<1>3. Known(new) = Known(old) \cup staged[w]
  BY <1>2 DEF Known, Scheduled
<1> HIDE DEF new
<1>4. head' = [number |-> head.number + 1, catalog |-> new]
      /\ head.number \in Nat /\ head'.number = head.number + 1 /\ head'.catalog = new
  BY DEF Land, new, PlacesOK
<1>5. PICK f \in bucket : staged[w] = {f} /\ now <= written[f] + MaxStage
  BY DEF StagedOK
<1>6. f \in Files /\ written[f] # 0 /\ now \in Nat
  BY <1>5, Numbers DEF HeadOK, PlacesOK
<1>7. /\ used' \in [Files -> 0..now]
      /\ \A g \in Files : g \notin old.newest.files => used'[g] = used[g]
      /\ \A g \in Files : used'[g] # 0 => used[g] # 0 \/ g \in old.newest.files
  BY <1>6 DEF Land, PlacesOK
<1>8. old.newest.files \subseteq Reachable(old) /\ Known(old) \subseteq Files
      /\ Reachable(old) \cap Scheduled(old) = {}
  <2>1. CatalogOK(old)
    BY Players DEF CatalogsOK
  <2> QED
    BY <2>1 DEF CatalogOK, Known, Reachable, Scheduled, Snapshots, Schedules
<1>9. \A g \in Known(old) : written[g] # 0
  BY Players DEF CatalogsOK
<1>10. PlacesOK'
  <2>1. head' \in [number : Nat, catalog : Catalogs]
    BY <1>2, <1>4 DEF CatalogOK, Catalogs
  <2> QED
    BY <1>7, <2>1, EmptyNamesNothing DEF PlacesOK, EndTransaction, Goto, runnerVars
<1>11. Bases' \subseteq Bases \cup {head} /\ \A g \in Bases' : g.catalog \in InPlay
  <2>1. /\ base \in [Writers -> [number : Nat, catalog : Catalogs]] /\ mbase' = mbase
        /\ base' = [base EXCEPT ![w] = Generation0]
    BY DEF EndTransaction, PlacesOK, runnerVars
  <2> HIDE DEF MaintenanceInv
  <2> QED
    BY <2>1, WriterTakesBase
<1>12. InPlay' \subseteq InPlay \cup {new}
  BY <1>4, <1>11, Players DEF InPlay, runnerVars
<1>13. CatalogsOK'
  BY <1>2, <1>3, <1>5, <1>6, <1>9, <1>12, CatalogsStay
<1>14. BasesOK'
  BY <1>4, <1>11, BasesAge
<1>15. \A v \in Writers : staged'[v] = IF v = w THEN {} ELSE staged[v]
  BY DEF EndTransaction, PlacesOK
<1>16. StagedOK'
  <2>1. \A v \in Writers : staged[v] \subseteq bucket
    BY DEF StagedOK, PlacesOK
  <2>2. \A v \in Writers : pc'[v] = "staged" => pc[v] = "staged" /\ v # w
    BY DEF EndTransaction, Goto, PlacesOK
  <2>3. \A v \in Writers : staged'[v] \cap Known(new) = {}
    BY <1>3, <1>15, Players DEF StagedOK
  <2> QED
    BY <1>12, <1>15, <2>1, <2>2, <2>3, StagedStay
<1>17. HeadOK'
  <2>1. Reachable(new) \subseteq bucket
    BY <1>2, <1>5 DEF HeadOK
  <2>2. \A r \in new.schedule : used'[r.file] <= r.time
    <3> SUFFICES ASSUME NEW r \in old.schedule PROVE used'[r.file] <= r.time
      BY <1>2
    <3>1. r.file \in Scheduled(old)
      BY DEF Scheduled
    <3> QED
      BY <1>7, <1>8, <3>1 DEF HeadOK, Known
  <2>3. \A g \in Files : used'[g] # 0 => written[g] # 0
    BY <1>7, <1>8, <1>9 DEF HeadOK, Known
  <2>4. \A g \in bucket : used'[g] # 0 => g \in Known(new)
    BY <1>3, <1>7, <1>8 DEF HeadOK, Known, PlacesOK
  <2> QED
    BY <1>4, <2>1, <2>2, <2>3, <2>4 DEF HeadOK
<1>18. PassesOK'
  <2> SUFFICES ASSUME NEW m \in Runners, phase[m] \in {"clean", "orphans"}
               PROVE  PassOK(m)'
    BY DEF PassesOK, runnerVars
  <2>1. PassOK(m)
    BY DEF PassesOK
  <2>2. mbase[m].number # head'.number
    <3>1. mbase[m].number <= head.number /\ mbase[m].number \in Nat
      BY Players DEF BasesOK, PlacesOK
    <3> QED
      BY <1>4, <3>1
  <2>3. started[m] <= written[f] + MaxStage + MaxSkew
    <3>1. started[m] \in Nat /\ started[m] <= now + MaxSkew /\ written[f] \in Nat
      BY <1>6, Numbers DEF PlacesOK
    <3> QED
      BY <1>5, <1>6, <3>1, Numbers
  <2>4. \A g \in Known(new) \ Known(mbase[m].catalog) :
            started[m] <= written[g] + MaxStage + MaxSkew
    BY <1>3, <1>5, <2>1, <2>3 DEF PassOK
  <2>5. ToClean(m, work[m])' = ToClean(m, work[m])
    BY DEF ToClean, Cleanable, Older, runnerVars
  <2> QED
    BY <1>4, <2>1, <2>2, <2>4, <2>5 DEF PassOK, runnerVars
<1>19. DoomedOK'
  <2> SUFFICES ASSUME NEW m \in Runners, NEW g \in doomed[m]
               PROVE  /\ written[g] # 0
                      /\ g \notin Reachable(head'.catalog)
                      /\ \A v \in Writers : g \notin staged'[v]
                      /\ used'[g] # 0 => now + MaxSkew > used'[g] + Delay
    BY DEF DoomedOK, runnerVars
  <2>1. g \in Files /\ g \notin Reachable(old) /\ g \notin staged[w]
    BY DEF DoomedOK, PlacesOK
  <2>2. used'[g] = used[g]
    BY <1>7, <1>8, <2>1
  <2> QED
    BY <1>2, <1>4, <1>15, <2>1, <2>2 DEF DoomedOK
<1> QED
  BY <1>10, <1>13, <1>14, <1>16, <1>17, <1>18, <1>19

LEMMA CommitKeeps ==
    ASSUME MaintenanceInv, NEW w \in Writers, Commit(w)
    PROVE  MaintenanceInv'
<1>1. CASE head' = head
  BY <1>1, LostCommitKeeps
<1>2. CASE head' # head
  BY <1>2, WonCommitKeeps DEF Commit
<1> QED
  BY <1>1, <1>2

---------------------------------------------------------------------------
(* The steps of a runner *)

\* What is staged is in the bucket.
LEMMA StagedInBucket ==
    ASSUME MaintenanceInv
    PROVE  \A v \in Writers : staged[v] \subseteq bucket
<1> QED
  BY DEF MaintenanceInv, StagedOK, PlacesOK

\* Before its transaction a runner only reads.
LEMMA ReadingKeeps ==
    ASSUME MaintenanceInv, NEW m \in Runners, Start(m) \/ Probe(m)
    PROVE  MaintenanceInv'
<1> USE DEF MaintenanceInv
<1>1. /\ UNCHANGED <<now, bucket, written, used, head, writerVars, mbase, work, doomed>>
      /\ \A n \in Runners : n # m => started'[n] = started[n] /\ phase'[n] = phase[n]
      /\ phase'[m] \in {"probe", "begin"} /\ phase[m] \notin {"clean", "orphans"}
      /\ started'[m] \in 0..(now + MaxSkew)
      /\ phase' \in [Runners -> {"idle", "probe", "begin", "clean", "orphans"}]
      /\ started' \in [Runners -> 0..(now + MaxSkew)]
  <2>1. now \in Nat
    BY Numbers DEF PlacesOK
  <2>2. CASE Start(m)
    BY <2>1, <2>2, Numbers DEF Start, SetPhase, Clock, PlacesOK
  <2>3. CASE Probe(m)
    BY <2>3 DEF Probe, SetPhase, PlacesOK
  <2> QED
    BY <2>2, <2>3
<1>2. PlacesOK'
  BY <1>1 DEF PlacesOK, writerVars
<1>3. Bases' = Bases /\ InPlay' = InPlay
  BY <1>1 DEF Bases, InPlay, writerVars
<1>4. CatalogsOK' /\ BasesOK' /\ StagedOK' /\ HeadOK' /\ DoomedOK'
  BY <1>1, <1>3 DEF CatalogsOK, BasesOK, StagedOK, HeadOK, DoomedOK, writerVars
<1>5. PassesOK'
  <2> SUFFICES ASSUME NEW n \in Runners, phase'[n] \in {"clean", "orphans"}
               PROVE  PassOK(n)'
    BY DEF PassesOK
  <2>1. n # m /\ PassOK(n)
    BY <1>1 DEF PassesOK
  <2>2. started'[n] = started[n] /\ phase'[n] = phase[n]
    BY <1>1, <2>1
  <2>3. ToClean(n, work[n])' = ToClean(n, work[n])
    BY <1>1, <2>2 DEF ToClean, Cleanable, Older
  <2> QED
    BY <1>1, <2>1, <2>2, <2>3 DEF PassOK
<1> QED
  BY <1>2, <1>4, <1>5

\* A pass runs its CALLs on the head, for the first time or as a replay.  What its
\* second CALL will delete was scheduled long ago, hence not by its first CALL, and
\* was last used before that.
LEMMA RunCallsKeeps ==
    ASSUME MaintenanceInv, NEW m \in Runners, RunCalls(m)
    PROVE  MaintenanceInv'
<1> USE DEF MaintenanceInv
<1> DEFINE old == head.catalog
<1>1. PICK t \in Clock :
        /\ work' = [work EXCEPT ![m] = Expired(m, old, t)]
        /\ doomed' = [doomed EXCEPT ![m] =
               {r.file : r \in ToClean(m, Expired(m, old, t))}]
  BY DEF RunCalls
<1> DEFINE new == Expired(m, old, t)
           condemned == {r.file : r \in ToClean(m, new)}
<1>2. t \in Times /\ t \in Nat /\ now <= t /\ now \in Nat
  BY Numbers DEF PlacesOK, Clock
<1>3. CatalogOK(old) /\ \A f \in Known(old) : written[f] # 0
  BY Players DEF CatalogsOK
<1>4. /\ CatalogOK(new) /\ new.newest = old.newest
      /\ Reachable(new) \subseteq Reachable(old) /\ Known(new) = Known(old)
      /\ \A r \in new.schedule : \/ r \in old.schedule
                                 \/ r.time = t /\ r.file \notin Reachable(new)
  BY <1>2, <1>3, ExpiredCatalog
<1> HIDE DEF new
<1>5. /\ UNCHANGED <<now, bucket, written, used, head, writerVars, started>>
      /\ \A n \in Runners : phase'[n] = IF n = m THEN "clean" ELSE phase[n]
      /\ \A n \in Runners : mbase'[n] = IF n = m THEN head ELSE mbase[n]
  BY DEF RunCalls, SetPhase, PlacesOK
<1>6. /\ \A n \in Runners : work'[n] = IF n = m THEN new ELSE work[n]
      /\ \A n \in Runners : doomed'[n] = IF n = m THEN condemned ELSE doomed[n]
  BY <1>1 DEF PlacesOK, new
<1>7. \A r \in ToClean(m, new) : r \in old.schedule /\ r.time \in Nat /\ r.time + Delay < now + MaxSkew
  <2> SUFFICES ASSUME NEW r \in ToClean(m, new)
               PROVE  r \in old.schedule /\ r.time \in Nat /\ r.time + Delay < now + MaxSkew
    OBVIOUS
  <2>1. r \in new.schedule /\ r.time + Delay < started[m]
    BY DEF ToClean, Cleanable, Older
  <2>2. started[m] \in Nat /\ started[m] <= now + MaxSkew
    BY <1>2, Numbers DEF PlacesOK
  <2>3. r.time # t
    BY <1>2, <2>1, <2>2, Numbers
  <2>4. r \in old.schedule
    BY <1>4, <2>1, <2>3
  <2>5. r.time \in Nat
    BY <1>3, <2>4, Numbers DEF CatalogOK, Schedules
  <2> QED
    BY <1>2, <2>1, <2>2, <2>4, <2>5, Numbers
<1>8. condemned \subseteq Scheduled(old) /\ condemned \subseteq Files
  <2>1. \A r \in old.schedule : r.file \in Files
    BY <1>3 DEF CatalogOK, Schedules
  <2> QED
    BY <1>7, <2>1 DEF Scheduled
<1>9. PlacesOK'
  <2>1. new \in Catalogs
    BY <1>4 DEF CatalogOK, Catalogs
  <2>2. doomed' \in [Runners -> SUBSET Files]
    BY <1>1, <1>8 DEF PlacesOK, new
  <2>3. work' \in [Runners -> Catalogs]
    BY <1>1, <2>1 DEF PlacesOK, new
  <2>4. mbase' \in [Runners -> [number : Nat, catalog : Catalogs]]
    BY DEF PlacesOK, RunCalls
  <2>5. phase' \in [Runners -> {"idle", "probe", "begin", "clean", "orphans"}]
    BY DEF PlacesOK, RunCalls, SetPhase
  <2> QED
    BY <1>5, <1>6, <2>2, <2>3, <2>4, <2>5 DEF PlacesOK, writerVars
<1>10. Bases' \subseteq Bases \cup {head} /\ \A g \in Bases' : g.catalog \in InPlay
  BY <1>5, BasesOnlyFromHead, Players DEF writerVars
<1>11. InPlay' \subseteq InPlay \cup {new}
  BY <1>5, <1>6, <1>10, Players DEF InPlay
<1>12. CatalogsOK'
  BY <1>3, <1>4, <1>5, <1>11, CatalogsStay
<1>13. BasesOK'
  BY <1>5, <1>10, BasesStay
<1>14. StagedOK'
  <2>1. \A v \in Writers : staged[v] \cap Known(new) = {}
    BY <1>4, Players DEF StagedOK
  <2> QED
    BY <1>5, <1>11, <2>1, StagedInBucket, StagedStay DEF writerVars
<1>15. HeadOK'
  BY <1>5, HeadStays
<1>16. PassesOK'
  <2> SUFFICES ASSUME NEW n \in Runners, phase'[n] \in {"clean", "orphans"}
               PROVE  PassOK(n)'
    BY DEF PassesOK
  <2>1. CASE n # m
    <3>1. PassOK(n) /\ UNCHANGED <<phase[n], mbase[n], work[n], doomed[n], started[n]>>
      BY <1>5, <1>6, <2>1 DEF PassesOK
    <3>2. ToClean(n, work[n])' = ToClean(n, work[n])
      BY <3>1 DEF ToClean, Cleanable, Older
    <3> QED
      BY <1>5, <3>1, <3>2 DEF PassOK
  <2>2. CASE n = m
    <3>1. ToClean(m, work[m])' = ToClean(m, new)
      BY <1>5, <1>6 DEF ToClean, Cleanable, Older
    <3>2. mbase'[m] = head /\ work'[m] = new /\ doomed'[m] = condemned
      BY <1>5, <1>6
    <3>3. \A r \in new.schedule : used[r.file] <= r.time
      <4> SUFFICES ASSUME NEW r \in new.schedule PROVE used[r.file] <= r.time
        OBVIOUS
      <4>1. r.file \in Files
        BY <1>4 DEF CatalogOK, Schedules
      <4>2. used[r.file] \in Nat /\ used[r.file] <= now
        BY <1>2, <4>1 DEF PlacesOK
      <4> QED
        BY <1>2, <1>4, <4>2 DEF HeadOK
    <3> QED
      BY <1>4, <1>5, <2>2, <3>1, <3>2, <3>3 DEF PassOK
  <2> QED
    BY <2>1, <2>2
<1>17. DoomedOK'
  <2>1. \A n \in Runners : n # m => doomed'[n] = doomed[n]
    BY <1>6
  <2>2. \A f \in condemned :
          /\ written[f] # 0
          /\ f \notin Reachable(old)
          /\ \A w \in Writers : f \notin staged[w]
    BY <1>3, <1>8, Players DEF CatalogOK, Known, StagedOK
  <2>3. \A f \in condemned : now + MaxSkew > used[f] + Delay
    <3> SUFFICES ASSUME NEW r \in ToClean(m, new)
                 PROVE  now + MaxSkew > used[r.file] + Delay
      OBVIOUS
    <3>1. r.file \in Files /\ used[r.file] <= r.time
      BY <1>7, <1>8 DEF HeadOK
    <3>2. used[r.file] \in Nat
      BY <1>2, <3>1 DEF PlacesOK
    <3> QED
      BY <1>2, <1>7, <3>1, <3>2, Numbers
  <2> QED
    BY <1>5, <1>6, <2>1, <2>2, <2>3 DEF DoomedOK, writerVars
<1> QED
  BY <1>9, <1>12, <1>13, <1>14, <1>15, <1>16, <1>17

\* A file that is deleted is nobody's: no head, no transaction loses it.
LEMMA DeleteFileKeeps ==
    ASSUME MaintenanceInv, NEW m \in Runners, DeleteFile(m)
    PROVE  MaintenanceInv'
<1> USE DEF MaintenanceInv
<1>1. PICK f \in doomed[m] :
        /\ bucket' = bucket \ {f}
        /\ doomed' = [doomed EXCEPT ![m] = @ \ {f}]
  BY DEF DeleteFile
<1>2. /\ UNCHANGED <<now, written, used, head, writerVars, phase, started, mbase, work>>
      /\ \A n \in Runners : doomed'[n] = IF n = m THEN doomed[n] \ {f} ELSE doomed[n]
  BY <1>1 DEF DeleteFile, PlacesOK
<1>3. f \notin Reachable(head.catalog) /\ \A w \in Writers : f \notin staged[w]
  BY DEF DoomedOK
<1>4. PlacesOK'
  <2>1. doomed' \in [Runners -> SUBSET Files]
    BY <1>1 DEF PlacesOK
  <2> QED
    BY <1>1, <1>2, <2>1 DEF PlacesOK, writerVars
<1>5. Bases' = Bases /\ InPlay' = InPlay
  BY <1>2 DEF Bases, InPlay, writerVars
<1>6. CatalogsOK' /\ BasesOK'
  BY <1>2, <1>5 DEF CatalogsOK, BasesOK
<1>7. StagedOK'
  <2>1. InPlay' \subseteq InPlay \cup {head.catalog}
    BY <1>5
  <2>2. \A v \in Writers : staged[v] \subseteq bucket' /\ staged[v] \cap Known(head.catalog) = {}
    BY <1>1, <1>3, StagedInBucket, Players DEF StagedOK
  <2> QED
    BY <1>2, <2>1, <2>2, StagedStay DEF writerVars
<1>8. HeadOK'
  BY <1>1, <1>2, <1>3 DEF HeadOK
<1>9. PassesOK'
  <2> SUFFICES ASSUME NEW n \in Runners, phase[n] \in {"clean", "orphans"}
               PROVE  PassOK(n)'
    BY <1>2 DEF PassesOK
  <2>1. PassOK(n)
    BY DEF PassesOK
  <2>2. ToClean(n, work[n])' = ToClean(n, work[n])
    BY <1>2 DEF ToClean, Cleanable, Older
  <2> QED
    BY <1>1, <1>2, <2>1, <2>2 DEF PassOK
<1>10. DoomedOK'
  BY <1>2, DoomedStay DEF writerVars
<1> QED
  BY <1>4, <1>6, <1>7, <1>8, <1>9, <1>10

\* An old file that the pass does not know is no staged file, for those are young;
\* the head does not know it either, for what the head has learnt since is young too;
\* and a file nobody knows was never in use.
LEMMA OrphansAreNobodys ==
    ASSUME MaintenanceInv, NEW m \in Runners, phase[m] = "clean", doomed[m] = {},
           NEW cat, \A f \in Known(work[m]) \ Known(cat) :
                        \E r \in ToClean(m, work[m]) : r.file = f,
           NEW f \in Orphans(m, cat)
    PROVE  /\ f \notin Known(head.catalog)
           /\ \A w \in Writers : f \notin staged[w]
           /\ written[f] # 0 /\ used[f] = 0
<1> USE DEF MaintenanceInv
<1>1. f \in bucket /\ f \notin Known(cat) /\ written[f] + Delay < started[m]
  BY DEF Orphans, OldOrphan, Older, Known
<1>2. PassOK(m)
  BY DEF PassesOK
<1>3. f \notin Known(mbase[m].catalog)
  <2>1. \A r \in ToClean(m, work[m]) : r.file \notin bucket
    BY <1>2 DEF PassOK
  <2>2. f \notin Known(work[m])
    BY <1>1, <2>1
  <2> QED
    BY <1>1, <1>2, <2>2 DEF PassOK
<1>4. /\ f \in Files /\ written[f] \in Nat /\ now \in Nat
      /\ started[m] \in Nat /\ started[m] <= now + MaxSkew
  BY <1>1, Numbers DEF PlacesOK
<1>5. f \notin Known(head.catalog)
  <2>1. ~(started[m] <= written[f] + MaxStage + MaxSkew)
    BY <1>1, <1>4, Numbers
  <2> QED
    BY <1>2, <1>3, <2>1 DEF PassOK
<1>6. \A w \in Writers : f \notin staged[w]
  <2> SUFFICES ASSUME NEW w \in Writers, f \in staged[w] PROVE FALSE
    OBVIOUS
  <2>1. now <= written[f] + MaxStage
    BY DEF StagedOK, PlacesOK
  <2> QED
    BY <1>1, <1>4, <2>1, Numbers
<1> QED
  BY <1>1, <1>4, <1>5, <1>6 DEF HeadOK

LEMMA ListOrphansKeeps ==
    ASSUME MaintenanceInv, NEW m \in Runners, ListOrphans(m)
    PROVE  MaintenanceInv'
<1> USE DEF MaintenanceInv
<1> DEFINE rows == ToClean(m, work[m])
           new == Cleaned(work[m], rows)
           orphans == Orphans(m, new)
<1>1. CatalogOK(work[m]) /\ \A f \in Known(work[m]) : written[f] # 0
  BY Players DEF CatalogsOK
<1>2. /\ CatalogOK(new) /\ new.newest = work[m].newest
      /\ new.schedule = work[m].schedule \ rows
      /\ Reachable(new) = Reachable(work[m]) /\ Known(new) \subseteq Known(work[m])
      /\ \A f \in Known(work[m]) \ Known(new) : \E r \in rows : r.file = f
  <2> HIDE DEF MaintenanceInv, rows, orphans
  <2> QED
    BY <1>1, CleanedCatalog
<1>3. /\ UNCHANGED <<now, bucket, written, used, head, writerVars, started, mbase>>
      /\ phase[m] = "clean" /\ doomed[m] = {}
      /\ \A n \in Runners : phase'[n] = IF n = m THEN "orphans" ELSE phase[n]
      /\ work' = [work EXCEPT ![m] = new] /\ doomed' = [doomed EXCEPT ![m] = orphans]
  BY DEF ListOrphans, SetPhase, PlacesOK, Cleaned
<1> HIDE DEF new
<1>4. /\ \A n \in Runners : work'[n] = IF n = m THEN new ELSE work[n]
      /\ \A n \in Runners : doomed'[n] = IF n = m THEN orphans ELSE doomed[n]
  BY <1>3 DEF PlacesOK
<1>5. orphans \subseteq bucket
      /\ \A f \in orphans :
            /\ f \notin Known(head.catalog)
            /\ \A w \in Writers : f \notin staged[w]
            /\ written[f] # 0 /\ used[f] = 0
  <2>1. orphans \subseteq bucket
    BY DEF Orphans
  <2> QED
    BY <1>2, <1>3, <2>1, OrphansAreNobodys
<1>6. PlacesOK'
  <2>1. new \in Catalogs
    BY <1>2 DEF CatalogOK, Catalogs
  <2>2. doomed' \in [Runners -> SUBSET Files]
    BY <1>3, <1>5 DEF PlacesOK
  <2>3. work' \in [Runners -> Catalogs]
    BY <1>3, <2>1 DEF PlacesOK
  <2>4. phase' \in [Runners -> {"idle", "probe", "begin", "clean", "orphans"}]
    BY DEF PlacesOK, ListOrphans, SetPhase
  <2> QED
    BY <1>3, <1>4, <2>2, <2>3, <2>4 DEF PlacesOK, writerVars
<1>7. Bases' = Bases /\ InPlay' \subseteq InPlay \cup {new}
  BY <1>3, <1>4, Players DEF Bases, InPlay, writerVars
<1>8. CatalogsOK'
  BY <1>1, <1>2, <1>3, <1>7, CatalogsStay
<1>9. BasesOK'
  BY <1>3, <1>7 DEF BasesOK
<1>10. StagedOK'
  <2>1. \A v \in Writers : staged[v] \cap Known(new) = {}
    BY <1>2, Players DEF StagedOK
  <2> QED
    BY <1>3, <1>7, <2>1, StagedInBucket, StagedStay DEF writerVars
<1>11. HeadOK'
  BY <1>3, HeadStays
<1>12. PassesOK'
  <2> SUFFICES ASSUME NEW n \in Runners, phase'[n] \in {"clean", "orphans"}
               PROVE  PassOK(n)'
    BY DEF PassesOK
  <2>1. PassOK(n)
    BY <1>3 DEF PassesOK
  <2>2. CASE n # m
    <3>1. UNCHANGED <<phase[n], mbase[n], work[n], doomed[n], started[n]>>
      BY <1>3, <1>4, <2>2
    <3>2. ToClean(n, work[n])' = ToClean(n, work[n])
      BY <3>1 DEF ToClean, Cleanable, Older
    <3> QED
      BY <1>3, <2>1, <3>1, <3>2 DEF PassOK
  <2>3. CASE n = m
    <3>1. phase'[m] = "orphans" /\ work'[m] = new
      BY <1>3, <1>4
    <3>2. Known(mbase[m].catalog) \cap bucket \subseteq Known(new)
      <4>1. \A r \in rows : r.file \notin bucket
        BY <1>3, <2>1, <2>3 DEF PassOK
      <4> QED
        BY <1>2, <2>1, <2>3, <4>1 DEF PassOK
    <3> QED
      BY <1>2, <1>3, <2>1, <2>3, <3>1, <3>2 DEF PassOK
  <2> QED
    BY <2>2, <2>3
<1>13. DoomedOK'
  BY <1>3, <1>4, <1>5 DEF DoomedOK, writerVars, Known
<1> QED
  BY <1>6, <1>8, <1>9, <1>10, <1>11, <1>12, <1>13

\* The catalog of a pass that wins forgets files that are gone, and nothing else.
LEMMA CommitPassKeeps ==
    ASSUME MaintenanceInv, NEW m \in Runners, CommitPass(m)
    PROVE  MaintenanceInv'
<1> USE DEF MaintenanceInv
<1> DEFINE new == work[m]
           old == head.catalog
<1>1. /\ UNCHANGED <<now, bucket, written, writerVars>>
      /\ phase[m] = "orphans" /\ doomed[m] = {}
      /\ \A n \in Runners : phase'[n] = IF n = m THEN "idle" ELSE phase[n]
      /\ \A n \in Runners : started'[n] = IF n = m THEN 0 ELSE started[n]
      /\ \A n \in Runners : mbase'[n] = IF n = m THEN Generation0 ELSE mbase[n]
      /\ \A n \in Runners : work'[n] = IF n = m THEN Empty ELSE work[n]
      /\ \A n \in Runners : doomed'[n] = IF n = m THEN {} ELSE doomed[n]
  BY DEF CommitPass, EndPass, SetPhase, PlacesOK
<1>2. mbase[m] = head
  BY Players DEF CommitPass, BasesOK
<1>3. /\ head' = [number |-> head.number + 1, catalog |-> new]
      /\ head.number \in Nat /\ head'.number = head.number + 1 /\ head'.catalog = new
  BY DEF CommitPass, Land, PlacesOK
<1>4. /\ CatalogOK(new) /\ CatalogOK(old)
      /\ \A f \in Known(new) \cup Known(old) : written[f] # 0
  BY Players DEF CatalogsOK
<1>5. /\ Reachable(new) \subseteq Reachable(old) /\ new.newest = old.newest
      /\ Known(old) \cap bucket \subseteq Known(new)
      /\ \A r \in new.schedule : used[r.file] <= r.time
  BY <1>1, <1>2 DEF PassesOK, PassOK
<1>6. /\ old.newest.files \subseteq Reachable(new)
      /\ old.newest.files \subseteq Reachable(old)
      /\ Reachable(new) \cap Scheduled(new) = {}
      /\ Known(new) \subseteq Files /\ Known(old) \subseteq Files
  BY <1>4, <1>5 DEF CatalogOK, Known, Reachable, Scheduled, Snapshots, Schedules
<1>7. /\ now \in Nat /\ used' \in [Files -> 0..now]
      /\ \A g \in Files : g \notin old.newest.files => used'[g] = used[g]
      /\ \A g \in Files : used'[g] # 0 => used[g] # 0 \/ g \in old.newest.files
  BY Numbers DEF CommitPass, Land, PlacesOK
<1> HIDE DEF new
<1>8. PlacesOK'
  <2>1. head' \in [number : Nat, catalog : Catalogs]
    BY <1>3, <1>4 DEF CatalogOK, Catalogs
  <2>2. /\ phase' \in [Runners -> {"idle", "probe", "begin", "clean", "orphans"}]
        /\ started' \in [Runners -> 0..(now + MaxSkew)]
        /\ mbase' \in [Runners -> [number : Nat, catalog : Catalogs]]
        /\ work' \in [Runners -> Catalogs]
        /\ doomed' \in [Runners -> SUBSET Files]
    BY <1>7, Numbers, EmptyNamesNothing DEF CommitPass, EndPass, SetPhase, PlacesOK
  <2> QED
    BY <1>1, <1>7, <2>1, <2>2 DEF PlacesOK, writerVars
<1>9. Bases' \subseteq Bases \cup {head} /\ \A g \in Bases' : g.catalog \in InPlay
  BY <1>1, BasesOnlyFromHead, Players DEF writerVars
<1>10. InPlay' \subseteq InPlay \cup {Empty}
  BY <1>1, <1>3, <1>9, Players DEF InPlay, new
<1>11. CatalogsOK'
  BY <1>1, <1>10, CatalogsStay, EmptyNamesNothing
<1>12. BasesOK'
  BY <1>3, <1>9, BasesAge
<1>13. StagedOK'
  BY <1>1, <1>10, StagedInBucket, StagedStay, EmptyNamesNothing DEF writerVars
<1>14. HeadOK'
  <2>1. Reachable(new) \subseteq bucket
    BY <1>5 DEF HeadOK
  <2>2. \A r \in new.schedule : used'[r.file] <= r.time
    <3> SUFFICES ASSUME NEW r \in new.schedule PROVE used'[r.file] <= r.time
      OBVIOUS
    <3>1. r.file \in Scheduled(new)
      BY DEF Scheduled
    <3> QED
      BY <1>5, <1>6, <1>7, <3>1 DEF Known
  <2>3. \A g \in Files : used'[g] # 0 => written[g] # 0
    BY <1>4, <1>6, <1>7 DEF HeadOK, Known
  <2>4. \A g \in bucket : used'[g] # 0 => g \in Known(new)
    BY <1>5, <1>6, <1>7 DEF HeadOK, Known, PlacesOK
  <2> QED
    BY <1>1, <1>3, <2>1, <2>2, <2>3, <2>4 DEF HeadOK
<1>15. PassesOK'
  <2> SUFFICES ASSUME NEW n \in Runners, phase'[n] \in {"clean", "orphans"}
               PROVE  PassOK(n)'
    BY DEF PassesOK
  <2>1. /\ n # m /\ PassOK(n)
        /\ UNCHANGED <<phase[n], mbase[n], work[n], doomed[n], started[n]>>
    BY <1>1 DEF PassesOK
  <2>2. mbase[n].number # head'.number
    <3>1. mbase[n].number <= head.number /\ mbase[n].number \in Nat
      BY Players DEF BasesOK, PlacesOK
    <3> QED
      BY <1>3, <3>1
  <2>3. \A f \in Known(new) \ Known(mbase[n].catalog) :
            started[n] <= written[f] + MaxStage + MaxSkew
    <3>1. Known(new) \subseteq Known(old)
      BY <1>1, <1>2 DEF PassesOK, PassOK, new
    <3> QED
      BY <2>1, <3>1 DEF PassOK
  <2>4. ToClean(n, work[n])' = ToClean(n, work[n])
    BY <2>1 DEF ToClean, Cleanable, Older
  <2> QED
    BY <1>1, <1>3, <2>1, <2>2, <2>3, <2>4 DEF PassOK
<1>16. DoomedOK'
  <2> SUFFICES ASSUME NEW n \in Runners, NEW g \in doomed'[n]
               PROVE  /\ written[g] # 0
                      /\ g \notin Reachable(head'.catalog)
                      /\ \A v \in Writers : g \notin staged[v]
                      /\ used'[g] # 0 => now + MaxSkew > used'[g] + Delay
    BY <1>1 DEF DoomedOK, writerVars
  <2>1. g \in Files /\ g \in doomed[n] /\ g \notin Reachable(old)
    BY <1>1 DEF DoomedOK, PlacesOK
  <2>2. used'[g] = used[g]
    BY <1>6, <1>7, <2>1
  <2> QED
    BY <1>3, <1>5, <2>1, <2>2 DEF DoomedOK
<1> QED
  BY <1>8, <1>11, <1>12, <1>13, <1>14, <1>15, <1>16

\* A pass that ends without a commit leaves the lake as it is.
LEMMA AbortPassKeeps ==
    ASSUME MaintenanceInv, NEW m \in Runners, AbortPass(m)
    PROVE  MaintenanceInv'
<1> USE DEF MaintenanceInv
<1>1. /\ UNCHANGED <<now, bucket, written, used, head, writerVars>>
      /\ \A n \in Runners : phase'[n] = IF n = m THEN "idle" ELSE phase[n]
      /\ \A n \in Runners : started'[n] = IF n = m THEN 0 ELSE started[n]
      /\ \A n \in Runners : mbase'[n] = IF n = m THEN Generation0 ELSE mbase[n]
      /\ \A n \in Runners : work'[n] = IF n = m THEN Empty ELSE work[n]
      /\ \A n \in Runners : doomed'[n] = IF n = m THEN {} ELSE doomed[n]
  BY DEF AbortPass, EndPass, SetPhase, PlacesOK
<1>2. PlacesOK'
  <2>1. now \in Nat
    BY Numbers DEF PlacesOK
  <2>2. /\ phase' \in [Runners -> {"idle", "probe", "begin", "clean", "orphans"}]
        /\ started' \in [Runners -> 0..(now + MaxSkew)]
        /\ mbase' \in [Runners -> [number : Nat, catalog : Catalogs]]
        /\ work' \in [Runners -> Catalogs]
        /\ doomed' \in [Runners -> SUBSET Files]
    BY <2>1, Numbers, EmptyNamesNothing DEF AbortPass, EndPass, SetPhase, PlacesOK
  <2> QED
    BY <1>1, <2>2 DEF PlacesOK, writerVars
<1>3. Bases' \subseteq Bases \cup {head} /\ \A g \in Bases' : g.catalog \in InPlay
  BY <1>1, BasesOnlyFromHead, Players DEF writerVars
<1>4. InPlay' \subseteq InPlay \cup {Empty}
  BY <1>1, <1>3, Players DEF InPlay
<1>5. CatalogsOK'
  BY <1>1, <1>4, CatalogsStay, EmptyNamesNothing
<1>6. BasesOK'
  BY <1>1, <1>3, BasesStay
<1>7. StagedOK'
  BY <1>1, <1>4, StagedInBucket, StagedStay, EmptyNamesNothing DEF writerVars
<1>8. HeadOK'
  BY <1>1, HeadStays
<1>9. PassesOK'
  <2> SUFFICES ASSUME NEW n \in Runners, phase'[n] \in {"clean", "orphans"}
               PROVE  PassOK(n)'
    BY DEF PassesOK
  <2>1. /\ PassOK(n)
        /\ UNCHANGED <<phase[n], mbase[n], work[n], doomed[n], started[n]>>
    BY <1>1 DEF PassesOK
  <2>2. ToClean(n, work[n])' = ToClean(n, work[n])
    BY <2>1 DEF ToClean, Cleanable, Older
  <2> QED
    BY <1>1, <2>1, <2>2 DEF PassOK
<1>10. DoomedOK'
  BY <1>1, DoomedStay DEF writerVars
<1> QED
  BY <1>2, <1>5, <1>6, <1>7, <1>8, <1>9, <1>10

\* Time passes as long as no staged file is too old.
LEMMA TickKeeps ==
    ASSUME MaintenanceInv, Tick
    PROVE  MaintenanceInv'
<1> USE DEF MaintenanceInv
<1>1. /\ UNCHANGED <<bucket, written, used, head, writerVars, runnerVars>>
      /\ now \in Nat /\ now' = now + 1 /\ now < MaxTime
  BY Numbers DEF Tick, PlacesOK
<1>2. PlacesOK'
  <2>1. 0..now \subseteq 0..now' /\ 0..(now + MaxSkew) \subseteq 0..(now' + MaxSkew)
    BY <1>1, Numbers
  <2>2. /\ written' \in [Files -> 0..now'] /\ used' \in [Files -> 0..now']
        /\ started' \in [Runners -> 0..(now' + MaxSkew)]
    BY <1>1, <2>1 DEF PlacesOK, runnerVars
  <2> QED
    BY <1>1, <2>2, Numbers DEF PlacesOK, writerVars, runnerVars
<1>3. Bases' = Bases /\ InPlay' = InPlay
  BY <1>1 DEF Bases, InPlay, writerVars, runnerVars
<1>4. CatalogsOK' /\ BasesOK'
  BY <1>1, <1>3 DEF CatalogsOK, BasesOK
<1>5. StagedOK'
  <2>1. \A w \in Writers : pc[w] = "staged" =>
            \E f \in bucket : staged[w] = {f} /\ now' <= written[f] + MaxStage
    BY <1>1 DEF StagedOK, Tick
  <2> QED
    BY <1>1, <1>3, <2>1 DEF StagedOK, writerVars
<1>6. HeadOK' /\ PassesOK'
  BY <1>1, HeadStays, PassesStay
<1>7. DoomedOK'
  <2> SUFFICES ASSUME NEW m \in Runners, NEW f \in doomed[m], used[f] # 0,
                      now + MaxSkew > used[f] + Delay
               PROVE  now' + MaxSkew > used[f] + Delay
    BY <1>1 DEF DoomedOK, writerVars, runnerVars
  <2>1. used[f] \in Nat
    BY DEF PlacesOK
  <2> QED
    BY <1>1, <2>1, Numbers
<1> QED
  BY <1>2, <1>4, <1>5, <1>6, <1>7

---------------------------------------------------------------------------
(* The theorems *)

LEMMA NextKeeps ==
    ASSUME MaintenanceInv, [Next]_vars
    PROVE  MaintenanceInv'
<1>1. ASSUME NEW w \in Writers, Begin(w) \/ Stage(w) \/ Commit(w) \/ Abandon(w)
      PROVE  MaintenanceInv'
  BY <1>1, BeginKeeps, StageKeeps, CommitKeeps, AbandonKeeps
<1>2. ASSUME NEW m \in Runners,
             \/ Start(m) \/ Probe(m) \/ BeginPass(m) \/ DeleteFile(m)
             \/ ListOrphans(m) \/ CommitPass(m) \/ ReplayPass(m) \/ AbortPass(m)
      PROVE  MaintenanceInv'
  <2>1. BeginPass(m) \/ ReplayPass(m) => RunCalls(m)
    BY DEF BeginPass, ReplayPass
  <2> QED
    BY <1>2, <2>1, ReadingKeeps, RunCallsKeeps, DeleteFileKeeps, ListOrphansKeeps,
       CommitPassKeeps, AbortPassKeeps
<1>3. CASE Tick
  BY <1>3, TickKeeps
<1>4. CASE UNCHANGED vars
  <2>1. UNCHANGED <<now, bucket, written, used, head, pc, base, staged, kind,
                    phase, started, mbase, work, doomed>>
    BY <1>4 DEF vars, writerVars, runnerVars
  <2>2. Bases' = Bases /\ InPlay' = InPlay
    BY <2>1 DEF Bases, InPlay
  <2>3. PlacesOK' /\ CatalogsOK' /\ BasesOK' /\ StagedOK' /\ HeadOK' /\ DoomedOK'
    BY <2>1, <2>2 DEF MaintenanceInv, PlacesOK, CatalogsOK, BasesOK, StagedOK, HeadOK, DoomedOK
  <2>4. PassesOK'
    BY <2>1, PassesStay DEF MaintenanceInv, runnerVars
  <2> QED
    BY <2>3, <2>4 DEF MaintenanceInv
<1> QED
  BY <1>1, <1>2, <1>3, <1>4 DEF Next

\* The invariant holds in every state, for any number of files, transactions and
\* passes: a pass of maintain_data only deletes files that neither the head nor
\* a transaction needs, and only forgets files that are gone.
THEOREM MaintenanceInvariantHolds == Spec => []MaintenanceInv
<1>1. MaintenanceInv /\ [Next]_vars => MaintenanceInv'
  BY NextKeeps
<1> QED
  BY InitInvariant, <1>1, PTL DEF Spec

\* Every catalog that maintain_data or a transaction works on, as well as the
\* published one, is well formed, and schedules no file for deletion that it uses.
THEOREM MaintenanceTypeCorrect == Spec => []MaintenanceTypeOK
<1>1. MaintenanceInv => MaintenanceTypeOK
  <2> SUFFICES ASSUME MaintenanceInv PROVE MaintenanceTypeOK
    OBVIOUS
  <2>1. /\ now \in Times /\ bucket \subseteq Files
        /\ written \in [Files -> Times] /\ used \in [Files -> Times]
    <3>1. now \in Nat /\ now <= MaxTime
      BY Numbers DEF MaintenanceInv, PlacesOK
    <3>2. 0..now \subseteq Times /\ now \in Times
      BY <3>1, Numbers
    <3> QED
      BY <3>2 DEF MaintenanceInv, PlacesOK
  <2>2. /\ CatalogOK(head.catalog)
        /\ \A w \in Writers : CatalogOK(base[w].catalog)
        /\ \A m \in Runners : CatalogOK(work[m])
    BY Players DEF MaintenanceInv, CatalogsOK
  <2>3. /\ \A w \in Writers : staged[w] \subseteq Files
        /\ \A m \in Runners : doomed[m] \subseteq Files
    BY DEF MaintenanceInv, PlacesOK
  <2> QED
    BY <2>1, <2>2, <2>3 DEF MaintenanceTypeOK
<1> QED
  BY MaintenanceInvariantHolds, <1>1, PTL

\* No pass, whether its commit wins or loses and whatever is committed beside it,
\* deletes a Parquet file that the published catalog can reach or that a
\* transaction is about to commit.
THEOREM MaintenanceLosesNoFile == Spec => []NeededFilesPresent
<1>1. MaintenanceInv => NeededFilesPresent
  BY StagedInBucket DEF MaintenanceInv, HeadOK, NeededFilesPresent
<1> QED
  BY MaintenanceInvariantHolds, <1>1, PTL

\* A file that is deleted left the newest snapshot physical_delete_delay ago,
\* less what the clocks differ by: a reader of that snapshot had the time.
THEOREM ReadersHaveTheDelay == Spec => DeletedLongAfterUse
<1>1. MaintenanceInv /\ [Next]_vars =>
          [\A f \in bucket \ bucket' : used[f] # 0 => now + MaxSkew > used[f] + Delay]_vars
  <2> SUFFICES ASSUME MaintenanceInv, Next, NEW f \in bucket \ bucket', used[f] # 0
               PROVE  now + MaxSkew > used[f] + Delay
    OBVIOUS
  <2>1. PICK m \in Runners : DeleteFile(m)
    BY DEF Next, Begin, Stage, Commit, Abandon, Start, Probe, BeginPass, ReplayPass,
           RunCalls, ListOrphans, CommitPass, AbortPass, Tick
  <2>2. f \in doomed[m]
    BY <2>1 DEF DeleteFile
  <2> QED
    BY <2>2 DEF MaintenanceInv, DoomedOK
<1> QED
  BY MaintenanceInvariantHolds, <1>1, PTL DEF Spec, DeletedLongAfterUse
===========================================================================
