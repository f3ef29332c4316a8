---------------------------- MODULE SweepProofs ----------------------------
(***************************************************************************)
(* Proofs about PayloadSweep: any number of collectors, with any retention *)
(* window, beside any number of transactions.  No lease is assumed, so     *)
(* collectors may overlap and may go on for ever with a stale head.        *)
(***************************************************************************)
EXTENDS PayloadSweep, CommitProofs

---------------------------------------------------------------------------
(* The inductive invariant *)

\* A collector works from a committed generation, however old by now, and has
\* condemned only what is below the window of that one.
Condemned ==
    \A c \in Collectors :
        /\ current[c] \in markers
        /\ \A d \in doomed[c] : d.generation < Floor(c)
        /\ gcPhase[c] # "deleting" => doomed[c] = {}

\* What is gone lies a whole window below some committed generation.
GoneBelowWindow ==
    \A p \in published \ payloads : \E m \in markers :
        p.doc.generation <= m.generation - RetainGenerations

SweepInv == CommitInv /\ SweepTypeOK /\ Condemned /\ GoneBelowWindow

---------------------------------------------------------------------------
(* Lemmas *)

\* What the transactions and the store do on their own, no collector helping:
\* markers stay, and nothing published leaves the store.
LEMMA NextKeeps ==
    ASSUME CommitInv, [Next]_vars
    PROVE  /\ markers \subseteq markers'
           /\ payloads \subseteq payloads'
           /\ published' \ payloads' \subseteq published \ payloads
<1> DEFINE Kept == /\ markers \subseteq markers'
                   /\ payloads \subseteq payloads'
                   /\ published' \ payloads' \subseteq published \ payloads
<1>1. ASSUME NEW w \in Writers, CreateMarker(w) PROVE Kept
  BY <1>1, CreateAdds DEF CreateMarker, NewDoc
<1>2. ASSUME NEW w \in Writers, UploadPayload(w) PROVE Kept
  BY <1>2 DEF UploadPayload
<1>3. ASSUME NEW w \in Writers, Step(w) \/ Stop(w) PROVE Kept
  BY <1>1, <1>2, <1>3 DEF Step, Stop, Begin, ResolveHead, FetchCatalog, FetchMiss,
                          UploadRefused, CheckUpload, MarkerWon, MarkerAbsent,
                          MarkerLost, WriteHint, storeVars
<1>4. ASSUME NEW d \in lateMarkers, LandMarker(d) PROVE Kept
  BY <1>4, CreateAdds DEF LandMarker
<1>5. ASSUME NEW p \in latePayloads, LandPayload(p) PROVE Kept
  BY <1>5 DEF LandPayload
<1>6. ~Collector
  BY SweepAssumption DEF Collector, Collect, CollectorHint
<1> QED
  BY <1>3, <1>4, <1>5, <1>6 DEF Next, Deliver, Finished, vars

\* The payload under a key is unique, so a delete takes one object or none.
LEMMA DeleteTakesOne ==
    ASSUME CommitInv, NEW d, payloads' = {p \in payloads : p.doc # d}
    PROVE  \/ payloads' = payloads
           \/ \E p \in payloads : p.doc = d /\ payloads' = payloads \ {p}
<1>1. \A p, q \in payloads : p.doc = q.doc => p = q
  BY DEF CommitInv, OnePayloadPerUuid, Collected
<1>2. CASE \E p \in payloads : p.doc = d
  BY <1>1, <1>2
<1>3. CASE ~\E p \in payloads : p.doc = d
  BY <1>3
<1> QED
  BY <1>2, <1>3

\* What a collector has condemned is a whole window below a committed
\* generation, and hence superseded.
LEMMA CondemnedIsOld ==
    ASSUME SweepInv, NEW c \in Collectors, NEW d \in doomed[c]
    PROVE  /\ current[c] \in markers
           /\ d.generation <= current[c].generation - RetainGenerations
           /\ d.generation < current[c].generation
<1>1. d \in RootDocs /\ current[c] \in RootDocs
  BY DEF SweepInv, SweepTypeOK
<1>2. d.generation \in Int /\ current[c].generation \in Int
  BY <1>1, CommitAssumption DEF RootDocs, Generations
<1>3. current[c] \in markers /\ d.generation < Floor(c)
  BY DEF SweepInv, Condemned
<1> QED
  BY <1>2, <1>3, SweepAssumption DEF Floor

\* A delete removes nothing, or one superseded payload.
LEMMA DeleteIsSafe ==
    ASSUME SweepInv, NEW c \in Collectors, SweepDelete(c)
    PROVE  \/ UNCHANGED vars
           \/ \E p \in payloads :
                 /\ p.doc \in doomed[c]
                 /\ Superseded(p)
                 /\ payloads' = payloads \ {p}
                 /\ UNCHANGED <<markers, lateMarkers, latePayloads, hint, published, pc,
                                txn, seen, base, work, attempt, local, fetches, history>>
<1>1. PICK d \in doomed[c] : payloads' = {p \in payloads : p.doc # d}
  BY DEF SweepDelete
<1>2. UNCHANGED <<markers, lateMarkers, latePayloads, hint, published, pc, txn, seen,
                  base, work, attempt, local, fetches, history>>
  BY DEF SweepDelete
<1>3. CASE payloads' = payloads
  BY <1>2, <1>3 DEF vars, history
<1>4. ASSUME NEW p \in payloads, p.doc = d, payloads' = payloads \ {p}
      PROVE  Superseded(p)
  BY <1>4, CondemnedIsOld DEF Superseded
<1> QED
  BY <1>1, <1>2, <1>3, <1>4, DeleteTakesOne DEF SweepInv

---------------------------------------------------------------------------
(* The invariant is inductive *)

LEMMA SweepInitInv == SweepInit => SweepInv
<1> SUFFICES ASSUME SweepInit PROVE SweepInv
  OBVIOUS
<1>1. CommitInv
  BY InitInv DEF SweepInit
<1>2. Genesis \in markers /\ Genesis \in RootDocs /\ 0 \in Generations
  BY <1>1, CommitAssumption DEF CommitInv, Chain, TypeOK, Generations
<1>3. SweepTypeOK
  BY <1>2 DEF SweepInit, SweepTypeOK
<1>4. Condemned
  BY <1>2 DEF SweepInit, Condemned
<1>5. GoneBelowWindow
  BY DEF SweepInit, Init, GoneBelowWindow
<1> QED
  BY <1>1, <1>3, <1>4, <1>5 DEF SweepInv

\* A step of a transaction or of the store.
LEMMA NextSweepInv ==
    ASSUME SweepInv, [Next]_vars, UNCHANGED gcVars
    PROVE  SweepInv'
<1>1. CommitInv'
  BY StepInv DEF SweepInv
<1>2. markers \subseteq markers' /\ published' \ payloads' \subseteq published \ payloads
  BY NextKeeps DEF SweepInv
<1>3. SweepTypeOK'
  BY DEF SweepInv, SweepTypeOK, gcVars
<1>4. Condemned'
  BY <1>2 DEF SweepInv, Condemned, Floor, gcVars
<1>5. GoneBelowWindow'
  BY <1>2 DEF SweepInv, GoneBelowWindow
<1> QED
  BY <1>1, <1>3, <1>4, <1>5 DEF SweepInv

\* A step of a collector that leaves the lake alone.
LEMMA IdleSweepInv ==
    ASSUME SweepInv, UNCHANGED vars, SweepTypeOK', Condemned'
    PROVE  SweepInv'
<1>1. CommitInv'
  BY StutterInv DEF SweepInv
<1>2. GoneBelowWindow'
  BY DEF SweepInv, GoneBelowWindow, vars
<1> QED
  BY <1>1, <1>2 DEF SweepInv

\* The end of a run forgets what the run knew.
LEMMA EndRunInv ==
    ASSUME SweepInv, NEW c \in Collectors, EndRun(c), UNCHANGED vars
    PROVE  SweepInv'
<1>1. Genesis \in markers /\ Genesis \in RootDocs /\ 0 \in Generations
  BY CommitAssumption DEF SweepInv, CommitInv, Chain, TypeOK, Generations
<1>2. SweepTypeOK'
  BY <1>1 DEF SweepInv, SweepTypeOK, EndRun, SweepGoto
<1>3. Condemned'
  BY <1>1 DEF SweepInv, SweepTypeOK, Condemned, EndRun, SweepGoto, Floor, vars
<1> QED
  BY <1>2, <1>3, IdleSweepInv

LEMMA SweepBeginInv ==
    ASSUME SweepInv, NEW c \in Collectors, SweepBegin(c)
    PROVE  SweepInv'
<1>1. HeadGeneration \in Generations
  BY HeadIsNewest DEF SweepInv, CommitInv
<1>2. SweepTypeOK'
  BY <1>1 DEF SweepInv, SweepTypeOK, SweepBegin, SweepGoto
<1>3. Condemned'
  BY DEF SweepInv, SweepTypeOK, Condemned, SweepBegin, SweepGoto, Floor, vars
<1> QED
  BY <1>2, <1>3, IdleSweepInv DEF SweepBegin

\* The head resolved is committed; nothing is condemned yet.
LEMMA SweepResolveInv ==
    ASSUME SweepInv, NEW c \in Collectors, SweepResolve(c)
    PROVE  SweepInv'
<1>1. PICK d \in markers : current' = [current EXCEPT ![c] = d]
  BY DEF SweepResolve
<1>2. d \in RootDocs /\ doomed[c] = {}
  BY DEF SweepInv, CommitInv, TypeOK, Condemned, SweepResolve
<1>3. SweepTypeOK'
  BY <1>1, <1>2 DEF SweepInv, SweepTypeOK, SweepResolve, SweepGoto
<1>4. Condemned'
  <2> SUFFICES ASSUME NEW b \in Collectors
               PROVE  /\ current'[b] \in markers
                      /\ \A e \in doomed[b] : e.generation < Floor(b)'
                      /\ gcPhase'[b] # "deleting" => doomed[b] = {}
    BY DEF Condemned, SweepResolve, vars
  <2>1. CASE b = c
    BY <1>1, <1>2, <2>1 DEF SweepInv, SweepTypeOK
  <2>2. CASE b # c
    BY <1>1, <2>2 DEF SweepInv, SweepTypeOK, Condemned, Floor, SweepResolve, SweepGoto
  <2> QED
    BY <2>1, <2>2
<1> QED
  BY <1>3, <1>4, IdleSweepInv DEF SweepResolve

\* Only keys below the floor are condemned, and the hint names a head.
LEMMA SweepListInv ==
    ASSUME SweepInv, NEW c \in Collectors, SweepList(c)
    PROVE  SweepInv'
<1>1. CASE EndRun(c) /\ UNCHANGED vars
  BY <1>1, EndRunInv
<1>2. CASE ~(EndRun(c) /\ UNCHANGED vars)
  <2>1. /\ doomed' = [doomed EXCEPT ![c] = Sweepable(c)]
        /\ gcPhase' = [gcPhase EXCEPT ![c] = "deleting"]
        /\ hint' \in {hint, current[c].generation}
        /\ UNCHANGED <<markers, payloads, lateMarkers, latePayloads, published, pc, txn,
                       seen, base, work, attempt, local, fetches, history, gcSeen, current>>
    BY <1>2 DEF SweepList, SweepGoto
  <2>2. CommitInv'
    <3>1. CASE hint' = hint
      BY <2>1, <3>1, StutterInv DEF SweepInv, vars, history
    <3>2. CASE hint' = current[c].generation
      BY <2>1, <3>2, HintInv DEF SweepInv, Condemned
    <3> QED
      BY <2>1, <3>1, <3>2
  <2>3. Sweepable(c) \subseteq RootDocs /\ \A d \in Sweepable(c) : d.generation < Floor(c)
    BY DEF Sweepable, SweepInv, CommitInv, TypeOK, PayloadObjects
  <2>4. SweepTypeOK'
    BY <2>1, <2>3 DEF SweepInv, SweepTypeOK
  <2>5. Condemned'
    BY <2>1, <2>3 DEF SweepInv, SweepTypeOK, Condemned, Floor
  <2>6. GoneBelowWindow'
    BY <2>1 DEF SweepInv, GoneBelowWindow
  <2> QED
    BY <2>2, <2>4, <2>5, <2>6 DEF SweepInv
<1> QED
  BY <1>1, <1>2

\* What is deleted was condemned, hence lies below the window.
LEMMA SweepDeleteInv ==
    ASSUME SweepInv, NEW c \in Collectors, SweepDelete(c)
    PROVE  SweepInv'
<1>1. PICK k \in doomed[c] : doomed' = [doomed EXCEPT ![c] = doomed[c] \ {k}]
  BY DEF SweepDelete
<1>2. UNCHANGED <<markers, published, gcPhase, gcSeen, current>>
  BY DEF SweepDelete
<1>3. SweepTypeOK'
  BY <1>1, <1>2 DEF SweepInv, SweepTypeOK
<1>4. Condemned'
  BY <1>1, <1>2 DEF SweepInv, SweepTypeOK, Condemned, Floor
<1>5. CASE UNCHANGED vars
  BY <1>3, <1>4, <1>5, IdleSweepInv
<1>6. ASSUME NEW p \in payloads, p.doc \in doomed[c], Superseded(p),
             payloads' = payloads \ {p},
             UNCHANGED <<markers, lateMarkers, latePayloads, hint, published, pc, txn, seen,
                         base, work, attempt, local, fetches, history>>
      PROVE  SweepInv'
  <2>1. CommitInv'
    BY <1>6, DeletionInv DEF SweepInv
  <2>2. /\ current[c] \in markers
        /\ p.doc.generation <= current[c].generation - RetainGenerations
    BY <1>6, CondemnedIsOld
  <2>3. GoneBelowWindow'
    BY <1>6, <2>2 DEF SweepInv, GoneBelowWindow
  <2> QED
    BY <1>3, <1>4, <2>1, <2>3 DEF SweepInv
<1> QED
  BY <1>5, <1>6, DeleteIsSafe

\* Every step preserves the invariant.
LEMMA SweepStepInv == SweepInv /\ [SweepNext]_lakeVars => SweepInv'
<1> SUFFICES ASSUME SweepInv, [SweepNext]_lakeVars PROVE SweepInv'
  OBVIOUS
<1>1. CASE Next /\ UNCHANGED gcVars
  BY <1>1, NextSweepInv
<1>2. ASSUME NEW c \in Collectors, SweepStep(c) PROVE SweepInv'
  <2>1. CASE SweepEnd(c)
    BY <2>1, EndRunInv DEF SweepEnd
  <2> QED
    BY <1>2, <2>1, SweepBeginInv, SweepResolveInv, SweepListInv, SweepDeleteInv
       DEF SweepStep
<1>3. CASE UNCHANGED lakeVars
  BY <1>3, NextSweepInv DEF lakeVars
<1> QED
  BY <1>1, <1>2, <1>3 DEF SweepNext

---------------------------------------------------------------------------
(* The theorems *)

\* SweepInv holds of every state of a lake with collectors.
THEOREM SweepInvariantHolds == SweepSpec => []SweepInv
<1> QED
  BY SweepInitInv, SweepStepInv, PTL DEF SweepSpec

\* Overlapping collectors with stale heads leave the whole retention window of
\* the true head in place.
THEOREM WindowIsReadable == SweepSpec => []RetainedPayloadsPresent
<1>1. SweepInv => RetainedPayloadsPresent
  <2> SUFFICES ASSUME SweepInv, NEW d \in markers,
                      d.generation > HeadGeneration - RetainGenerations
               PROVE  PayloadOf(d) # {}
    BY DEF RetainedPayloadsPresent
  <2>1. PICK p \in published : p.doc = d
    BY MarkerHasPayload DEF SweepInv
  <2>2. \A m \in markers : m.generation <= HeadGeneration /\ m.generation \in Int
    BY HeadIsNewest, CommitAssumption
       DEF SweepInv, CommitInv, Committed, TypeOK, RootDocs, Generations
  <2>3. HeadGeneration \in Int
    BY HeadIsNewest, CommitAssumption DEF SweepInv, CommitInv, Generations
  <2>4. p \in payloads
    BY <2>1, <2>2, <2>3, SweepAssumption DEF SweepInv, GoneBelowWindow
  <2> QED
    BY <2>1, <2>4 DEF PayloadOf
<1> QED
  BY <1>1, SweepInvariantHolds, PTL

\* No sweep takes a payload whose generation is still open, however long the
\* writer of that payload stalls before its marker.
THEOREM OpenGenerationsAreSafe == SweepSpec => SweptIsDecided
<1>1. SweepInv /\ [SweepNext]_lakeVars
        => [\A p \in payloads \ payloads' : ~MarkerFree(p.doc.generation)]_lakeVars
  <2> SUFFICES ASSUME SweepInv, SweepNext, NEW o \in payloads \ payloads'
               PROVE  o.doc.generation \in Committed
    BY DEF MarkerFree
  <2>1. CASE Next /\ UNCHANGED gcVars
    BY <2>1, NextKeeps DEF SweepInv
  <2>2. ASSUME NEW c \in Collectors, SweepStep(c) PROVE Superseded(o)
    <3>1. SweepDelete(c)
      BY <2>2 DEF SweepStep, SweepBegin, SweepResolve, SweepList, SweepEnd, vars
    <3> QED
      BY <3>1, DeleteIsSafe DEF vars
  <2>3. ASSUME Superseded(o) PROVE o.doc.generation \in Committed
    <3>1. PICK h \in Generations : Committed = 0..h
      BY DEF SweepInv, CommitInv, History
    <3>2. o.doc.generation \in Nat /\ h \in Nat
      BY CommitAssumption
         DEF SweepInv, CommitInv, TypeOK, PayloadObjects, RootDocs, Generations
    <3>3. PICK m \in markers : o.doc.generation < m.generation
      BY <2>3 DEF Superseded
    <3>4. m.generation \in 0..h
      BY <3>1, <3>3 DEF Committed
    <3> QED
      BY <3>1, <3>2, <3>3, <3>4
  <2> QED
    BY <2>1, <2>2, <2>3 DEF SweepNext
<1> QED
  BY <1>1, SweepInvariantHolds, PTL DEF SweepSpec, SweptIsDecided

---------------------------------------------------------------------------
(* The collectors are ones that CommitProtocol allows for *)

\* The operators that steps are made of do not depend on Collecting.
LEMMA SameReadings ==
    /\ HeadGeneration = Commit!HeadGeneration
    /\ \A d : /\ PayloadOf(d) = Commit!PayloadOf(d)
              /\ WithMarker(d) = Commit!WithMarker(d)
              /\ MarkerFree(d.generation) = Commit!MarkerFree(d.generation)
    /\ \A w : /\ Target(w) = Commit!Target(w)
              /\ NewDoc(w) = Commit!NewDoc(w)
              /\ NewPayload(w) = Commit!NewPayload(w)
              /\ MarkerOutcome(w) = Commit!MarkerOutcome(w)
    /\ \A t, n : DecideRebase(t, n) = Commit!DecideRebase(t, n)
BY DEF HeadGeneration, Commit!HeadGeneration, Committed, Commit!Committed, Max,
       Commit!Max, PayloadOf, Commit!PayloadOf, WithMarker, Commit!WithMarker,
       MarkerFree, Commit!MarkerFree, Target, Commit!Target, NewDoc, Commit!NewDoc,
       NewPayload, Commit!NewPayload, MarkerOutcome, Commit!MarkerOutcome,
       DecideRebase, Commit!DecideRebase

\* A transaction takes the same steps in a lake with collectors.
LEMMA SameSteps == ASSUME NEW w \in Writers, Step(w) PROVE Commit!Step(w)
<1> USE SameReadings
    DEF Goto, Commit!Goto, StartResolve, Commit!StartResolve, storeVars,
        Commit!storeVars, history, Commit!history, AttemptsLeft, Commit!AttemptsLeft
<1>1. Begin(w) => Commit!Begin(w)
  BY DEF Begin, Commit!Begin
<1>2. ResolveHead(w) => Commit!ResolveHead(w)
  BY DEF ResolveHead, Commit!ResolveHead, HeadCandidates, Commit!HeadCandidates
<1>3. FetchCatalog(w) => Commit!FetchCatalog(w)
  BY DEF FetchCatalog, Commit!FetchCatalog, Executed, Commit!Executed
<1>4. FetchMiss(w) => Commit!FetchMiss(w)
  BY DEF FetchMiss, Commit!FetchMiss
<1>5. UploadRefused(w) => Commit!UploadRefused(w)
  BY DEF UploadRefused, Commit!UploadRefused, HasKey, Commit!HasKey
<1>6. UploadPayload(w) => Commit!UploadPayload(w)
  BY DEF UploadPayload, Commit!UploadPayload, HasKey, Commit!HasKey
<1>7. CheckUpload(w) => Commit!CheckUpload(w)
  BY DEF CheckUpload, Commit!CheckUpload, UploadLanded, Commit!UploadLanded
<1>8. CreateMarker(w) => Commit!CreateMarker(w)
  <2>1. MarkerFree(Target(w)) = Commit!MarkerFree(Commit!Target(w))
    BY DEF MarkerFree, Commit!MarkerFree, Committed, Commit!Committed
  <2> QED
    BY <2>1 DEF CreateMarker, Commit!CreateMarker
<1>9. MarkerWon(w) => Commit!MarkerWon(w)
  BY DEF MarkerWon, Commit!MarkerWon
<1>10. MarkerAbsent(w) => Commit!MarkerAbsent(w)
  BY DEF MarkerAbsent, Commit!MarkerAbsent, CountedResend, Commit!CountedResend
<1>11. MarkerLost(w) => Commit!MarkerLost(w)
  BY DEF MarkerLost, Commit!MarkerLost
<1>12. WriteHint(w) => Commit!WriteHint(w)
  BY DEF WriteHint, Commit!WriteHint
<1> QED
  BY <1>1, <1>2, <1>3, <1>4, <1>5, <1>6, <1>7, <1>8, <1>9, <1>10, <1>11, <1>12
     DEF Step, Commit!Step

\* And so does the store.
LEMMA SameNext == ASSUME Next PROVE Commit!Next
<1>1. ASSUME NEW w \in Writers, Stop(w) PROVE Commit!Stop(w)
  BY <1>1 DEF Stop, Commit!Stop, Active, Commit!Active, Goto, Commit!Goto, storeVars,
              Commit!storeVars, history, Commit!history
<1>2. Deliver => Commit!Deliver
  <2>1. ASSUME NEW p \in latePayloads, LandPayload(p) PROVE Commit!LandPayload(p)
    BY <2>1 DEF LandPayload, Commit!LandPayload, history, Commit!history
  <2>2. ASSUME NEW d \in lateMarkers, LandMarker(d) PROVE Commit!LandMarker(d)
    BY <2>2, SameReadings DEF LandMarker, Commit!LandMarker, history, Commit!history
  <2> QED
    BY <2>1, <2>2 DEF Deliver, Commit!Deliver
<1>3. ~Collector
  BY SweepAssumption DEF Collector, Collect, CollectorHint
<1>4. Finished => Commit!Finished
  BY DEF Finished, Commit!Finished, Ended, Commit!Ended, vars, Commit!vars
<1> QED
  BY <1>1, <1>2, <1>3, <1>4, SameSteps DEF Next, Commit!Next

\* Every step of a collector is one CommitProtocol allows a collector.
LEMMA SweepIsCollector ==
    ASSUME SweepInv, NEW c \in Collectors, SweepStep(c)
    PROVE  Commit!Collector \/ UNCHANGED vars
<1>1. CASE SweepDelete(c)
  <2>1. ASSUME NEW p \in payloads, Superseded(p), payloads' = payloads \ {p},
               UNCHANGED <<markers, lateMarkers, latePayloads, hint, published, pc, txn,
                           seen, base, work, attempt, local, fetches, history>>
        PROVE  Commit!Collect(p)
    BY <2>1 DEF Commit!Collect, Superseded, Commit!Superseded, history, Commit!history
  <2> QED
    BY <1>1, <2>1, DeleteIsSafe DEF Commit!Collector
<1>2. CASE SweepList(c) /\ ~UNCHANGED vars
  <2>1. current[c] \in markers
    BY DEF SweepInv, Condemned
  <2>2. Commit!CollectorHint(current[c])
    BY <1>2, <2>1 DEF SweepList, Commit!CollectorHint, history, Commit!history, vars
  <2> QED
    BY <2>1, <2>2 DEF Commit!Collector
<1> QED
  BY <1>1, <1>2 DEF SweepStep, SweepBegin, SweepResolve, SweepEnd

\* A lake with the collectors of gc.py is a lake of CommitProtocol with some
\* collector: what is proved of every such lake holds of this one.
THEOREM SweepRefinesCommit == SweepSpec => SweepImplementsCommit
<1>1. SweepInit => Commit!Init
  BY DEF SweepInit, Init, Commit!Init, Genesis, Commit!Genesis
<1>2. SweepInv /\ [SweepNext]_lakeVars => [Commit!Next]_(Commit!vars)
  <2> SUFFICES ASSUME SweepInv, [SweepNext]_lakeVars
               PROVE  Commit!Next \/ UNCHANGED vars
    BY DEF vars, Commit!vars
  <2>1. CASE Next /\ UNCHANGED gcVars
    BY <2>1, SameNext
  <2>2. ASSUME NEW c \in Collectors, SweepStep(c)
        PROVE  Commit!Next \/ UNCHANGED vars
    BY <2>2, SweepIsCollector DEF Commit!Next
  <2>3. CASE UNCHANGED lakeVars
    BY <2>3 DEF lakeVars
  <2> QED
    BY <2>1, <2>2, <2>3 DEF SweepNext
<1> QED
  BY <1>1, <1>2, SweepInvariantHolds, PTL DEF SweepSpec, SweepImplementsCommit, Commit!Spec
===========================================================================
