--------------------------- MODULE CommitProofs ---------------------------
(***************************************************************************)
(* Proofs about CommitProtocol, for any number of transactions, attempts   *)
(* and generations.  CommitInv is inductive (InvariantHolds) and the       *)
(* safety properties of the commit protocol are read off it.               *)
(***************************************************************************)
EXTENDS CommitProtocol, TLAPS

---------------------------------------------------------------------------
(* The inductive invariant: the safety properties and the facts            *)
(* about writers and pending requests that make each step preserve them    *)

\* The phases in which a writer builds on base[w] with the catalog work[w].
Publishing == {"uploading", "checking_upload", "marking", "resolving_marker"}

\* One marker per generation, and no gap below the newest.
History ==
    /\ \A c, d \in markers : c.generation = d.generation => c = d
    /\ \E h \in Generations : Committed = 0..h

\* d's payload is its predecessor's with the transaction of d's writer added.
Extends(d) ==
    /\ d.uuid.writer \in Writers
    /\ \E c \in markers : \E p, q \in published :
          /\ c.generation = d.generation - 1
          /\ p.doc = d /\ q.doc = c
          /\ p.catalog = Append(q.catalog, d.uuid.writer)

Chain ==
    /\ Genesis \in markers
    /\ \E q \in published : q.doc = Genesis
    /\ \A d \in markers : d.generation > 0 => Extends(d)

\* A uuid names one payload, landed or pending; only the writer's current
\* uuid can still be uploaded.
OnePayloadPerUuid ==
    /\ \A p, q \in published \cup latePayloads : p.doc = q.doc => p = q
    /\ \A p \in published \cup latePayloads : \A w \in Writers :
          p.doc.uuid.writer = w =>
              \/ p.doc.uuid.attempt < attempt[w]
              \/ /\ p = NewPayload(w)
                 /\ pc[w] \in {"checking_upload", "marking", "resolving_marker",
                               "hinting", "committed", "aborted", "failed"}

\* Only payloads of decided generations are gone.
Collected ==
    /\ payloads \subseteq published
    /\ \A p \in published \ payloads : Superseded(p)

\* What a writer works from.
BuildsOnBase ==
    \A w \in Writers :
        /\ base[w] \in markers
        /\ seen[w] \in Committed
        /\ pc[w] \in Publishing =>
              \E q \in published : q.doc = base[w] /\ work[w] = Append(q.catalog, w)
        /\ pc[w] \in {"checking_upload", "marking", "resolving_marker"} =>
              Target(w) <= MaxGeneration
        /\ pc[w] \in {"marking", "resolving_marker"} => Extends(NewDoc(w))
        /\ pc[w] \in {"hinting", "committed"} => NewDoc(w) \in markers

\* A writer's marker is the one of its last attempt, and a writer that moves
\* on or gives up has none.
OwnMarkers ==
    \A d \in markers : \A w \in Writers : d.uuid.writer = w =>
        /\ d = NewDoc(w)
        /\ pc[w] \in {"marking", "resolving_marker", "hinting", "committed", "failed"}

\* A pending marker PUT either comes too late or is its writer's current one.
LateMarkers ==
    \A d \in lateMarkers :
        /\ Extends(d)
        /\ \/ d.generation \in Committed
           \/ /\ d = NewDoc(d.uuid.writer)
              /\ pc[d.uuid.writer] \in {"marking", "resolving_marker", "failed"}
              /\ ReplaySafe(txn[d.uuid.writer])
                    \/ d.generation = readBase[d.uuid.writer] + 1

\* Replays are of replayable transactions, and each is paid for.
Attempted ==
    \A w \in Writers :
        /\ pc[w] = "idle" => attempt[w] = 0
        /\ unlanded[w] <= attempt[w]
        /\ pc[w] \in {"resolving", "fetching"} /\ attempt[w] > 0 =>
              ReplaySafe(txn[w])
        /\ pc[w] \in Publishing =>
              ReplaySafe(txn[w]) \/ base[w].generation = readBase[w]
        /\ pc[w] = "resolving" /\ LostRaces(w) > 0 =>
              LostRaces(w) - 1 <= seen[w] - lostAt[w]

CommitInv ==
    /\ TypeOK
    /\ History
    /\ Chain
    /\ OnePayloadPerUuid
    /\ Collected
    /\ BuildsOnBase
    /\ OwnMarkers
    /\ LateMarkers
    /\ Attempted
    /\ NoWriteSkew
    /\ LagIsNotCharged

---------------------------------------------------------------------------
(* Lemmas about the operators *)

\* A create-only PUT on a free key adds one object and replaces none.
LEMMA CreateAdds ==
    ASSUME NEW d, MarkerFree(d.generation)
    PROVE  WithMarker(d) = markers \cup {d}
BY DEF WithMarker, MarkerFree, Committed

\* The newest committed generation exists when the history is dense.
LEMMA HeadIsNewest ==
    ASSUME History
    PROVE  /\ HeadGeneration \in Generations
           /\ HeadGeneration \in Committed
           /\ \A g \in Committed : g <= HeadGeneration
<1>1. PICK h \in Generations : Committed = 0..h
  BY DEF History
<1>2. h \in Nat
  BY <1>1, CommitAssumption DEF Generations
<1>3. h \in Committed /\ \A g \in Committed : h >= g
  BY <1>1, <1>2
<1>4. HeadGeneration \in Committed /\ \A g \in Committed : HeadGeneration >= g
  BY <1>3 DEF HeadGeneration, Max
<1>5. HeadGeneration \in 0..h /\ \A g \in 0..h : HeadGeneration >= g
  BY <1>1, <1>4
<1>6. HeadGeneration = h
  BY <1>2, <1>5
<1> QED
  BY <1>1, <1>4, <1>6

\* decide_rebase replays only what cannot carry a write skew.
LEMMA ReplayIsSafe ==
    ASSUME NEW t \in Transactions, NEW n, DecideRebase(t, n) = "replay"
    PROVE  ReplaySafe(t)
BY CommitAssumption
   DEF DecideRebase, ReplaySafe, TransactionType, StatementClass

\* Nothing a marker was built on goes away while objects are only added.
LEMMA ExtendsStays ==
    ASSUME NEW d, Extends(d), markers \subseteq markers', published \subseteq published'
    PROVE  Extends(d)'
BY DEF Extends

\* A bootstrapped lake satisfies the invariant.
LEMMA InitInv == Init => CommitInv
<1> SUFFICES ASSUME Init PROVE CommitInv
  OBVIOUS
<1> USE CommitAssumption
<1>0. /\ 0 \in Generations /\ 0 \in Attempts
      /\ Genesis \in RootDocs
      /\ << >> \in Catalogs
  BY DEF Generations, Attempts, Genesis, RootDocs, Uuids, Catalogs
<1>1. TypeOK
  BY <1>0 DEF Init, TypeOK, Phases, PayloadObjects
<1>2. Committed = 0..0
  BY DEF Init, Committed, Genesis
<1>3. History
  BY <1>0, <1>2 DEF Init, History
<1>4. Chain
  BY DEF Init, Chain, Genesis
<1>5. OnePayloadPerUuid
  BY DEF Init, OnePayloadPerUuid, Genesis
<1>6. BuildsOnBase
  BY <1>2 DEF Init, BuildsOnBase, Publishing
<1>7. OwnMarkers /\ LateMarkers /\ NoWriteSkew
  BY DEF Init, OwnMarkers, LateMarkers, NoWriteSkew, Genesis
<1>8. Attempted /\ LagIsNotCharged
  BY DEF Init, Attempted, LagIsNotCharged, LostRaces, Publishing
<1>9. Collected
  BY DEF Init, Collected
<1> QED
  BY <1>1, <1>3, <1>4, <1>5, <1>6, <1>7, <1>8, <1>9 DEF CommitInv

---------------------------------------------------------------------------
(* Every action preserves the invariant *)

\* resolve_head begins.
LEMMA BeginInv ==
    ASSUME CommitInv, NEW w \in Writers, Begin(w)
    PROVE  CommitInv'
<1> USE CommitAssumption DEF CommitInv
<1>1. TypeOK'
  BY HeadIsNewest DEF Begin, Goto, StartResolve, storeVars, history, TypeOK, Phases,
                      Active, Attempts
<1>2. History'
  BY DEF Begin, storeVars, History, Committed
<1>3. Chain'
  BY DEF Begin, storeVars, Chain, Extends
<1>4. OnePayloadPerUuid'
  BY DEF Begin, Goto, StartResolve, storeVars, OnePayloadPerUuid, NewPayload, NewDoc,
         Target
<1>5. BuildsOnBase'
  <2>1. \A v \in Writers : /\ NewDoc(v)' = NewDoc(v) /\ Target(v)' = Target(v)
                           /\ Extends(NewDoc(v))' = Extends(NewDoc(v))
    BY DEF Begin, storeVars, NewDoc, Target, Extends
  <2> QED
    BY <2>1, HeadIsNewest DEF Begin, Goto, StartResolve, storeVars, BuildsOnBase,
                              Publishing, Committed
<1>6. OwnMarkers'
  BY DEF Begin, Goto, StartResolve, storeVars, OwnMarkers, NewDoc, Target
<1>7. LateMarkers'
  BY DEF Begin, Goto, StartResolve, storeVars, history, LateMarkers, NewDoc, Target,
         Committed, Extends
<1>8. Attempted'
  <2>1. pc[w] = "idle" => attempt[w] = 0 /\ unlanded[w] = 0
    BY DEF Attempted, TypeOK, Attempts
  <2> QED
    BY <2>1 DEF Begin, Goto, StartResolve, history, Attempted, LostRaces, Publishing
<1>9. NoWriteSkew'
  BY DEF Begin, storeVars, history, NoWriteSkew
<1>10. LagIsNotCharged'
  BY DEF Begin, Goto, StartResolve, history, LagIsNotCharged, LostRaces
<1>11. Collected'
  BY DEF Begin, storeVars, Collected, Superseded
<1> QED
  BY <1>1, <1>2, <1>3, <1>4, <1>5, <1>6, <1>7, <1>8, <1>9, <1>10, <1>11

\* resolve_head returns.
LEMMA ResolveHeadInv ==
    ASSUME CommitInv, NEW w \in Writers, ResolveHead(w)
    PROVE  CommitInv'
<1> USE CommitAssumption DEF CommitInv
<1>a. PICK d \in markers : d.generation >= seen[w] /\ base' = [base EXCEPT ![w] = d]
  BY DEF ResolveHead, HeadCandidates
<1>1. TypeOK'
  BY <1>a DEF ResolveHead, Goto, storeVars, history, TypeOK, Phases, Active
<1>2. History'
  BY DEF ResolveHead, storeVars, History, Committed
<1>3. Chain'
  BY DEF ResolveHead, storeVars, Chain, Extends
<1>4. OnePayloadPerUuid'
  BY DEF ResolveHead, Goto, storeVars, OnePayloadPerUuid, NewPayload, NewDoc, Target
<1>5. BuildsOnBase'
  <2>1. \A v \in Writers \ {w} : /\ NewDoc(v)' = NewDoc(v) /\ Target(v)' = Target(v)
                                 /\ Extends(NewDoc(v))' = Extends(NewDoc(v))
    BY <1>a DEF ResolveHead, storeVars, NewDoc, Target, Extends
  <2>2. pc'[w] = "fetching" /\ base'[w] = d
    BY <1>a DEF ResolveHead, Goto, TypeOK
  <2> QED
    BY <1>a, <2>1, <2>2 DEF ResolveHead, Goto, storeVars, BuildsOnBase, Publishing,
                            Committed
<1>6. OwnMarkers'
  BY DEF ResolveHead, Goto, storeVars, OwnMarkers, NewDoc, Target
<1>7. LateMarkers'
  BY DEF ResolveHead, Goto, storeVars, history, LateMarkers, NewDoc, Target, Committed,
         Extends
<1>8. Attempted'
  <2>1. d.generation \in Generations /\ seen[w] \in Generations
    BY <1>a DEF TypeOK, RootDocs
  <2> QED
    BY <1>a, <2>1 DEF ResolveHead, Goto, history, Attempted, LostRaces, Publishing,
                      TypeOK, Attempts, Generations
<1>9. NoWriteSkew'
  BY DEF ResolveHead, storeVars, history, NoWriteSkew
<1>10. LagIsNotCharged'
  <2>1. /\ d.generation \in Nat /\ seen[w] \in Nat /\ seen[w] <= d.generation
        /\ lostAt[w] \in Nat /\ attempt[w] \in Nat /\ unlanded[w] \in Nat
    BY <1>a DEF TypeOK, RootDocs, Generations, Attempts
  <2>2. LostRaces(w) > 0 => LostRaces(w) - 1 <= d.generation - lostAt[w]
    BY <2>1 DEF Attempted, LostRaces, ResolveHead
  <2>3. \A v \in Writers : LostRaces(v)' = LostRaces(v)
    BY DEF ResolveHead, history, LostRaces
  <2> QED
    BY <1>a, <2>2, <2>3 DEF ResolveHead, Goto, history, LagIsNotCharged, LostRaces, TypeOK
<1>11. Collected'
  BY DEF ResolveHead, storeVars, Collected, Superseded
<1> QED
  BY <1>1, <1>2, <1>3, <1>4, <1>5, <1>6, <1>7, <1>8, <1>9, <1>10, <1>11

\* The base is copied and the SQL runs.
LEMMA FetchCatalogInv ==
    ASSUME CommitInv, NEW w \in Writers, FetchCatalog(w)
    PROVE  CommitInv'
<1> USE CommitAssumption DEF CommitInv
<1>a. PICK p \in payloads : p.doc = base[w] /\ work' = [work EXCEPT ![w] = Append(p.catalog, w)]
  BY DEF FetchCatalog, PayloadOf, Executed
<1>1. TypeOK'
  <2>1. Append(p.catalog, w) \in Catalogs
    BY <1>a DEF TypeOK, PayloadObjects, Catalogs
  <2>2. base[w].generation \in Generations
    BY DEF TypeOK, RootDocs
  <2> QED
    BY <1>a, <2>1, <2>2 DEF FetchCatalog, Goto, storeVars, TypeOK, Phases, Active
<1>2. History'
  BY DEF FetchCatalog, storeVars, History, Committed
<1>3. Chain'
  BY DEF FetchCatalog, storeVars, Chain, Extends
<1>4. OnePayloadPerUuid'
  BY DEF FetchCatalog, Goto, storeVars, OnePayloadPerUuid, NewPayload, NewDoc, Target
<1>5. BuildsOnBase'
  <2>1. \A v \in Writers : /\ NewDoc(v)' = NewDoc(v) /\ Target(v)' = Target(v)
                           /\ Extends(NewDoc(v))' = Extends(NewDoc(v))
    BY DEF FetchCatalog, storeVars, NewDoc, Target, Extends
  <2> QED
    BY <2>1, <1>a DEF FetchCatalog, Goto, storeVars, BuildsOnBase, TypeOK, Committed,
                      Collected
<1>6. OwnMarkers'
  BY DEF FetchCatalog, Goto, storeVars, OwnMarkers, NewDoc, Target
<1>7. LateMarkers'
  BY DEF FetchCatalog, Goto, storeVars, LateMarkers, NewDoc, Target, Committed, Extends
<1>8. Attempted'
  BY DEF FetchCatalog, Goto, Attempted, LostRaces, TypeOK, Attempts
<1>9. NoWriteSkew'
  BY DEF FetchCatalog, storeVars, NoWriteSkew, OwnMarkers
<1>10. LagIsNotCharged'
  BY DEF FetchCatalog, Goto, LagIsNotCharged, LostRaces, TypeOK
<1>11. Collected'
  BY DEF FetchCatalog, storeVars, Collected, Superseded
<1> QED
  BY <1>1, <1>2, <1>3, <1>4, <1>5, <1>6, <1>7, <1>8, <1>9, <1>10, <1>11

\* The base was swept.
LEMMA FetchMissInv ==
    ASSUME CommitInv, NEW w \in Writers, FetchMiss(w)
    PROVE  CommitInv'
<1> USE CommitAssumption DEF CommitInv
<1>1. TypeOK'
  <2>1. AttemptsLeft(fetches[w]) => fetches[w] + 1 \in Attempts
    BY DEF AttemptsLeft, TypeOK, Attempts
  <2> QED
    BY <2>1, HeadIsNewest DEF FetchMiss, Goto, StartResolve, storeVars, history, TypeOK,
                              Phases, Active, Ended
<1>2. History'
  BY DEF FetchMiss, storeVars, History, Committed
<1>3. Chain'
  BY DEF FetchMiss, storeVars, Chain, Extends
<1>4. OnePayloadPerUuid'
  BY DEF FetchMiss, Goto, StartResolve, storeVars, OnePayloadPerUuid, NewPayload,
         NewDoc, Target, TypeOK
<1>5. BuildsOnBase'
  <2>1. \A v \in Writers : /\ NewDoc(v)' = NewDoc(v) /\ Target(v)' = Target(v)
                           /\ Extends(NewDoc(v))' = Extends(NewDoc(v))
    BY DEF FetchMiss, storeVars, NewDoc, Target, Extends
  <2> QED
    BY <2>1, HeadIsNewest DEF FetchMiss, Goto, StartResolve, storeVars, BuildsOnBase,
                              Publishing, TypeOK, Committed
<1>6. OwnMarkers'
  BY DEF FetchMiss, Goto, StartResolve, storeVars, OwnMarkers, NewDoc, Target, TypeOK
<1>7. LateMarkers'
  BY DEF FetchMiss, Goto, StartResolve, storeVars, history, LateMarkers, NewDoc, Target,
         TypeOK, Committed, Extends
<1>8. Attempted'
  <2>1. base[w].generation \in Committed
    BY DEF BuildsOnBase, Committed
  <2>2. /\ base[w].generation <= HeadGeneration
        /\ base[w].generation \in Nat /\ HeadGeneration \in Nat
        /\ lostAt[w] \in Nat /\ attempt[w] \in Nat /\ unlanded[w] \in Nat
    BY <2>1, HeadIsNewest DEF TypeOK, RootDocs, Generations, Attempts
  <2>3. LostRaces(w) > 0 => LostRaces(w) - 1 <= HeadGeneration - lostAt[w]
    BY <2>2 DEF FetchMiss, LagIsNotCharged, LostRaces
  <2>4. \A v \in Writers : LostRaces(v)' = LostRaces(v)
    BY DEF FetchMiss, history, LostRaces
  <2> QED
    BY <2>3, <2>4 DEF FetchMiss, Goto, StartResolve, history, Attempted, Publishing, TypeOK
<1>9. NoWriteSkew'
  BY DEF FetchMiss, storeVars, history, NoWriteSkew
<1>10. LagIsNotCharged'
  BY DEF FetchMiss, Goto, StartResolve, history, LagIsNotCharged, LostRaces, TypeOK
<1>11. Collected'
  BY DEF FetchMiss, storeVars, Collected, Superseded
<1> QED
  BY <1>1, <1>2, <1>3, <1>4, <1>5, <1>6, <1>7, <1>8, <1>9, <1>10, <1>11

\* No generation is left.
LEMMA UploadRefusedInv ==
    ASSUME CommitInv, NEW w \in Writers, UploadRefused(w)
    PROVE  CommitInv'
<1> USE CommitAssumption DEF CommitInv
<1>1. TypeOK'
  BY DEF UploadRefused, Goto, storeVars, history, TypeOK, Phases, Ended
<1>2. History'
  BY DEF UploadRefused, storeVars, History, Committed
<1>3. Chain'
  BY DEF UploadRefused, storeVars, Chain, Extends
<1>4. OnePayloadPerUuid'
  BY DEF UploadRefused, Goto, storeVars, OnePayloadPerUuid, NewPayload, NewDoc, Target
<1>5. BuildsOnBase'
  <2>1. \A v \in Writers : /\ NewDoc(v)' = NewDoc(v) /\ Target(v)' = Target(v)
                           /\ Extends(NewDoc(v))' = Extends(NewDoc(v))
    BY DEF UploadRefused, storeVars, NewDoc, Target, Extends
  <2> QED
    BY <2>1 DEF UploadRefused, Goto, storeVars, BuildsOnBase, Publishing, Committed
<1>6. OwnMarkers'
  BY DEF UploadRefused, Goto, storeVars, OwnMarkers, NewDoc, Target
<1>7. LateMarkers'
  BY DEF UploadRefused, Goto, storeVars, history, LateMarkers, NewDoc, Target,
         Committed, Extends
<1>8. Attempted'
  BY DEF UploadRefused, Goto, history, Attempted, LostRaces, Publishing
<1>9. NoWriteSkew'
  BY DEF UploadRefused, storeVars, history, NoWriteSkew
<1>10. LagIsNotCharged'
  BY DEF UploadRefused, Goto, history, LagIsNotCharged, LostRaces
<1>11. Collected'
  BY DEF UploadRefused, storeVars, Collected, Superseded
<1> QED
  BY <1>1, <1>2, <1>3, <1>4, <1>5, <1>6, <1>7, <1>8, <1>9, <1>10, <1>11

\* The payload is uploaded.
LEMMA UploadPayloadInv ==
    ASSUME CommitInv, NEW w \in Writers, UploadPayload(w)
    PROVE  CommitInv'
<1> USE CommitAssumption DEF CommitInv
<1>a. PICK q \in published : q.doc = base[w] /\ work[w] = Append(q.catalog, w)
  BY DEF UploadPayload, BuildsOnBase, Publishing
<1>1. TypeOK'
  <2>1. NewPayload(w) \in PayloadObjects
    BY DEF UploadPayload, HasKey, NewPayload, NewDoc, Target, TypeOK, PayloadObjects,
           RootDocs, Uuids, Generations
  <2>2. 0 \in Attempts
    BY DEF Attempts
  <2> QED
    BY <2>1, <2>2 DEF UploadPayload, Goto, history, TypeOK, Phases, Active
<1>2. History'
  BY DEF UploadPayload, History, Committed
<1>3. Chain'
  BY DEF UploadPayload, Chain, Extends
<1>4. OnePayloadPerUuid'
  BY DEF UploadPayload, Goto, OnePayloadPerUuid, NewPayload, NewDoc, Target, TypeOK,
         Attempts
<1>5. BuildsOnBase'
  <2>1. published \subseteq published' /\ markers' = markers
    BY DEF UploadPayload
  <2>2. ASSUME NEW v \in Writers
        PROVE  /\ base'[v] \in markers' /\ seen'[v] \in Committed'
               /\ pc'[v] \in Publishing =>
                    \E o \in published' : o.doc = base'[v] /\ work'[v] = Append(o.catalog, v)
               /\ pc'[v] \in {"checking_upload", "marking", "resolving_marker"} =>
                    Target(v)' <= MaxGeneration
               /\ pc'[v] \in {"hinting", "committed"} => NewDoc(v)' \in markers'
    BY <2>1 DEF UploadPayload, HasKey, Goto, BuildsOnBase, Publishing, Target, NewDoc,
                TypeOK, Committed
  <2>3. ASSUME NEW v \in Writers, pc'[v] \in {"marking", "resolving_marker"}
        PROVE  Extends(NewDoc(v))'
    <3>1. CASE v = w
      <4>1. NewPayload(w) \in published' /\ NewDoc(w)' = NewDoc(w) /\ q \in published'
        BY <2>3, <3>1, <2>1 DEF UploadPayload, Goto, TypeOK, NewDoc, Target
      <4>2. base[w] \in markers' /\ base[w].generation \in Int
        BY <2>1 DEF BuildsOnBase, TypeOK, RootDocs, Generations
      <4>3. /\ NewDoc(w).generation = base[w].generation + 1
            /\ NewDoc(w).uuid.writer = w
            /\ NewPayload(w).doc = NewDoc(w) /\ NewPayload(w).catalog = work[w]
        BY DEF NewDoc, NewPayload, Target
      <4> QED
        BY <1>a, <3>1, <4>1, <4>2, <4>3 DEF Extends
    <3>2. CASE v # w
      <4>1. Extends(NewDoc(v)) /\ NewDoc(v)' = NewDoc(v)
        BY <2>3, <3>2 DEF UploadPayload, Goto, TypeOK, NewDoc, Target, BuildsOnBase
      <4> QED
        BY <4>1, <2>1 DEF Extends
    <3> QED
      BY <3>1, <3>2
  <2> QED
    BY <2>2, <2>3 DEF BuildsOnBase
<1>6. OwnMarkers'
  BY DEF UploadPayload, Goto, OwnMarkers, NewDoc, Target, TypeOK
<1>7. LateMarkers'
  BY DEF UploadPayload, Goto, history, LateMarkers, NewDoc, Target, TypeOK, Committed,
         Extends
<1>8. Attempted'
  BY DEF UploadPayload, Goto, history, Attempted, LostRaces, Publishing, TypeOK
<1>9. NoWriteSkew'
  BY DEF UploadPayload, history, NoWriteSkew
<1>10. LagIsNotCharged'
  BY DEF UploadPayload, Goto, history, LagIsNotCharged, LostRaces, TypeOK
<1>11. Collected'
  BY DEF UploadPayload, Collected, Superseded
<1> QED
  BY <1>1, <1>2, <1>3, <1>4, <1>5, <1>6, <1>7, <1>8, <1>9, <1>10, <1>11

\* An uncertain upload is resolved.
LEMMA CheckUploadInv ==
    ASSUME CommitInv, NEW w \in Writers, CheckUpload(w)
    PROVE  CommitInv'
<1> USE CommitAssumption DEF CommitInv
<1>1. TypeOK'
  <2>1. /\ attempt[w] \in Nat /\ unlanded[w] \in Nat /\ unlanded[w] <= attempt[w]
        /\ AttemptsLeft(attempt[w]) => attempt[w] + 1 \in Attempts /\ unlanded[w] + 1 \in Attempts
    BY DEF AttemptsLeft, TypeOK, Attempts, Attempted
  <2> QED
    BY <2>1 DEF CheckUpload, Goto, storeVars, TypeOK, Phases, Active, Ended
<1>2. History'
  BY DEF CheckUpload, storeVars, History, Committed
<1>3. Chain'
  BY DEF CheckUpload, storeVars, Chain, Extends
<1>4. OnePayloadPerUuid'
  <2>1. ASSUME NEW p \in published \cup latePayloads, NEW v \in Writers, p.doc.uuid.writer = v
        PROVE  \/ p.doc.uuid.attempt < attempt'[v]
               \/ /\ p = NewPayload(v)'
                  /\ pc'[v] \in {"checking_upload", "marking", "resolving_marker",
                                 "hinting", "committed", "aborted", "failed"}
    <3>1. \/ p.doc.uuid.attempt < attempt[v]
          \/ p = NewPayload(v) /\ p.doc.uuid.attempt = attempt[v]
      BY <2>1 DEF OnePayloadPerUuid, NewPayload, NewDoc
    <3>2. attempt[v] \in Int /\ p.doc.uuid.attempt \in Int
      BY DEF TypeOK, Attempts, PayloadObjects, RootDocs, Uuids
    <3>3. attempt'[v] = attempt[v] => NewPayload(v)' = NewPayload(v)
      BY DEF CheckUpload, NewPayload, NewDoc, Target
    <3> QED
      BY <2>1, <3>1, <3>2, <3>3 DEF CheckUpload, Goto, TypeOK, OnePayloadPerUuid
  <2> QED
    BY <2>1 DEF CheckUpload, storeVars, OnePayloadPerUuid
<1>5. BuildsOnBase'
  <2>1. ASSUME UploadLanded(w) PROVE Extends(NewDoc(w))
    <3>1. PICK p \in published : p.doc = NewDoc(w)
      BY <2>1 DEF UploadLanded, PayloadOf, Collected
    <3>2. attempt[w] \in Int /\ base[w].generation \in Int
      BY DEF TypeOK, Attempts, RootDocs, Generations
    <3>3. p = NewPayload(w)
      BY <3>1, <3>2 DEF OnePayloadPerUuid, NewDoc
    <3>4. PICK q \in published : q.doc = base[w] /\ work[w] = Append(q.catalog, w)
      BY DEF CheckUpload, BuildsOnBase, Publishing
    <3>5. base[w] \in markers
      BY DEF BuildsOnBase
    <3>6. NewDoc(w).generation = base[w].generation + 1 /\ NewDoc(w).uuid.writer = w
      BY DEF NewDoc, Target
    <3>7. NewPayload(w).catalog = work[w]
      BY DEF NewPayload
    <3> QED
      BY <3>1, <3>2, <3>3, <3>4, <3>5, <3>6, <3>7 DEF Extends
  <2>2. \A v \in Writers : v # w \/ UploadLanded(w) =>
           /\ NewDoc(v)' = NewDoc(v) /\ Target(v)' = Target(v)
           /\ Extends(NewDoc(v))' = Extends(NewDoc(v))
    BY DEF CheckUpload, storeVars, TypeOK, NewDoc, Target, Extends
  <2>3. ~UploadLanded(w) => pc'[w] \in {"aborted", "uploading"}
    BY DEF CheckUpload, Goto, TypeOK
  <2> QED
    BY <2>1, <2>2, <2>3 DEF CheckUpload, Goto, storeVars, BuildsOnBase, Publishing,
                            TypeOK, Committed
<1>6. OwnMarkers'
  BY DEF CheckUpload, Goto, storeVars, OwnMarkers, NewDoc, Target, TypeOK
<1>7. LateMarkers'
  BY DEF CheckUpload, Goto, storeVars, LateMarkers, NewDoc, Target, TypeOK, Committed,
         Extends
<1>8. Attempted'
  <2>1. \A v \in Writers : attempt[v] \in Nat /\ unlanded[v] \in Nat
    BY DEF TypeOK, Attempts
  <2>2. \A v \in Writers : LostRaces(v)' = LostRaces(v)
    BY <2>1 DEF CheckUpload, LostRaces, TypeOK
  <2> QED
    BY <2>1, <2>2 DEF CheckUpload, Goto, Attempted, Publishing, TypeOK
<1>9. NoWriteSkew'
  BY DEF CheckUpload, storeVars, NoWriteSkew
<1>10. LagIsNotCharged'
  <2>1. \A v \in Writers : LostRaces(v)' = LostRaces(v)
    BY DEF CheckUpload, LostRaces, TypeOK, Attempts
  <2> QED
    BY <2>1 DEF CheckUpload, Goto, LagIsNotCharged, LostRaces, TypeOK
<1>11. Collected'
  BY DEF CheckUpload, storeVars, Collected, Superseded
<1> QED
  BY <1>1, <1>2, <1>3, <1>4, <1>5, <1>6, <1>7, <1>8, <1>9, <1>10, <1>11

\* The commit point.
LEMMA CreateMarkerInv ==
    ASSUME CommitInv, NEW w \in Writers, CreateMarker(w)
    PROVE  CommitInv'
<1> USE CommitAssumption DEF CommitInv
<1>a. /\ NewDoc(w) \in RootDocs
      /\ NewDoc(w).generation = Target(w) /\ NewDoc(w).uuid.writer = w
      /\ Target(w) = base[w].generation + 1
      /\ base[w].generation \in Nat
      /\ pc[w] = "marking"
  BY DEF CreateMarker, NewDoc, Target, TypeOK, BuildsOnBase, RootDocs, Uuids,
         Generations
<1>b. \/ /\ MarkerFree(Target(w))
         /\ markers' = markers \cup {NewDoc(w)}
         /\ lateMarkers' = lateMarkers
         /\ pc' = [pc EXCEPT ![w] = "hinting"]
      \/ /\ markers' = markers
         /\ lateMarkers' \subseteq lateMarkers \cup {NewDoc(w)}
         /\ pc' = [pc EXCEPT ![w] = "resolving_marker"]
  BY <1>a, CreateAdds DEF CreateMarker, Goto
<1>c. UNCHANGED <<payloads, latePayloads, hint, published, txn, seen, base, work,
                  attempt, local, fetches, readBase, unlanded, lostAt>>
  BY DEF CreateMarker, history
<1>d. Extends(NewDoc(w))
  BY <1>a DEF BuildsOnBase
<1>e. markers \subseteq markers' /\ \A v \in Writers : NewDoc(v)' = NewDoc(v)
  BY <1>b, <1>c DEF NewDoc, Target
<1>1. TypeOK'
  BY <1>a, <1>b, <1>c DEF TypeOK, Phases, Active
<1>2. History'
  <2>1. CASE markers' = markers
    BY <2>1 DEF History, Committed
  <2>2. CASE MarkerFree(Target(w)) /\ markers' = markers \cup {NewDoc(w)}
    <3>1. PICK h \in Generations : Committed = 0..h
      BY DEF History
    <3>2. base[w].generation \in Committed /\ Target(w) \notin Committed
      BY <2>2 DEF BuildsOnBase, MarkerFree, Committed
    <3>3. Target(w) = h + 1
      BY <1>a, <3>1, <3>2 DEF Generations
    <3>4. Target(w) \in Generations
      BY <1>a DEF RootDocs
    <3>5. Committed' = Committed \cup {Target(w)}
      BY <1>a, <2>2 DEF Committed
    <3>6. Committed' = 0..Target(w)
      BY <3>1, <3>3, <3>5 DEF Generations
    <3>7. \A c, d \in markers' : c.generation = d.generation => c = d
      BY <1>a, <2>2, <3>2 DEF History, Committed
    <3> QED
      BY <3>4, <3>6, <3>7 DEF History
  <2> QED
    BY <1>b, <2>1, <2>2
<1>3. Chain'
  <2>1. \A d \in markers' : d.generation > 0 => Extends(d)
    BY <1>b, <1>d DEF Chain
  <2> QED
    BY <1>c, <1>e, <2>1, ExtendsStays DEF Chain
<1>4. OnePayloadPerUuid'
  BY DEF CreateMarker, Goto, OnePayloadPerUuid, NewPayload, NewDoc, Target, TypeOK
<1>5. BuildsOnBase'
  <2>1. \A v \in Writers : Extends(NewDoc(v)) => Extends(NewDoc(v))'
    BY <1>c, <1>e DEF Extends
  <2>2. Committed \subseteq Committed'
    BY <1>e DEF Committed
  <2> QED
    BY <1>a, <1>b, <1>c, <1>e, <2>1, <2>2 DEF BuildsOnBase, Publishing, Target, TypeOK
<1>6. OwnMarkers'
  BY <1>a, <1>b, <1>e DEF OwnMarkers, TypeOK
<1>7. LateMarkers'
  <2>1. ASSUME NEW d \in lateMarkers'
        PROVE  /\ d.uuid.writer \in Writers
               /\ Extends(d)
               /\ \/ d.generation \in Committed'
                  \/ /\ d = NewDoc(d.uuid.writer)
                     /\ pc'[d.uuid.writer] \in {"marking", "resolving_marker", "failed"}
                     /\ ReplaySafe(txn[d.uuid.writer])
                           \/ d.generation = readBase[d.uuid.writer] + 1
    <3>1. CASE d = NewDoc(w)
      <4>1. ReplaySafe(txn[w]) \/ Target(w) = readBase[w] + 1
        BY <1>a DEF Attempted, Publishing
      <4>2. NewDoc(w) \in markers' => Target(w) \in Committed'
        BY <1>a DEF Committed
      <4> QED
        BY <1>a, <1>b, <1>d, <3>1, <4>1, <4>2 DEF TypeOK
    <3>2. CASE d \in lateMarkers /\ d # NewDoc(w)
      <4>1. Committed \subseteq Committed'
        BY <1>e DEF Committed
      <4> QED
        BY <1>b, <3>2, <4>1 DEF LateMarkers, Extends, TypeOK
    <3> QED
      BY <1>b, <3>1, <3>2
  <2> QED
    BY <1>c, <1>e, <2>1, ExtendsStays DEF LateMarkers
<1>8. Attempted'
  BY DEF CreateMarker, Goto, history, Attempted, LostRaces, Publishing, TypeOK
<1>9. NoWriteSkew'
  <2>1. ReplaySafe(txn[w]) \/ Target(w) = readBase[w] + 1
    BY <1>a DEF Attempted, Publishing
  <2>2. ASSUME NEW d \in markers', NEW v \in Writers, d.uuid.writer = v, ~ReplaySafe(txn[v])
        PROVE  d.generation = readBase[v] + 1
    <3>1. CASE d \in markers
      BY <2>2, <3>1 DEF NoWriteSkew
    <3>2. CASE d = NewDoc(w)
      BY <2>1, <2>2, <3>2, <1>a
    <3> QED
      BY <1>b, <3>1, <3>2
  <2> QED
    BY <1>c, <2>2 DEF NoWriteSkew
<1>10. LagIsNotCharged'
  BY DEF CreateMarker, Goto, history, LagIsNotCharged, LostRaces, TypeOK
<1>11. Collected'
  BY <1>c, <1>e DEF Collected, Superseded
<1> QED
  BY <1>1, <1>2, <1>3, <1>4, <1>5, <1>6, <1>7, <1>8, <1>9, <1>10, <1>11

\* The marker is the writer's own.
LEMMA MarkerWonInv ==
    ASSUME CommitInv, NEW w \in Writers, MarkerWon(w)
    PROVE  CommitInv'
<1> USE CommitAssumption DEF CommitInv
<1>a. NewDoc(w) \in markers /\ pc[w] = "resolving_marker"
  BY DEF MarkerWon, MarkerOutcome
<1>1. TypeOK'
  BY DEF MarkerWon, Goto, storeVars, history, TypeOK, Phases, Active
<1>2. History'
  BY DEF MarkerWon, storeVars, History, Committed
<1>3. Chain'
  BY DEF MarkerWon, storeVars, Chain, Extends
<1>4. OnePayloadPerUuid'
  BY DEF MarkerWon, Goto, storeVars, OnePayloadPerUuid, NewPayload, NewDoc, Target
<1>5. BuildsOnBase'
  <2>1. \A v \in Writers : /\ NewDoc(v)' = NewDoc(v) /\ Target(v)' = Target(v)
                           /\ Extends(NewDoc(v))' = Extends(NewDoc(v))
    BY DEF MarkerWon, storeVars, NewDoc, Target, Extends
  <2> QED
    BY <2>1, <1>a DEF MarkerWon, Goto, storeVars, BuildsOnBase, Publishing, Committed
<1>6. OwnMarkers'
  BY DEF MarkerWon, Goto, storeVars, OwnMarkers, NewDoc, Target
<1>7. LateMarkers'
  <2>1. NewDoc(w).generation \in Committed
    BY <1>a DEF Committed
  <2> QED
    BY <2>1 DEF MarkerWon, Goto, storeVars, history, LateMarkers, NewDoc, Target,
                Committed, Extends
<1>8. Attempted'
  BY DEF MarkerWon, Goto, history, Attempted, LostRaces, Publishing
<1>9. NoWriteSkew'
  BY DEF MarkerWon, storeVars, history, NoWriteSkew
<1>10. LagIsNotCharged'
  BY DEF MarkerWon, Goto, history, LagIsNotCharged, LostRaces
<1>11. Collected'
  BY DEF MarkerWon, storeVars, Collected, Superseded
<1> QED
  BY <1>1, <1>2, <1>3, <1>4, <1>5, <1>6, <1>7, <1>8, <1>9, <1>10, <1>11

\* The marker is re-sent.
LEMMA MarkerAbsentInv ==
    ASSUME CommitInv, NEW w \in Writers, MarkerAbsent(w)
    PROVE  CommitInv'
<1> USE CommitAssumption DEF CommitInv
<1>1. TypeOK'
  <2>1. AttemptsLeft(attempt[w] + local[w]) => CountedResend(w) \in Attempts
    BY DEF AttemptsLeft, CountedResend, TypeOK, Attempts
  <2> QED
    BY <2>1 DEF MarkerAbsent, Goto, storeVars, history, TypeOK, Phases, Active, Ended
<1>2. History'
  BY DEF MarkerAbsent, storeVars, History, Committed
<1>3. Chain'
  BY DEF MarkerAbsent, storeVars, Chain, Extends
<1>4. OnePayloadPerUuid'
  BY DEF MarkerAbsent, Goto, storeVars, OnePayloadPerUuid, NewPayload, NewDoc, Target,
         TypeOK
<1>5. BuildsOnBase'
  <2>1. \A v \in Writers : NewDoc(v)' = NewDoc(v) /\ Target(v)' = Target(v) /\ Extends(NewDoc(v))' = Extends(NewDoc(v))
    BY DEF MarkerAbsent, storeVars, NewDoc, Target, Extends
  <2> QED
    BY <2>1 DEF MarkerAbsent, Goto, storeVars, BuildsOnBase, Publishing, TypeOK,
                Committed
<1>6. OwnMarkers'
  BY DEF MarkerAbsent, Goto, storeVars, OwnMarkers, NewDoc, Target, TypeOK
<1>7. LateMarkers'
  BY DEF MarkerAbsent, Goto, storeVars, history, LateMarkers, NewDoc, Target, TypeOK,
         Committed, Extends
<1>8. Attempted'
  BY DEF MarkerAbsent, Goto, history, Attempted, LostRaces, Publishing, TypeOK
<1>9. NoWriteSkew'
  BY DEF MarkerAbsent, storeVars, history, NoWriteSkew
<1>10. LagIsNotCharged'
  BY DEF MarkerAbsent, Goto, history, LagIsNotCharged, LostRaces, TypeOK
<1>11. Collected'
  BY DEF MarkerAbsent, storeVars, Collected, Superseded
<1> QED
  BY <1>1, <1>2, <1>3, <1>4, <1>5, <1>6, <1>7, <1>8, <1>9, <1>10, <1>11

\* A rival's marker: abort or replay.
LEMMA MarkerLostInv ==
    ASSUME CommitInv, NEW w \in Writers, MarkerLost(w)
    PROVE  CommitInv'
<1> USE CommitAssumption DEF CommitInv
<1>a. /\ NewDoc(w) \notin markers /\ Target(w) \in Committed
      /\ pc[w] = "resolving_marker"
      /\ attempt[w] \in Nat /\ base[w].generation \in Nat
  BY DEF MarkerLost, MarkerOutcome, MarkerFree, TypeOK, Attempts, RootDocs, Generations
<1>b. attempt' # attempt => attempt[w] + 1 < MaxAttempts /\ ReplaySafe(txn[w])
  <2>1. attempt' # attempt => DecideRebase(txn[w], attempt[w] + 1) = "replay"
    BY DEF MarkerLost
  <2>2. DecideRebase(txn[w], attempt[w] + 1) = "replay" => attempt[w] + 1 < MaxAttempts
    BY <1>a DEF DecideRebase
  <2> QED
    BY <2>1, <2>2, ReplayIsSafe DEF TypeOK
<1>1. TypeOK'
  <2>1. /\ DecideRebase(txn[w], attempt[w] + 1) = "replay" => attempt[w] + 1 \in Attempts
        /\ 0 \in Attempts
    BY <1>a DEF DecideRebase, Attempts
  <2> QED
    BY <2>1, HeadIsNewest DEF MarkerLost, Goto, StartResolve, storeVars, history,
                              TypeOK, Phases, Active, Ended
<1>2. History'
  BY DEF MarkerLost, storeVars, History, Committed
<1>3. Chain'
  BY DEF MarkerLost, storeVars, Chain, Extends
<1>4. OnePayloadPerUuid'
  <2>1. ASSUME NEW p \in published \cup latePayloads, NEW v \in Writers, p.doc.uuid.writer = v
        PROVE  \/ p.doc.uuid.attempt < attempt'[v]
               \/ /\ p = NewPayload(v)'
                  /\ pc'[v] \in {"checking_upload", "marking", "resolving_marker",
                                 "hinting", "committed", "aborted", "failed"}
    <3>1. \/ p.doc.uuid.attempt < attempt[v]
          \/ p = NewPayload(v) /\ p.doc.uuid.attempt = attempt[v]
      BY <2>1 DEF OnePayloadPerUuid, NewPayload, NewDoc
    <3>2. attempt[v] \in Int /\ p.doc.uuid.attempt \in Int
      BY DEF TypeOK, Attempts, PayloadObjects, RootDocs, Uuids
    <3>3. attempt'[v] = attempt[v] => NewPayload(v)' = NewPayload(v)
      BY DEF MarkerLost, NewPayload, NewDoc, Target
    <3> QED
      BY <2>1, <3>1, <3>2, <3>3 DEF MarkerLost, Goto, StartResolve, TypeOK,
                                    OnePayloadPerUuid
  <2> QED
    BY <2>1 DEF MarkerLost, storeVars, OnePayloadPerUuid
<1>5. BuildsOnBase'
  <2>1. \A v \in Writers \ {w} : /\ NewDoc(v)' = NewDoc(v) /\ Target(v)' = Target(v)
                                 /\ Extends(NewDoc(v))' = Extends(NewDoc(v))
    BY DEF MarkerLost, storeVars, NewDoc, Target, Extends, TypeOK
  <2>2. pc'[w] \in {"aborted", "resolving"} /\ \A v \in Writers \ {w} : pc'[v] = pc[v]
    BY DEF MarkerLost, Goto, StartResolve, TypeOK
  <2>3. \A v \in Writers : seen'[v] \in Committed
    BY HeadIsNewest DEF MarkerLost, StartResolve, BuildsOnBase, TypeOK
  <2> QED
    BY <2>1, <2>2, <2>3 DEF MarkerLost, storeVars, BuildsOnBase, Publishing, Committed
<1>6. OwnMarkers'
  BY DEF MarkerLost, Goto, StartResolve, storeVars, OwnMarkers, NewDoc, Target, TypeOK,
         MarkerOutcome
<1>7. LateMarkers'
  <2>1. \A d \in lateMarkers : d = NewDoc(w) => d.generation \in Committed
    BY <1>a DEF NewDoc
  <2>2. \A d \in lateMarkers : d.uuid.writer # w => NewDoc(d.uuid.writer)' = NewDoc(d.uuid.writer)
    BY DEF LateMarkers, Extends, MarkerLost, NewDoc, Target, TypeOK
  <2> QED
    BY <2>1, <2>2 DEF MarkerLost, Goto, StartResolve, storeVars, history, LateMarkers,
                      TypeOK, Committed, Extends
<1>8. Attempted'
  <2>1. /\ Target(w) <= HeadGeneration /\ HeadGeneration \in Nat
        /\ Target(w) = base[w].generation + 1
    BY <1>a, HeadIsNewest DEF Target, Generations
  <2>2. LostRaces(w) > 0 => LostRaces(w) - 1 <= base[w].generation - lostAt[w]
    BY <1>a DEF LagIsNotCharged, LostRaces
  <2>3. /\ lostAt[w] \in Nat /\ unlanded[w] \in Nat /\ unlanded[w] <= attempt[w]
        /\ \A v \in Writers : v # w => LostRaces(v)' = LostRaces(v)
    BY DEF TypeOK, Generations, Attempts, Attempted, LostRaces, MarkerLost
  <2>4. pc'[w] = "resolving" =>
           /\ seen'[w] = HeadGeneration
           /\ attempt'[w] = attempt[w] + 1
           /\ lostAt'[w] = IF attempt[w] = unlanded[w] THEN HeadGeneration ELSE lostAt[w]
           /\ unlanded'[w] = unlanded[w]
    BY DEF MarkerLost, Goto, StartResolve, TypeOK
  <2>5. pc'[w] = "resolving" => LostRaces(w)' - 1 <= seen'[w] - lostAt'[w]
    BY <1>a, <2>1, <2>2, <2>3, <2>4 DEF LostRaces
  <2>6. unlanded'[w] <= attempt'[w]
    BY <1>a, <2>3 DEF MarkerLost, TypeOK
  <2> QED
    BY <1>a, <1>b, <2>3, <2>5, <2>6 DEF MarkerLost, Goto, StartResolve, Attempted,
                                        Publishing, TypeOK
<1>9. NoWriteSkew'
  BY DEF MarkerLost, storeVars, NoWriteSkew
<1>10. LagIsNotCharged'
  <2>1. \A v \in Writers : v # w =>
           LostRaces(v)' = LostRaces(v) /\ lostAt'[v] = lostAt[v] /\ pc'[v] = pc[v]
    BY DEF MarkerLost, Goto, StartResolve, LostRaces, TypeOK
  <2>2. pc'[w] \in {"aborted", "resolving"}
    BY DEF MarkerLost, Goto, StartResolve, TypeOK
  <2> QED
    BY <2>1, <2>2 DEF MarkerLost, LagIsNotCharged, LostRaces
<1>11. Collected'
  BY DEF MarkerLost, storeVars, Collected, Superseded
<1> QED
  BY <1>1, <1>2, <1>3, <1>4, <1>5, <1>6, <1>7, <1>8, <1>9, <1>10, <1>11

\* The hint is written and the result returned.
LEMMA WriteHintInv ==
    ASSUME CommitInv, NEW w \in Writers, WriteHint(w)
    PROVE  CommitInv'
<1> USE CommitAssumption DEF CommitInv
<1>a. NewDoc(w) \in markers /\ Target(w) \in Generations
  BY DEF WriteHint, BuildsOnBase, TypeOK, RootDocs, NewDoc
<1>1. TypeOK'
  BY <1>a DEF WriteHint, Goto, history, TypeOK, Phases, Ended
<1>2. History'
  BY DEF WriteHint, History, Committed
<1>3. Chain'
  BY DEF WriteHint, Chain, Extends
<1>4. OnePayloadPerUuid'
  BY DEF WriteHint, Goto, OnePayloadPerUuid, NewPayload, NewDoc, Target
<1>5. BuildsOnBase'
  <2>1. \A v \in Writers : /\ NewDoc(v)' = NewDoc(v) /\ Target(v)' = Target(v)
                           /\ Extends(NewDoc(v))' = Extends(NewDoc(v))
    BY DEF WriteHint, NewDoc, Target, Extends
  <2> QED
    BY <2>1, <1>a DEF WriteHint, Goto, BuildsOnBase, Publishing, Committed
<1>6. OwnMarkers'
  BY DEF WriteHint, Goto, OwnMarkers, NewDoc, Target
<1>7. LateMarkers'
  BY DEF WriteHint, Goto, history, LateMarkers, NewDoc, Target, Committed, Extends
<1>8. Attempted'
  BY DEF WriteHint, Goto, history, Attempted, LostRaces, Publishing
<1>9. NoWriteSkew'
  BY DEF WriteHint, history, NoWriteSkew
<1>10. LagIsNotCharged'
  BY DEF WriteHint, Goto, history, LagIsNotCharged, LostRaces
<1>11. Collected'
  BY DEF WriteHint, Collected, Superseded
<1> QED
  BY <1>1, <1>2, <1>3, <1>4, <1>5, <1>6, <1>7, <1>8, <1>9, <1>10, <1>11

\* The process dies or gives up.
LEMMA StopInv ==
    ASSUME CommitInv, NEW w \in Writers, Stop(w)
    PROVE  CommitInv'
<1> USE CommitAssumption DEF CommitInv
<1>1. TypeOK'
  BY DEF Stop, Goto, storeVars, history, TypeOK, Phases, Ended
<1>2. History'
  BY DEF Stop, storeVars, History, Committed
<1>3. Chain'
  BY DEF Stop, storeVars, Chain, Extends
<1>4. OnePayloadPerUuid'
  BY DEF Stop, Goto, storeVars, OnePayloadPerUuid, NewPayload, NewDoc, Target
<1>5. BuildsOnBase'
  <2>1. \A v \in Writers : /\ NewDoc(v)' = NewDoc(v) /\ Target(v)' = Target(v)
                           /\ Extends(NewDoc(v))' = Extends(NewDoc(v))
    BY DEF Stop, storeVars, NewDoc, Target, Extends
  <2> QED
    BY <2>1 DEF Stop, Goto, storeVars, BuildsOnBase, Publishing, Committed
<1>6. OwnMarkers'
  BY DEF Stop, Goto, storeVars, OwnMarkers, NewDoc, Target
<1>7. LateMarkers'
  BY DEF Stop, Goto, storeVars, history, LateMarkers, NewDoc, Target, Committed, Extends
<1>8. Attempted'
  BY DEF Stop, Goto, history, Attempted, LostRaces, Publishing
<1>9. NoWriteSkew'
  BY DEF Stop, storeVars, history, NoWriteSkew
<1>10. LagIsNotCharged'
  BY DEF Stop, Goto, history, LagIsNotCharged, LostRaces
<1>11. Collected'
  BY DEF Stop, storeVars, Collected, Superseded
<1> QED
  BY <1>1, <1>2, <1>3, <1>4, <1>5, <1>6, <1>7, <1>8, <1>9, <1>10, <1>11

\* A payload upload takes effect late.
LEMMA LandPayloadInv ==
    ASSUME CommitInv, NEW p \in latePayloads, LandPayload(p)
    PROVE  CommitInv'
<1> USE CommitAssumption DEF CommitInv
<1>a. /\ payloads' = payloads \cup {p} /\ published' = published \cup {p}
      /\ latePayloads' \subseteq latePayloads
      /\ UNCHANGED <<markers, lateMarkers, hint, pc, txn, seen, base, work, attempt,
                     local, fetches, readBase, unlanded, lostAt>>
  BY DEF LandPayload, history
<1>b. published \subseteq published' /\ markers \subseteq markers'
  BY <1>a
<1>c. \A v \in Writers : /\ NewDoc(v)' = NewDoc(v) /\ Target(v)' = Target(v)
                         /\ NewPayload(v)' = NewPayload(v)
                         /\ Extends(NewDoc(v)) => Extends(NewDoc(v))'
  BY <1>a DEF NewDoc, Target, NewPayload, Extends
<1>1. TypeOK'
  BY <1>a DEF TypeOK
<1>2. History'
  BY <1>a DEF History, Committed
<1>3. Chain'
  BY <1>a, <1>b, ExtendsStays DEF Chain
<1>4. OnePayloadPerUuid'
  BY <1>a, <1>c DEF OnePayloadPerUuid
<1>5. BuildsOnBase'
  BY <1>a, <1>b, <1>c DEF BuildsOnBase, Committed
<1>6. OwnMarkers'
  BY <1>a, <1>c DEF OwnMarkers
<1>7. LateMarkers'
  <2>1. \A d \in lateMarkers : d.uuid.writer \in Writers /\ Extends(d)'
    BY <1>a, <1>b DEF LateMarkers, Extends
  <2> QED
    BY <1>a, <1>c, <2>1 DEF LateMarkers, Committed
<1>8. Attempted' /\ NoWriteSkew' /\ LagIsNotCharged'
  BY <1>a DEF Attempted, NoWriteSkew, LagIsNotCharged, LostRaces
<1>9. Collected'
  BY <1>a DEF Collected, Superseded
<1> QED
  BY <1>1, <1>2, <1>3, <1>4, <1>5, <1>6, <1>7, <1>8, <1>9

\* A marker PUT takes effect late.
LEMMA LandMarkerInv ==
    ASSUME CommitInv, NEW d \in lateMarkers, LandMarker(d)
    PROVE  CommitInv'
<1> USE CommitAssumption DEF CommitInv
<1> DEFINE w == d.uuid.writer
<1>a. /\ lateMarkers' \subseteq lateMarkers
      /\ UNCHANGED <<payloads, latePayloads, hint, published, pc, txn, seen, base, work,
                     attempt, local, fetches, readBase, unlanded, lostAt>>
      /\ \/ markers' = markers
         \/ markers' = markers \cup {d} /\ d.generation \notin Committed
  BY CreateAdds DEF LandMarker, history, MarkerFree
<1>b. published \subseteq published' /\ markers \subseteq markers' /\ Committed \subseteq Committed'
  BY <1>a DEF Committed
<1>c. \A v \in Writers : /\ NewDoc(v)' = NewDoc(v) /\ Target(v)' = Target(v)
                         /\ NewPayload(v)' = NewPayload(v)
                         /\ Extends(NewDoc(v)) => Extends(NewDoc(v))'
  BY <1>a, <1>b DEF NewDoc, Target, NewPayload, Extends
<1>d. w \in Writers /\ Extends(d) /\ d \in RootDocs
  BY DEF LateMarkers, Extends, TypeOK
<1>e. d.generation \notin Committed =>
         /\ d = NewDoc(w)
         /\ pc[w] \in {"marking", "resolving_marker", "failed"}
         /\ ReplaySafe(txn[w]) \/ d.generation = readBase[w] + 1
  BY DEF LateMarkers
<1>1. TypeOK'
  BY <1>a, <1>d DEF TypeOK
<1>2. History'
  <2>1. CASE markers' = markers
    BY <2>1 DEF History, Committed
  <2>2. CASE markers' = markers \cup {d} /\ d.generation \notin Committed
    <3>1. PICK h \in Generations : Committed = 0..h
      BY DEF History
    <3>2. PICK c \in markers : c.generation = d.generation - 1
      BY <1>d DEF Extends
    <3>3. c.generation \in Committed
      BY <3>2 DEF Committed
    <3>4. d.generation \in Generations
      BY <1>d DEF RootDocs
    <3>5. d.generation = h + 1
      BY <2>2, <3>1, <3>2, <3>3, <3>4 DEF Generations
    <3>6. Committed' = Committed \cup {d.generation}
      BY <2>2 DEF Committed
    <3>7. Committed' = 0..d.generation
      BY <3>1, <3>5, <3>6 DEF Generations
    <3>8. \A e, f \in markers' : e.generation = f.generation => e = f
      BY <2>2 DEF History, Committed
    <3> QED
      BY <3>4, <3>7, <3>8 DEF History
  <2> QED
    BY <1>a, <2>1, <2>2
<1>3. Chain'
  <2>1. \A e \in markers' : e.generation > 0 => Extends(e)
    BY <1>a, <1>d DEF Chain
  <2> QED
    BY <1>b, <2>1, ExtendsStays DEF Chain
<1>4. OnePayloadPerUuid'
  BY <1>a, <1>c DEF OnePayloadPerUuid
<1>5. BuildsOnBase'
  BY <1>a, <1>b, <1>c DEF BuildsOnBase
<1>6. OwnMarkers'
  BY <1>a, <1>c, <1>e DEF OwnMarkers
<1>7. LateMarkers'
  <2>1. \A e \in lateMarkers : e.uuid.writer \in Writers /\ Extends(e)'
    BY <1>b DEF LateMarkers, Extends
  <2> QED
    BY <1>a, <1>b, <1>c, <2>1 DEF LateMarkers
<1>8. NoWriteSkew'
  <2>1. ASSUME NEW e \in markers', NEW v \in Writers, e.uuid.writer = v, ~ReplaySafe(txn[v])
        PROVE  e.generation = readBase[v] + 1
    <3>1. CASE e \in markers
      BY <2>1, <3>1 DEF NoWriteSkew
    <3>2. CASE e = d /\ d.generation \notin Committed
      BY <2>1, <3>2, <1>e
    <3> QED
      BY <1>a, <3>1, <3>2
  <2> QED
    BY <1>a, <2>1 DEF NoWriteSkew
<1>9. Attempted' /\ LagIsNotCharged'
  BY <1>a DEF Attempted, LagIsNotCharged, LostRaces
<1>10. Collected'
  BY <1>a, <1>b DEF Collected, Superseded
<1> QED
  BY <1>1, <1>2, <1>3, <1>4, <1>5, <1>6, <1>7, <1>8, <1>9, <1>10

\* A superseded payload is deleted, by whatever kind of collector.
LEMMA DeletionInv ==
    ASSUME CommitInv, NEW p \in payloads, Superseded(p), payloads' = payloads \ {p},
           UNCHANGED <<markers, lateMarkers, latePayloads, hint, published, pc, txn, seen,
                       base, work, attempt, local, fetches, history>>
    PROVE  CommitInv'
<1> USE CommitAssumption DEF CommitInv
<1>a. /\ payloads' = payloads \ {p} /\ Superseded(p)
      /\ UNCHANGED <<markers, lateMarkers, latePayloads, hint, published, pc, txn, seen,
                     base, work, attempt, local, fetches, readBase, unlanded, lostAt>>
  BY DEF history
<1>b. \A v \in Writers : /\ NewDoc(v)' = NewDoc(v) /\ Target(v)' = Target(v)
                         /\ NewPayload(v)' = NewPayload(v)
                         /\ Extends(NewDoc(v)) => Extends(NewDoc(v))'
  BY <1>a DEF NewDoc, Target, NewPayload, Extends
<1>1. TypeOK'
  BY <1>a DEF TypeOK
<1>2. History'
  BY <1>a DEF History, Committed
<1>3. Chain'
  BY <1>a, ExtendsStays DEF Chain
<1>4. OnePayloadPerUuid'
  BY <1>a, <1>b DEF OnePayloadPerUuid
<1>5. BuildsOnBase'
  BY <1>a, <1>b DEF BuildsOnBase, Committed
<1>6. OwnMarkers'
  BY <1>a, <1>b DEF OwnMarkers
<1>7. LateMarkers'
  <2>1. \A d \in lateMarkers : d.uuid.writer \in Writers /\ Extends(d)'
    BY <1>a DEF LateMarkers, Extends
  <2> QED
    BY <1>a, <1>b, <2>1 DEF LateMarkers, Committed
<1>8. Attempted' /\ NoWriteSkew' /\ LagIsNotCharged'
  BY <1>a DEF Attempted, NoWriteSkew, LagIsNotCharged, LostRaces
<1>9. Collected'
  BY <1>a DEF Collected, Superseded
<1> QED
  BY <1>1, <1>2, <1>3, <1>4, <1>5, <1>6, <1>7, <1>8, <1>9

\* The hint is set to a committed generation.
LEMMA HintInv ==
    ASSUME CommitInv, NEW d \in markers, hint' = d.generation,
           UNCHANGED <<markers, payloads, lateMarkers, latePayloads, published, pc, txn,
                       seen, base, work, attempt, local, fetches, history>>
    PROVE  CommitInv'
<1> USE CommitAssumption DEF CommitInv
<1>a. /\ hint' = d.generation
      /\ UNCHANGED <<markers, payloads, lateMarkers, latePayloads, published, pc, txn,
                     seen, base, work, attempt, local, fetches, readBase, unlanded, lostAt>>
  BY DEF history
<1>b. \A v \in Writers : /\ NewDoc(v)' = NewDoc(v) /\ Target(v)' = Target(v)
                         /\ NewPayload(v)' = NewPayload(v)
                         /\ Extends(NewDoc(v)) => Extends(NewDoc(v))'
  BY <1>a DEF NewDoc, Target, NewPayload, Extends
<1>1. TypeOK'
  BY <1>a DEF TypeOK, RootDocs
<1>2. History'
  BY <1>a DEF History, Committed
<1>3. Chain'
  BY <1>a, ExtendsStays DEF Chain
<1>4. OnePayloadPerUuid'
  BY <1>a, <1>b DEF OnePayloadPerUuid
<1>5. BuildsOnBase'
  BY <1>a, <1>b DEF BuildsOnBase, Committed
<1>6. OwnMarkers'
  BY <1>a, <1>b DEF OwnMarkers
<1>7. LateMarkers'
  <2>1. \A c \in lateMarkers : c.uuid.writer \in Writers /\ Extends(c)'
    BY <1>a DEF LateMarkers, Extends
  <2> QED
    BY <1>a, <1>b, <2>1 DEF LateMarkers, Committed
<1>8. Attempted' /\ NoWriteSkew' /\ LagIsNotCharged'
  BY <1>a DEF Attempted, NoWriteSkew, LagIsNotCharged, LostRaces
<1>9. Collected'
  BY <1>a DEF Collected, Superseded
<1> QED
  BY <1>1, <1>2, <1>3, <1>4, <1>5, <1>6, <1>7, <1>8, <1>9

\* A collector, as CommitProtocol knows it, takes a step.
LEMMA CollectorInv == CommitInv /\ Collector => CommitInv'
<1>1. ASSUME CommitInv, NEW p \in payloads, Collect(p) PROVE CommitInv'
  BY <1>1, DeletionInv DEF Collect
<1>2. ASSUME CommitInv, NEW d \in markers, CollectorHint(d) PROVE CommitInv'
  BY <1>2, HintInv DEF CollectorHint
<1> QED
  BY <1>1, <1>2 DEF Collector

\* Nothing changes.
LEMMA StutterInv == CommitInv /\ UNCHANGED vars => CommitInv'
<1> SUFFICES ASSUME CommitInv, UNCHANGED vars PROVE CommitInv'
  OBVIOUS
<1> USE DEF CommitInv, vars
<1>1. TypeOK' /\ History' /\ Chain'
  BY DEF TypeOK, History, Chain, Committed, Extends
<1>2. OnePayloadPerUuid' /\ OwnMarkers'
  BY DEF OnePayloadPerUuid, OwnMarkers, NewPayload, NewDoc, Target
<1>3. BuildsOnBase'
  <2>1. \A w \in Writers : NewDoc(w)' = NewDoc(w) /\ Target(w)' = Target(w)
    BY DEF NewDoc, Target
  <2>2. \A w \in Writers : Extends(NewDoc(w)) => Extends(NewDoc(w))'
    BY DEF Extends, NewDoc, Target
  <2>3. /\ UNCHANGED <<markers, published, base, seen, pc, work>>
        /\ BuildsOnBase
    OBVIOUS
  <2> HIDE DEF CommitInv, vars
  <2> QED
    BY <2>1, <2>2, <2>3 DEF BuildsOnBase, Committed
<1>4. LateMarkers'
  <2>1. \A d \in lateMarkers : /\ d.uuid.writer \in Writers
                               /\ Extends(d)'
                               /\ NewDoc(d.uuid.writer)' = NewDoc(d.uuid.writer)
    BY DEF LateMarkers, Extends, NewDoc, Target
  <2> QED
    BY <2>1 DEF LateMarkers, Committed
<1>5. Attempted' /\ NoWriteSkew' /\ LagIsNotCharged' /\ Collected'
  BY DEF Attempted, NoWriteSkew, LagIsNotCharged, LostRaces, Collected, Superseded
<1> QED
  BY <1>1, <1>2, <1>3, <1>4, <1>5

\* Every step preserves the invariant.
LEMMA StepInv == CommitInv /\ [Next]_vars => CommitInv'
<1> SUFFICES ASSUME CommitInv, [Next]_vars PROVE CommitInv'
  OBVIOUS
<1>1. ASSUME NEW w \in Writers, Step(w) PROVE CommitInv'
  BY <1>1, BeginInv, ResolveHeadInv, FetchCatalogInv, FetchMissInv, UploadRefusedInv,
     UploadPayloadInv, CheckUploadInv, CreateMarkerInv, MarkerWonInv, MarkerAbsentInv,
     MarkerLostInv, WriteHintInv DEF Step
<1>2. ASSUME NEW w \in Writers, Stop(w) PROVE CommitInv'
  BY <1>2, StopInv
<1>3. CASE Deliver
  BY <1>3, LandPayloadInv, LandMarkerInv DEF Deliver
<1>4. CASE Collector
  BY <1>4, CollectorInv
<1>5. CASE Finished
  BY <1>5, StutterInv DEF Finished
<1>6. CASE UNCHANGED vars
  BY <1>6, StutterInv
<1> QED
  BY <1>1, <1>2, <1>3, <1>4, <1>5, <1>6 DEF Next

---------------------------------------------------------------------------
(* What the invariant says of the history *)

\* Every marker's payload was published.
LEMMA MarkerHasPayload ==
    ASSUME CommitInv, NEW d \in markers
    PROVE  \E p \in published : p.doc = d
<1>1. d.generation \in Nat /\ Genesis.generation = 0
  BY DEF CommitInv, TypeOK, RootDocs, Generations, Genesis
<1>2. CASE d.generation > 0
  BY <1>2 DEF CommitInv, Chain, Extends
<1>3. CASE d.generation = 0
  <2>1. d = Genesis
    BY <1>1, <1>3 DEF CommitInv, History, Chain
  <2> QED
    BY <2>1 DEF CommitInv, Chain
<1> QED
  BY <1>1, <1>2, <1>3

\* A committed generation has one catalog: that of its marker's payload.
LEMMA CatalogIsPayload ==
    ASSUME CommitInv, NEW d \in markers, NEW p \in published, p.doc = d
    PROVE  CatalogAt(d.generation) = p.catalog
<1>1. (CHOOSE m \in markers : m.generation = d.generation) = d
  OBVIOUS
<1>2. \A o \in published : o.doc = d => o = p
  BY DEF CommitInv, OnePayloadPerUuid
<1>3. (CHOOSE o \in published : o.doc = d) = p
  BY <1>2
<1> QED
  BY <1>1, <1>3 DEF CatalogAt

---------------------------------------------------------------------------
(* The theorems *)

\* The inductive invariant holds in every state of every execution.
THEOREM InvariantHolds == Spec => []CommitInv
<1>1. Init => CommitInv
  BY InitInv
<1>2. CommitInv /\ [Next]_vars => CommitInv'
  BY StepInv
<1> QED
  BY <1>1, <1>2, PTL DEF Spec

\* Every variable keeps its type: no generation past MAX_GENERATION is ever
\* named and no attempt counter exceeds the budget.
THEOREM TypeCorrect == Spec => []TypeOK
<1>1. CommitInv => TypeOK
  BY DEF CommitInv
<1> QED
  BY <1>1, InvariantHolds, PTL

\* A transaction takes effect at most once, whatever is re-sent or replayed.
THEOREM AppliedAtMostOnce == Spec => []AtMostOnce
<1>1. CommitInv => AtMostOnce
  <2> SUFFICES ASSUME CommitInv, NEW c \in markers, NEW d \in markers,
                      c.uuid.writer = d.uuid.writer
               PROVE  c = d
    BY DEF AtMostOnce
  <2>1. CASE c.uuid.writer \in Writers
    BY <2>1 DEF CommitInv, OwnMarkers
  <2>2. CASE c.uuid.writer \notin Writers
    <3>1. c.generation \in Nat /\ d.generation \in Nat
      BY DEF CommitInv, TypeOK, RootDocs, Generations
    <3>2. c.generation = 0 /\ d.generation = 0
      BY <2>2, <3>1 DEF CommitInv, Chain, Extends
    <3> QED
      BY <3>2 DEF CommitInv, History
  <2> QED
    BY <2>1, <2>2
<1> QED
  BY <1>1, InvariantHolds, PTL

\* A committed answer is backed by the transaction's own marker.
THEOREM CommitsAreDurable == Spec => []CommittedIsDurable
<1>1. CommitInv => CommittedIsDurable
  BY DEF CommitInv, BuildsOnBase, CommittedIsDurable
<1> QED
  BY <1>1, InvariantHolds, PTL

\* An aborted answer is final, even against requests still in flight.
THEOREM AbortsAreFinal == Spec => []AbortedNeverCommits
<1>1. CommitInv => AbortedNeverCommits
  BY DEF CommitInv, OwnMarkers, LateMarkers, AbortedNeverCommits, MarkerFree
<1> QED
  BY <1>1, InvariantHolds, PTL

\* The head's catalog file is in the store, whatever collectors delete.
THEOREM HeadIsReadable == Spec => []HeadPayloadPresent
<1>1. CommitInv => HeadPayloadPresent
  <2> SUFFICES ASSUME CommitInv, NEW d \in markers, d.generation = HeadGeneration
               PROVE  PayloadOf(d) # {}
    BY DEF HeadPayloadPresent
  <2>1. PICK p \in published : p.doc = d
    BY MarkerHasPayload
  <2>2. \A m \in markers : m.generation <= d.generation /\ m.generation \in Nat
    BY HeadIsNewest DEF CommitInv, Committed, TypeOK, RootDocs, Generations
  <2>3. ~Superseded(p)
    BY <2>1, <2>2 DEF Superseded
  <2> QED
    BY <2>1, <2>3 DEF CommitInv, Collected, PayloadOf
<1> QED
  BY <1>1, InvariantHolds, PTL

\* Each generation is its predecessor plus one transaction: nothing is lost.
THEOREM HistoryIsLinear == Spec => []Lineage
<1>1. CommitInv => Lineage
  <2> SUFFICES ASSUME CommitInv, NEW d \in markers, d.generation > 0
               PROVE  /\ d.generation - 1 \in Committed
                      /\ CatalogAt(d.generation) =
                            Append(CatalogAt(d.generation - 1), d.uuid.writer)
    BY DEF Lineage
  <2>1. PICK c \in markers : \E p, q \in published :
              /\ c.generation = d.generation - 1
              /\ p.doc = d /\ q.doc = c
              /\ p.catalog = Append(q.catalog, d.uuid.writer)
    BY DEF CommitInv, Chain, Extends
  <2>2. PICK p \in published, q \in published :
              /\ c.generation = d.generation - 1
              /\ p.doc = d /\ q.doc = c
              /\ p.catalog = Append(q.catalog, d.uuid.writer)
    BY <2>1
  <2>3. CatalogAt(d.generation) = p.catalog
    BY <2>2, CatalogIsPayload
  <2>4. CatalogAt(d.generation - 1) = q.catalog
    BY <2>2, CatalogIsPayload
  <2> QED
    BY <2>2, <2>3, <2>4 DEF Committed
<1> QED
  BY <1>1, InvariantHolds, PTL

\* A transaction that read the lake never commits on a later generation than
\* the one it read.
THEOREM NoSkew == Spec => []NoWriteSkew
<1>1. CommitInv => NoWriteSkew
  BY DEF CommitInv
<1> QED
  BY <1>1, InvariantHolds, PTL

\* Lag is never charged to the attempt budget: from the head a writer first
\* lost to, only rivals' commits and unlanded uploads are.
THEOREM LagIsFree == Spec => []LagIsNotCharged
<1>1. CommitInv => LagIsNotCharged
  BY DEF CommitInv
<1> QED
  BY <1>1, InvariantHolds, PTL

\* No step removes or replaces a marker.
THEOREM MarkersAreImmortal == Spec => MarkersImmortal
<1>1. CommitInv /\ [Next]_vars => [markers \subseteq markers']_vars
  <2> SUFFICES ASSUME CommitInv, Next PROVE markers \subseteq markers'
    OBVIOUS
  <2>1. ASSUME NEW w \in Writers, CreateMarker(w) PROVE markers \subseteq markers'
    BY <2>1, CreateAdds DEF CreateMarker, NewDoc
  <2>2. ASSUME NEW d \in lateMarkers, LandMarker(d) PROVE markers \subseteq markers'
    BY <2>2, CreateAdds DEF LandMarker
  <2>3. ASSUME NEW w \in Writers, Step(w) \/ Stop(w) PROVE markers \subseteq markers'
    BY <2>1, <2>3 DEF Step, Stop, Begin, ResolveHead, FetchCatalog, FetchMiss,
                      UploadRefused, UploadPayload, CheckUpload, MarkerWon,
                      MarkerAbsent, MarkerLost, WriteHint, storeVars
  <2>4. CASE Deliver
    BY <2>2, <2>4 DEF Deliver, LandPayload
  <2>5. CASE Collector
    BY <2>5 DEF Collector, Collect, CollectorHint
  <2> QED
    BY <2>3, <2>4, <2>5 DEF Next, Finished, vars
<1> QED
  BY <1>1, InvariantHolds, PTL DEF Spec, MarkersImmortal

---------------------------------------------------------------------------
(* CommitProtocol implements CatalogLog: every step of the marker protocol *)
(* appends one transaction to the log, gives one true answer, or leaves    *)
(* log and answers alone.                                                  *)

\* d is the newest marker, and p the payload that it names.
IsHead(d, p) ==
    /\ d \in markers
    /\ d.generation = HeadGeneration
    /\ \A c \in markers : c.generation = d.generation => c = d
    /\ d.generation \in Nat
    /\ p \in published /\ p.doc = d
    /\ p.catalog = CatalogAt(HeadGeneration)
    /\ p.catalog \in Seq(Writers)
    /\ \A o \in published : o.doc = d => o = p

LEMMA LakeHasHead == CommitInv => \E m, o : IsHead(m, o)
<1> SUFFICES ASSUME CommitInv PROVE \E m, o : IsHead(m, o)
  OBVIOUS
<1>1. PICK d \in markers : d.generation = HeadGeneration
  BY HeadIsNewest DEF CommitInv, Committed
<1>2. PICK p \in published : p.doc = d
  BY MarkerHasPayload
<1>3. p.catalog = CatalogAt(HeadGeneration)
  BY <1>1, <1>2, CatalogIsPayload
<1>4. \A o \in published : o.doc = d => o = p
  BY <1>2 DEF CommitInv, OnePayloadPerUuid
<1>5. \A c \in markers : c.generation = d.generation => c = d
  BY DEF CommitInv, History
<1>6. d.generation \in Nat /\ p.catalog \in Seq(Writers)
  BY CommitAssumption
     DEF CommitInv, TypeOK, PayloadObjects, RootDocs, Generations, Catalogs
<1> QED
  BY <1>1, <1>2, <1>3, <1>4, <1>5, <1>6 DEF IsHead

\* The same two facts after a step.
LEMMA LakeHasHeadNext == (CommitInv => \E m, o : IsHead(m, o))'
<1> QED
  BY LakeHasHead, PTL

LEMMA HeadIsNewestNext ==
    (History => /\ HeadGeneration \in Generations
                /\ HeadGeneration \in Committed
                /\ \A g \in Committed : g <= HeadGeneration)'
<1> QED
  BY HeadIsNewest, PTL

\* While no marker is created the log stays, whatever else is written.
LEMMA LogStays ==
    ASSUME CommitInv, CommitInv', markers' = markers, published \subseteq published'
    PROVE  CatalogAt(HeadGeneration)' = CatalogAt(HeadGeneration)
<1>1. (CommitInv => \E m, o : IsHead(m, o))'
  BY LakeHasHeadNext
<1>2. PICK d, p : IsHead(d, p)
  BY LakeHasHead
<1>3. PICK e, q : IsHead(e, q)'
  BY <1>1
<1>4. HeadGeneration' = HeadGeneration
  BY DEF HeadGeneration, Committed
<1>5. e = d
  BY <1>2, <1>3, <1>4 DEF IsHead
<1>6. q = p
  BY <1>2, <1>3, <1>5 DEF IsHead
<1> QED
  BY <1>2, <1>3, <1>6 DEF IsHead

\* A marker on top of the head adds its writer to the log.
LEMMA LogGrows ==
    ASSUME CommitInv, CommitInv', NEW d \in RootDocs, Extends(d),
           MarkerFree(d.generation), markers' = markers \cup {d}, published' = published
    PROVE  CatalogAt(HeadGeneration)' = Append(CatalogAt(HeadGeneration), d.uuid.writer)
<1>1. (CommitInv => \E m, o : IsHead(m, o))'
  BY LakeHasHeadNext
<1>2. PICK c, q : IsHead(c, q)
  BY LakeHasHead
<1>3. PICK e, p : IsHead(e, p)'
  BY <1>1
<1>4. /\ d.generation \in Nat
      /\ \A m \in markers : m.generation \in Nat /\ m.generation <= HeadGeneration
  BY HeadIsNewest, CommitAssumption
     DEF CommitInv, TypeOK, RootDocs, Generations, Committed
<1>5. PICK a \in markers, x \in published, y \in published :
        /\ a.generation = d.generation - 1
        /\ x.doc = d /\ y.doc = a /\ x.catalog = Append(y.catalog, d.uuid.writer)
  BY DEF Extends
<1>6. PICK h \in Generations : Committed = 0..h
  BY DEF CommitInv, History
<1>7. h \in Nat /\ d.generation \notin 0..h /\ a.generation \in 0..h
  BY <1>5, <1>6, CommitAssumption DEF MarkerFree, Committed, Generations
<1>8. d.generation = h + 1 /\ a.generation = h
  BY <1>4, <1>5, <1>7
<1>9. c.generation = h
  BY <1>2, <1>4, <1>5, <1>6, <1>7, <1>8 DEF IsHead, Committed
<1>10. a = c /\ y = q
  BY <1>2, <1>5, <1>8, <1>9 DEF IsHead
<1>11. e = d
  <2>1. (History => /\ HeadGeneration \in Generations
                    /\ HeadGeneration \in Committed
                    /\ \A g \in Committed : g <= HeadGeneration)'
    BY HeadIsNewestNext
  <2>2. d.generation \in Committed'
    BY DEF Committed
  <2>3. d.generation <= HeadGeneration' /\ HeadGeneration' \in Nat
    BY <2>1, <2>2, CommitAssumption DEF CommitInv, Generations
  <2>4. e.generation = HeadGeneration' /\ e \in markers \cup {d}
    BY <1>3 DEF IsHead
  <2>5. e \notin markers
    BY <1>4, <1>2, <1>8, <1>9, <2>3, <2>4 DEF IsHead
  <2> QED
    BY <2>4, <2>5
<1>12. p = x
  BY <1>3, <1>5, <1>11 DEF IsHead
<1> QED
  BY <1>2, <1>3, <1>5, <1>10, <1>12 DEF IsHead

\* What the log holds: the transactions in the head's catalog
\* are those with a marker.
LogIsMarkers ==
    LET log == CatalogAt(HeadGeneration)
    IN  {log[i] : i \in DOMAIN log} = {w \in Writers : \E d \in markers : d.uuid.writer = w}

---------------------------------------------------------------------------
(* Steps of the log *)

LEMMA AppendedRange ==
    ASSUME NEW s \in Seq(Writers), NEW w \in Writers, NEW t, t = Append(s, w)
    PROVE  {t[i] : i \in DOMAIN t} = {s[i] : i \in DOMAIN s} \cup {w}
OBVIOUS

LEMMA InitLog == Init => LogIsMarkers /\ Log!Init
<1> SUFFICES ASSUME Init PROVE LogIsMarkers /\ Log!Init
  OBVIOUS
<1>1. CommitInv
  BY InitInv
<1>2. PICK d, p : IsHead(d, p)
  BY <1>1, LakeHasHead
<1>3. p.catalog = << >>
  BY <1>2 DEF IsHead, Init
<1>4. CatalogAt(HeadGeneration) = << >>
  BY <1>2, <1>3 DEF IsHead
<1>5. LogIsMarkers
  BY <1>4, CommitAssumption DEF LogIsMarkers, Init, Genesis
<1> QED
  BY <1>4, <1>5 DEF Log!Init, Init, Answer

\* What the log holds while markers stay.
LEMMA LogIsMarkersStays ==
    ASSUME CommitInv, CommitInv', LogIsMarkers, markers' = markers,
           published \subseteq published'
    PROVE  LogIsMarkers'
BY LogStays DEF LogIsMarkers

\* A marker that is created is one append, of a transaction that is new to the log
\* and whose caller has not been answered.
LEMMA PublishStep ==
    ASSUME CommitInv, CommitInv', LogIsMarkers, NEW d \in RootDocs, Extends(d),
           MarkerFree(d.generation), markers' = markers \cup {d}, published' = published,
           d = NewDoc(d.uuid.writer), Answer(pc[d.uuid.writer]) = "none",
           \A v \in Writers : Answer(pc'[v]) = Answer(pc[v])
    PROVE  LogIsMarkers' /\ Log!Publish(d.uuid.writer)
<1> DEFINE w == d.uuid.writer
<1>1. CatalogAt(HeadGeneration)' = Append(CatalogAt(HeadGeneration), w)
  BY LogGrows
<1>2. w \in Writers
  BY DEF Extends
<1>3. CatalogAt(HeadGeneration) \in Seq(Writers)
  BY LakeHasHead DEF IsHead
<1>4. \A c \in markers : c.uuid.writer # w
  BY <1>2 DEF CommitInv, OwnMarkers, MarkerFree, Committed
<1>5. LogIsMarkers'
  <2>1. {CatalogAt(HeadGeneration)'[i] : i \in DOMAIN CatalogAt(HeadGeneration)'}
          = {CatalogAt(HeadGeneration)[i] : i \in DOMAIN CatalogAt(HeadGeneration)} \cup {w}
    BY <1>1, <1>2, <1>3, AppendedRange
  <2>2. {v \in Writers : \E c \in markers' : c.uuid.writer = v}
          = {v \in Writers : \E c \in markers : c.uuid.writer = v} \cup {w}
    BY <1>2
  <2> QED
    BY <2>1, <2>2 DEF LogIsMarkers
<1>6. w \notin Log!Applied
  BY <1>4 DEF Log!Applied, LogIsMarkers
<1> QED
  BY <1>1, <1>2, <1>5, <1>6 DEF Log!Publish

\* The answer to a caller changes once, and agrees with the log for good.
LEMMA AnswerStep ==
    ASSUME CommitInv, CommitInv', LogIsMarkers, markers' = markers,
           published' = published, NEW w \in Writers,
           Answer(pc[w]) = "none", Answer(pc'[w]) # "none",
           \A v \in Writers : v # w => pc'[v] = pc[v]
    PROVE  Log!Acknowledge(w) \/ Log!Refuse(w)
<1>1. CatalogAt(HeadGeneration)' = CatalogAt(HeadGeneration)
  BY LogStays
<1>2. Log!Applied = {v \in Writers : \E d \in markers : d.uuid.writer = v}
  BY DEF Log!Applied, LogIsMarkers
<1>3. [v \in Writers |-> Answer(pc[v])]' =
        [[v \in Writers |-> Answer(pc[v])] EXCEPT ![w] = Answer(pc'[w])]
  OBVIOUS
<1>4. CASE pc'[w] = "committed"
  <2>1. NewDoc(w)' \in markers
    BY <1>4 DEF CommitInv, BuildsOnBase
  <2>2. w \in Log!Applied
    BY <1>2, <2>1 DEF NewDoc
  <2> QED
    BY <1>1, <1>3, <1>4, <2>2 DEF Log!Acknowledge, Answer
<1>5. CASE pc'[w] = "aborted"
  <2>1. w \notin Log!Applied
    BY <1>2, <1>5 DEF CommitInv, OwnMarkers
  <2> QED
    BY <1>1, <1>3, <1>5, <2>1 DEF Log!Refuse, Answer
<1> QED
  BY <1>4, <1>5 DEF Answer

\* Everything else is none of the log's business.
LEMMA SilentStep ==
    ASSUME CommitInv, CommitInv', LogIsMarkers, markers' = markers,
           published \subseteq published',
           \A v \in Writers : Answer(pc'[v]) = Answer(pc[v])
    PROVE  LogIsMarkers' /\ UNCHANGED Log!logVars
BY LogStays, LogIsMarkersStays DEF Log!logVars

LEMMA WriterLogStep ==
    ASSUME CommitInv, CommitInv', LogIsMarkers, NEW w \in Writers, Step(w) \/ Stop(w)
    PROVE  LogIsMarkers' /\ [Log!Next]_(Log!logVars)
<1>1. \A v \in Writers : v # w => pc'[v] = pc[v]
  BY DEF Step, Stop, Begin, ResolveHead, FetchCatalog, FetchMiss, UploadRefused,
         UploadPayload, CheckUpload, CreateMarker, MarkerWon, MarkerAbsent, MarkerLost,
         WriteHint, StartResolve, Goto, CommitInv, TypeOK
<1>2. Answer(pc[w]) = "none"
  BY DEF Step, Stop, Begin, ResolveHead, FetchCatalog, FetchMiss, UploadRefused,
         UploadPayload, CheckUpload, CreateMarker, MarkerWon, MarkerAbsent, MarkerLost,
         WriteHint, Active, Answer
<1>3. CASE markers' = markers /\ published \subseteq published' /\ Answer(pc'[w]) = "none"
  BY <1>1, <1>2, <1>3, SilentStep
<1>4. CASE markers' = markers /\ published' = published /\ Answer(pc'[w]) # "none"
  BY <1>1, <1>2, <1>4, AnswerStep, LogIsMarkersStays DEF Log!Next
<1>5. CASE /\ CreateMarker(w) /\ MarkerFree(Target(w))
           /\ markers' = WithMarker(NewDoc(w))
           /\ Goto(w, "hinting")
  <2>1. /\ NewDoc(w) \in RootDocs /\ Extends(NewDoc(w))
        /\ NewDoc(w).generation = Target(w) /\ NewDoc(w).uuid.writer = w
    BY <1>5, CommitAssumption
       DEF CreateMarker, NewDoc, Target, CommitInv, TypeOK, BuildsOnBase, RootDocs, Uuids,
           Generations
  <2>2. markers' = markers \cup {NewDoc(w)} /\ published' = published
    BY <1>5, <2>1, CreateAdds DEF CreateMarker
  <2>3. Answer(pc'[w]) = "none"
    BY <1>5 DEF Goto, CommitInv, TypeOK, Answer
  <2> QED
    BY <1>1, <1>2, <1>5, <2>1, <2>2, <2>3, PublishStep DEF Log!Next
<1>6. CASE ~ (/\ CreateMarker(w) /\ MarkerFree(Target(w))
              /\ markers' = WithMarker(NewDoc(w))
              /\ Goto(w, "hinting"))
  <2>1. markers' = markers
    BY <1>6 DEF Step, Stop, Begin, ResolveHead, FetchCatalog, FetchMiss, UploadRefused,
         UploadPayload, CheckUpload, CreateMarker, MarkerWon, MarkerAbsent, MarkerLost,
         WriteHint, storeVars
  <2>2. \/ published' = published
        \/ published \subseteq published' /\ Answer(pc'[w]) = "none"
    BY DEF Step, Stop, Begin, ResolveHead, FetchCatalog, FetchMiss, UploadRefused,
           UploadPayload, CheckUpload, CreateMarker, MarkerWon, MarkerAbsent, MarkerLost,
           WriteHint, storeVars, Goto, Answer, CommitInv, TypeOK
  <2> QED
    BY <1>3, <1>4, <2>1, <2>2
<1> QED
  BY <1>5, <1>6

\* A request that arrives late is an append, or nothing.
LEMMA DeliverLogStep ==
    ASSUME CommitInv, CommitInv', LogIsMarkers, Deliver
    PROVE  LogIsMarkers' /\ [Log!Next]_(Log!logVars)
<1>1. pc' = pc
  BY DEF Deliver, LandPayload, LandMarker
<1>2. ASSUME NEW p \in latePayloads, LandPayload(p)
      PROVE  markers' = markers /\ published \subseteq published'
  BY <1>2 DEF LandPayload
<1>3. ASSUME NEW d \in lateMarkers, LandMarker(d), ~MarkerFree(d.generation)
      PROVE  markers' = markers /\ published' = published
  BY <1>3 DEF LandMarker
<1>4. ASSUME NEW d \in lateMarkers, LandMarker(d), MarkerFree(d.generation)
      PROVE  LogIsMarkers' /\ [Log!Next]_(Log!logVars)
  <2>1. markers' = markers \cup {d} /\ published' = published
    BY <1>4, CreateAdds DEF LandMarker
  <2>2. d \in RootDocs /\ Extends(d) /\ d = NewDoc(d.uuid.writer)
    BY <1>4 DEF CommitInv, TypeOK, LateMarkers, MarkerFree
  <2>3. d.uuid.writer \in Writers /\ Answer(pc[d.uuid.writer]) = "none"
    BY <1>4, <2>2 DEF CommitInv, LateMarkers, MarkerFree, Extends, Answer
  <2> QED
    BY <1>1, <1>4, <2>1, <2>2, <2>3, PublishStep DEF Log!Next
<1> QED
  BY <1>1, <1>2, <1>3, <1>4, SilentStep DEF Deliver

LEMMA LogStep ==
    CommitInv /\ CommitInv' /\ LogIsMarkers /\ [Next]_vars
        => LogIsMarkers' /\ [Log!Next]_(Log!logVars)
<1> SUFFICES ASSUME CommitInv, CommitInv', LogIsMarkers, [Next]_vars
             PROVE  LogIsMarkers' /\ [Log!Next]_(Log!logVars)
  OBVIOUS
<1>1. CASE Collector
  BY <1>1, SilentStep DEF Collector, Collect, CollectorHint
<1>2. CASE UNCHANGED vars
  BY <1>2, SilentStep DEF vars
<1> QED
  BY <1>1, <1>2, WriterLogStep, DeliverLogStep DEF Next, Finished

---------------------------------------------------------------------------
(* The theorems *)

\* The head's catalog holds the transactions that have a marker, each of them.
THEOREM LogHoldsCommitted == Spec => []LogIsMarkers
<1>1. Init => LogIsMarkers
  BY InitLog
<1> QED
  BY <1>1, LogStep, InvariantHolds, PTL DEF Spec

\* The marker protocol, with its lost answers, late requests, replays, aborts and
\* collectors, is an append-only log that answers truthfully.
THEOREM ProtocolImplementsLog == Spec => ImplementsCatalogLog
<1>1. Init => Log!Init
  BY InitLog
<1> QED
  BY <1>1, LogStep, LogHoldsCommitted, InvariantHolds, PTL
     DEF Spec, ImplementsCatalogLog, Log!Spec
===========================================================================
