-------------------------- MODULE BootstrapProofs --------------------------
(***************************************************************************)
(* Proofs about Bootstrap: any number of processes, of threads in a probe, *)
(* of repetitions by the client, and of re-sends of the marker.            *)
(***************************************************************************)
EXTENDS Bootstrap, FiniteSetTheorems, TLAPS

---------------------------------------------------------------------------
(* The inductive invariant *)

\* A probe that has met no missing answer counts right: every PUT that took effect
\* is a thread's win.  A PUT can take effect later only for a thread that met one.
UndisturbedProbe(p) ==
    \A r \in Racers : racer[p][r] # "error" /\ tries[p][r] = 0

CountedProbe(p) ==
    /\ \A r \in stray[p] : racer[p][r] = "error" \/ tries[p][r] > 0
    /\ UndisturbedProbe(p) => effects[p] = Cardinality(Outcome(p, "won"))

\* On an atomic store one PUT of a probe takes effect, and only then another loses.
AtomicProbe(p) ==
    atomic =>
        /\ effects[p] = IF probed[p] THEN 1 ELSE 0
        /\ \A r \in Racers : /\ racer[p][r] # "checked"
                             /\ racer[p][r] = "lost" => probed[p]

\* Whoever may still create the marker has its payload in the store.
PayloadFirst ==
    /\ lateMarkers \subseteq payloads
    /\ \A p \in Processes :
          pc[p] \in {"marker", "overwrite", "resolve"} => p \in payloads

\* What a process knows of the marker stays true.
KnownMarker ==
    \A p \in Processes :
        /\ pc[p] \in {"adopt", "hint"} => marker # Nobody
        /\ atomic =>
              /\ pc[p] # "overwrite"
              /\ pc[p] = "hint" => marker = p
              /\ pc[p] = "returned" => marker # Nobody /\ returned[p] = marker

BootInv ==
    /\ BootTypeOK
    /\ \A p \in Processes : CountedProbe(p) /\ AtomicProbe(p)
    /\ PayloadFirst
    /\ KnownMarker
    /\ GenesisIsReadable

---------------------------------------------------------------------------
(* The initial state *)

LEMMA BootInitInv == Init => BootInv
<1> SUFFICES ASSUME Init PROVE BootInv
  OBVIOUS
<1> USE BootAssumption
<1>1. BootTypeOK
  BY DEF Init, BootTypeOK, Ended
<1>2. ASSUME NEW p \in Processes PROVE CountedProbe(p)
  <2>1. Outcome(p, "won") = {}
    BY DEF Init, Outcome
  <2> QED
    BY <2>1, FS_EmptySet DEF Init, CountedProbe
<1>3. ASSUME NEW p \in Processes PROVE AtomicProbe(p)
  BY DEF Init, AtomicProbe
<1>4. PayloadFirst /\ KnownMarker /\ GenesisIsReadable
  BY DEF Init, PayloadFirst, KnownMarker, GenesisIsReadable
<1> QED
  BY <1>1, <1>2, <1>3, <1>4 DEF BootInv

---------------------------------------------------------------------------
(* The probe *)

\* The rest of bootstrap does not look at the probe.
LEMMA QuietBootstrap ==
    ASSUME BootInv, UNCHANGED <<storeVars, pc, returned>>
    PROVE  PayloadFirst' /\ KnownMarker' /\ GenesisIsReadable'
BY DEF BootInv, PayloadFirst, KnownMarker, GenesisIsReadable, storeVars

\* Only one thread of one probe moves.
Moves(p, r) ==
    \A q \in Processes : \A s \in Racers : q # p \/ s # r =>
        racer'[q][s] = racer[q][s] /\ tries'[q][s] = tries[q][s]

ThreadsOK ==
    /\ racer \in [Processes -> [Racers -> {"ready", "checked", "won", "lost", "error"}]]
    /\ tries \in [Processes -> [Racers -> 0 .. TransportRetries]]

\* A missing answer leaves its mark on the thread.
LEMMA UnansweredMarks ==
    ASSUME ThreadsOK, NEW p \in Processes, NEW r \in Racers, Unanswered(p, r)
    PROVE  /\ ThreadsOK' /\ Moves(p, r)
           /\ \/ racer'[p][r] = "error"
              \/ racer'[p][r] = "ready" /\ tries'[p][r] > 0
<1> USE BootAssumption DEF ThreadsOK, Moves
<1>1. CASE tries[p][r] < TransportRetries
  <2>1. /\ racer' = [racer EXCEPT ![p][r] = "ready"]
        /\ tries' = [tries EXCEPT ![p][r] = tries[p][r] + 1]
    BY <1>1 DEF Unanswered
  <2>2. tries[p][r] + 1 \in 0 .. TransportRetries /\ tries[p][r] + 1 > 0
    BY <1>1
  <2> QED
    BY <2>1, <2>2
<1>2. CASE ~(tries[p][r] < TransportRetries)
  <2>1. racer' = [racer EXCEPT ![p][r] = "error"] /\ tries' = tries
    BY <1>2 DEF Unanswered
  <2> QED
    BY <2>1
<1> QED
  BY <1>1, <1>2

LEMMA AnsweredMoves ==
    ASSUME ThreadsOK, NEW p \in Processes, NEW r \in Racers,
           NEW o \in {"checked", "won", "lost"}, Answered(p, r, o)
    PROVE  ThreadsOK' /\ Moves(p, r) /\ racer'[p][r] = o /\ tries' = tries
BY DEF Answered, ThreadsOK, Moves

\* Probes in which nothing happens keep what is said of them.
LEMMA QuietProbe ==
    ASSUME BootInv, NEW q \in Processes, atomic' = atomic, ThreadsOK',
           probed'[q] = probed[q], stray'[q] = stray[q], effects'[q] = effects[q],
           \A s \in Racers : racer'[q][s] = racer[q][s] /\ tries'[q][s] = tries[q][s]
    PROVE  CountedProbe(q)' /\ AtomicProbe(q)'
<1>1. Outcome(q, "won")' = Outcome(q, "won") /\ (UndisturbedProbe(q)' <=> UndisturbedProbe(q))
  BY DEF Outcome, UndisturbedProbe
<1>2. stray[q] \subseteq Racers
  BY DEF BootInv, BootTypeOK
<1> QED
  BY <1>1, <1>2 DEF BootInv, CountedProbe, AtomicProbe

\* The stray threads still have their mark, an error or a repetition, after a step of one thread.
LEMMA StraysKeepTheirMark ==
    ASSUME NEW p \in Processes, NEW r \in Racers, CountedProbe(p),
           stray[p] \subseteq Racers, stray' = stray, racer[p][r] # "error", Moves(p, r),
           racer'[p][r] = "error" \/ tries'[p][r] > 0 \/ tries' = tries
    PROVE  \A s \in stray'[p] : racer'[p][s] = "error" \/ tries'[p][s] > 0
<1>1. \A s \in stray[p] : racer[p][s] = "error" \/ tries[p][s] > 0
  BY DEF CountedProbe
<1>2. r \in stray[p] => racer'[p][r] = "error" \/ tries'[p][r] > 0
  BY <1>1
<1>3. \A s \in stray[p] : s # r => racer'[p][s] = racer[p][s] /\ tries'[p][s] = tries[p][s]
  BY DEF Moves
<1> QED
  BY <1>1, <1>2, <1>3

\* One more win is one more member of a finite set.
LEMMA OneMoreWin ==
    ASSUME NEW p \in Processes, NEW r \in Racers, racer[p][r] # "won",
           racer'[p][r] = "won",
           \A s \in Racers : s # r => racer'[p][s] = racer[p][s]
    PROVE  Cardinality(Outcome(p, "won")') = Cardinality(Outcome(p, "won")) + 1
<1>1. Outcome(p, "won")' = Outcome(p, "won") \cup {r} /\ r \notin Outcome(p, "won")
  BY DEF Outcome
<1>2. IsFiniteSet(Outcome(p, "won"))
  BY BootAssumption, FS_Subset DEF Outcome
<1> QED
  BY <1>1, <1>2, FS_AddElement

\* A PUT that takes effect concerns its own probe key.
LEMMA EffectOrNot ==
    ASSUME BootTypeOK, NEW p \in Processes,
           TakesEffect(p) \/ UNCHANGED <<probed, effects>>
    PROVE  /\ probed' = [probed EXCEPT ![p] = probed'[p]] /\ probed'[p] \in BOOLEAN
           /\ effects' = [effects EXCEPT ![p] = effects'[p]] /\ effects'[p] \in Nat
<1>1. CASE TakesEffect(p)
  <2>1. probed'[p] = TRUE /\ effects'[p] = effects[p] + 1 /\ effects[p] \in Nat
    BY <1>1 DEF TakesEffect, BootTypeOK
  <2>2. probed' = [probed EXCEPT ![p] = probed'[p]] /\ probed'[p] \in BOOLEAN
    BY <1>1, <2>1, Zenon DEF TakesEffect
  <2>3. effects' = [effects EXCEPT ![p] = effects'[p]]
    BY <1>1, <2>1, Zenon DEF TakesEffect
  <2> QED
    BY <2>1, <2>2, <2>3
<1>2. CASE UNCHANGED <<probed, effects>>
  BY <1>2 DEF BootTypeOK
<1> QED
  BY <1>1, <1>2

\* A step of a probe keeps the invariant if it keeps what is said of that probe.
LEMMA ProbeStep ==
    ASSUME BootInv, NEW p \in Processes, ThreadsOK',
           UNCHANGED <<storeVars, pc, local, returned>>,
           probed' = [probed EXCEPT ![p] = probed'[p]], probed'[p] \in BOOLEAN,
           effects' = [effects EXCEPT ![p] = effects'[p]], effects'[p] \in Nat,
           stray' = [stray EXCEPT ![p] = stray'[p]], stray'[p] \subseteq Racers,
           \A q \in Processes : q # p =>
               \A s \in Racers : racer'[q][s] = racer[q][s] /\ tries'[q][s] = tries[q][s],
           CountedProbe(p)', AtomicProbe(p)'
    PROVE  BootInv'
<1>1. BootTypeOK'
  BY DEF BootInv, BootTypeOK, ThreadsOK, storeVars
<1>2. ASSUME NEW q \in Processes, q # p PROVE CountedProbe(q)' /\ AtomicProbe(q)'
  <2>1. probed'[q] = probed[q] /\ stray'[q] = stray[q] /\ effects'[q] = effects[q]
    BY <1>2 DEF BootInv, BootTypeOK
  <2> QED
    BY <1>2, <2>1, QuietProbe DEF storeVars
<1> QED
  BY <1>1, <1>2, QuietBootstrap DEF BootInv

LEMMA RaceTimeoutInv ==
    ASSUME BootInv, NEW p \in Processes, NEW r \in Racers, RaceTimeout(p, r)
    PROVE  BootInv'
<1>1. ThreadsOK
  BY DEF BootInv, BootTypeOK, ThreadsOK
<1>2. /\ ThreadsOK' /\ Moves(p, r)
      /\ \/ racer'[p][r] = "error"
         \/ racer'[p][r] = "ready" /\ tries'[p][r] > 0
  BY <1>1, UnansweredMarks DEF RaceTimeout
<1>3. /\ UNCHANGED <<storeVars, pc, local, returned, probed, effects>>
      /\ stray' = [stray EXCEPT ![p] = stray[p] \cup {r}]
  BY DEF RaceTimeout
<1>4. stray'[p] = stray[p] \cup {r} /\ stray[p] \subseteq Racers
  BY <1>3 DEF BootInv, BootTypeOK
<1>5. CountedProbe(p)'
  BY <1>2, <1>4 DEF BootInv, CountedProbe, UndisturbedProbe, Moves, ThreadsOK
<1>6. AtomicProbe(p)'
  BY <1>2, <1>3 DEF BootInv, AtomicProbe, Moves, storeVars
<1>7. \A q \in Processes : q # p =>
        \A s \in Racers : racer'[q][s] = racer[q][s] /\ tries'[q][s] = tries[q][s]
  BY <1>2 DEF Moves
<1>8. probed'[p] \in BOOLEAN /\ effects'[p] \in Nat
  BY <1>3 DEF BootInv, BootTypeOK
<1> QED
  BY <1>2, <1>3, <1>4, <1>5, <1>6, <1>7, <1>8, ProbeStep DEF BootInv, BootTypeOK

LEMMA RaceStrayInv ==
    ASSUME BootInv, NEW p \in Processes, RaceStray(p)
    PROVE  BootInv'
<1>1. PICK r \in stray[p] :
        /\ stray' = [stray EXCEPT ![p] = stray[p] \ {r}]
        /\ IF probed[p] /\ atomic THEN UNCHANGED <<probed, effects>> ELSE TakesEffect(p)
  BY DEF RaceStray
<1>2. UNCHANGED <<storeVars, pc, local, returned, racer, tries>>
  BY DEF RaceStray
<1>3. ThreadsOK' /\ r \in Racers
  BY <1>2 DEF BootInv, BootTypeOK, ThreadsOK
<1>4. stray'[p] = stray[p] \ {r} /\ stray'[p] \subseteq Racers
  BY <1>1 DEF BootInv, BootTypeOK
<1>5. /\ probed' = [probed EXCEPT ![p] = probed'[p]] /\ probed'[p] \in BOOLEAN
      /\ effects' = [effects EXCEPT ![p] = effects'[p]] /\ effects'[p] \in Nat
  BY <1>1, EffectOrNot DEF BootInv
<1>6. CountedProbe(p)'
  <2>1. ~UndisturbedProbe(p)
    BY <1>3 DEF BootInv, CountedProbe, UndisturbedProbe, BootTypeOK
  <2> QED
    BY <1>2, <1>4, <2>1 DEF BootInv, CountedProbe, UndisturbedProbe
<1>7. AtomicProbe(p)'
  BY <1>1, <1>2 DEF BootInv, BootTypeOK, AtomicProbe, TakesEffect, storeVars
<1> QED
  BY <1>1, <1>2, <1>3, <1>4, <1>5, <1>6, <1>7, ProbeStep

\* An answered thread and a probe key: three ways in which a PUT ends.
LEMMA RaceCreateInv ==
    ASSUME BootInv, NEW p \in Processes, NEW r \in Racers, RaceCreate(p, r)
    PROVE  BootInv'
<1>1. ThreadsOK /\ racer[p][r] = "ready"
  BY DEF BootInv, BootTypeOK, ThreadsOK, RaceCreate
<1>2. /\ ThreadsOK' /\ Moves(p, r)
      /\ \/ racer'[p][r] = "error"
         \/ racer'[p][r] = "ready" /\ tries'[p][r] > 0
         \/ racer'[p][r] = "lost" /\ probed[p] /\ tries' = tries
         \/ racer'[p][r] = "won" /\ ~probed[p] /\ atomic /\ tries' = tries
         \/ racer'[p][r] = "checked" /\ ~probed[p] /\ ~atomic /\ tries' = tries
  BY <1>1, UnansweredMarks, AnsweredMoves DEF RaceCreate
<1>3. UNCHANGED <<storeVars, pc, local, returned, stray>>
  BY DEF RaceCreate
<1>4. \/ probed[p] /\ UNCHANGED <<probed, effects>> /\ racer'[p][r] \in {"lost", "ready", "error"}
      \/ ~probed[p] /\ atomic /\ TakesEffect(p) /\ racer'[p][r] \in {"won", "ready", "error"}
      \/ ~probed[p] /\ ~atomic /\ UNCHANGED <<probed, effects>> /\ racer'[p][r] = "checked"
  <2>1. ASSUME Unanswered(p, r) PROVE racer'[p][r] \in {"ready", "error"}
    BY <1>1, <2>1, UnansweredMarks
  <2>2. ASSUME NEW o \in {"checked", "won", "lost"}, Answered(p, r, o)
        PROVE  racer'[p][r] = o
    BY <1>1, <2>2, AnsweredMoves
  <2> QED
    BY <2>1, <2>2 DEF RaceCreate
<1>5. /\ probed' = [probed EXCEPT ![p] = probed'[p]] /\ probed'[p] \in BOOLEAN
      /\ effects' = [effects EXCEPT ![p] = effects'[p]] /\ effects'[p] \in Nat
  BY <1>4, EffectOrNot DEF BootInv
<1>6. CountedProbe(p)'
  <2>1. \A s \in stray'[p] : racer'[p][s] = "error" \/ tries'[p][s] > 0
    <3>1. CountedProbe(p) /\ stray[p] \subseteq Racers /\ racer[p][r] # "error"
      BY <1>1 DEF BootInv, BootTypeOK
    <3>2. racer'[p][r] = "error" \/ tries'[p][r] > 0 \/ tries' = tries
      BY <1>2
    <3> QED
      BY <1>2, <1>3, <3>1, <3>2, StraysKeepTheirMark
  <2>2. ASSUME UndisturbedProbe(p)'
        PROVE  effects'[p] = Cardinality(Outcome(p, "won")')
    <3>1. racer'[p][r] \in {"won", "lost", "checked"} /\ tries' = tries
      BY <1>2, <2>2 DEF UndisturbedProbe
    <3>2. UndisturbedProbe(p)
      BY <1>1, <1>2, <2>2, <3>1 DEF UndisturbedProbe, Moves
    <3>3. effects[p] = Cardinality(Outcome(p, "won"))
      BY <3>2 DEF BootInv, CountedProbe
    <3>4. CASE racer'[p][r] = "won"
      <4>1. effects'[p] = effects[p] + 1
        BY <1>4, <3>4 DEF BootInv, BootTypeOK, TakesEffect
      <4> QED
        BY <1>1, <1>2, <3>3, <3>4, <4>1, OneMoreWin DEF Moves
    <3>5. CASE racer'[p][r] # "won"
      <4>1. effects' = effects
        BY <1>4, <3>1, <3>5
      <4>2. Outcome(p, "won")' = Outcome(p, "won")
        BY <1>1, <1>2, <3>5 DEF Outcome, Moves
      <4> QED
        BY <3>3, <4>1, <4>2
    <3> QED
      BY <3>4, <3>5
  <2> QED
    BY <2>1, <2>2 DEF CountedProbe
<1>7. AtomicProbe(p)'
  <2> SUFFICES ASSUME atomic
               PROVE  /\ effects'[p] = IF probed'[p] THEN 1 ELSE 0
                      /\ \A s \in Racers : /\ racer'[p][s] # "checked"
                                           /\ racer'[p][s] = "lost" => probed'[p]
    BY <1>3 DEF AtomicProbe, storeVars
  <2>1. /\ effects[p] = IF probed[p] THEN 1 ELSE 0
        /\ \A s \in Racers : /\ racer[p][s] # "checked"
                             /\ racer[p][s] = "lost" => probed[p]
    BY DEF BootInv, AtomicProbe
  <2>2. \/ probed[p] /\ probed'[p] /\ effects'[p] = effects[p] /\ racer'[p][r] # "checked"
        \/ ~probed[p] /\ TakesEffect(p) /\ racer'[p][r] \in {"won", "ready", "error"}
    BY <1>4
  <2>3. TakesEffect(p) => probed'[p] /\ effects'[p] = effects[p] + 1
    BY DEF BootInv, BootTypeOK, TakesEffect
  <2>4. \A s \in Racers : s # r => racer'[p][s] = racer[p][s]
    BY <1>2 DEF Moves
  <2> QED
    BY <2>1, <2>2, <2>3, <2>4
<1>8. \A q \in Processes : q # p =>
        \A s \in Racers : racer'[q][s] = racer[q][s] /\ tries'[q][s] = tries[q][s]
  BY <1>2 DEF Moves
<1> QED
  BY <1>2, <1>3, <1>5, <1>6, <1>7, <1>8, ProbeStep DEF BootInv, BootTypeOK

LEMMA RaceOverwriteInv ==
    ASSUME BootInv, NEW p \in Processes, NEW r \in Racers, RaceOverwrite(p, r)
    PROVE  BootInv'
<1>1. ThreadsOK /\ racer[p][r] = "checked" /\ ~atomic
  BY DEF BootInv, BootTypeOK, ThreadsOK, RaceOverwrite, AtomicProbe
<1>2. /\ ThreadsOK' /\ Moves(p, r)
      /\ \/ racer'[p][r] = "error"
         \/ racer'[p][r] = "ready" /\ tries'[p][r] > 0
         \/ racer'[p][r] = "won" /\ tries' = tries
  BY <1>1, UnansweredMarks, AnsweredMoves DEF RaceOverwrite
<1>3. UNCHANGED <<storeVars, pc, local, returned, stray>> /\ TakesEffect(p)
  BY DEF RaceOverwrite
<1>4. /\ probed' = [probed EXCEPT ![p] = probed'[p]] /\ probed'[p] \in BOOLEAN
      /\ effects' = [effects EXCEPT ![p] = effects'[p]] /\ effects'[p] \in Nat
  BY <1>3, EffectOrNot DEF BootInv
<1>5. CountedProbe(p)'
  <2>1. \A s \in stray'[p] : racer'[p][s] = "error" \/ tries'[p][s] > 0
    <3>1. CountedProbe(p) /\ stray[p] \subseteq Racers /\ racer[p][r] # "error"
      BY <1>1 DEF BootInv, BootTypeOK
    <3>2. racer'[p][r] = "error" \/ tries'[p][r] > 0 \/ tries' = tries
      BY <1>2
    <3> QED
      BY <1>2, <1>3, <3>1, <3>2, StraysKeepTheirMark
  <2>2. ASSUME UndisturbedProbe(p)'
        PROVE  effects'[p] = Cardinality(Outcome(p, "won")')
    <3>1. racer'[p][r] = "won" /\ tries' = tries
      BY <1>2, <2>2 DEF UndisturbedProbe
    <3>2. UndisturbedProbe(p)
      BY <1>1, <1>2, <2>2, <3>1 DEF UndisturbedProbe, Moves
    <3>3. effects'[p] = effects[p] + 1
      BY <1>3 DEF BootInv, BootTypeOK, TakesEffect
    <3> QED
      BY <1>1, <1>2, <3>1, <3>2, <3>3, OneMoreWin DEF BootInv, CountedProbe, Moves
  <2> QED
    BY <2>1, <2>2 DEF CountedProbe
<1>6. AtomicProbe(p)'
  BY <1>1, <1>3 DEF AtomicProbe, storeVars
<1>7. \A q \in Processes : q # p =>
        \A s \in Racers : racer'[q][s] = racer[q][s] /\ tries'[q][s] = tries[q][s]
  BY <1>2 DEF Moves
<1> QED
  BY <1>2, <1>3, <1>4, <1>5, <1>6, <1>7, ProbeStep DEF BootInv, BootTypeOK

\* A probe that is over starts from nothing.
LEMMA ProbeOverInv ==
    ASSUME BootInv, NEW p \in Processes, ProbeOver(p), UNCHANGED <<storeVars, local, returned>>,
           NEW where \in {"failed", "payload", "diagnose"}, Goto(p, where)
    PROVE  BootInv'
<1> USE BootAssumption
<1>1. BootTypeOK'
  <2>1. /\ racer' \in [Processes -> [Racers -> {"ready", "checked", "won", "lost", "error"}]]
        /\ tries' \in [Processes -> [Racers -> 0 .. TransportRetries]]
    BY DEF BootInv, BootTypeOK, ProbeOver
  <2>2. /\ probed' \in [Processes -> BOOLEAN] /\ stray' \in [Processes -> SUBSET Racers]
        /\ effects' \in [Processes -> Nat]
    BY DEF BootInv, BootTypeOK, ProbeOver
  <2>3. pc' \in [Processes -> Ended \cup {"probe", "diagnose", "payload", "marker",
                                          "overwrite", "resolve", "adopt", "hint"}]
    BY DEF BootInv, BootTypeOK, Goto, Ended
  <2> QED
    BY <2>1, <2>2, <2>3 DEF BootInv, BootTypeOK, storeVars
<1>2. CountedProbe(p)' /\ AtomicProbe(p)'
  <2>1. /\ probed'[p] = FALSE /\ effects'[p] = 0 /\ stray'[p] = {}
        /\ \A r \in Racers : racer'[p][r] = "ready"
    BY DEF BootInv, BootTypeOK, ProbeOver
  <2>2. Outcome(p, "won")' = {}
    BY <2>1 DEF Outcome
  <2> QED
    BY <2>1, <2>2, FS_EmptySet DEF CountedProbe, AtomicProbe
<1>3. ASSUME NEW q \in Processes, q # p PROVE CountedProbe(q)' /\ AtomicProbe(q)'
  <2>1. /\ probed'[q] = probed[q] /\ stray'[q] = stray[q] /\ effects'[q] = effects[q]
        /\ racer'[q] = racer[q] /\ tries'[q] = tries[q]
    BY <1>3 DEF BootInv, BootTypeOK, ProbeOver
  <2>2. ThreadsOK'
    BY <1>1 DEF BootTypeOK, ThreadsOK
  <2> QED
    BY <2>1, <2>2, QuietProbe DEF storeVars
<1>4. PayloadFirst' /\ KnownMarker' /\ GenesisIsReadable'
  BY DEF BootInv, BootTypeOK, PayloadFirst, KnownMarker, GenesisIsReadable, Goto, storeVars
<1> QED
  BY <1>1, <1>2, <1>3, <1>4 DEF BootInv

---------------------------------------------------------------------------
(* Generation 0 *)

\* A step outside of the probes.
LEMMA MainStep ==
    ASSUME BootInv, UNCHANGED <<atomic, probeVars>>,
           marker' \in Processes \cup {Nobody}, payloads' \subseteq Processes,
           lateMarkers' \subseteq Processes,
           pc' \in [Processes -> Ended \cup {"probe", "diagnose", "payload", "marker",
                                             "overwrite", "resolve", "adopt", "hint"}],
           local' \in [Processes -> 0 .. MaxAttempts - 1],
           returned' \in [Processes -> Processes \cup {Nobody}],
           PayloadFirst', KnownMarker', GenesisIsReadable'
    PROVE  BootInv'
<1>1. BootTypeOK'
  BY DEF BootInv, BootTypeOK, probeVars
<1>2. ASSUME NEW q \in Processes PROVE CountedProbe(q)' /\ AtomicProbe(q)'
  BY <1>1, QuietProbe DEF BootTypeOK, ThreadsOK, probeVars
<1> QED
  BY <1>1, <1>2 DEF BootInv

LEMMA BootstrapStepInv ==
    ASSUME BootInv, NEW p \in Processes,
           \/ Diagnose(p) \/ PutPayload(p) \/ MarkerTimeout(p) \/ Deliver(p)
           \/ CreateMarker(p) \/ OverwriteMarker(p) \/ Adopt(p) \/ WriteHint(p)
    PROVE  BootInv'
<1> USE DEF BootInv, BootTypeOK, Goto, Ended, storeVars, PayloadFirst, KnownMarker,
            GenesisIsReadable
<1> USE BootAssumption
<1>1. CASE Diagnose(p)
  <2>1. /\ UNCHANGED <<storeVars, local, returned, probeVars>>
        /\ \E where \in {"unsafe", "failed"} : Goto(p, where)
    BY <1>1 DEF Diagnose
  <2>2. pc' \in [Processes -> Ended \cup {"probe", "diagnose", "payload", "marker",
                                          "overwrite", "resolve", "adopt", "hint"}]
    BY <2>1
  <2>3. PayloadFirst' /\ KnownMarker' /\ GenesisIsReadable'
    BY <2>1
  <2> QED
    BY <2>1, <2>2, <2>3, MainStep
<1>2. CASE PutPayload(p)
  <2>1. /\ UNCHANGED <<atomic, marker, lateMarkers, local, returned, probeVars>>
        /\ payloads' \in {payloads, payloads \cup {p}}
        /\ \/ Goto(p, "failed")
           \/ Goto(p, "marker") /\ p \in payloads'
    BY <1>2 DEF PutPayload
  <2>2. pc' \in [Processes -> Ended \cup {"probe", "diagnose", "payload", "marker",
                                          "overwrite", "resolve", "adopt", "hint"}]
    BY <2>1
  <2>3. PayloadFirst' /\ KnownMarker' /\ GenesisIsReadable'
    BY <2>1
  <2>4. payloads' \subseteq Processes
    BY <2>1
  <2> QED
    BY <2>1, <2>2, <2>3, <2>4, MainStep
<1>3. CASE MarkerTimeout(p)
  BY <1>3, MainStep DEF MarkerTimeout
<1>4. CASE Deliver(p)
  <2>1. marker' = p /\ p \in payloads /\ (atomic => marker = Nobody)
    BY <1>4 DEF Deliver
  <2>2. PayloadFirst' /\ KnownMarker' /\ GenesisIsReadable'
    BY <1>4, <2>1 DEF Deliver
  <2> QED
    BY <1>4, <2>1, <2>2, MainStep DEF Deliver
<1>5. CASE CreateMarker(p)
  <2>1. \/ marker' = marker /\ Goto(p, "resolve")
        \/ marker = Nobody /\ atomic /\ marker' = p /\ Goto(p, "hint")
        \/ marker = Nobody /\ atomic /\ marker' = p /\ Goto(p, "resolve")
        \/ ~atomic /\ marker' = marker /\ Goto(p, "overwrite")
    BY <1>5 DEF CreateMarker
  <2>2. p \in payloads
    BY <1>5 DEF CreateMarker
  <2>3. PayloadFirst' /\ KnownMarker' /\ GenesisIsReadable'
    BY <1>5, <2>1, <2>2 DEF CreateMarker
  <2>4. marker' \in Processes \cup {Nobody}
    BY <2>1
  <2>5. pc' \in [Processes -> Ended \cup {"probe", "diagnose", "payload", "marker",
                                          "overwrite", "resolve", "adopt", "hint"}]
    BY <2>1
  <2> QED
    BY <1>5, <2>3, <2>4, <2>5, MainStep DEF CreateMarker
<1>6. CASE OverwriteMarker(p)
  <2>1. marker' = p /\ p \in payloads /\ ~atomic
    BY <1>6 DEF OverwriteMarker
  <2>2. PayloadFirst' /\ KnownMarker' /\ GenesisIsReadable'
    BY <1>6, <2>1 DEF OverwriteMarker
  <2> QED
    BY <1>6, <2>1, <2>2, MainStep DEF OverwriteMarker
<1>7. CASE Adopt(p)
  BY <1>7, MainStep DEF Adopt, AdoptedDoc
<1>8. CASE WriteHint(p)
  BY <1>8, MainStep DEF WriteHint
<1> QED
  BY <1>1, <1>2, <1>3, <1>4, <1>5, <1>6, <1>7, <1>8

LEMMA ResolveMarkerInv ==
    ASSUME BootInv, NEW p \in Processes, ResolveMarker(p)
    PROVE  BootInv'
<1>1. local' \in [Processes -> 0 .. MaxAttempts - 1]
  BY BootAssumption DEF BootInv, BootTypeOK, ResolveMarker, NextLocal, AttemptsLeft
<1>2. pc' \in [Processes -> Ended \cup {"probe", "diagnose", "payload", "marker",
                                        "overwrite", "resolve", "adopt", "hint"}]
  BY DEF BootInv, BootTypeOK, ResolveMarker, Goto, Ended
<1>3. /\ UNCHANGED <<storeVars, returned, probeVars>>
      /\ \/ marker = p /\ pc' = [pc EXCEPT ![p] = "hint"]
         \/ marker # Nobody /\ pc' = [pc EXCEPT ![p] = "adopt"]
         \/ pc' = [pc EXCEPT ![p] = "marker"]
         \/ pc' = [pc EXCEPT ![p] = "failed"]
  BY DEF ResolveMarker, MarkerOutcome, Goto
<1>4. PayloadFirst' /\ KnownMarker' /\ GenesisIsReadable'
  BY <1>3, BootAssumption DEF BootInv, BootTypeOK, ResolveMarker, PayloadFirst, KnownMarker,
                              GenesisIsReadable, storeVars
<1> QED
  BY <1>1, <1>2, <1>3, <1>4, MainStep DEF BootInv, BootTypeOK, storeVars

---------------------------------------------------------------------------
(* Every step *)

LEMMA BootStepInv == BootInv /\ [Next]_vars => BootInv'
<1> SUFFICES ASSUME BootInv, [Next]_vars PROVE BootInv'
  OBVIOUS
<1>1. CASE UNCHANGED vars
  BY <1>1, MainStep DEF vars, storeVars, BootInv, BootTypeOK, PayloadFirst, KnownMarker,
                        GenesisIsReadable
<1>2. ASSUME NEW p \in Processes, Step(p) PROVE BootInv'
  <2>1. CASE Judge(p)
    BY <2>1, ProbeOverInv DEF Judge
  <2> QED
    BY <1>2, <2>1, RaceTimeoutInv, RaceCreateInv, RaceOverwriteInv, BootstrapStepInv,
       ResolveMarkerInv DEF Step
<1>3. ASSUME NEW p \in Processes, Crash(p) PROVE BootInv'
  BY <1>3, ProbeOverInv DEF Crash
<1> QED
  BY <1>1, <1>2, <1>3, RaceStrayInv, BootstrapStepInv DEF Next

---------------------------------------------------------------------------
(* The theorems *)

\* BootInv holds in every state of concurrent bootstraps.
THEOREM BootInvariantHolds == Spec => []BootInv
<1> QED
  BY BootInitInv, BootStepInv, PTL DEF Spec

\* Every variable of bootstrap keeps its type; re-sends stay within max_attempts.
THEOREM BootTypeCorrect == Spec => []BootTypeOK
<1>1. BootInv => BootTypeOK
  BY DEF BootInv
<1> QED
  BY <1>1, BootInvariantHolds, PTL

\* On an atomic store all bootstraps that return agree on the document of
\* generation 0.
THEOREM GenesisIsUnique == Spec => []OneGenesis
<1>1. BootInv => OneGenesis
  BY DEF BootInv, KnownMarker, OneGenesis
<1> QED
  BY <1>1, BootInvariantHolds, PTL

\* Generation 0 has a marker only over a payload, on either kind of store.
THEOREM GenesisHasPayload == Spec => []GenesisIsReadable
<1>1. BootInv => GenesisIsReadable
  BY DEF BootInv
<1> QED
  BY <1>1, BootInvariantHolds, PTL

\* The winners of a probe without missing answers are the PUTs that took effect;
\* if there is not one, the store is not atomic.
THEOREM GateJudgesTheStore == Spec => GateIsSound
<1>1. BootInv /\ [Next]_vars =>
        [\A p \in Processes :
            pc[p] = "probe" /\ (\A r \in Racers : racer[p][r] # "error" => tries[p][r] = 0) =>
              /\ pc'[p] = "payload" => effects[p] = 1
              /\ pc'[p] = "diagnose" => ~atomic]_vars
  <2> SUFFICES ASSUME BootInv, Next, NEW p \in Processes, pc[p] = "probe",
                      \A r \in Racers : racer[p][r] # "error" => tries[p][r] = 0,
                      pc'[p] \in {"payload", "diagnose"}
               PROVE  /\ pc'[p] = "payload" => effects[p] = 1
                      /\ pc'[p] = "diagnose" => ~atomic
    OBVIOUS
  <2>1. Judge(p)
    BY DEF BootInv, BootTypeOK, Next, Step, RaceTimeout, RaceCreate, RaceOverwrite,
           RaceStray, Judge, Diagnose, PutPayload, MarkerTimeout, CreateMarker,
           OverwriteMarker, ResolveMarker, Adopt, WriteHint, Deliver, Crash, Goto
  <2>2. pc'[p] \in {"payload", "diagnose"} => ~Indeterminate(p)
    BY <2>1 DEF Judge, Goto, BootInv, BootTypeOK
  <2>3. UndisturbedProbe(p)
    BY <2>2 DEF Indeterminate, Outcome, UndisturbedProbe
  <2>4. effects[p] = Cardinality(Outcome(p, "won"))
    BY <2>3 DEF BootInv, CountedProbe
  <2>5. ASSUME pc'[p] = "payload" PROVE effects[p] = 1
    BY <2>1, <2>4, <2>5 DEF Judge, Goto, OneWinner, BootInv, BootTypeOK
  <2>6. ASSUME pc'[p] = "diagnose", atomic PROVE FALSE
    <3>1. ~OneWinner(p) /\ \A r \in Racers : racer[p][r] \in {"won", "lost"}
      BY <2>1, <2>3, <2>6 DEF Judge, Goto, BootInv, BootTypeOK, UndisturbedProbe
    <3>2. effects[p] = 0 /\ ~probed[p]
      BY <2>4, <2>6, <3>1 DEF OneWinner, BootInv, AtomicProbe
    <3>3. \A r \in Racers : racer[p][r] = "won"
      BY <2>6, <3>1, <3>2 DEF BootInv, AtomicProbe
    <3>4. Outcome(p, "won") = Racers
      BY <3>3 DEF Outcome
    <3> QED
      BY <2>4, <3>2, <3>4, FS_EmptySet, BootAssumption
  <2> QED
    BY <2>5, <2>6
<1> QED
  BY <1>1, BootInvariantHolds, PTL DEF Spec, GateIsSound
===========================================================================
