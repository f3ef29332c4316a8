---------------------------- MODULE LeaseProofs ----------------------------
(***************************************************************************)
(* Proofs about Lease, for any jobs, holder_ids, ttl, timestamp resolution *)
(* and number of faults.  LeaseInv is inductive; a live lease is kept, and *)
(* a holder that renewed in time is the owner.                             *)
(***************************************************************************)
EXTENDS Lease, TLAPS

---------------------------------------------------------------------------
(* The inductive invariant *)

\* A reading whose etag is current is the lease; what is being taken over is the
\* taker's or expired; the owner is whom the lease names.
Readings ==
    \A p \in Jobs :
        /\ pc[p] \in {"observing", "probing"} => lease # NoLease
        /\ pc[p] = "probing" /\ etag[p] = "current" => obs[p] = lease
        /\ pc[p] = "taking" /\ etag[p] = "current" =>
               lease.holder = HolderOf[p] \/ Expired(lease)

Ownership ==
    \A p \in Jobs :
        /\ pc[p] \in {"holding", "releasing"} /\ etag[p] = "current" =>
               lease.holder = HolderOf[p]
        /\ pc[p] = "holding" /\ etag[p] = "current" =>
               /\ lease.ttl = Ttl
               /\ \/ heldAge[p] = lease.age
                  \/ heldAge[p] = FreshFor + 1 /\ lease.age >= FreshFor + 1

\* A PUT that may still be applied is the holder's own or found an expired lease,
\* and is not one of a job that holds the lease now.
LatePuts ==
    \A body \in late :
        /\ lease = NoLease \/ body.holder = lease.holder \/ Expired(lease)
        /\ \A p \in Jobs : pc[p] = "holding" /\ etag[p] = "current" /\ Alone(p) =>
                              body.holder # HolderOf[p]

\* Everything that makes FreshHolderOwns inductive.
LeaseInv == TypeOK /\ Readings /\ Ownership /\ LatePuts /\ FreshHolderOwns

---------------------------------------------------------------------------
(* Lemmas *)

\* The clock of the store never says more time has passed than did, but for the
\* part of a second that timestamps drop.
LEMMA ElapsedBounds ==
    ASSUME NEW o \in LeaseObjects, phase \in 0..(Second - 1)
    PROVE  Elapsed(o) < o.age + Second
<1>1. Second \in Nat /\ Second > 0 /\ o.age \in Int /\ phase \in Int /\ phase >= 0
  BY LeaseAssumption DEF LeaseObjects, MaxAge
<1>2. (phase - o.age) % Second \in 0..(Second - 1)
  BY <1>1, SMT
<1> QED
  BY <1>1, <1>2 DEF Elapsed

\* The lease a fresh holder owns is live.
LEMMA FreshIsLive ==
    ASSUME LeaseInv, NEW p \in Jobs, FreshHolder(p)
    PROVE  /\ etag[p] = "current"
           /\ lease.holder = HolderOf[p]
           /\ lease # NoLease
           /\ ~Expired(lease)
<1> USE LeaseAssumption
<1>1. etag[p] = "current" /\ pc[p] = "holding" /\ heldAge[p] <= FreshFor
  BY DEF LeaseInv, FreshHolderOwns, FreshHolder
<1>2. /\ lease.holder = HolderOf[p] /\ lease.ttl = Ttl
      /\ heldAge[p] = lease.age \/ heldAge[p] = FreshFor + 1
  BY <1>1 DEF LeaseInv, Ownership
<1>3. heldAge[p] = lease.age
  BY <1>1, <1>2 DEF FreshFor
<1>4. lease # NoLease
  BY <1>2 DEF NoLease
<1> QED
  BY <1>1, <1>2, <1>3, <1>4 DEF Expired, FreshFor, LeaseInv, TypeOK, LeaseObjects

\* Whoever may write the lease is its holder, or finds it vacant or expired.
LEMMA WriterMay ==
    ASSUME LeaseInv, NEW p \in Jobs, pc[p] \in Sending, Accepted(p)
    PROVE  lease = NoLease \/ lease.holder = HolderOf[p] \/ Expired(lease)
BY DEF LeaseInv, Readings, Ownership, Accepted, Sending

\* So no one but itself writes the lease of a fresh holder.
LEMMA FreshIsSafe ==
    ASSUME LeaseInv, NEW p \in Jobs, NEW q \in Jobs, pc[p] \in Sending, Accepted(p),
           FreshHolder(q)
    PROVE  p = q
BY FreshIsLive, WriterMay DEF FreshHolder, Alone

\* The lease is written: what was late, or known of it, no longer counts.
LEMMA WriteTypes ==
    ASSUME LeaseInv, NEW body \in Bodies, Write(body)
    PROVE  lease' \in LeaseObjects /\ late' \subseteq Bodies /\ lease' # NoLease
BY LeaseAssumption DEF Write, Bodies, LeaseObjects, NoLease, MaxAge

LEMMA BodyType ==
    ASSUME NEW p \in Jobs
    PROVE  Body(p) \in Bodies /\ Body(p).holder = HolderOf[p]
BY LeaseAssumption DEF Body, Bodies

LEMMA OutdateType ==
    ASSUME LeaseInv
    PROVE  /\ Outdate \in [Jobs -> {"none", "current", "old"}]
           /\ \A q \in Jobs : Outdate[q] # "current"
BY DEF LeaseInv, TypeOK, Outdate, Outdated

---------------------------------------------------------------------------
(* Every action preserves the invariant *)

LEMMA InitInv == Init => LeaseInv
<1> USE LeaseAssumption
<1>1. Init => NoLease \in LeaseObjects
  BY DEF LeaseObjects, NoLease, MaxAge
<1> QED
  BY <1>1 DEF Init, LeaseInv, TypeOK, Readings, Ownership, LatePuts, FreshHolderOwns,
              FreshHolder, Sending, FreshFor

\* A PUT of acquire or renew succeeds.
LEMMA HoldInv ==
    ASSUME LeaseInv, NEW p \in Jobs, Hold(p)
    PROVE  LeaseInv'
<1> USE LeaseAssumption
<1>1. /\ lease' \in LeaseObjects /\ lease' # NoLease /\ late' = {}
      /\ lease'.holder = HolderOf[p] /\ lease'.ttl = Ttl /\ lease'.age = 0
  BY BodyType, WriteTypes DEF Hold, Write, Body
<1>2. /\ pc' = [pc EXCEPT ![p] = "holding"] /\ heldAge' = [heldAge EXCEPT ![p] = 0]
      /\ \A q \in Jobs : etag'[q] = "current" <=> q = p
  BY OutdateType DEF Hold, Goto
<1>3. TypeOK'
  BY <1>1, OutdateType DEF Hold, Goto, LeaseInv, TypeOK, Sending, LeaseObjects, NoLease,
                           FreshFor, MaxAge
<1>4. Readings'
  BY <1>1, <1>2 DEF Readings, LeaseInv, TypeOK
<1>5. Ownership'
  BY <1>1, <1>2 DEF Ownership, LeaseInv, TypeOK
<1>6. LatePuts'
  BY <1>1 DEF LatePuts
<1>7. FreshHolderOwns'
  <2>1. \A q \in Jobs : FreshHolder(q)' => q = p
    BY <1>2, FreshIsSafe DEF Hold, FreshHolder, Alone, LeaseInv, TypeOK, Sending
  <2> QED
    BY <2>1, <1>2 DEF FreshHolderOwns
<1> QED
  BY <1>3, <1>4, <1>5, <1>6, <1>7 DEF LeaseInv

\* The tombstone is written.
LEMMA ReleaseInv ==
    ASSUME LeaseInv, NEW p \in Jobs, Release(p)
    PROVE  LeaseInv'
<1> USE LeaseAssumption
<1>1. lease' \in LeaseObjects /\ lease' # NoLease /\ late' = {}
  BY BodyType, WriteTypes DEF Release, Write
<1>2. /\ pc' = [pc EXCEPT ![p] = "idle"] /\ heldAge' = [heldAge EXCEPT ![p] = 0]
      /\ \A q \in Jobs : etag'[q] # "current"
  BY OutdateType DEF Release, Goto
<1>3. TypeOK'
  BY <1>1, OutdateType DEF Release, Goto, LeaseInv, TypeOK, Sending, LeaseObjects,
                           NoLease, FreshFor, MaxAge
<1>4. Readings' /\ Ownership' /\ LatePuts'
  BY <1>1, <1>2 DEF Readings, Ownership, LatePuts
<1>5. FreshHolderOwns'
  <2>1. \A q \in Jobs : ~FreshHolder(q)'
    BY <1>2, FreshIsSafe DEF Release, FreshHolder, Alone, LeaseInv, TypeOK, Sending
  <2> QED
    BY <2>1 DEF FreshHolderOwns
<1> QED
  BY <1>3, <1>4, <1>5 DEF LeaseInv

\* A PUT without an answer takes effect.
LEMMA DeliverInv ==
    ASSUME LeaseInv, NEW body \in late, Deliver(body)
    PROVE  LeaseInv'
<1> USE LeaseAssumption
<1>0. body \in Bodies
  BY DEF LeaseInv, TypeOK
<1>1. lease' \in LeaseObjects /\ lease' # NoLease /\ late' = {}
  BY <1>0, WriteTypes DEF Deliver, Write
<1>2. /\ pc' = pc /\ heldAge' = heldAge /\ \A q \in Jobs : etag'[q] # "current"
  BY OutdateType DEF Deliver
<1>3. TypeOK'
  BY <1>1, <1>2, OutdateType DEF Deliver, LeaseInv, TypeOK
<1>4. Readings' /\ Ownership' /\ LatePuts'
  BY <1>1, <1>2 DEF Readings, Ownership, LatePuts, LeaseInv
<1>5. FreshHolderOwns'
  <2>1. ASSUME NEW q \in Jobs, FreshHolder(q) PROVE FALSE
    <3>1. /\ etag[q] = "current" /\ lease.holder = HolderOf[q]
          /\ lease # NoLease /\ ~Expired(lease)
      BY <2>1, FreshIsLive
    <3> QED
      BY <3>1, <2>1 DEF LeaseInv, LatePuts, FreshHolder
  <2> QED
    BY <2>1, <1>2 DEF FreshHolderOwns, FreshHolder, Alone
<1> QED
  BY <1>3, <1>4, <1>5 DEF LeaseInv

\* _observe reads the lease.
LEMMA ObserveInv ==
    ASSUME LeaseInv, NEW p \in Jobs, Observe(p)
    PROVE  LeaseInv'
<1> USE LeaseAssumption
<1>1. TypeOK'
  BY DEF Observe, LeaseInv, TypeOK, Sending
<1>2. Readings' /\ Ownership'
  BY DEF Observe, LeaseInv, TypeOK, Readings, Ownership
<1>3. LatePuts'
  BY DEF Observe, LeaseInv, TypeOK, LatePuts, Alone
<1>4. FreshHolderOwns'
  BY DEF Observe, LeaseInv, TypeOK, FreshHolderOwns, FreshHolder, Alone
<1> QED
  BY <1>1, <1>2, <1>3, <1>4 DEF LeaseInv

\* A job moves on without touching the lease and without getting an etag: to no
\* state that has a reading, to taking over with reason, or to releasing.
LEMMA MoveInv ==
    ASSUME LeaseInv, NEW p \in Jobs, NEW where \in {"idle", "observing", "taking", "releasing", "dead"},
           Goto(p, where), lease' = lease, phase' = phase, late' = late,
           faults' \in 0..MaxFaults,
           \/ etag' = etag
           \/ etag' = [etag EXCEPT ![p] = "none"],
           where = "observing" => lease # NoLease,
           where = "taking" /\ etag[p] = "current" =>
               lease.holder = HolderOf[p] \/ Expired(lease),
           where = "releasing" => pc[p] = "holding"
    PROVE  LeaseInv'
<1> USE LeaseAssumption
<1>1. TypeOK'
  BY DEF Goto, LeaseInv, TypeOK, Sending, LeaseObjects, NoLease, MaxAge, FreshFor
<1>2. Readings'
  BY DEF Goto, LeaseInv, TypeOK, Readings, Expired
<1>3. Ownership'
  BY DEF Goto, LeaseInv, TypeOK, Ownership
<1>4. LatePuts'
  BY DEF Goto, LeaseInv, TypeOK, LatePuts, Alone, Expired
<1>5. FreshHolderOwns'
  BY DEF Goto, LeaseInv, TypeOK, FreshHolderOwns, FreshHolder, Alone
<1> QED
  BY <1>1, <1>2, <1>3, <1>4, <1>5 DEF LeaseInv

\* What was observed is classified: a lease is taken only when it is ours or,
\* by the store's own clock, expired.
LEMMA ProbeInv ==
    ASSUME LeaseInv, NEW p \in Jobs, Probe(p)
    PROVE  LeaseInv'
<1> USE LeaseAssumption
<1>1. faults' \in 0..MaxFaults /\ lease' = lease /\ phase' = phase /\ late' = late
  BY DEF Probe, LeaseInv, TypeOK
<1>2. CASE Acquirable(p) /\ Goto(p, "taking") /\ etag' = etag
  <2>1. ASSUME etag[p] = "current" PROVE lease.holder = HolderOf[p] \/ Expired(lease)
    <3>1. obs[p] = lease /\ lease \in LeaseObjects /\ phase \in 0..(Second - 1)
      BY <2>1 DEF Probe, LeaseInv, Readings, TypeOK
    <3>2. Elapsed(lease) < lease.age + Second
      BY <3>1, ElapsedBounds
    <3>3. Elapsed(lease) \in Int /\ lease.age \in Int /\ lease.ttl \in Int
      BY <3>1 DEF Elapsed, LeaseObjects, MaxAge
    <3> QED
      BY <1>2, <3>1, <3>2, <3>3 DEF Acquirable, Expired
  <2> QED
    BY <1>1, <1>2, <2>1, MoveInv
<1>3. CASE ~Acquirable(p) /\ Drop(p)
  BY <1>1, <1>3, MoveInv DEF Drop
<1> QED
  BY <1>2, <1>3 DEF Probe

\* A PUT gets no answer.
LEMMA AmbiguousInv ==
    ASSUME LeaseInv, NEW p \in Jobs, Ambiguous(p)
    PROVE  LeaseInv'
<1> USE LeaseAssumption
<1>1. /\ faults' \in 0..MaxFaults /\ lease' = lease /\ phase' = phase
      /\ late' \subseteq Bodies
  BY BodyType DEF Ambiguous, Fault, LeaseInv, TypeOK
<1>2. \E where \in {"releasing", "idle"} :
         /\ Goto(p, where) /\ (where = "releasing" => pc[p] = "holding")
         /\ etag' = etag \/ etag' = [etag EXCEPT ![p] = "none"]
  BY DEF Ambiguous, Drop
<1>3. TypeOK'
  BY <1>1, <1>2 DEF Goto, LeaseInv, TypeOK, Sending, LeaseObjects, NoLease, MaxAge, FreshFor
<1>4. Readings'
  BY <1>1, <1>2 DEF Goto, LeaseInv, TypeOK, Readings, Expired
<1>5. Ownership'
  BY <1>1, <1>2 DEF Goto, LeaseInv, TypeOK, Ownership
<1>6. LatePuts'
  <2>1. \A q \in Jobs : pc'[q] = "holding" /\ etag'[q] = "current" =>
            q # p /\ pc[q] = "holding" /\ etag[q] = "current"
    BY <1>2 DEF Goto, LeaseInv, TypeOK
  <2>2. ASSUME NEW body \in late'
        PROVE  /\ lease = NoLease \/ body.holder = lease.holder \/ Expired(lease)
               /\ \A q \in Jobs : pc'[q] = "holding" /\ etag'[q] = "current" /\ Alone(q) =>
                                     body.holder # HolderOf[q]
    <3>1. CASE body \in late
      BY <3>1, <2>1 DEF LeaseInv, LatePuts
    <3>2. CASE body = Body(p) /\ Accepted(p)
      BY <3>2, <2>1, BodyType, WriterMay DEF Ambiguous, Alone
    <3> QED
      BY <3>1, <3>2 DEF Ambiguous
  <2> QED
    BY <2>2, <1>1 DEF LatePuts, Alone, Expired
<1>7. FreshHolderOwns'
  BY <1>2 DEF Goto, LeaseInv, TypeOK, FreshHolderOwns, FreshHolder, Alone
<1> QED
  BY <1>3, <1>4, <1>5, <1>6, <1>7 DEF LeaseInv

\* Ages only grow, so that what has expired stays expired.
LEMMA OlderGrows ==
    ASSUME NEW limit \in Nat, NEW age \in 0..limit
    PROVE  Older(age, limit) \in 0..limit /\ Older(age, limit) >= age
BY DEF Older

\* Time passes.
LEMMA TickInv ==
    ASSUME LeaseInv, Tick
    PROVE  LeaseInv'
<1> USE LeaseAssumption
<1>0. MaxAge \in Nat /\ FreshFor + 1 \in Nat /\ FreshFor + 1 < MaxAge
  BY DEF MaxAge, FreshFor
<1>1. TypeOK'
  <2>1. phase' \in 0..(Second - 1)
    BY SMT DEF Tick, LeaseInv, TypeOK
  <2>2. lease' \in LeaseObjects
    BY <1>0, OlderGrows DEF Tick, LeaseInv, TypeOK, LeaseObjects
  <2>3. obs' \in [Jobs -> LeaseObjects]
    BY <1>0, OlderGrows DEF Tick, LeaseInv, TypeOK, LeaseObjects
  <2>4. heldAge' \in [Jobs -> 0..(FreshFor + 1)]
    BY <1>0, OlderGrows DEF Tick, LeaseInv, TypeOK
  <2> QED
    BY <2>1, <2>2, <2>3, <2>4 DEF Tick, LeaseInv, TypeOK
<1>2. /\ lease'.holder = lease.holder /\ lease'.ttl = lease.ttl
      /\ lease = NoLease <=> lease' = NoLease
      /\ lease # NoLease => lease'.age = Older(lease.age, MaxAge)
      /\ Expired(lease) => Expired(lease)'
  <2>1. lease # NoLease => lease'.age = Older(lease.age, MaxAge)
    BY DEF Tick, LeaseInv, TypeOK, LeaseObjects
  <2>2. lease # NoLease => lease'.age >= lease.age /\ lease.age \in Nat /\ lease'.age \in Nat
    BY <2>1, <1>0, OlderGrows DEF LeaseInv, TypeOK, LeaseObjects
  <2>3. lease'.holder = lease.holder /\ lease'.ttl = lease.ttl /\ lease.ttl \in Nat
    BY DEF Tick, LeaseInv, TypeOK, LeaseObjects
  <2>4. lease' = NoLease => lease = NoLease
    BY <2>1, <2>2, <1>0 DEF NoLease, Older
  <2>5. Expired(lease) => Expired(lease)'
    <3>1. CASE lease = NoLease
      BY <3>1 DEF Tick, Expired
    <3>2. CASE lease # NoLease
      BY <3>2, <2>2, <2>3 DEF Expired
    <3> QED
      BY <3>1, <3>2
  <2> QED
    BY <2>1, <2>3, <2>4, <2>5 DEF Tick
<1>3. Readings'
  BY <1>2 DEF Tick, LeaseInv, TypeOK, Readings
<1>4. Ownership'
  <2>1. ASSUME NEW p \in Jobs, pc[p] = "holding", etag[p] = "current"
        PROVE  \/ heldAge'[p] = lease'.age
               \/ heldAge'[p] = FreshFor + 1 /\ lease'.age >= FreshFor + 1
    <3>1. /\ lease.holder = HolderOf[p]
          /\ \/ heldAge[p] = lease.age
             \/ heldAge[p] = FreshFor + 1 /\ lease.age >= FreshFor + 1
      BY <2>1 DEF LeaseInv, Ownership
    <3>2. lease # NoLease
      BY <3>1 DEF NoLease
    <3>3. /\ lease'.age = Older(lease.age, MaxAge)
          /\ heldAge'[p] = Older(heldAge[p], FreshFor + 1)
          /\ lease.age \in 0..MaxAge /\ heldAge[p] \in 0..(FreshFor + 1)
      BY <3>2, <1>2, <2>1 DEF Tick, LeaseInv, TypeOK, LeaseObjects
    <3> QED
      BY <3>1, <3>3, <1>0 DEF Older
  <2> QED
    BY <2>1, <1>2 DEF Ownership, LeaseInv, Tick
<1>5. LatePuts'
  BY <1>2 DEF Tick, LeaseInv, LatePuts, Alone
<1>6. FreshHolderOwns'
  <2>1. ASSUME NEW p \in Jobs, pc[p] = "holding", heldAge'[p] <= FreshFor
        PROVE  heldAge[p] <= FreshFor
    BY <2>1, <1>0 DEF Tick, Older, LeaseInv, TypeOK, FreshFor
  <2> QED
    BY <2>1 DEF Tick, LeaseInv, FreshHolderOwns, FreshHolder, Alone
<1> QED
  BY <1>1, <1>3, <1>4, <1>5, <1>6 DEF LeaseInv

LEMMA NextInv == LeaseInv /\ [Next]_leaseVars => LeaseInv'
<1> SUFFICES ASSUME LeaseInv, [Next]_leaseVars PROVE LeaseInv'
  OBVIOUS
<1> USE LeaseAssumption
<1>0. faults \in 0..MaxFaults /\ (Fault => faults' \in 0..MaxFaults)
  BY DEF LeaseInv, TypeOK, Fault
<1>1. ASSUME NEW p \in Jobs, Step(p) PROVE LeaseInv'
  <2>1. CASE Exists(p)
    BY <2>1, <1>0, MoveInv DEF Exists
  <2>2. CASE Refused(p)
    BY <2>2, <1>0, MoveInv DEF Refused, Drop
  <2>3. CASE Finish(p)
    BY <2>3, <1>0, MoveInv DEF Finish
  <2> QED
    BY <1>1, <2>1, <2>2, <2>3, HoldInv, ObserveInv, ProbeInv, ReleaseInv DEF Step
<1>2. ASSUME NEW p \in Jobs, Fail(p) PROVE LeaseInv'
  BY <1>2, <1>0, MoveInv DEF Fail, Drop
<1>3. ASSUME NEW p \in Jobs, Crash(p) PROVE LeaseInv'
  BY <1>3, <1>0, MoveInv DEF Crash
<1>4. ASSUME NEW p \in Jobs, Restart(p) PROVE LeaseInv'
  BY <1>4, <1>0, MoveInv DEF Restart, Drop
<1>5. CASE UNCHANGED leaseVars
  BY <1>5 DEF leaseVars, LeaseInv, TypeOK, Readings, Ownership, LatePuts,
              FreshHolderOwns, FreshHolder, Alone, Expired
<1> QED
  BY <1>1, <1>2, <1>3, <1>4, <1>5, AmbiguousInv, DeliverInv, TickInv DEF Next

---------------------------------------------------------------------------
(* Theorems *)

\* The invariant holds in every state, so that the steps of Lease keep what its
\* parts say of readings, owners and late PUTs.
THEOREM LeaseInvariant == Spec => []LeaseInv
<1>1. Init => LeaseInv
  BY InitInv
<1>2. LeaseInv /\ [Next]_leaseVars => LeaseInv'
  BY NextInv
<1> QED
  BY <1>1, <1>2, PTL DEF Spec

\* A job that acquired or renewed the lease in time owns it (Lease.acquire and
\* Lease.renew), whatever became of anyone's requests.
THEOREM FreshHoldersOwn == Spec => []FreshHolderOwns
<1>1. LeaseInv => FreshHolderOwns
  BY DEF LeaseInv
<1> QED
  BY <1>1, LeaseInvariant, PTL

\* Two jobs with holder_ids of their own never both hold a lease they renewed in
\* time: the mutual exclusion that collect and maintain_data build on.
THEOREM FreshHoldersAreAlone == Spec => []FreshHolderIsAlone
<1>1. LeaseInv => FreshHolderIsAlone
  <2> SUFFICES ASSUME LeaseInv, NEW p \in Jobs, NEW q \in Jobs,
                      FreshHolder(p), FreshHolder(q)
               PROVE  p = q
    BY DEF FreshHolderIsAlone
  <2>1. lease.holder = HolderOf[p] /\ lease.holder = HolderOf[q]
    BY FreshIsLive
  <2> QED
    BY <2>1 DEF FreshHolder, Alone
<1> QED
  BY <1>1, LeaseInvariant, PTL

\* No step of any job, and no late PUT, passes a live lease on (the If-Match
\* take-over of acquire and the tombstone of release).
THEOREM LiveLeasesAreKept == Spec => LiveLeaseKept
<1>1. LeaseInv /\ [Next]_leaseVars =>
          [lease'.holder # lease.holder /\ lease # NoLease => Expired(lease)]_leaseVars
  <2> SUFFICES ASSUME LeaseInv, Next, lease'.holder # lease.holder, lease # NoLease
               PROVE  Expired(lease)
    OBVIOUS
  <2>1. ASSUME NEW p \in Jobs, Hold(p) \/ Release(p) PROVE Expired(lease)
    <3>1. pc[p] \in Sending /\ Accepted(p) /\ lease'.holder = HolderOf[p]
      BY <2>1, BodyType DEF Hold, Release, Write, Sending
    <3> QED
      BY <3>1, WriterMay
  <2>2. ASSUME NEW body \in late, Deliver(body) PROVE Expired(lease)
    BY <2>2 DEF Deliver, Write, LeaseInv, LatePuts
  <2>3. Tick => lease'.holder = lease.holder
    BY DEF Tick, LeaseInv, TypeOK, LeaseObjects
  <2> QED
    BY <2>1, <2>2, <2>3 DEF Next, Step, Exists, Observe, Probe, Refused, Finish,
                            Ambiguous, Fail, Crash, Restart
<1> QED
  BY <1>1, LeaseInvariant, PTL DEF Spec, LiveLeaseKept
============================================================================
