------------------------------- MODULE Lease -------------------------------
(***************************************************************************)
(* The maintenance lease (lease.py): one object in the store, taken and    *)
(* kept by conditional PUTs, that expires on the store's clock.  A job is  *)
(* a process that runs collect() or maintain_data() over and over; each    *)
(* run makes a new Lease, so nothing but the store outlives a run.         *)
(*                                                                         *)
(* Time is counted in units of which the store's timestamps keep whole     *)
(* Seconds only.  Only ages matter, so the model keeps the age of what was *)
(* written, up to MaxAge, and the phase of the clock within its second.    *)
(* Every PUT makes a new body, hence a new etag; an etag is known here by  *)
(* whether it is still that of the lease object.                           *)
(***************************************************************************)
EXTENDS Integers

CONSTANTS
    Jobs,       \* maintenance jobs
    Holders,    \* holder_ids
    Nobody,     \* the holder of no lease
    HolderOf,   \* the holder_id of each job
    Ttl,        \* ttl_seconds, in units of the clock
    Second,     \* units of the clock in one second of a timestamp
    MaxFaults   \* crashes, lost answers and failed requests there may be

ASSUME LeaseAssumption ==
    /\ Nobody \notin Holders
    /\ HolderOf \in [Jobs -> Holders]
    /\ Second \in Nat \ {0}
    /\ Ttl \in Nat
    /\ Ttl >= Second
    /\ MaxFaults \in Nat

VARIABLES
    lease,      \* the lease object
    phase,      \* the store's clock within its second
    late,       \* PUTs without an answer that the store may still apply
    pc,         \* where a job is
    etag,       \* Lease._etag, or the etag of what is being taken over
    obs,        \* what _observe has read of the lease object
    heldAge,    \* history: the time since a job's last successful PUT
    faults      \* how many faults there have been

leaseVars == <<lease, phase, late, pc, etag, obs, heldAge, faults>>

MaxAge == Ttl + Second
FreshFor == Ttl - Second

LeaseObjects == [holder : Holders \cup {Nobody}, ttl : {0, Ttl}, age : 0..MaxAge]
NoLease == [holder |-> Nobody, ttl |-> 0, age |-> 0]
Bodies == [holder : Holders, ttl : {0, Ttl}]

\* The states in which the next request of a job is a PUT of the lease: the
\* create-only PUT of acquire, its take-over, a renewal, or the tombstone.
Sending == {"idle", "taking", "holding", "releasing"}

TypeOK ==
    /\ lease \in LeaseObjects
    /\ phase \in 0..(Second - 1)
    /\ late \subseteq Bodies
    /\ pc \in [Jobs -> Sending \cup {"observing", "probing", "dead"}]
    /\ etag \in [Jobs -> {"none", "current", "old"}]
    /\ obs \in [Jobs -> LeaseObjects]
    /\ heldAge \in [Jobs -> 0..(FreshFor + 1)]
    /\ faults \in 0..MaxFaults

---------------------------------------------------------------------------
(* The store *)

\* What a job PUTs: its holder_id, and no time at all as the tombstone.
Body(p) == [holder |-> HolderOf[p], ttl |-> IF pc[p] = "releasing" THEN 0 ELSE Ttl]

\* (Mutant: the lease is overwritten whatever it has become.)
AlwaysAccepted(p) == TRUE

\* If-None-Match: *, or If-Match: <etag>.
Accepted(p) == IF pc[p] = "idle" THEN lease = NoLease ELSE etag[p] = "current"

\* The lease object is written.  No PUT under way, and no other etag, matches
\* it from now on; jobs that are in a state of their own have no etag yet.
Write(body) ==
    /\ lease' = [holder |-> body.holder, ttl |-> body.ttl, age |-> 0]
    /\ late' = {}
Outdated(tag) == IF tag = "current" THEN "old" ELSE tag
Outdate == [q \in Jobs |-> Outdated(etag[q])]

Older(age, limit) == IF age < limit THEN age + 1 ELSE limit

\* (Mutant: rounded up, as by the clock of another machine.)
ElapsedSkewed(o) == o.age + Second

\* The difference of two timestamps of the store, each cut to whole seconds:
\* that of the clock probe, now, and that of an object of this age.
Elapsed(o) == o.age + ((phase - o.age) % Second) - phase

---------------------------------------------------------------------------
(* acquire, renew, release *)

Init ==
    /\ lease = NoLease
    /\ phase = 0
    /\ late = {}
    /\ pc = [p \in Jobs |-> "idle"]
    /\ etag = [p \in Jobs |-> "none"]
    /\ obs = [p \in Jobs |-> NoLease]
    /\ heldAge = [p \in Jobs |-> 0]
    /\ faults = 0

\* A job goes on to its next state; what it has observed is used up.
Goto(p, where) ==
    /\ pc' = [pc EXCEPT ![p] = where]
    /\ obs' = [obs EXCEPT ![p] = NoLease]
    /\ heldAge' = [heldAge EXCEPT ![p] = 0]

\* The run ends, or does not begin: None is all that is left of its Lease.
Drop(p) == Goto(p, "idle") /\ etag' = [etag EXCEPT ![p] = "none"]

\* Any of the PUTs with which a job gets or keeps the lease succeeds.
Hold(p) ==
    /\ pc[p] \in {"idle", "taking", "holding"}
    /\ Accepted(p)
    /\ Write(Body(p))
    /\ Goto(p, "holding")
    /\ etag' = [Outdate EXCEPT ![p] = "current"]
    /\ UNCHANGED <<phase, faults>>

\* acquire finds that there is a lease object.  (It is never deleted, so the
\* LeaseVacant case of the code, which starts over, cannot follow.)
Exists(p) ==
    /\ pc[p] = "idle"
    /\ lease # NoLease
    /\ Goto(p, "observing")
    /\ UNCHANGED <<lease, phase, late, etag, faults>>

Observe(p) ==
    /\ pc[p] = "observing"
    /\ pc' = [pc EXCEPT ![p] = "probing"]
    /\ obs' = [obs EXCEPT ![p] = lease]
    /\ etag' = [etag EXCEPT ![p] = "current"]
    /\ UNCHANGED <<lease, phase, late, heldAge, faults>>

\* (Mutant: a lease is its holder's until it is released.)
NeverExpires(p) == obs[p].holder = HolderOf[p] \/ obs[p].ttl = 0

\* classify_lease: held by another and not expired, or ours to take.
Acquirable(p) == obs[p].holder = HolderOf[p] \/ obs[p].ttl - Elapsed(obs[p]) <= 0

\* The clock probe is written and read, and what was observed is classified.
Probe(p) ==
    /\ pc[p] = "probing"
    /\ \/ Acquirable(p) /\ Goto(p, "taking") /\ UNCHANGED etag
       \/ ~Acquirable(p) /\ Drop(p)
    /\ UNCHANGED <<lease, phase, late, faults>>

\* The PUT is refused, 412 or 404: the take-over was lost, or the lease was.
Refused(p) ==
    /\ pc[p] \in {"taking", "holding", "releasing"}
    /\ ~Accepted(p)
    /\ Drop(p)
    /\ UNCHANGED <<lease, phase, late, faults>>

\* The body of collect or maintain_data returns or raises.
Finish(p) ==
    /\ pc[p] = "holding"
    /\ Goto(p, "releasing")
    /\ UNCHANGED <<lease, phase, late, etag, faults>>

Release(p) ==
    /\ pc[p] = "releasing"
    /\ Accepted(p)
    /\ Write(Body(p))
    /\ Goto(p, "idle")
    /\ etag' = [Outdate EXCEPT ![p] = "none"]
    /\ UNCHANGED <<phase, faults>>

Step(p) ==
    Hold(p) \/ Exists(p) \/ Observe(p) \/ Probe(p) \/ Refused(p) \/ Finish(p) \/ Release(p)

---------------------------------------------------------------------------
(* Faults and time *)

Fault == faults < MaxFaults /\ faults' = faults + 1

\* No answer (AmbiguousCasError): the PUT may be applied at any later moment,
\* or never.  acquire and release let the error out of the run; a renewal that
\* fails goes through the finally, which releases with the etag it had.
Ambiguous(p) ==
    /\ Fault
    /\ pc[p] \in Sending
    /\ late' = IF Accepted(p) THEN late \cup {Body(p)} ELSE late
    /\ IF pc[p] = "holding"
       THEN Goto(p, "releasing") /\ UNCHANGED etag
       ELSE Drop(p)
    /\ UNCHANGED <<lease, phase>>

\* Another error, such as a failed GET or a machine that leaves the network:
\* the run is over, and so is what the job knew of its lease.
Fail(p) ==
    /\ Fault
    /\ pc[p] \in {"observing", "probing", "taking", "holding", "releasing"}
    /\ Drop(p)
    /\ UNCHANGED <<lease, phase, late>>

\* kill -9; its machine may or may not come back.
Crash(p) ==
    /\ Fault
    /\ pc[p] # "dead"
    /\ Goto(p, "dead")
    /\ etag' = [etag EXCEPT ![p] = "none"]
    /\ UNCHANGED <<lease, phase, late>>

Restart(p) ==
    /\ pc[p] = "dead"
    /\ Drop(p)
    /\ UNCHANGED <<lease, phase, late, faults>>

\* A PUT without an answer takes effect.
Deliver(body) ==
    /\ Write(body)
    /\ etag' = Outdate
    /\ UNCHANGED <<phase, pc, obs, heldAge, faults>>

Tick ==
    /\ phase' = (phase + 1) % Second
    /\ lease' = IF lease = NoLease THEN lease
                ELSE [lease EXCEPT !.age = Older(@, MaxAge)]
    /\ obs' = [p \in Jobs |-> IF obs[p] = NoLease THEN obs[p]
                              ELSE [obs[p] EXCEPT !.age = Older(@, MaxAge)]]
    /\ heldAge' = [p \in Jobs |-> IF pc[p] = "holding"
                                  THEN Older(heldAge[p], FreshFor + 1) ELSE 0]
    /\ UNCHANGED <<late, pc, etag, faults>>

Next ==
    \/ \E p \in Jobs : Step(p) \/ Ambiguous(p) \/ Fail(p) \/ Crash(p) \/ Restart(p)
    \/ \E body \in late : Deliver(body)
    \/ Tick

Spec == Init /\ [][Next]_leaseVars

\* Time passes, and a job that is alive goes on; nothing makes a dead machine
\* come back, or the store apply what it has not answered.
FairSpec ==
    /\ Spec
    /\ WF_leaseVars(Tick)
    /\ \A p \in Jobs : WF_leaseVars(Step(p))

---------------------------------------------------------------------------
(* Properties *)

\* Released, or within a second of its expiry: the timestamps say no more.
Expired(l) == l.ttl = 0 \/ l.age > l.ttl - Second

\* Jobs that have a holder_id of their own.
Alone(p) == \A q \in Jobs : HolderOf[q] = HolderOf[p] => q = p

FreshHolder(p) == pc[p] = "holding" /\ heldAge[p] <= FreshFor /\ Alone(p)

\* A live lease passes to no one else.  Neither a take-over decided on an old
\* reading of the lease and the clock, nor a renewal or a release whose sender
\* has lost the lease meanwhile, nor a PUT that arrives late can end it early.
LiveLeaseKept ==
    [][lease'.holder # lease.holder /\ lease # NoLease => Expired(lease)]_leaseVars

\* A job that acquired or renewed within the last ttl, but for the second that
\* timestamps lose, is the one that owns the lease, whoever has crashed, stalled
\* or been cut off since.  Jobs must not share a holder_id: a namesake takes a
\* live lease over.
FreshHolderOwns == \A p \in Jobs : FreshHolder(p) => etag[p] = "current"

\* What collect and maintain_data count on: of jobs with different holder_ids
\* that believe they hold the lease, at most one has renewed it recently.
FreshHolderIsAlone ==
    \A p, q \in Jobs : FreshHolder(p) /\ FreshHolder(q) => p = q

\* A holder that died blocks no one for ever: as long as some job is alive, one
\* gets the lease again and again.
MaintenanceResumes ==
    []<>((\E p \in Jobs : pc[p] = "holding" /\ etag[p] = "current")
         \/ \A p \in Jobs : pc[p] = "dead")
============================================================================
