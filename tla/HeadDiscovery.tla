--------------------------- MODULE HeadDiscovery --------------------------
(***************************************************************************)
(* root.resolve_head: one process finds the head of the lake with GETs of  *)
(* single markers while others commit.  It starts from the advisory hint   *)
(* if the marker the hint names exists, and otherwise gallops from 0       *)
(* (_gallop_discover); then it probes forward to the frontier.             *)
(*                                                                         *)
(* Markers are dense and immortal (CommitProtocol: Lineage and             *)
(* MarkersImmortal), so the committed history is the number of its head.   *)
(* Each action is one GET with the local computation around it.            *)
(***************************************************************************)
EXTENDS Integers

CONSTANTS
    MaxGeneration,  \* models.MAX_GENERATION, scaled down
    ProbeCap,       \* PROBE_CAP: forward probes at most
    GallopCap,      \* GALLOP_CAP: the largest forward step
    GetsCounted,    \* bound of the model: GETs are counted up to this many
    NoHint          \* the hint is missing, corrupt or unreadable

ASSUME DiscoveryAssumption ==
    /\ MaxGeneration \in Nat
    /\ ProbeCap \in Nat
    /\ GallopCap \in Nat \ {0}
    /\ GetsCounted \in Nat
    /\ NoHint \notin Nat

VARIABLES
    head,           \* the newest committed generation, -1 before bootstrap
    hint,           \* root-hint: any number, or NoHint
    phase,          \* where the search is
    low,            \* the search's last generation known present (lo, last)
    left, right,    \* the binary search's bounds
    step,           \* the gallop's step, backward and forward
    generation,     \* resolve_head's generation, the result
    probes,         \* forward probes made
    gets,           \* marker GETs made by _gallop_discover, counted
    \* history, read by no action
    startHead       \* the head when the search began

lake == <<head, hint>>
search == <<low, left, right>>
vars == <<head, hint, phase, low, left, right, step, generation, probes, gets,
          startHead>>

Generations == 0..MaxGeneration

Phases == {"start", "verify_hint", "gallop", "bracket", "search", "probing",
           "resolved", "capped", "uninitialized", "hint_error"}

Ended == {"resolved", "capped", "uninitialized", "hint_error"}

\* A GET of roots/<g>.
Present(g) == g <= head

---------------------------------------------------------------------------

\* The lake may not be bootstrapped, and the hint may say anything: it is
\* never trusted, only verified.
Init ==
    /\ head \in -1..MaxGeneration
    /\ hint \in Generations \cup {NoHint}
    /\ phase = "start"
    /\ low = 0 /\ left = 0 /\ right = 0
    /\ step = 1
    /\ generation = 0
    /\ probes = 0
    /\ gets = 0
    /\ startHead = head

\* Another process bootstraps the lake or commits a generation.
Commit ==
    /\ head < MaxGeneration
    /\ head' = head + 1
    /\ UNCHANGED <<hint, phase, search, step, generation, probes, gets, startHead>>

\* A committer's write_hint, possibly a slow one that moves the hint back.
MoveHint ==
    /\ head >= 0
    /\ hint' \in 0..head
    /\ UNCHANGED <<head, phase, search, step, generation, probes, gets, startHead>>

\* Entering resolve_head's forward loop with the verified marker g.
StartProbing(g) ==
    /\ phase' = "probing"
    /\ generation' = g
    /\ step' = 1

\* _hint_generation: a usable number; nothing usable; or a transport failure
\* of the GET, which S3ObjectStore.get does not turn into a domain error, so
\* nothing catches it.
ReadHint ==
    /\ phase = "start"
    /\ \/ /\ hint # NoHint
          /\ generation' = hint
          /\ phase' = "verify_hint"
       \/ /\ phase' = "gallop"
          /\ UNCHANGED generation
       \/ /\ phase' = "hint_error"
          /\ UNCHANGED generation
    /\ UNCHANGED <<lake, search, step, probes, gets, startHead>>

\* (Mutant: the hint is taken as the head without reading its marker.)
HintTrusted(g) == TRUE

HintVerifies(g) == Present(g)

\* The marker the hint names: a poisoned hint falls back to discovery.
VerifyHint ==
    /\ phase = "verify_hint"
    /\ IF HintVerifies(generation)
       THEN StartProbing(generation)
       ELSE phase' = "gallop" /\ UNCHANGED <<generation, step>>
    /\ UNCHANGED <<lake, search, probes, gets, startHead>>

---------------------------------------------------------------------------
(* _gallop_discover *)

OneMoreGet == IF gets < GetsCounted THEN gets + 1 ELSE gets

GallopStart ==
    /\ phase = "gallop"
    /\ gets' = OneMoreGet
    /\ low' = 0 /\ step' = 1
    /\ phase' = IF Present(0) THEN "bracket" ELSE "uninitialized"
    /\ UNCHANGED <<lake, left, right, generation, probes, startHead>>

\* (Mutant: the bracket is not clamped to the key format's range.)
AlwaysInRange(g) == TRUE

\* Nothing exists past the last generation; its key cannot be formatted.
InRange(g) == g <= MaxGeneration

\* (Mutant: the bracket does not widen.)
UnitStep == step

WiderStep == step * 2

\* One doubling of the bracket.  Past the last generation nothing is fetched.
Bracket ==
    /\ phase = "bracket"
    /\ LET probe == low + step IN
       IF InRange(probe) /\ Present(probe)
       THEN /\ low' = probe
            /\ step' = WiderStep
            /\ UNCHANGED <<phase, left, right>>
       ELSE /\ phase' = "search"
            /\ left' = low + 1
            /\ right' = (IF InRange(probe) THEN probe ELSE MaxGeneration + 1) - 1
            /\ UNCHANGED <<low, step>>
    /\ gets' = IF InRange(low + step) THEN OneMoreGet ELSE gets
    /\ UNCHANGED <<lake, generation, probes, startHead>>

\* (Mutant: an absent generation stays in the searched range.)
NotBelow(g) == g

Below(g) == g - 1

BinarySearch ==
    /\ phase = "search"
    /\ left <= right
    /\ LET mid == (left + right) \div 2 IN
       IF Present(mid)
       THEN low' = mid /\ left' = mid + 1 /\ UNCHANGED right
       ELSE right' = Below(mid) /\ UNCHANGED <<low, left>>
    /\ gets' = OneMoreGet
    /\ UNCHANGED <<lake, phase, step, generation, probes, startHead>>

\* The last present generation, re-read unless it is 0.
GallopEnd ==
    /\ phase = "search"
    /\ left > right
    /\ StartProbing(low)
    /\ gets' = IF low = 0 THEN gets ELSE OneMoreGet
    /\ UNCHANGED <<lake, search, probes, startHead>>

---------------------------------------------------------------------------
(* The forward probe of resolve_head *)

AtMost(a, b) == IF a < b THEN a ELSE b

\* (Mutant: a gap seen after a gallop is taken for the frontier.)
AnyGapIsFrontier == TRUE

\* A gap directly above the result is the frontier; one seen at a larger
\* step may be an overshoot.
GapIsFrontier == step = 1

Probe ==
    /\ phase = "probing"
    /\ probes < ProbeCap
    /\ probes' = probes + 1
    /\ LET target == generation + step IN
       IF InRange(target) /\ Present(target)
       THEN /\ generation' = target
            /\ step' = AtMost(step * 2, GallopCap)
            /\ UNCHANGED phase
       ELSE /\ IF GapIsFrontier
               THEN phase' = "resolved" /\ UNCHANGED step
               ELSE step' = 1 /\ UNCHANGED phase
            /\ UNCHANGED generation
    /\ UNCHANGED <<lake, search, gets, startHead>>

ProbeCapped ==
    /\ phase = "probing"
    /\ probes >= ProbeCap
    /\ phase' = "capped"
    /\ UNCHANGED <<lake, search, step, generation, probes, gets, startHead>>

Resolver ==
    \/ ReadHint \/ VerifyHint \/ GallopStart \/ Bracket \/ BinarySearch
    \/ GallopEnd \/ Probe \/ ProbeCapped

Idle == phase \in Ended /\ UNCHANGED vars

Next == Resolver \/ Commit \/ MoveHint \/ Idle

Spec == Init /\ [][Next]_vars

\* The resolver runs; the others need not.
FairSpec == Spec /\ WF_vars(Resolver)

---------------------------------------------------------------------------
(* Properties *)

\* In particular every key the binary search probes, between left and right,
\* is one that format_marker_key accepts.
TypeOK ==
    /\ head \in -1..MaxGeneration
    /\ hint \in Generations \cup {NoHint}
    /\ phase \in Phases
    /\ low \in Generations
    /\ left \in 0..(MaxGeneration + 1)
    /\ right \in Generations
    /\ step \in Nat \ {0}
    /\ generation \in Generations
    /\ probes \in Nat
    /\ gets \in 0..GetsCounted
    /\ startHead \in -1..MaxGeneration

\* Whatever the hint says and whoever commits meanwhile, the result is a
\* committed generation: resolve_head is "always a real, fully-committed
\* generation".
ResolvedIsCommitted ==
    phase \in {"probing", "resolved", "capped"} => generation <= head

\* Unless the probe cap is hit, the result is at least as recent as every
\* commit that finished before the search began: a caller reads its own
\* writes, and a writer that lost a race never rebases below the winner.
ResolvedIsRecent == phase = "resolved" => generation >= startHead

\* 2^k
Power[k \in Nat] == IF k = 0 THEN 1 ELSE 2 * Power[k - 1]

Log2(n) == CHOOSE k \in 0..n : Power[k] <= n /\ n < Power[k + 1]

\* _gallop_discover's GETs are logarithmic in the head, commits included.
GallopIsLogarithmic == gets <= 2 * Log2(head + 2) + 3

\* The search ends, also under commits and with any hint.
SearchEnds == phase = "start" ~> phase \in Ended

\* "A hint read must never be able to fail head resolution."
HintNeverFailsResolution == phase # "hint_error"
===========================================================================
