# A TLA+ verification of ducklake-serverless

ducklake-serverless runs a DuckLake (a DuckDB catalog file plus Parquet data)
with no server: every state change is a request to an object store, and the only
synchronisation is the store's create-only PUT (`If-None-Match: *`). Each commit
uploads a whole catalog as `payload/<generation>-<uuid>` and then creates the
immutable marker `roots/<generation>`; the marker is the commit point. A writer
that loses a generation replays its recorded SQL on the new head or aborts.
Garbage collection deletes old payloads and unreferenced packs beside running
commits; a lease kept in the store lets one maintenance run in at a time.

This directory holds TLA+ modules of that protocol, the TLC runs that check
them on small instances, and TLAPS proofs for every instance. Source paths below
are relative to `src/src/ducklake_serverless/`.

## Inventory

| Component | State it keeps | Operations | What makes it correct |
|---|---|---|---|
| Commit protocol (`commit.py`, `root.py` create/resolve, `rebase.py`, `session.py` transaction) | in the store: markers, payloads, requests that timed out and are still on their way; per transaction: base, work copy, attempt counters | resolve, fetch, upload, check upload, create marker, resolve marker, re-send, replay, abort | history is linear, nothing lost, nothing applied twice, answers agree with the store, no write skew, bounded attempts |
| Head discovery (`root.py` resolve_head, _gallop_discover, hint) | none of its own; reads markers and `root-hint` | hint, verify, bracket, binary search, forward probe | always a committed generation, at least as new as the head when it began; logarithmic; ends; cannot be failed by the hint |
| Payload garbage collection (`gc.py` _collect_locked) | none across runs | resolve, list, advance the hint, delete | never deletes the retained window, nor a payload whose generation is undecided |
| Pack garbage collection (`gc.py` decide_pack_sweep and below) | tombstone ledger with the store's clock | resolve manifests, decide, renew, commit ledger, re-HEAD, delete | no pack of a committed generation is deleted, as long as nobody stalls past the grace; cold packs go in the end |
| Chunked transport (`chunk.py`) | packs and manifests | build, put packs, verify and refresh, reconstruct | both ways of reading return the payload or raise; a manifest lands only over present packs |
| Lease (`lease.py`) | one object, its etag and the store's timestamps | acquire, renew, release | a live lease is not taken away; a stale holder cannot renew or release a successor's lease; a dead holder blocks nobody for ever |
| Data maintenance (`gc.py` maintain_data) | Parquet files, schedule table in the catalog | probe, expire, clean, commit | physical deletes never hit files a live catalog still needs |
| Bootstrap (`session.py`, `blob.py`) | generation 0 | probe the backend, publish, create, adopt | concurrent bootstraps agree on one generation 0 |
| BlobStore (`blob.py`) | as the commit protocol | bootstrap, head, read, write | a write is a transaction that aborts on any loss |
| Capability probe (`objectstore.py` probe_*) | probe keys | barrier, concurrent PUTs, count winners | only an atomic store passes |
| Object store adapters (`objectstore.py`) | in-memory objects; an S3 client | get, put, conditional puts, list, delete | errors are classified the way the protocol needs |
| Recorder (`recorder.py`) | none | classify SQL | never under-classifies |
| Generation cache, engine, config, errors, fsspec reader, payload locator | files, DuckDB, memoised readers | - | - |

How they interact: everything meets in the object store. A transaction reads the
head through head discovery, fetches a payload that the collector may delete in
between, uploads a payload the collector must not delete, creates a marker that
other transactions compete for, and writes the hint that other discoveries read.
Nothing is a lock: each request is one atomic step of the store, any other
process can run between two of them, and a request that timed out may still be
applied later.

The hard parts, with their lines, are the `hazards` of PROJECT.json: uploads and
marker creations with unknown outcomes, re-sent and late create-only PUTs, a
collector that resolves a head and then falls behind, a base swept between
resolve and fetch, replays on top of state the caller never saw, attempt budgets
shared by three kinds of retry, a hint that lies, clocks of whole seconds in the
pack sweep, a lease lost in the middle of a run.

## Modules

| Module | Models | State and actions |
|---|---|---|
| `CommitProtocol` | the marker protocol, `commit.py`, `rebase.py`, `session.py`, parts of `root.py` | below |
| `CatalogLog` | nothing in the code: the abstract promise, a log of transactions and truthful answers | `log`, `answer`; `Publish`, `Acknowledge`, `Refuse` |
| `PayloadSweep` | `gc._collect_locked` without the pack sweep, composed with `CommitProtocol` | `gcPhase`, `gcSeen`, `current`, `doomed`; `SweepBegin` ... `SweepEnd` |
| `HeadDiscovery` | `root.resolve_head`, `_hint_generation`, `_gallop_discover` | one action per GET |
| `Lease` | `lease.py`, and the runs of `gc.py` that hold it | the lease object, each job's etag and observation; one action per request |
| `PackGC` | `gc._pack_sweep` and below, `chunk.publish_packs` and `verify_packs`, `commit._publish_resolved` | ages of packs, manifests, ledger; writers and collectors request by request |
| `Bootstrap` | `session.bootstrap`, `blob.bootstrap`, `objectstore.probe_atomic_create`, the S3 client's retries | the store's kind, marker and payloads of generation 0, the threads of each probe |
| `Transport` | `chunk.build_manifest`, `reconstruct`, `fsspec_fs._ChunkedReader`, `cat_file` | functions, under a chain of commits, pack sweeps and damage |
| `DataMaintenance` | `gc.maintain_data`, `session.transaction` and `scratch` | bucket, head catalog, schedule; writers that stage Parquet, maintenance passes |
| `MCCommit`, `MCSweep`, `MCHead`, `MCLease`, `MCPackGC`, `MCBootstrap`, `MCTransport`, `MCMaintenance` | - | small instances |
| `CommitProofs`, `SweepProofs`, `HeadProofs`, `LeaseProofs`, `PackProofs`, `MaintenanceProofs`, `BootstrapProofs`, `TransportProofs` | - | inductive invariants, theorems and proofs |

`CommitProtocol`. A *writer* is one transaction. Its `pc` is the phase of
`run_commit`'s loop and the request it is about to send; `base`, `work` and
`attempt` are the fields of `_Attempt`, `local` is `local_attempt` of
`create_marker_resolving`, `fetches` counts the rounds of `_fetch_current_base`.
One action is one request to the store plus the local code up to the next
request, so all interleavings of requests are explored. What the data became:

- A catalog file is the sequence of transactions applied to it; re-executing the
  changeset appends the transaction. Lost updates and double application are
  visible in that sequence, and SQL is not.
- A changeset is the set of its statements' classes, which is all
  `decide_rebase` looks at. (`VOLATILE` is rejected when it is recorded.)
- `uuid4()` is drawn once per `_advance`, so a uuid is a writer and an attempt.
- `resolve_head` is one action that returns any committed generation at least as
  recent as the head at the moment it began (`seen`). `HeadDiscovery` models the
  search itself and `ResolutionIsRecent` proves that this is what it returns,
  except at `PROBE_CAP` (4096 probes outrun by commits), when it may return less.
- A PUT that succeeds on a free key, one that is refused, and one whose outcome
  is unknown are three outcomes of one action. An unknown one goes into
  `latePayloads` or `lateMarkers` and may take effect at any later step, or
  never: there is no fairness on `Deliver`. A PUT that took effect while its
  answer was lost is the case in which it is delivered at once.
- Garbage collectors are part of the environment when `Collecting` is TRUE: at any
  moment any payload older than some committed generation may be deleted
  (`Collect`), and the hint set to a committed generation (`CollectorHint`).
  That is all `PayloadSweep` turns out to do (`SweepImplementsCommit`), and what
  `FetchMiss`, the retry of `_fetch_current_base`, exists for. `published` is
  a history variable, the payloads ever in the store, so that the
  history can be spoken of when its older catalogs are gone.
- Three more history variables serve single properties and are read by no action:
  `readBase`, the generation the caller's SQL ran against (`NoWriteSkew`); `unlanded`,
  the attempts that uploads cost, and `lostAt`, the head at a writer's first lost race
  (`LagIsNotCharged`: from that head on, a further lost race takes a further commit).
- `Stop` ends a running writer anywhere: a crash, and equally every error the
  code does not catch (a failed GET, a hygiene or version error, a 412 on the
  payload key). It loses the process's memory; the store keeps what it has.
- The pristine cache is left out: one transaction fetches a given payload once.
- The transport is the whole-file one; the requests of a chunked commit are in `PackGC`.
- Generation 0 exists in the initial state; `Bootstrap` shows how it comes about.

`PayloadSweep` lets any number of collectors overlap. In the code the lease
prevents that, but a lease can expire under a slow holder, and the code says that
the deletes are safe regardless ("swept keys are immutable garbage"). That claim
is proved for any number of collectors; the run has one. A run can be cut short at any point; a dry run is one
that ends before `SweepList`. `SweepImplementsCommit` says that the module is
`CommitProtocol` with `Collecting` TRUE and the collectors' own variables hidden,
so whatever is checked or proved of that specification holds here too.

`HeadDiscovery` counts markers rather than storing them: they are dense and
immortal, which `CommitProtocol` checks and proves (`History`, `MarkersImmortal`).
A GET of a marker that fails ends the search with an exception and no result;
that case is left out here and is part of `Stop` in `CommitProtocol`.

`Lease`. A *job* is a process that runs `collect` or `maintain_data` again and
again, with a new `Lease` object each time; jobs may share a `holder_id`, as the
two in the instance do. Time is kept as ages: of the lease object, of what
`_observe` has read, and of a job's last successful PUT (`heldAge`, a history
variable). `Elapsed` is the difference of two timestamps that were each cut to
whole seconds, so an observation errs by up to one second either way. Every PUT
gives a new etag, hence an etag is known only by whether it is still current.
`Ambiguous` is a PUT without an answer: it may be applied at any later moment
(`Deliver`), also after a take-over. A body that cannot be parsed, and the
fallback for stores without timestamps, are left out.

`PackGC`. A pack is its content, so writers share packs and re-create old ones. A
writer builds against the head's manifest, PUTs its novel packs, refreshes them
all and looks up the reused ones, lands the manifest and then the marker; a
collector's cycle is its listings, `resolve_payloads`, `decide_pack_sweep`, the
fenced ledger, and HEAD then DELETE for each candidate, every one an action.
Packs and tombstones carry ages on the store's clock. Two inputs of `Tick` say
what the grace has to cover: a writer takes at most `MaxStall` from its first
refresh to its manifest, a collector at most `MaxCycle` from its listing to its
last delete. A ledger that is absent and one that is empty are not told apart, and
the fence compares contents instead of etags. The PUT without a fence that replaces a
ledger which cannot be parsed is taken together with the creation of one that was
lost. Several collectors are allowed, as when a lease has expired: the run has one,
the proofs any number.

`Bootstrap`. Each process may probe the store first: threads race for a key, and
on a store that is not atomic a create checks in one step and writes in another.
The client repeats an unanswered request `TransportRetries` times below the
adapter. Then come the payload, the marker with its re-sends, adoption and the
hint. A failed GET, a failed upload and a crash all end the process without a
return.

`Transport`. A byte is a member of a small set, a hash is what it hashes (sha256
is assumed free of collisions). `BuildManifest`, `Reconstruct` and `ReadRange` are
the code's loops as functions of the number of turns: `AddChunk` is a turn of
`build_manifest`, `Turn` one of `write_windows` (it writes an entry or goes on to the
next window), `ReadRun` one of `read_range` (a run of contiguous entries, one ranged
GET). `Commit` tries every payload up to `MaxSize` on
every head, `SweepPacks` removes what the head does not use, `Damage` alters, cuts
or loses one pack. Threads that fetch in parallel are taken together: they share
nothing. The size cap of manifests is left out.

`DataMaintenance`. A catalog is a set of snapshots, its newest, and the schedule of
files to delete; the marker protocol is reduced to a compare-and-swap of the
generation, which is what `CommitProtocol` proves of it. What DuckLake's CALLs do is
external, taken from the arguments and the docstring of `maintain_data`. Files are
deleted one at a time, before the commit that may fail. `Start` reads the runner's
own clock (`gc.py:783`), which may be ahead of the store's by `MaxSkew`. A pass that
loses its commit aborts (`AbortPass`); if the lake's policy is replay_all
(`ReplayAll`) it may also run its CALLs again on the new head, under the old cut-offs
(`ReplayPass`), and a rewrite is replayed like an append. Attempts are not counted:
an abort is possible at every point instead.

## Runs

| Run | Instance | Shows |
|---|---|---|
| `commit_safety` | 2 writers, seven kinds of transaction, generations to 3, 3 attempts, nothing collected | the safety properties of the protocol, for every rule of `decide_rebase`, and that it implements `CatalogLog` |
| `commit_collected` | 3 appending writers, generations to 2, 3 attempts, any superseded payload deleted at any time; a third writer only while faults are few | nothing is stored under a generation that has no key, the head stays readable, also when a base is swept away, and a lost race costs one attempt, also for a writer that is two generations behind |
| `sweep` | 2 writers, 1 collector that keeps one generation, fairness | the collector takes nothing retained or undecided, is one that the proofs of the commit protocol allow for, and every transaction ends even when its base is swept each time |
| `head_discovery` | generations to 12, gallop cap 4, probe cap 9 | soundness, recency, cost and termination of the search under commits and any hint |
| `lease` | 3 jobs, 2 holder_ids, ttl of two seconds, clock of half seconds, 1 fault | a live lease is kept, a fresh holder owns it, maintenance goes on after a crash |
| `packs` | 1 pack, 2 writers, 1 collector, grace 2, stall 1, cycle 1, 1 fault | no committed pack is lost, deletes hit only old and unreferenced packs, cold packs go |
| `pack_race` | the same without stalls, with refreshes between HEAD and DELETE | expected violation, see Findings |
| `bootstrap` | 2 processes with 2 racing threads each, 1 client retry, 3 attempts, stores of both kinds | one readable generation 0, a gate that judges what the store did, termination |
| `bootstrap_retry` | 1 process | expected violation, see Findings |
| `transport` | all payloads of up to 5 bits, chains of 3 commits, chunks of one byte that double, packs of 3 bytes, windows of one pack | both readers are exact, damage is noticed, one GET per run of entries, an unchanged payload uploads nothing |
| `maintenance` | 2 files, 2 writers, 1 runner, policy replay_all, delay 2, stage 1, skew 1, 6 moments | needed files stay, in the bucket and in every catalog; deletion comes a delay after use, also by a pass that is replayed |
| `hint_read` | generations to 3 | expected violation, see Findings |

The bounds are CONSTANTS, but for one. `MaxGeneration` is the code's own
`MAX_GENERATION` made small: `commit_collected` reaches the last generation and the
refusal after it, while the two writers of `commit_safety` never fill three. Two
writers and three attempts give every pair of conflicting requests, a replay after a
replay, a re-sent marker racing its twin, and a budget that runs out in each of its
three ways. Lag takes a third writer, since a writer commits once: two rivals commit
before the third collides with the older of them, or it loses to one and then to the
other. That space fits a run with a state constraint, `ThirdWriterInCalm`: two writers
run freely, and while all three are about, the retries they have made and the
timed-out PUTs that may still take effect are at most two together.
`RetainGenerations = 1` is the smallest window the code accepts and the most
dangerous. Twelve generations let a forward gallop capped at 4 overshoot twice, and
a probe cap of 9 is reached when commits keep arriving. `GetsCounted` is a bound of the model only: GETs are
counted up to one more than the property allows. Writers are interchangeable,
which the commit runs use as symmetry; runs with liveness do not.

`lease`: half seconds are the coarsest clock on which truncation matters, and a ttl
of two seconds leaves one second of holding after what truncation takes. One
fault is a crash, a lost answer or a failure; the proof has no bound. `packs`: one
pack is the point of contention, grace 2 with stalls of 1 is the smallest
instance of `MaxStall + MaxCycle <= Grace` in which both happen, and with either one
longer the properties fail. `QuietGap` leaves out the refresh between HEAD and
DELETE that `pack_race` is about; `BreakerMin` is the code's 10, so that the
breaker never trips on one pack. `transport`: five bits cut into chunks of one byte
exceed the cap of four entries, so that chunk sizes double; packs hold three
chunks of one byte but one of two, windows one pack, so that back-references leave
the window; repeated bits give duplicate chunks. `maintenance`: six moments are
enough for a snapshot to expire, its file to be scheduled, to wait out the delay
and to be cleaned.

Fairness. `SweepFairSpec`: a transaction that is running takes its next step,
weakly fair, since each step is a request with a timeout followed by local code.
Nothing else is fair: the process may stop (an end too), the collector may stall
for ever, late requests may never arrive. In `HeadDiscovery` the searching
process is weakly fair and committers are not. In `Lease` time passes and jobs
that are alive go on, which is what a scheduler that starts maintenance again and
again gives; a dead one need never return. In `PackGC` collectors are run again,
time passes, and a writer that has begun goes on or gives up. In `Bootstrap` each
process is fair: every request is answered or times out. `CHECK_DEADLOCK FALSE` is
set where the system ends: bootstraps have returned, or the generations tried in
`Transport` are used up.

## Proofs

`CommitProofs` proves, for any numbers of writers, transactions, generations and
attempts, that `CommitInv` is inductive, and from it every safety property that
`commit_safety` and `commit_collected` check, `MarkersImmortal` included, with or
without collectors. The assumptions are the module's `CommitAssumption`: the
bootstrapper is not one of the transactions, transactions are of the declared
type, at least one attempt is allowed, `Collecting` is a Boolean.

The properties are not inductive by themselves. What `CommitInv` adds:

- `History`: one marker per generation and no gap. A marker can only be created
  on top of the one it was built on, which must exist (`Extends`).
- `Chain`: the payload published for each marker is that of its predecessor plus the
  writer's transaction.
- `Collected`: the payloads that are gone are older than some marker. With the
  density of the history this leaves the head's payload in place.
- `OnePayloadPerUuid`: a payload is determined by its key, and only the writer's
  current uuid can still change its status. This is what makes one GET decide an
  ambiguous upload (`_publish_resolved`), and why each attempt draws a new uuid.
- `BuildsOnBase`: what a writer knows of its base stays true while it is
  overtaken, since markers are only added and `published` remembers payloads.
- `OwnMarkers` and `LateMarkers`: a writer that replays or gives up has no marker,
  and none of its pending requests can still become one, because the generation
  they name has been decided. Without the second, a late PUT could commit an
  aborted transaction.
- `Attempted`: only replayable transactions reach a second attempt by losing. The head
  a replay starts from (`seen`) lies at least as many generations beyond `lostAt` as
  races were lost since, which `LagIsNotCharged` says of the base once it is resolved.

There is one lemma per action, with one step per conjunct; `StepInv` combines
them.

The last part of `CommitProofs` proves the refinement `ImplementsCatalogLog` on top of
`CommitInv`: the initial states map to the empty log, and every step publishes one transaction, gives
one answer, or maps to a stutter. A marker that is created, by its writer or late, is
a `Publish` (`LogGrows`); a writer that ends is an `Acknowledge` or a `Refuse`,
truthful because `OwnMarkers` and `LateMarkers` say what can still become of its
requests; everything else leaves the log as it is (`LogStays`). What has to be added
is `LogIsMarkers`: a transaction is in the head's catalog exactly if it has a marker,
which is how a truthful answer about a marker becomes one about the log.

`SweepProofs` does without the lease: for any number of collectors that overlap and
fall behind, and any `RetainGenerations`, it proves `RetainedPayloadsPresent`,
`SweptIsDecided` and the refinement `SweepImplementsCommit`, by which everything
proved of `CommitProtocol` with collectors holds of the collectors of `gc.py`.
`SweepInv` adds to `CommitInv` that a collector's head is committed, however old
(`Condemned`), and that what is gone lies a whole window below some committed
generation (`GoneBelowWindow`); heads only grow, so a stale one is on the safe side.
The steps of transactions are the same in both modules up to the constant
`Collecting` (`SameSteps`), and a delete is a `Collect` because a key has one payload.

`HeadProofs` proves an inductive invariant of the search (`SearchInv`): whatever the hint
says and whoever commits, the search names only formattable generations, returns
only committed ones, and never an older one than the head it started from.

`GallopCost` proves, with it, that the gallop is logarithmic (`GallopIsLogarithmic`).
`CostInv` counts in powers of two: a bracket that has doubled `k` times has cost
`k + 1` GETs and stands on a committed generation, the interval that the binary
search still has to look at is shorter than `Power[j]`, and `j` more GETs will do.
Commits meanwhile only raise the head and so the bound. That `Log2` is what its name
says for every number needs an induction, which is made with the least-number
principle (`Least`) of the well-founded order of the naturals.

`LeaseProofs` proves, for any jobs, holder_ids, ttl, clock and number of faults,
that `LeaseInv` is inductive, and from it `FreshHolderOwns`, `FreshHolderIsAlone` and
the action property `LiveLeaseKept`. The assumption is `LeaseAssumption`: a ttl of at
least a second, and a name for nobody that is no holder_id. `LeaseInv` adds to the
properties:

- `Readings`: a job whose observed etag is current has observed the lease as it is,
  and what it is about to take over is its own or expired by then. Expiry is
  stable, an etag that is current cannot have been rewritten in between.
- `Ownership`: whoever has the current etag while holding or releasing is named in
  the lease, which is as old as its last PUT.
- `LatePuts`: a PUT that may still be applied would replace an expired lease or
  one of the same holder_id; and none of them is of a job that holds the lease
  now, so that a job's own late PUT does not take its new lease away from it.

`PackProofs` proves, for any numbers of packs, writers, collectors, generations,
retries and faults, that `PackInv` is inductive, and from it `CommittedPacksPresent`
and the action property that no delete hits a pack which a retained generation or a
manifest that may still win refers to (`NeededAreNeverDeleted`). The hypothesis is
`Punctual`: a writer's stall and a cycle fit into the grace together
(`MaxStall + MaxCycle <= Grace`), and nobody refreshes a pack between a collector's HEAD
and its DELETE (`QuietGap`). That is what the run `packs` sets, and each part is needed:
`pack_race` shows the loss without the second, and with a longer stall or cycle TLC
finds one too. `PackTypeCorrect` needs neither. The argument:

- `NeededOK`: whatever has to stay is in the store, and shielded from every cycle
  (`Shielded`). Either a manifest that the cycle has kept names the pack, so it is not
  deletable, or it was refreshed by a writer that was still unknown to the cycle. Then
  it is `Fresh`, younger than the longest stall and the cycle's age together, and the
  re-HEAD before the delete cannot find it older than the grace.
- `AttemptOK`: what a writer has refreshed is as young as its stall and condemned by
  nobody, so that the manifest it lands names only packs that are there. What it
  reuses belongs to the head, or the writer has already lost.
- `ListingOK`: a collector reads markers and manifests one after the other. A manifest
  that it has kept is swept under it only with a winner that it has kept as well,
  which it notices when it resolves them.
- `ManifestsOK`, `CondemnedOK`, `CountersOK`: a retained generation has its winner,
  condemned packs exist only while deleting, a cycle's clock is at most its age.

The other half of `DeletesAreSafe`, that every deleted pack is older than the grace at
that moment, is true of one collector (`DeletesSafeUnderLease`, with `CondemnedAreOld`)
and not of two that overlap: both may condemn a pack, one deletes it, a writer creates it
anew, and the other deletes the young one. The pack is not lost to anybody: the writer
refreshes and verifies before its manifest.

`MaintenanceProofs` proves, for any files, writers, runners and times under
`MaintenanceAssumption` (a transaction stages for at most `MaxStage`, and that and the
skew of the clocks fit into the physical delay), that `MaintenanceInv` is inductive,
and from it `NeededFilesPresent` and `DeletedLongAfterUse`. Its parts:

- `HeadOK`: the files the head can reach are in the bucket, its schedule is later than
  their last use, and a file that was ever in use is deleted before the head forgets it.
- `StagedOK`: a staged file is one writer's, younger than `MaxStage`, and in no catalog.
- `BasesOK`: a generation that somebody works on is older than the head or is the head,
  so that whoever wins the compare-and-swap worked on the head.
- `PassesOK`: a pass forgets only files that are gone, and what the head has come to know
  since the pass began is too young to be taken for an orphan.
- `DoomedOK`: what a CALL has yet to delete is reachable from no head, staged by nobody
  and was last used long ago, whether or not the pass commits in the end.
  A replayed pass is a pass that begins on another head (`RunCallsKeeps`).
- `PlacesOK`, `CatalogsOK`: types, and a file is in one place of a catalog.

`BootstrapProofs` proves, for any processes, racers, retries and attempts, on stores of
both kinds, that `BootInv` is inductive, and from it `OneGenesis`, `GenesisIsReadable`
and the action property `GateIsSound`. `CountedProbe` relates a round's answers to the PUTs
that took effect, `AtomicProbe` says that an atomic store lets one do so, `PayloadFirst`
that whoever can still create the marker has its payload in the store, and `KnownMarker`
that a process which knows the marker knows the one there is.

`TransportProofs` proves, for any payloads, chunk sizes, entry caps, pack targets,
thresholds, windows and chains of generations under `TransportAssumption` (sizes are
numbers, and chunk size, cap, target and window are not zero), that `TransportInv` is
inductive, and from it every property that `transport` checks. `TransportInv` says what
`build_manifest` leaves behind: entries whose chunks are the payload cut at the chunk
size (`Cut`), each lying at its offset in a pack no larger than the target
(`ManifestOK`), and a store that has these packs, unless one is damaged and a GET of it
raises (`StoreOK`).

The work is in the loops. A loop is a function that is CHOSEN, so each has a lemma that
it is what its equation says (`DoublingLoop`, `BuildingLoop`, `StartsLoop`,
`WritingLoop`, `ReadingLoop`), by an induction over its turns that is made with sets of
turns (`Turnwise`, from the least-number principle). Then each has an invariant:

- `BuiltOK` of `build_manifest`: every entry so far holds its chunk, in a pack that is
  written or in the one that is pending. `FlushKeeps` gives the placeholders their pack,
  `ChunkSizeFits` says that doubling ends below the cap.
- `Progress` of `write_windows`: each turn writes an entry or ends a window, and an
  entry whose pack is first used in this window is not skipped; so `Turns` are enough
  (`WritingEnds`). `WrittenOK`: what has been written is the payload up to the next
  entry, or some pack was bad. `EntriesTile` says that the entries tile the payload.
- `Counted`: GETs are paid for by the first uses of the windows that ended, and by runs
  that come back to a pack; those are different runs (`RunsAre`), hence one GET per run.
- `ReadState` of `read_range`: what has been read has the right length and is right in
  all chunks it covers, and is the slice of the payload if the packs are intact. A
  run of contiguous entries lies in its pack as it lies in the payload (`RunLies`).

The inductive invariants (`CommitInv`, `SweepInv`, `SearchInv`, `CostInv`, `LeaseInv`,
`PackInv`, `MaintenanceInv`, `BootInv`, `TransportInv`) are defined beside their proofs
and hold of every instance by proof, so no run repeats them.

Every safety property and every action property that a passing run checks is stated by
a theorem, and so are both refinements. Model-checked only: liveness (`TransactionsEnd`,
`SearchEnds`, `MaintenanceResumes`, `ColdPacksReclaimed`, `BootstrapEnds`), which TLAPS
cannot prove.

## Findings

- `hint_read`. `root.py:111` says that "a transient transport failure" of the
  hint read degrades to None and that "a hint read must never be able to fail
  head resolution". `_hint_generation` catches `ObjectNotFoundError` and
  `ExternalServiceError`, but `S3ObjectStore.get` (`objectstore.py:152`) converts
  only `ClientError`: a `BotoCoreError` (connect or read timeout, closed
  connection) passes through both and fails `resolve_head`.
- `pack_race`. The docstring of `verify_packs` (`chunk.py:329`) accepts one window:
  a refresh between the collector's HEAD and DELETE loses "while the writer had
  ALSO already stalled a full grace AND its packs sat tombstoned a full prior
  cycle", in short "(stall > 2x grace) and (ms-race)". Packs are named by content,
  so a writer that has not stalled at all may produce a pack that has been cold and
  tombstoned for long: a payload returns to earlier bytes. If its refresh falls
  into the gap, the manifest commits without the pack. The stall is not needed,
  the race is.
- `bootstrap_retry`. `make_s3_client` says "transport retries DISABLED" and passes
  `retries={"max_attempts": 1}` (`objectstore.py:51`). botocore counts that as retries
  after the first request; 0, or `total_max_attempts` 1, would disable them. With one
  repetition a PUT that took effect may answer 412. In the probe round a store that
  is not atomic lets two PUTs take effect, one of them is repeated and counts as
  lost, and one winner is left: the store is certified. On an atomic store the same
  gives no winner and a refusal of a good store. Elsewhere it is harmless: a marker
  that answers 412 is resolved by a GET, a renewal that answers 412 gives the lease
  up, a payload upload that answers 412 raises.

Smaller things the modelling brought up, without a run:

- `commit.py:196` says of `NotLanded` that "the upload definitively did not land". It
  rests on one GET, and a PUT that timed out may be applied after it; the late
  object is then an orphan. `CommitProtocol` includes this, and no commit suffers.
- `gc.py:735` promises a reader pin "min(catalog retention window, expire_older_than +
  physical_delete_delay)". Snapshots expire by the time of their creation, so the
  newest snapshot of a quiet lake may be expired as soon as it is replaced, and its
  files go one `physical_delete_delay` later. What holds is `DeletedLongAfterUse`.
- `gc.py:743` says "a lost CAS race aborts cleanly (maintenance CALLs are
  state-dependent — never replayed)", and a test calls the classification of a CALL
  "load-bearing" for that (`tests/test_recorder.py:115`). A CALL is state-dependent DML
  (`recorder.py:157`), which is replayed when the lake's policy is replay_all
  (`rebase.py:51`): the pass runs its CALLs, deletions included, on a head that it has
  not probed, with the cut-offs of its start and no further renewal of the lease
  (`ReplayPass`). No file is lost by it: `NeededFilesPresent` and
  `DeletedLongAfterUse` are checked and proved with such replays, which are like a
  second pass that was started at the same moment.
- `gc.py:783` compares the runner's clock with the store's timestamps, unlike the
  lease and the pack sweep: the delay has to cover the skew
  (`MaintenanceAssumption`).
- `acquire` does not catch `ConditionalConflictError` of its create-only PUT
  (`lease.py:141`), which therefore ends the run instead of counting as held.
- The circuit breaker (`gc.py:473`) refuses before the ledger is written, so that a
  lake of which more than 40 per cent goes cold at once is not collected until new
  packs dilute the share.
- A collector that stalls longer than the grace between its listing and its deletes
  can delete a pack that was reused meanwhile by reference, since only a refresh
  makes a pack young. The lease is renewed every 50 deletes and its ttl is far
  below the grace, which is why the module assumes it does not happen.

## Not modelled, and the plan

What could come next: the sharpening of the hypotheses of `PackProofs`, by saying which
packs a cycle longer than the grace can still lose; and a lake whose payloads are
`Transport`'s, so that the chunked commit is one state space.

Not modelled: the composition of a chunked commit with all of `CommitProtocol` in one
state space (each half is checked beside its collector; a marker that is
resolved late is the same protocol on both transports); collectors that overlap in
a run of `PackGC` (the module allows them and the proofs cover them, an instance
exceeds a run);
the If-Match race of `probe_capabilities` and `verify_conditional_writes`, which only
word a diagnostic or are not called by the protocol.

Left out for good: SQL text classification (`recorder.py`, string processing over
DuckDB's grammar), the DuckDB engine wrapper, configuration, logging and error
classes, the path handling, listings and caches of the fsspec file system, and the
in-memory store of the tests, none of which holds protocol state.
