----------------------------- MODULE Transport -----------------------------
(***************************************************************************)
(* The chunked transport as functions, under a chain of generations: a     *)
(* payload is cut into chunks at fixed offsets, those the base generation  *)
(* has are taken from its packs, the others are grouped into new packs.    *)
(* Reading it back goes two ways, reconstruct for the whole payload and    *)
(* the ranged reader of fsspec_fs.py for any part of it.  Packs may be     *)
(* damaged or missing when they are read.                                  *)
(*                                                                         *)
(* A byte is a small number.  A hash is what it hashes: sha256 is taken    *)
(* to be free of collisions, so the key of a pack is its content, and the  *)
(* hash of a chunk is the chunk.                                           *)
(***************************************************************************)
EXTENDS Integers, SequencesExt

CONSTANTS
    Bytes,              \* the values of a byte
    MaxSize,            \* size of the largest payload tried
    MaxGeneration,      \* the last generation tried
    DefaultChunkSize,   \* DEFAULT_CHUNK_SIZE
    MaxEntries,         \* MAX_ENTRIES
    PackTarget,         \* pack_target
    Threshold,          \* chunk_threshold: smaller payloads are stored whole
    WindowPacks         \* RECONSTRUCT_WINDOW_PACKS

ASSUME TransportAssumption ==
    /\ {MaxSize, MaxGeneration, Threshold} \subseteq Nat
    /\ {DefaultChunkSize, MaxEntries, PackTarget, WindowPacks} \subseteq Nat \ {0}

VARIABLES
    generation,         \* of the head
    data,               \* what the head's payload is
    manifest,           \* its manifest, or Whole
    store,              \* pack key -> the bytes a GET of it returns
    damaged             \* has a pack been lost or altered?

vars == <<generation, data, manifest, store, damaged>>

Payloads == BoundedSeq(Bytes, MaxSize)

\* d[from:to]
Slice(d, from, to) == SubSeq(d, from + 1, IF to < Len(d) THEN to ELSE Len(d))

\* A payload that is stored as it is, in one object.
Whole == [size |-> 0, entries |-> << >>]

IsChunked(m) == m.size # 0

---------------------------------------------------------------------------
(* build_manifest *)

\* (Mutant: the entry cap is missed by one.)
FitsLoosely(total, size) == total <= size * (MaxEntries + 1)

Fits(total, size) == total <= size * MaxEntries

\* choose_chunk_size: the base's chunk size, doubled until the entries are few
\* enough.  The payload's size is more than enough doublings.
Doubled(total, size) == IF Fits(total, size) THEN size ELSE 2 * size

Doubling(total, first) ==
    LET size[k \in 0 .. total] == IF k = 0 THEN first ELSE Doubled(total, size[k - 1])
    IN size

ChooseChunkSize(total, base) ==
    Doubling(total, IF IsChunked(base) THEN base.size ELSE DefaultChunkSize)[total]

Chunks(d, size) ==
    [i \in 1 .. (Len(d) + size - 1) \div size |-> Slice(d, (i - 1) * size, i * size)]

\* (Mutant: the offset is advanced before it is stored.)
OffsetBehind(b, chunk) == Len(b.pending) + Len(chunk)

OffsetInPack(b, chunk) == Len(b.pending)

\* flush_pack: the chunks that wait become a pack, and their placeholder
\* entries are given its key.
FlushPack(b) ==
    IF b.pending = << >> THEN b
    ELSE [packs |-> b.packs \cup {b.pending},
          pending |-> << >>,
          entries |-> [i \in DOMAIN b.entries |->
                          IF b.entries[i].pack = << >>
                          THEN [b.entries[i] EXCEPT !.pack = b.pending]
                          ELSE b.entries[i]]]

\* A chunk the base does not have waits for a pack, after a flush when it would
\* make the pack too large.
AddNovel(b, chunk) ==
    LET full == Len(b.pending) + Len(chunk) > PackTarget
        room == IF full THEN FlushPack(b) ELSE b
    IN [room EXCEPT !.pending = @ \o chunk,
                    !.entries = Append(@, [chunk |-> chunk, pack |-> << >>,
                                           offset |-> OffsetInPack(room, chunk)])]

\* (Mutant: a short last chunk is never found.)
FullChunksOnly(base, size, chunk) ==
    {i \in DOMAIN base.entries :
        base.size = size /\ base.entries[i].chunk = chunk /\ Len(chunk) = size}

\* base.chunk_index(): of equal chunks, the last; nothing of a base that was cut
\* at other offsets.
Reusable(base, size, chunk) ==
    {i \in DOMAIN base.entries : base.size = size /\ base.entries[i].chunk = chunk}

AddChunk(base, size, b, chunk) ==
    LET found == Reusable(base, size, chunk)
    IN IF found = {} THEN AddNovel(b, chunk)
       ELSE [b EXCEPT !.entries = Append(@, base.entries[Max(found)])]

\* What has been built after each of the chunks.
Building(chunks, base, size) ==
    LET built[i \in 0 .. Len(chunks)] ==
            IF i = 0 THEN [entries |-> << >>, packs |-> {}, pending |-> << >>]
            ELSE AddChunk(base, size, built[i - 1], chunks[i])
    IN built

BuildManifest(d, base) ==
    LET size == ChooseChunkSize(Len(d), base)
        chunks == Chunks(d, size)
        built == FlushPack(Building(chunks, base, size)[Len(chunks)])
    IN [manifest |-> [size |-> size, entries |-> built.entries], packs |-> built.packs]

---------------------------------------------------------------------------
(* Reading.  A read returns bytes or raises. *)

Raise == [ok |-> FALSE, bytes |-> << >>]
Return(b) == [ok |-> TRUE, bytes |-> b]
Then(r, s) == IF r.ok /\ s.ok THEN Return(r.bytes \o s.bytes) ELSE Raise

Length(entry) == Len(entry.chunk)
PackKeys(m) == {m.entries[i].pack : i \in DOMAIN m.entries}

\* A GET of a whole pack, checked against its key.
FetchPack(key) == IF key \in DOMAIN store /\ store[key] = key THEN Return(key) ELSE Raise

\* reconstruct orders the packs by their first use; position counts from 0.
FirstUses(m) ==
    {i \in DOMAIN m.entries : \A j \in 1 .. i - 1 : m.entries[j].pack # m.entries[i].pack}

FirstUse(m, i) == CHOOSE j \in FirstUses(m) : m.entries[j].pack = m.entries[i].pack

PositionOf(m, i) == Cardinality({j \in FirstUses(m) : j < FirstUse(m, i)})

WindowOf(m, i) == PositionOf(m, i) \div WindowPacks + 1
Windows(m) == (Cardinality(FirstUses(m)) + WindowPacks - 1) \div WindowPacks
PacksIn(m, w) == {i \in FirstUses(m) : WindowOf(m, i) = w}

\* (Mutant: the memo of one back-referenced pack is left out.)
AlwaysFetched(entry, backRef) == TRUE

NotMemoised(entry, backRef) == backRef # entry.pack

\* One turn of write_windows' loops.  Entries are written in order: one whose pack
\* is in a later window, or in none, ends the window, whose GETs are counted then;
\* a pack of an earlier window is fetched again, unless it was the last such.
Turn(m, s) ==
    IF s.window > Windows(m) THEN s
    ELSE IF s.next > Len(m.entries) \/ WindowOf(m, s.next) > s.window
    THEN [s EXCEPT !.window = @ + 1, !.gets = @ + Cardinality(PacksIn(m, s.window))]
    ELSE LET e == m.entries[s.next]
             late == WindowOf(m, s.next) < s.window
             body == FetchPack(e.pack)
             piece == Slice(body.bytes, e.offset, e.offset + Length(e))
         IN [window |-> s.window,
             next |-> s.next + 1,
             backRef |-> IF late THEN e.pack ELSE s.backRef,
             read |-> IF body.ok /\ Len(piece) = Length(e)
                      THEN Then(s.read, Return(piece)) ELSE Raise,
             gets |-> s.gets + IF late /\ NotMemoised(e, s.backRef) THEN 1 ELSE 0]

\* Every turn writes an entry or ends a window.
Turns(m) == Windows(m) + Len(m.entries)

Writing(m) ==
    LET turn[t \in 0 .. Turns(m)] ==
            IF t = 0 THEN [window |-> 1, next |-> 1, backRef |-> << >>,
                           read |-> Return(<< >>), gets |-> 0]
            ELSE Turn(m, turn[t - 1])
    IN turn

WriteWindows(m) == Writing(m)[Turns(m)]

\* The assembled file is checked against file_sha256.
Reconstruct(m, d) ==
    LET r == WriteWindows(m).read IN IF r.ok /\ r.bytes = d THEN r ELSE Raise

StartsOf(m) ==
    LET starts[i \in 1 .. Len(m.entries)] ==
            IF i = 1 THEN 0 ELSE starts[i - 1] + Length(m.entries[i - 1])
    IN starts

\* A ranged GET: what lies past the end of the object is not returned.
GetRange(key, from, length) ==
    IF key \in DOMAIN store THEN Return(Slice(store[key], from, from + length)) ELSE Raise

\* (Mutants: entries that follow each other in the file are taken to follow each
\* other in their pack; the last chunk of a slice is not verified.)
SamePack(m, k) == m.entries[k].pack = m.entries[k - 1].pack
CoveredInside(from, to, cStart, cEnd) == cStart >= from /\ cEnd < to

Contiguous(m, k) ==
    /\ m.entries[k].pack = m.entries[k - 1].pack
    /\ m.entries[k].offset = m.entries[k - 1].offset + Length(m.entries[k - 1])

Covered(from, to, cStart, cEnd) == cStart >= from /\ cEnd <= to

FullLength(got, length) == got.ok /\ Len(got.bytes) = length

EndOf(m, i) == StartsOf(m)[i] + Length(m.entries[i])

\* The last of the entries that lie contiguously in the pack of entry i.
RunEnd(m, i, end) ==
    Max({j \in i .. Len(m.entries) :
            \A k \in i + 1 .. j : StartsOf(m)[k] < end /\ Contiguous(m, k)})

\* _verify_covered_chunks
Verified(m, i, j, from, to, got) ==
    \A k \in i .. j :
        Covered(from, to, StartsOf(m)[k], EndOf(m, k)) =>
            Slice(got, StartsOf(m)[k] - from, EndOf(m, k) - from) = m.entries[k].chunk

\* One turn of _ChunkedReader.read_range: a run of entries is one ranged GET,
\* clipped to the range; the chunks it covers entirely are verified.
ReadRun(m, start, end, s) ==
    IF s.next > Len(m.entries) \/ StartsOf(m)[s.next] >= end THEN s
    ELSE LET i == s.next
             j == RunEnd(m, i, end)
             first == StartsOf(m)[i]
             from == IF first < start THEN start ELSE first
             to == IF EndOf(m, j) < end THEN EndOf(m, j) ELSE end
             got == GetRange(m.entries[i].pack, m.entries[i].offset + (from - first),
                             to - from)
         IN [next |-> j + 1,
             read |-> IF FullLength(got, to - from) /\ Verified(m, i, j, from, to, got.bytes)
                      THEN Then(s.read, got) ELSE Raise]

\* bisect: the entry that holds the first byte.
EntryAt(m, start) == Max({i \in DOMAIN m.entries : StartsOf(m)[i] <= start})

Reading(m, start, end) ==
    LET turn[t \in 0 .. Len(m.entries)] ==
            IF t = 0 THEN [next |-> EntryAt(m, start), read |-> Return(<< >>)]
            ELSE ReadRun(m, start, end, turn[t - 1])
    IN turn

ReadRange(m, total, start, length) ==
    LET end == IF start + length < total THEN start + length ELSE total
    IN IF length <= 0 \/ start >= total THEN Return(<< >>)
       ELSE Reading(m, start, end)[Len(m.entries)].read

\* GenerationFileSystem.cat_file: negative positions count from the end.
FromStart(size, start) ==
    IF start >= 0 THEN start ELSE IF size + start > 0 THEN size + start ELSE 0

CatFile(start, end) ==
    LET size == Len(data)
        s == FromStart(size, start)
        e == IF end >= 0 THEN end ELSE size + end
    IN IF IsChunked(manifest) THEN ReadRange(manifest, size, s, e - s)
       ELSE Return(IF e <= s THEN << >> ELSE Slice(data, s, e))

---------------------------------------------------------------------------
(* Generations *)

Upload(packs) ==
    store' = [p \in DOMAIN store \cup packs |-> p]

\* A commit: the payload is chunked unless it is small, against the manifest of
\* the head it is built on.
Publish(d) ==
    /\ data' = d
    /\ IF Len(d) >= Threshold
       THEN LET built == BuildManifest(d, manifest)
            IN manifest' = built.manifest /\ Upload(built.packs)
       ELSE manifest' = Whole /\ UNCHANGED store

\* bootstrap stores generation 0 whole, whatever its size.
Init ==
    /\ generation = 0
    /\ data = << >>
    /\ manifest = Whole
    /\ store = << >>
    /\ damaged = FALSE

Commit ==
    /\ ~damaged
    /\ generation < MaxGeneration
    /\ generation' = generation + 1
    /\ \E d \in Payloads : Publish(d)
    /\ UNCHANGED damaged

\* The pack sweep, with the head as the only retained generation.
SweepPacks ==
    /\ ~damaged
    /\ PackKeys(manifest) # DOMAIN store
    /\ store' = [p \in PackKeys(manifest) |-> store[p]]
    /\ UNCHANGED <<generation, data, manifest, damaged>>

Damaged(p) ==
    {Front(p)} \cup {[p EXCEPT ![i] = b] : i \in DOMAIN p, b \in Bytes}

\* A pack of the head is lost, cut short or altered; what follows are reads, and
\* they read the head's packs.
Damage ==
    /\ ~damaged
    /\ damaged' = TRUE
    /\ \E p \in PackKeys(manifest) :
          \/ store' = [q \in PackKeys(manifest) \ {p} |-> q]
          \/ \E body \in Damaged(p) \ {p} :
                store' = [q \in PackKeys(manifest) |-> IF q = p THEN body ELSE q]
    /\ UNCHANGED <<generation, data, manifest>>

Next == Commit \/ SweepPacks \/ Damage

Spec == Init /\ [][Next]_vars

---------------------------------------------------------------------------
(* Properties *)

\* A manifest tiles the payload, has no more entries than the cap, and no pack is
\* larger than the target unless one chunk is.
TransportTypeOK ==
    /\ generation \in 0 .. MaxGeneration
    /\ data \in Payloads
    /\ IsChunked(manifest) =>
          /\ FlattenSeq([i \in DOMAIN manifest.entries |-> manifest.entries[i].chunk]) = data
          /\ Len(manifest.entries) <= MaxEntries
          /\ \A p \in PackKeys(manifest) :
                Len(p) <= IF PackTarget < manifest.size THEN manifest.size ELSE PackTarget

\* Reconstruct inverts build_manifest, over any chain of dedup sources, windows and
\* back-references, and with the head's packs alone; and it raises when one of
\* them is not what it was.
ReconstructIsExact ==
    IsChunked(manifest) =>
        Reconstruct(manifest, data) = IF damaged THEN Raise ELSE Return(data)

Positions == -(MaxSize + 1) .. MaxSize + 1

PythonSlice(d, start, end) ==
    LET clamp(x) == IF x >= 0 THEN x ELSE IF Len(d) + x > 0 THEN Len(d) + x ELSE 0
    IN IF clamp(end) <= clamp(start) THEN << >> ELSE Slice(d, clamp(start), clamp(end))

\* A selective read returns the bytes that the slice of the payload has.
ReadsAreExact ==
    ~damaged => \A start, end \in Positions :
                    CatFile(start, end) = Return(PythonSlice(data, start, end))

\* Over damaged packs a selective read raises, or it has the right length and the
\* right bytes in every chunk that it covers; only chunks that are read in part
\* cannot be checked.
DamageIsNoticed ==
    IsChunked(manifest) => \A start, end \in 0 .. Len(data) :
        LET r == CatFile(start, end)
            right == PythonSlice(data, start, end)
        IN r.ok => /\ Len(r.bytes) = Len(right)
                   /\ \A i \in DOMAIN manifest.entries :
                         LET from == StartsOf(manifest)[i]
                             to == from + Length(manifest.entries[i])
                         IN start <= from /\ to <= end =>
                                Slice(r.bytes, from - start, to - start)
                                    = Slice(right, from - start, to - start)

\* reconstruct GETs a pack once for every run of entries that use it, however
\* small its window of packs is.
OneGetPerRun ==
    LET runs == {i \in DOMAIN manifest.entries :
                    i = 1 \/ manifest.entries[i].pack # manifest.entries[i - 1].pack}
    IN WriteWindows(manifest).gets <= Cardinality(runs)

\* A generation with the payload of its base uploads nothing: the base pins the
\* chunk size, and all its chunks are found.
UnchangedIsFree ==
    [][generation' > generation /\ data' = data /\ IsChunked(manifest)
        => store' = store]_vars
===========================================================================
