-------------------------- MODULE TransportProofs --------------------------
(***************************************************************************)
(* Proofs about Transport, for any payloads, chunk and pack sizes, entry   *)
(* caps, windows and chains of generations.  TransportInv is inductive.    *)
(* The loops of build_manifest, reconstruct and read_range are unfolded    *)
(* turn by turn, each with an invariant of its own (BuiltOK, WrittenOK,    *)
(* Counted, ReadState); the properties are read off their last turns.      *)
(***************************************************************************)
EXTENDS Transport, TLAPS, SequenceTheorems, FiniteSetTheorems, WellFoundedInduction

---------------------------------------------------------------------------
(* Induction, numbers and slices *)

\* The least-number principle.
LEMMA Least ==
    ASSUME NEW T, T \subseteq Nat, T # {}
    PROVE  \E n \in T : \A m \in Nat : m < n => m \notin T
<1>1. PICK n \in T : \A m \in T : <<m, n>> \notin OpToRel(<, Nat)
  BY NatLessThanWellFounded, WFMin
<1>2. \A m \in Nat : m < n => <<m, n>> \in OpToRel(<, Nat)
  BY DEF OpToRel
<1> QED
  BY <1>1, <1>2

\* Induction over the turns of a loop, for a set of turns in place of a predicate.
LEMMA Turnwise ==
    ASSUME NEW n \in Nat, NEW P, 0 \in P, \A k \in 0 .. n : k # n /\ k \in P => k + 1 \in P
    PROVE  \A k \in 0 .. n : k \in P
<1> DEFINE T == {k \in 0 .. n : k \notin P}
<1> SUFFICES ASSUME T # {} PROVE FALSE
  OBVIOUS
<1>0. T \subseteq Nat
  OBVIOUS
<1>1. PICK k \in T : \A m \in Nat : m < k => m \notin T
  <2> HIDE DEF T
  <2> QED
    BY <1>0, Least
<1>2. k \in 0 .. n /\ k \notin P /\ k # 0
  OBVIOUS
<1>3. k - 1 \in 0 .. n /\ k - 1 # n /\ k - 1 \in Nat /\ k - 1 < k /\ (k - 1) + 1 = k
  BY <1>2
<1>4. k - 1 \in P
  BY <1>1, <1>3
<1> QED
  BY <1>2, <1>3, <1>4

\* The quotient of a division.
LEMMA Division ==
    ASSUME NEW a \in Nat, NEW b \in Nat \ {0}
    PROVE  a \div b \in Nat /\ (a \div b) * b <= a /\ a < (a \div b) * b + b
<1> DEFINE q == a \div b
<1>1. q \in Int /\ b * q <= a /\ a < b * (q + 1)
  OBVIOUS
<1> QED
  BY <1>1

\* A set of numbers up to n that is not empty has a greatest element.
LEMMA MaxIsGreatest ==
    ASSUME NEW n \in Nat, NEW T, T \subseteq 0 .. n, T # {}
    PROVE  Max(T) \in T /\ \A y \in T : Max(T) >= y
<1> DEFINE D == {n - y : y \in T}
<1>ints. \A y \in T : y \in Int /\ n - y \in Nat
  OBVIOUS
<1>0. D \subseteq Nat /\ D # {}
  BY <1>ints
<1>1. PICK z \in D : \A m \in Nat : m < z => m \notin D
  <2> HIDE DEF D
  <2> QED
    BY <1>0, Least
<1>2. PICK x \in T : z = n - x
  OBVIOUS
<1>3. ASSUME NEW y \in T PROVE x >= y
  <2>1. n - y \in D /\ n - y \in Nat /\ x \in Int /\ y \in Int
    BY <1>ints
  <2>2. ~(n - y < z)
    BY <1>1, <2>1
  <2> QED
    BY <1>2, <2>1, <2>2
<1> QED
  BY <1>3 DEF Max

\* What a slice within a sequence is.
LEMMA SliceIs ==
    ASSUME NEW d \in Seq(Bytes), NEW from \in Nat, NEW to \in Nat, from <= to, to <= Len(d)
    PROVE  /\ Slice(d, from, to) \in Seq(Bytes)
           /\ Len(Slice(d, from, to)) = to - from
           /\ \A x \in 1 .. to - from : Slice(d, from, to)[x] = d[from + x]
<1>1. Len(d) \in Nat
  BY LenProperties
<1>2. Slice(d, from, to) = SubSeq(d, from + 1, to)
  <2>1. (IF to < Len(d) THEN to ELSE Len(d)) = to
    BY <1>1
  <2> QED
    BY <2>1 DEF Slice
<1>3. \A i \in from + 1 .. to : d[i] \in Bytes
  BY <1>1, ElementOfSeq
<1>4. from + 1 \in Int /\ to \in Int
  OBVIOUS
<1>5. /\ SubSeq(d, from + 1, to) \in Seq(Bytes)
      /\ Len(SubSeq(d, from + 1, to)) = IF from + 1 <= to THEN to - (from + 1) + 1 ELSE 0
      /\ \A i \in 1 .. to - (from + 1) + 1 : SubSeq(d, from + 1, to)[i] = d[(from + 1) + i - 1]
  BY <1>3, <1>4, SubSeqProperties
<1> QED
  BY <1>2, <1>5

\* Any slice of bytes is bytes.
LEMMA SliceIsBytes ==
    ASSUME NEW d \in Seq(Bytes), NEW from \in Nat, NEW to \in Nat
    PROVE  Slice(d, from, to) \in Seq(Bytes)
<1>1. Len(d) \in Nat
  BY LenProperties
<1> DEFINE last == IF to < Len(d) THEN to ELSE Len(d)
<1>2. from + 1 \in Int /\ last \in Int
  BY <1>1
<1>3. \A i \in from + 1 .. last : d[i] \in Bytes
  <2>1. \A i \in from + 1 .. last : i \in 1 .. Len(d)
    BY <1>1
  <2> QED
    BY <2>1, ElementOfSeq
<1> HIDE DEF last
<1>4. SubSeq(d, from + 1, last) \in Seq(Bytes)
  BY <1>2, <1>3, SubSeqProperties
<1> QED
  BY <1>4 DEF Slice, last

\* Two pieces written one after the other.
LEMMA ThenIs ==
    ASSUME NEW a \in Seq(Bytes), NEW b \in Seq(Bytes)
    PROVE  /\ Then(Return(a), Return(b)) = Return(a \o b)
           /\ a \o b \in Seq(Bytes)
           /\ Len(a \o b) = Len(a) + Len(b)
           /\ \A x \in 1 .. Len(a) : (a \o b)[x] = a[x]
           /\ \A x \in 1 .. Len(b) : (a \o b)[Len(a) + x] = b[x]
<1>1. Len(a) \in Nat /\ Len(b) \in Nat
  BY LenProperties
<1>2. Then(Return(a), Return(b)) = Return(a \o b)
  BY DEF Then, Return
<1>3. /\ a \o b \in Seq(Bytes)
      /\ Len(a \o b) = Len(a) + Len(b)
      /\ \A i \in 1 .. Len(a) + Len(b) : (a \o b)[i] = IF i <= Len(a) THEN a[i] ELSE b[i - Len(a)]
  BY ConcatProperties
<1> QED
  BY <1>1, <1>2, <1>3

---------------------------------------------------------------------------
(* choose_chunk_size *)

\* Doubling is the loop it describes.
LEMMA DoublingLoop ==
    ASSUME NEW total \in Nat, NEW first
    PROVE  LET size == Doubling(total, first)
           IN size = [k \in 0 .. total |->
                         IF k = 0 THEN first ELSE Doubled(total, size[k - 1])]
<1> DEFINE IsLoop(g, n) == g = [k \in 0 .. n |-> IF k = 0 THEN first ELSE Doubled(total, g[k - 1])]
           P == {n \in Nat : \E g : IsLoop(g, n)}
<1>1. IsLoop([k \in 0 .. 0 |-> first], 0)
  OBVIOUS
<1>2. ASSUME NEW n \in 0 .. total, n # total, n \in P PROVE n + 1 \in P
  <2>1. PICK g : IsLoop(g, n)
    BY <1>2
  <2> DEFINE h == [k \in 0 .. n + 1 |-> IF k = 0 THEN first ELSE Doubled(total, g[k - 1])]
  <2>2. \A k \in 0 .. n : h[k] = g[k]
    BY <2>1
  <2>3. \A k \in 0 .. n + 1 : k # 0 => k - 1 \in 0 .. n
    OBVIOUS
  <2>4. h = [k \in 0 .. n + 1 |-> IF k = 0 THEN first ELSE Doubled(total, h[k - 1])]
    BY <2>2, <2>3
  <2> HIDE DEF h
  <2> QED
    BY <2>4
<1>3. 0 \in P
  BY <1>1
<1>4. \A n \in 0 .. total : n # total /\ n \in P => n + 1 \in P
  BY <1>2
<1>5. total \in P
  <2> HIDE DEF P
  <2> QED
    BY <1>3, <1>4, Turnwise
<1> QED
  BY <1>5 DEF Doubling

\* Sizes grow under multiplication, and it can be cancelled.
LEMMA TimesGrows ==
    ASSUME NEW a \in Nat, NEW b \in Nat, NEW c \in Nat \ {0}
    PROVE  /\ a * c \in Nat /\ a <= a * c /\ a <= c * a
           /\ a < b => a * c + c <= b * c
           /\ a * c < b * c => a < b
<1>1. a * c \in Nat /\ a <= a * c /\ a <= c * a
  OBVIOUS
<1>2. a < b => a * c + c <= b * c
  OBVIOUS
<1>3. a >= b => a * c >= b * c
  OBVIOUS
<1>4. b * c \in Nat
  OBVIOUS
<1> QED
  BY <1>1, <1>2, <1>3, <1>4

\* choose_chunk_size ends with a size that fits, and keeps one that does.
LEMMA ChunkSizeFits ==
    ASSUME NEW total \in Nat, NEW first \in Nat \ {0}
    PROVE  LET size == Doubling(total, first)[total]
           IN /\ size \in Nat \ {0}
              /\ Fits(total, size)
              /\ Fits(total, first) => size = first
<1> DEFINE size == Doubling(total, first)
           Fine(k) == /\ size[k] \in Nat \ {0}
                      /\ Fits(total, size[k]) \/ size[k] >= k + 1
                      /\ Fits(total, first) => size[k] = first
           P == {k \in 0 .. total : Fine(k)}
<1>1. \A k \in 0 .. total : size[k] = IF k = 0 THEN first ELSE Doubled(total, size[k - 1])
  BY DoublingLoop
<1> HIDE DEF size
<1>2. 0 \in P
  BY <1>1
<1>3. ASSUME NEW k \in 0 .. total, k # total, k \in P PROVE k + 1 \in P
  <2>1. k + 1 \in 0 .. total /\ (k + 1) - 1 = k /\ k + 1 # 0
    BY <1>3
  <2>2. size[k + 1] = IF Fits(total, size[k]) THEN size[k] ELSE 2 * size[k]
    BY <1>1, <2>1 DEF Doubled
  <2>3. Fine(k)
    BY <1>3
  <2>4. CASE Fits(total, size[k])
    BY <2>1, <2>2, <2>3, <2>4
  <2>5. CASE ~Fits(total, size[k])
    <3>1. size[k + 1] = 2 * size[k] /\ size[k] \in Nat /\ size[k] >= k + 1 /\ k \in Nat
      BY <2>2, <2>3, <2>5
    <3>2. size[k + 1] \in Nat \ {0} /\ size[k + 1] >= (k + 1) + 1
      BY <3>1
    <3>3. ~Fits(total, first)
      BY <2>3, <2>5
    <3> QED
      BY <2>1, <3>2, <3>3
  <2> QED
    BY <2>4, <2>5
<1>4. total \in P
  <2> HIDE DEF P
  <2> QED
    BY <1>2, <1>3, Turnwise
<1>5. size[total] >= total + 1 => Fits(total, size[total])
  <2>1. MaxEntries \in Nat \ {0} /\ size[total] \in Nat
    BY <1>4, TransportAssumption
  <2>2. size[total] <= size[total] * MaxEntries /\ size[total] * MaxEntries \in Nat
    BY <2>1, TimesGrows
  <2> QED
    BY <2>1, <2>2 DEF Fits
<1> QED
  BY <1>4, <1>5 DEF size

---------------------------------------------------------------------------
(* The chunks of a payload *)

\* Where chunk i ends.
ChunkEnd(d, size, i) == IF i * size < Len(d) THEN i * size ELSE Len(d)

\* The chunks tile the payload, and none is empty or longer than the chunk size.
LEMMA ChunksAre ==
    ASSUME NEW d \in Seq(Bytes), NEW size \in Nat \ {0}
    PROVE  LET n == (Len(d) + size - 1) \div size
           IN /\ n \in Nat
              /\ DOMAIN Chunks(d, size) = 1 .. n
              /\ Chunks(d, size) \in Seq(Seq(Bytes))
              /\ Len(Chunks(d, size)) = n
              /\ n = 0 <=> Len(d) = 0
              /\ Fits(Len(d), size) => n <= MaxEntries
              /\ n # 0 => ChunkEnd(d, size, n) = Len(d)
              /\ \A i \in 1 .. n :
                    /\ (i - 1) * size \in Nat /\ ChunkEnd(d, size, i) \in Nat
                    /\ (i - 1) * size < ChunkEnd(d, size, i)
                    /\ ChunkEnd(d, size, i) <= Len(d)
                    /\ ChunkEnd(d, size, i) - (i - 1) * size <= size
                    /\ i # n => ChunkEnd(d, size, i) = i * size
                    /\ Chunks(d, size)[i] = Slice(d, (i - 1) * size, ChunkEnd(d, size, i))
<1> DEFINE n == (Len(d) + size - 1) \div size
           total == Len(d)
<1>1. total \in Nat /\ size \in Nat \ {0} /\ size \in Int /\ size >= 1
  BY LenProperties
<1>2. total + size - 1 \in Nat
  BY <1>1
<1>3. n \in Nat /\ n * size <= total + size - 1 /\ total + size - 1 < n * size + size
  BY <1>1, <1>2, Division
<1> HIDE DEF n
<1>4. n * size \in Nat
  BY <1>1, <1>3
<1>5. total <= n * size /\ n * size < total + size
  BY <1>1, <1>3, <1>4
<1>6. n = 0 <=> total = 0
  <2>1. n = 0 => n * size = 0
    BY <1>1
  <2>2. n # 0 => size <= n * size
    BY <1>1, <1>3, TimesGrows
  <2> QED
    BY <1>1, <1>3, <1>4, <1>5, <2>1, <2>2
<1>7. Fits(total, size) => n <= MaxEntries
  <2> SUFFICES ASSUME Fits(total, size), n > MaxEntries PROVE FALSE
    BY <1>3, TransportAssumption
  <2>1. MaxEntries \in Nat
    BY TransportAssumption
  <2>2. MaxEntries * size + size <= n * size /\ MaxEntries * size \in Nat
    BY <1>1, <1>3, <2>1, TimesGrows
  <2>3. size * MaxEntries = MaxEntries * size
    BY <1>1, <2>1
  <2>4. total <= size * MaxEntries
    BY DEF Fits
  <2> QED
    BY <1>1, <1>4, <1>5, <2>2, <2>3, <2>4
<1>8. n # 0 => ChunkEnd(d, size, n) = total
  <2>1. ~(n * size < total)
    BY <1>1, <1>4, <1>5
  <2> QED
    BY <2>1 DEF ChunkEnd
<1>9. ASSUME NEW i \in 1 .. n
      PROVE  /\ (i - 1) * size \in Nat /\ ChunkEnd(d, size, i) \in Nat
             /\ (i - 1) * size < ChunkEnd(d, size, i)
             /\ ChunkEnd(d, size, i) <= total
             /\ ChunkEnd(d, size, i) - (i - 1) * size <= size
             /\ i # n => ChunkEnd(d, size, i) = i * size
             /\ Slice(d, (i - 1) * size, i * size) = Slice(d, (i - 1) * size, ChunkEnd(d, size, i))
  <2>1. i \in Nat /\ i - 1 \in Nat /\ i - 1 < n /\ i <= n
    BY <1>3
  <2>2. /\ (i - 1) * size \in Nat /\ i * size \in Nat
        /\ i * size = (i - 1) * size + size
        /\ i # n => i < n
    BY <1>1, <1>3, <2>1
  <2>3. (i - 1) * size + size <= n * size /\ (i # n => i * size + size <= n * size)
    BY <1>1, <1>3, <2>1, <2>2, TimesGrows
  <2>4. (i - 1) * size < total
    BY <1>1, <1>4, <1>5, <2>2, <2>3
  <2>5. i # n => i * size < total
    BY <1>1, <1>4, <1>5, <2>2, <2>3
  <2>6. CASE i * size < total
    <3>1. ChunkEnd(d, size, i) = i * size
      BY <2>6 DEF ChunkEnd
    <3> QED
      BY <1>1, <2>2, <2>4, <2>6, <3>1
  <2>7. CASE ~(i * size < total)
    <3>1. ChunkEnd(d, size, i) = total /\ i = n
      BY <2>5, <2>7 DEF ChunkEnd
    <3>2. total - (i - 1) * size <= size
      BY <1>1, <2>2, <2>7
    <3>3. Slice(d, (i - 1) * size, i * size) = Slice(d, (i - 1) * size, total)
      <4>1. (IF i * size < Len(d) THEN i * size ELSE Len(d)) = Len(d)
        BY <2>7
      <4>2. (IF total < Len(d) THEN total ELSE Len(d)) = Len(d)
        OBVIOUS
      <4> QED
        BY <4>1, <4>2 DEF Slice
    <3> QED
      BY <1>1, <2>2, <2>4, <3>1, <3>2, <3>3
  <2> QED
    BY <2>6, <2>7
<1>10. ASSUME NEW i \in 1 .. n PROVE Slice(d, (i - 1) * size, i * size) \in Seq(Bytes)
  <2> DEFINE from == (i - 1) * size
             to == ChunkEnd(d, size, i)
  <2>1. from \in Nat /\ to \in Nat /\ from <= to /\ to <= Len(d)
    BY <1>9
  <2>2. Slice(d, from, to) \in Seq(Bytes)
    <3> HIDE DEF from, to
    <3> QED
      BY <2>1, SliceIs
  <2> QED
    BY <1>9, <2>2
<1> DEFINE cut == [i \in 1 .. n |-> Slice(d, (i - 1) * size, i * size)]
<1>11. Chunks(d, size) = cut
  BY DEF Chunks, n
<1>12. cut \in [1 .. n -> Seq(Bytes)]
  BY <1>10
<1>13. DOMAIN cut = 1 .. n /\ \A i \in 1 .. n : cut[i] = Slice(d, (i - 1) * size, i * size)
  OBVIOUS
<1>14. cut \in Seq(Seq(Bytes)) /\ Len(cut) = n
  <2> HIDE DEF cut
  <2>1. cut \in Seq(Seq(Bytes))
    BY <1>3, <1>12, SeqDef
  <2> QED
    BY <1>3, <1>13, <2>1, LenProperties
<1> HIDE DEF cut
<1> QED
  BY <1>3, <1>6, <1>7, <1>8, <1>9, <1>11, <1>13, <1>14 DEF n

---------------------------------------------------------------------------
(* build_manifest *)

\* Building is the loop it describes.
LEMMA BuildingLoop ==
    ASSUME NEW chunks, Len(chunks) \in Nat, NEW base, NEW size
    PROVE  LET built == Building(chunks, base, size)
           IN /\ built[0] = [entries |-> << >>, packs |-> {}, pending |-> << >>]
              /\ \A i \in 1 .. Len(chunks) :
                    built[i] = AddChunk(base, size, built[i - 1], chunks[i])
<1> DEFINE nothing == [entries |-> << >>, packs |-> {}, pending |-> << >>]
           total == Len(chunks)
           IsLoop(g, n) == g = [i \in 0 .. n |->
                                   IF i = 0 THEN nothing
                                   ELSE AddChunk(base, size, g[i - 1], chunks[i])]
           P == {n \in Nat : \E g : IsLoop(g, n)}
<1> HIDE DEF nothing
<1>1. IsLoop([i \in 0 .. 0 |-> nothing], 0)
  OBVIOUS
<1>2. ASSUME NEW n \in 0 .. total, n # total, n \in P PROVE n + 1 \in P
  <2>1. PICK g : IsLoop(g, n)
    BY <1>2
  <2> DEFINE h == [i \in 0 .. n + 1 |->
                      IF i = 0 THEN nothing ELSE AddChunk(base, size, g[i - 1], chunks[i])]
  <2>2. \A i \in 0 .. n : h[i] = g[i]
    BY <2>1
  <2>3. \A i \in 0 .. n + 1 : i # 0 => i - 1 \in 0 .. n
    OBVIOUS
  <2>4. h = [i \in 0 .. n + 1 |->
                IF i = 0 THEN nothing ELSE AddChunk(base, size, h[i - 1], chunks[i])]
    BY <2>2, <2>3
  <2> HIDE DEF h
  <2>5. n + 1 \in Nat /\ IsLoop(h, n + 1)
    BY <2>4
  <2> QED
    BY <2>5
<1>3. 0 \in P
  BY <1>1
<1>4. \A n \in 0 .. total : n # total /\ n \in P => n + 1 \in P
  BY <1>2
<1>5. total \in P
  <2>1. total \in Nat
    OBVIOUS
  <2> HIDE DEF P, total
  <2>2. \A n \in 0 .. total : n \in P
    BY <1>3, <1>4, <2>1, Turnwise
  <2> QED
    BY <2>1, <2>2
<1>6. Building(chunks, base, size) = CHOOSE g : IsLoop(g, total)
  BY DEF Building, nothing
<1>7. \E g : IsLoop(g, total)
  BY <1>5
<1>8. IsLoop(Building(chunks, base, size), total)
  <2> HIDE DEF IsLoop
  <2> QED
    BY <1>6, <1>7
<1> DEFINE built == Building(chunks, base, size)
<1>9. \A i \in 0 .. total : built[i] = IF i = 0 THEN nothing
                                       ELSE AddChunk(base, size, built[i - 1], chunks[i])
  <2> HIDE DEF built
  <2> QED
    BY <1>8 DEF built
<1> HIDE DEF built
<1>10. built[0] = nothing
  BY <1>9
<1>11. \A i \in 1 .. total : built[i] = AddChunk(base, size, built[i - 1], chunks[i])
  <2>1. \A i \in 1 .. total : i \in 0 .. total /\ i # 0
    OBVIOUS
  <2> QED
    BY <1>9, <2>1
<1> QED
  BY <1>10, <1>11 DEF nothing, built

\* The size that a pack may have.
Limit(size) == IF PackTarget < size THEN size ELSE PackTarget

\* What the parts of a manifest are, and of one that is being built.
Entries == [chunk : Seq(Bytes), pack : Seq(Bytes), offset : Nat]

\* An entry's chunk is where the entry says.
Lies(e, pack) ==
    /\ e.offset + Len(e.chunk) <= Len(pack)
    /\ \A x \in 1 .. Len(e.chunk) : pack[e.offset + x] = e.chunk[x]

\* An entry whose pack is known, and holds it.
Placed(e, size) == e.pack # << >> /\ Len(e.pack) <= Limit(size) /\ Lies(e, e.pack)

Builds == [entries : Seq(Entries), packs : SUBSET Seq(Bytes), pending : Seq(Bytes)]

\* What is true after every chunk: a placeholder lies in what waits, any other entry
\* in its pack, which is new or known to the base.
BuildOK(b, size, known) ==
    /\ b \in Builds
    /\ Len(b.pending) <= Limit(size)
    /\ \A i \in 1 .. Len(b.entries) :
          IF b.entries[i].pack = << >> THEN b.pending # << >> /\ Lies(b.entries[i], b.pending)
          ELSE Placed(b.entries[i], size) /\ b.entries[i].pack \in b.packs \cup known

\* Two builds have the same chunks.
SameChunks(b, c) ==
    /\ Len(c.entries) = Len(b.entries)
    /\ \A i \in 1 .. Len(b.entries) : c.entries[i].chunk = b.entries[i].chunk

\* flush_pack leaves no placeholder.
LEMMA FlushKeeps ==
    ASSUME NEW size \in Nat \ {0}, NEW known, NEW b, BuildOK(b, size, known)
    PROVE  /\ BuildOK(FlushPack(b), size, known)
           /\ FlushPack(b).pending = << >>
           /\ SameChunks(b, FlushPack(b))
           /\ \A i \in 1 .. Len(b.entries) : FlushPack(b).entries[i].pack # << >>
           /\ b.pending = << >> => FlushPack(b) = b
<1>1. CASE b.pending = << >>
  BY <1>1 DEF BuildOK, FlushPack, SameChunks
<1>2. CASE b.pending # << >>
  <2> DEFINE n == Len(b.entries)
             placed == [i \in 1 .. n |-> IF b.entries[i].pack = << >>
                                         THEN [b.entries[i] EXCEPT !.pack = b.pending]
                                         ELSE b.entries[i]]
  <2>1. /\ b \in Builds /\ b.entries \in Seq(Entries) /\ b.pending \in Seq(Bytes)
        /\ n \in Nat /\ DOMAIN b.entries = 1 .. n
        /\ \A i \in 1 .. n : b.entries[i] \in Entries
    <3>1. b \in Builds /\ b.entries \in Seq(Entries) /\ b.pending \in Seq(Bytes)
      BY DEF BuildOK, Builds
    <3> QED
      BY <3>1, LenProperties, ElementOfSeq
  <2>2. FlushPack(b) = [packs |-> b.packs \cup {b.pending}, pending |-> << >>, entries |-> placed]
    BY <1>2, <2>1 DEF FlushPack
  <2>3. \A i \in 1 .. n : /\ placed[i] \in Entries
                          /\ placed[i].chunk = b.entries[i].chunk
                          /\ placed[i].offset = b.entries[i].offset
                          /\ placed[i].pack = IF b.entries[i].pack = << >> THEN b.pending
                                              ELSE b.entries[i].pack
    BY <2>1 DEF Entries
  <2>4. placed \in Seq(Entries) /\ Len(placed) = n
    <3>1. placed \in [1 .. n -> Entries] /\ DOMAIN placed = 1 .. n
      BY <2>3
    <3> HIDE DEF placed
    <3>2. placed \in Seq(Entries)
      BY <2>1, <3>1, SeqDef
    <3> QED
      BY <2>1, <3>1, <3>2, LenProperties
  <2> HIDE DEF placed
  <2>5. << >> \in Seq(Bytes) /\ Len(<< >>) = 0
    BY EmptySeq
  <2>6. FlushPack(b) \in Builds
    <3>1. b.packs \in SUBSET Seq(Bytes)
      BY <2>1 DEF Builds
    <3> QED
      BY <2>1, <2>2, <2>4, <2>5, <3>1 DEF Builds
  <2>7. Len(FlushPack(b).pending) <= Limit(size)
    BY <2>2, <2>5, TransportAssumption DEF Limit
  <2>8. ASSUME NEW i \in 1 .. n
        PROVE  Placed(placed[i], size) /\ placed[i].pack \in FlushPack(b).packs \cup known
    <3>1. CASE b.entries[i].pack = << >>
      <4>1. placed[i].pack = b.pending /\ Lies(b.entries[i], b.pending)
        BY <2>3, <3>1 DEF BuildOK
      <4>2. Lies(placed[i], b.pending)
        BY <2>3, <4>1 DEF Lies
      <4> QED
        BY <1>2, <2>2, <4>1, <4>2 DEF Placed, BuildOK
    <3>2. CASE b.entries[i].pack # << >>
      <4>1. Placed(b.entries[i], size) /\ b.entries[i].pack \in b.packs \cup known
        BY <3>2 DEF BuildOK
      <4>2. Placed(placed[i], size)
        BY <2>3, <3>2, <4>1 DEF Placed, Lies
      <4> QED
        BY <2>2, <2>3, <3>2, <4>1, <4>2
    <3> QED
      BY <3>1, <3>2
  <2>9. \A i \in 1 .. n : placed[i].pack # << >>
    BY <2>8 DEF Placed
  <2>10. BuildOK(FlushPack(b), size, known)
    <3>1. FlushPack(b).entries = placed
      BY <2>2
    <3> QED
      BY <2>4, <2>6, <2>7, <2>8, <2>9, <3>1 DEF BuildOK
  <2> QED
    BY <1>2, <2>2, <2>3, <2>4, <2>9, <2>10 DEF SameChunks
<1> QED
  BY <1>1, <1>2

\* One more entry, with the given chunk.
OneMore(b, c, chunk) ==
    /\ Len(c.entries) = Len(b.entries) + 1
    /\ \A i \in 1 .. Len(b.entries) : c.entries[i].chunk = b.entries[i].chunk
    /\ c.entries[Len(c.entries)].chunk = chunk

\* An entry stays where it is when bytes are added behind.
LEMMA LiesLonger ==
    ASSUME NEW e \in Entries, NEW p \in Seq(Bytes), NEW q \in Seq(Bytes),
           Len(p) <= Len(q), \A x \in 1 .. Len(p) : q[x] = p[x], Lies(e, p)
    PROVE  Lies(e, q)
<1> DEFINE o == e.offset
           n == Len(e.chunk)
<1>1. o \in Nat /\ n \in Nat /\ Len(p) \in Nat /\ Len(q) \in Nat
  BY LenProperties DEF Entries
<1>2. o + n <= Len(p) /\ \A x \in 1 .. n : p[o + x] = e.chunk[x]
  BY DEF Lies
<1>3. o + n <= Len(q) /\ \A x \in 1 .. n : o + x \in 1 .. Len(p)
  <2> HIDE DEF o, n
  <2> QED
    BY <1>1, <1>2
<1>4. \A x \in 1 .. n : q[o + x] = e.chunk[x]
  BY <1>2, <1>3
<1> QED
  BY <1>3, <1>4 DEF Lies

\* A novel chunk waits at the end of what waits.
LEMMA AddNovelKeeps ==
    ASSUME NEW size \in Nat \ {0}, NEW known, NEW b, BuildOK(b, size, known),
           NEW chunk \in Seq(Bytes), chunk # << >>, Len(chunk) <= size
    PROVE  BuildOK(AddNovel(b, chunk), size, known) /\ OneMore(b, AddNovel(b, chunk), chunk)
<1> DEFINE full == Len(b.pending) + Len(chunk) > PackTarget
           room == IF full THEN FlushPack(b) ELSE b
           n == Len(room.entries)
           e == [chunk |-> chunk, pack |-> << >>, offset |-> Len(room.pending)]
           c == [room EXCEPT !.pending = @ \o chunk, !.entries = Append(@, e)]
<1>1. AddNovel(b, chunk) = c
  BY DEF AddNovel, OffsetInPack
<1>2. BuildOK(room, size, known) /\ SameChunks(b, room)
  <2>1. BuildOK(FlushPack(b), size, known) /\ SameChunks(b, FlushPack(b))
    BY FlushKeeps
  <2>2. SameChunks(b, b)
    BY DEF SameChunks
  <2> QED
    BY <2>1, <2>2
<1>3. full => room.pending = << >>
  BY FlushKeeps
<1>4. ~full => room = b
  OBVIOUS
<1>5. /\ PackTarget \in Nat /\ size \in Nat /\ Len(chunk) \in Nat
      /\ b.pending \in Seq(Bytes) /\ Len(b.pending) \in Nat
  BY TransportAssumption, LenProperties DEF BuildOK, Builds
<1>6. Limit(size) \in Nat /\ size <= Limit(size) /\ PackTarget <= Limit(size)
  BY <1>5 DEF Limit
<1>7. Len(room.pending) \in Nat /\ Len(room.pending) + Len(chunk) <= Limit(size)
  <2>1. CASE full
    <3>1. room.pending = << >> /\ Len(<< >>) = 0
      BY <2>1, <1>3, EmptySeq
    <3> HIDE DEF room
    <3> QED
      BY <1>5, <1>6, <3>1
  <2>2. CASE ~full
    <3>1. room.pending = b.pending
      BY <2>2
    <3>2. Len(b.pending) + Len(chunk) <= PackTarget
      BY <1>5, <2>2
    <3> HIDE DEF room
    <3> QED
      BY <1>5, <1>6, <3>1, <3>2
  <2> QED
    BY <2>1, <2>2
<1> HIDE DEF room, full
<1>8. /\ room \in Builds /\ room.pending \in Seq(Bytes) /\ room.entries \in Seq(Entries)
      /\ room.packs \in SUBSET Seq(Bytes) /\ n \in Nat
      /\ \A i \in 1 .. n : room.entries[i] \in Entries
  <2>1. room \in Builds /\ room.pending \in Seq(Bytes) /\ room.entries \in Seq(Entries)
        /\ room.packs \in SUBSET Seq(Bytes)
    BY <1>2 DEF BuildOK, Builds
  <2> QED
    BY <2>1, LenProperties, ElementOfSeq
<1>9. e \in Entries /\ e.chunk = chunk /\ e.pack = << >> /\ e.offset = Len(room.pending)
  BY <1>7, EmptySeq DEF Entries
<1> HIDE DEF e
<1>10. /\ c.pending = room.pending \o chunk
       /\ c.entries = Append(room.entries, e)
       /\ c.packs = room.packs
  BY <1>8 DEF Builds
<1>11. /\ room.pending \o chunk \in Seq(Bytes)
       /\ Len(room.pending \o chunk) = Len(room.pending) + Len(chunk)
       /\ \A x \in 1 .. Len(room.pending) : (room.pending \o chunk)[x] = room.pending[x]
       /\ \A x \in 1 .. Len(chunk) : (room.pending \o chunk)[Len(room.pending) + x] = chunk[x]
  BY <1>8, ThenIs
<1>12. /\ Append(room.entries, e) \in Seq(Entries)
       /\ Len(Append(room.entries, e)) = n + 1
       /\ \A i \in 1 .. n : Append(room.entries, e)[i] = room.entries[i]
       /\ Append(room.entries, e)[n + 1] = e
  BY <1>8, <1>9, AppendProperties
<1>13. c \in Builds
  BY <1>8, <1>10, <1>11, <1>12 DEF Builds
<1> HIDE DEF c
<1>14. Len(c.pending) <= Limit(size) /\ c.pending # << >>
  <2>1. Len(chunk) # 0 /\ Len(<< >>) = 0
    BY <1>5, EmptySeq
  <2> QED
    BY <1>5, <1>7, <1>10, <1>11, <2>1
<1>15. ASSUME NEW i \in 1 .. n, room.entries[i].pack = << >>
       PROVE  Lies(room.entries[i], c.pending)
  <2>1. Lies(room.entries[i], room.pending)
    BY <1>2, <1>15 DEF BuildOK
  <2>2. room.entries[i] \in Entries /\ Len(room.pending) <= Len(room.pending \o chunk)
    BY <1>5, <1>7, <1>8, <1>11
  <2>3. Lies(room.entries[i], room.pending \o chunk)
    BY <1>8, <1>11, <2>1, <2>2, LiesLonger
  <2> QED
    BY <1>10, <2>3
<1>16. Lies(e, c.pending)
  BY <1>5, <1>7, <1>9, <1>10, <1>11 DEF Lies
<1>17. ASSUME NEW i \in 1 .. n + 1
       PROVE  IF c.entries[i].pack = << >> THEN c.pending # << >> /\ Lies(c.entries[i], c.pending)
              ELSE Placed(c.entries[i], size) /\ c.entries[i].pack \in c.packs \cup known
  <2>1. CASE i = n + 1
    BY <2>1, <1>9, <1>10, <1>12, <1>14, <1>16
  <2>2. CASE i # n + 1
    <3>1. i \in 1 .. n
      BY <1>8, <2>2
    <3>2. c.entries[i] = room.entries[i]
      BY <1>10, <1>12, <3>1
    <3> QED
      BY <1>2, <1>10, <1>14, <1>15, <3>1, <3>2 DEF BuildOK
  <2> QED
    BY <2>1, <2>2
<1>18. BuildOK(c, size, known)
  BY <1>10, <1>12, <1>13, <1>14, <1>17 DEF BuildOK
<1>19. OneMore(b, c, chunk)
  <2>1. Len(c.entries) = n + 1 /\ c.entries[n + 1].chunk = chunk /\ n = Len(b.entries)
    BY <1>2, <1>9, <1>10, <1>12 DEF SameChunks
  <2>2. \A i \in 1 .. n : c.entries[i].chunk = b.entries[i].chunk
    BY <1>2, <1>10, <1>12, <2>1 DEF SameChunks
  <2> QED
    BY <2>1, <2>2 DEF OneMore
<1> QED
  BY <1>1, <1>18, <1>19

\* A manifest: the chunk size it was cut with, and entries that are placed.
ManifestOK(m) ==
    /\ m \in [size : Nat, entries : Seq(Entries)]
    /\ \A i \in 1 .. Len(m.entries) : Placed(m.entries[i], m.size)

\* A chunk of the base is taken from there.
LEMMA AddChunkKeeps ==
    ASSUME NEW size \in Nat \ {0}, NEW base, ManifestOK(base),
           NEW b, BuildOK(b, size, PackKeys(base)),
           NEW chunk \in Seq(Bytes), chunk # << >>, Len(chunk) <= size
    PROVE  /\ BuildOK(AddChunk(base, size, b, chunk), size, PackKeys(base))
           /\ OneMore(b, AddChunk(base, size, b, chunk), chunk)
<1> DEFINE found == Reusable(base, size, chunk)
           j == Max(found)
           e == base.entries[j]
           n == Len(b.entries)
           c == [b EXCEPT !.entries = Append(@, e)]
<1>1. CASE found = {}
  BY <1>1, AddNovelKeeps DEF AddChunk
<1>2. CASE found # {}
  <2>1. AddChunk(base, size, b, chunk) = c
    BY <1>2 DEF AddChunk
  <2>2. /\ base.entries \in Seq(Entries) /\ Len(base.entries) \in Nat
        /\ DOMAIN base.entries = 1 .. Len(base.entries)
    BY LenProperties DEF ManifestOK
  <2>3. found \subseteq 0 .. Len(base.entries)
    BY <2>2 DEF Reusable
  <2>4. j \in found
    <3> HIDE DEF found
    <3> QED
      BY <1>2, <2>2, <2>3, MaxIsGreatest
  <2>5. j \in 1 .. Len(base.entries) /\ base.size = size /\ e.chunk = chunk
    BY <2>2, <2>4 DEF Reusable
  <2> HIDE DEF j
  <2>6. e \in Entries /\ Placed(e, size) /\ e.pack \in PackKeys(base)
    <3>1. e \in Entries
      BY <2>2, <2>5, ElementOfSeq
    <3>2. Placed(e, size)
      BY <2>5 DEF ManifestOK
    <3>3. e.pack \in PackKeys(base)
      BY <2>2, <2>5 DEF PackKeys
    <3> QED
      BY <3>1, <3>2, <3>3
  <2> HIDE DEF e
  <2>7. b \in Builds /\ b.entries \in Seq(Entries) /\ n \in Nat
    BY LenProperties DEF BuildOK, Builds
  <2>8. /\ Append(b.entries, e) \in Seq(Entries)
        /\ Len(Append(b.entries, e)) = n + 1
        /\ \A i \in 1 .. n : Append(b.entries, e)[i] = b.entries[i]
        /\ Append(b.entries, e)[n + 1] = e
    BY <2>6, <2>7, AppendProperties
  <2>9. /\ c.pending = b.pending /\ c.packs = b.packs /\ c.entries = Append(b.entries, e)
        /\ c \in Builds
    BY <2>7, <2>8 DEF Builds
  <2> HIDE DEF c
  <2>10. ASSUME NEW i \in 1 .. n + 1
         PROVE  IF c.entries[i].pack = << >>
                THEN c.pending # << >> /\ Lies(c.entries[i], c.pending)
                ELSE Placed(c.entries[i], size)
                     /\ c.entries[i].pack \in c.packs \cup PackKeys(base)
    <3>1. CASE i = n + 1
      BY <3>1, <2>6, <2>8, <2>9 DEF Placed
    <3>2. CASE i # n + 1
      <4>1. i \in 1 .. n
        BY <2>7, <3>2
      <4>2. c.entries[i] = b.entries[i]
        BY <2>8, <2>9, <4>1
      <4> QED
        BY <2>9, <4>1, <4>2 DEF BuildOK
    <3> QED
      BY <3>1, <3>2
  <2>11. BuildOK(c, size, PackKeys(base))
    BY <2>8, <2>9, <2>10 DEF BuildOK
  <2>12. OneMore(b, c, chunk)
    BY <2>5, <2>8, <2>9 DEF OneMore
  <2> QED
    BY <2>1, <2>11, <2>12
<1> QED
  BY <1>1, <1>2

\* Chunks that are not empty, and not longer than the chunk size.
CutTo(chunks, size) ==
    /\ chunks \in Seq(Seq(Bytes))
    /\ \A i \in 1 .. Len(chunks) : chunks[i] # << >> /\ Len(chunks[i]) <= size

\* What has been built after k chunks.
BuiltOK(b, chunks, base, size, k) ==
    /\ BuildOK(b, size, PackKeys(base))
    /\ Len(b.entries) = k
    /\ \A i \in 1 .. k : b.entries[i].chunk = chunks[i]

\* The loop over the chunks keeps what it has built right.
LEMMA BuildingKeeps ==
    ASSUME NEW size \in Nat \ {0}, NEW base, ManifestOK(base), NEW chunks, CutTo(chunks, size)
    PROVE  \A k \in 0 .. Len(chunks) :
              BuiltOK(Building(chunks, base, size)[k], chunks, base, size, k)
<1> DEFINE total == Len(chunks)
           built == Building(chunks, base, size)
           P == {k \in 0 .. total : BuiltOK(built[k], chunks, base, size, k)}
<1>0. total \in Nat
  BY LenProperties DEF CutTo
<1>1. /\ built[0] = [entries |-> << >>, packs |-> {}, pending |-> << >>]
      /\ \A k \in 1 .. total : built[k] = AddChunk(base, size, built[k - 1], chunks[k])
  BY <1>0, BuildingLoop
<1> HIDE DEF built
<1>2. 0 \in P
  <2>1. << >> \in Seq(Bytes) /\ << >> \in Seq(Entries) /\ Len(<< >>) = 0
    BY EmptySeq
  <2>2. built[0] \in Builds /\ Len(built[0].entries) = 0 /\ Len(built[0].pending) = 0
    BY <1>1, <2>1 DEF Builds
  <2>3. 0 <= Limit(size)
    BY TransportAssumption DEF Limit
  <2>4. \A i \in 1 .. 0 : FALSE
    OBVIOUS
  <2>5. BuildOK(built[0], size, PackKeys(base))
    BY <2>2, <2>3, <2>4 DEF BuildOK
  <2> QED
    BY <1>0, <2>2, <2>4, <2>5 DEF BuiltOK
<1>3. ASSUME NEW k \in 0 .. total, k # total, k \in P PROVE k + 1 \in P
  <2> DEFINE b == built[k]
             c == built[k + 1]
             chunk == chunks[k + 1]
  <2>1. k + 1 \in 0 .. total /\ k + 1 \in 1 .. total /\ (k + 1) - 1 = k /\ k + 1 # 0
    BY <1>0, <1>3
  <2>2. c = AddChunk(base, size, b, chunk)
    BY <1>1, <2>1
  <2>3. /\ BuildOK(b, size, PackKeys(base)) /\ Len(b.entries) = k
        /\ \A i \in 1 .. k : b.entries[i].chunk = chunks[i]
    BY <1>3 DEF BuiltOK
  <2>4. chunk \in Seq(Bytes) /\ chunk # << >> /\ Len(chunk) <= size
    BY <2>1, ElementOfSeq DEF CutTo
  <2> HIDE DEF b, c, chunk
  <2>5. BuildOK(c, size, PackKeys(base)) /\ OneMore(b, c, chunk)
    BY <2>2, <2>3, <2>4, AddChunkKeeps
  <2>6. /\ Len(c.entries) = k + 1
        /\ \A i \in 1 .. k : c.entries[i].chunk = chunks[i]
        /\ c.entries[k + 1].chunk = chunks[k + 1]
    BY <2>3, <2>5 DEF OneMore, chunk
  <2>7. \A i \in 1 .. k + 1 : i \in 1 .. k \/ i = k + 1
    OBVIOUS
  <2>8. BuiltOK(c, chunks, base, size, k + 1)
    BY <2>5, <2>6, <2>7 DEF BuiltOK
  <2> QED
    BY <2>1, <2>8 DEF c
<1>4. \A k \in 0 .. total : k \in P
  <2> HIDE DEF P, total
  <2> QED
    BY <1>0, <1>2, <1>3, Turnwise
<1> QED
  BY <1>4 DEF built

\* The entries are the payload's chunks, at a size with which they are few enough.
Cut(m, d) ==
    /\ IsChunked(m)
    /\ Fits(Len(d), m.size)
    /\ Len(m.entries) = Len(Chunks(d, m.size))
    /\ \A i \in 1 .. Len(m.entries) : m.entries[i].chunk = Chunks(d, m.size)[i]

\* build_manifest: its manifest is of the payload, and the packs it names are those
\* of the base or new.
LEMMA BuildManifestCuts ==
    ASSUME NEW d \in Seq(Bytes), NEW base, ManifestOK(base)
    PROVE  LET built == BuildManifest(d, base)
           IN /\ ManifestOK(built.manifest)
              /\ Cut(built.manifest, d)
              /\ built.packs \subseteq Seq(Bytes)
              /\ PackKeys(built.manifest) \subseteq built.packs \cup PackKeys(base)
              /\ Cut(base, d) => built.packs = {}
<1> DEFINE first == IF IsChunked(base) THEN base.size ELSE DefaultChunkSize
           size == ChooseChunkSize(Len(d), base)
           chunks == Chunks(d, size)
           total == Len(chunks)
           building == Building(chunks, base, size)
           b == building[total]
           f == FlushPack(b)
           m == [size |-> size, entries |-> f.entries]
<1>1. BuildManifest(d, base) = [manifest |-> m, packs |-> f.packs]
  BY DEF BuildManifest
<1>2. first \in Nat \ {0}
  BY TransportAssumption DEF ManifestOK, IsChunked
<1>3. Len(d) \in Nat
  BY LenProperties
<1>4. size \in Nat \ {0} /\ Fits(Len(d), size) /\ (Fits(Len(d), first) => size = first)
  <2>1. size = Doubling(Len(d), first)[Len(d)]
    BY DEF ChooseChunkSize
  <2> HIDE DEF first, size
  <2> QED
    BY <1>2, <1>3, <2>1, ChunkSizeFits
<1> HIDE DEF size, first
<1>5. chunks \in Seq(Seq(Bytes)) /\ total \in Nat
  <2>1. chunks \in Seq(Seq(Bytes))
    BY <1>4, ChunksAre
  <2> QED
    BY <2>1, LenProperties
<1>6. ASSUME NEW i \in 1 .. total PROVE chunks[i] # << >> /\ Len(chunks[i]) <= size
  <2> DEFINE from == (i - 1) * size
             to == ChunkEnd(d, size, i)
  <2>1. /\ from \in Nat /\ to \in Nat /\ from < to /\ to <= Len(d) /\ to - from <= size
        /\ chunks[i] = Slice(d, from, to)
    BY <1>4, ChunksAre
  <2> HIDE DEF from, to, chunks
  <2>2. Len(chunks[i]) = to - from
    BY <2>1, SliceIs
  <2>3. Len(<< >>) = 0
    BY EmptySeq
  <2> QED
    BY <1>3, <2>1, <2>2, <2>3
<1> HIDE DEF chunks, total
<1>7. /\ BuildOK(b, size, PackKeys(base))
      /\ Len(b.entries) = total
      /\ \A i \in 1 .. total : b.entries[i].chunk = chunks[i]
  <2>1. CutTo(chunks, size)
    BY <1>5, <1>6 DEF CutTo, total
  <2>2. total \in 0 .. Len(chunks)
    BY <1>5 DEF total
  <2> QED
    BY <1>4, <2>1, <2>2, BuildingKeeps DEF BuiltOK
<1> HIDE DEF b
<1>8. /\ BuildOK(f, size, PackKeys(base)) /\ SameChunks(b, f)
      /\ \A i \in 1 .. total : f.entries[i].pack # << >>
      /\ b.pending = << >> => f = b
  <2> DEFINE known == PackKeys(base)
  <2>0. BuildOK(b, size, known)
    BY <1>7
  <2> HIDE DEF size, known
  <2>1. SameChunks(b, f) /\ BuildOK(f, size, known) /\ (b.pending = << >> => f = b)
    BY <1>4, <2>0, FlushKeeps
  <2>2. \A i \in 1 .. Len(b.entries) : f.entries[i].pack # << >>
    BY <1>4, <2>0, FlushKeeps
  <2> USE DEF known
  <2> QED
    BY <1>7, <2>1, <2>2
<1> HIDE DEF f
<1>9. Len(f.entries) = total /\ \A i \in 1 .. total : f.entries[i].chunk = chunks[i]
  BY <1>7, <1>8 DEF SameChunks
<1>10. /\ f.entries \in Seq(Entries) /\ f.packs \in SUBSET Seq(Bytes)
       /\ \A i \in 1 .. total : Placed(f.entries[i], size)
                                /\ f.entries[i].pack \in f.packs \cup PackKeys(base)
  BY <1>8, <1>9 DEF BuildOK, Builds
<1>11. ManifestOK(m)
  BY <1>4, <1>9, <1>10 DEF ManifestOK
<1>12. Cut(m, d)
  BY <1>4, <1>9 DEF Cut, IsChunked, chunks, total
<1>13. PackKeys(m) \subseteq f.packs \cup PackKeys(base)
  <2>1. DOMAIN f.entries = 1 .. total
    BY <1>9, <1>10, LenProperties
  <2> QED
    BY <1>10, <2>1 DEF PackKeys
<1>14. ASSUME Cut(base, d) PROVE f.packs = {}
  <2>1. size = base.size /\ Len(base.entries) = total
        /\ \A i \in 1 .. total : base.entries[i].chunk = chunks[i]
    BY <1>4, <1>14 DEF Cut, first, chunks, total
  <2>2. DOMAIN base.entries = 1 .. total
    BY <2>1, LenProperties DEF ManifestOK
  <2> DEFINE Same(k) == building[k].packs = {} /\ building[k].pending = << >>
             P == {k \in 0 .. total : Same(k)}
  <2>3. /\ building[0] = [entries |-> << >>, packs |-> {}, pending |-> << >>]
        /\ \A k \in 1 .. total : building[k] = AddChunk(base, size, building[k - 1], chunks[k])
    <3>1. Len(chunks) \in Nat
      BY <1>5 DEF total
    <3> QED
      BY <3>1, BuildingLoop DEF total
  <2>4. \A k \in 0 .. total : building[k] \in Builds
    <3>1. CutTo(chunks, size)
      BY <1>5, <1>6 DEF CutTo, total
    <3> QED
      BY <1>4, <3>1, BuildingKeeps DEF BuiltOK, BuildOK, total
  <2> HIDE DEF building
  <2>5. 0 \in P
    BY <1>5, <2>3
  <2>6. ASSUME NEW k \in 0 .. total, k # total, k \in P PROVE k + 1 \in P
    <3>1. k + 1 \in 0 .. total /\ k + 1 \in 1 .. total /\ (k + 1) - 1 = k /\ k + 1 # 0
      BY <1>5, <2>6
    <3>2. building[k + 1] = AddChunk(base, size, building[k], chunks[k + 1])
      BY <2>3, <3>1
    <3>3. Reusable(base, size, chunks[k + 1]) # {}
      BY <2>1, <2>2, <3>1 DEF Reusable
    <3>4. building[k + 1] = [building[k] EXCEPT !.entries =
                Append(@, base.entries[Max(Reusable(base, size, chunks[k + 1]))])]
      BY <3>2, <3>3 DEF AddChunk
    <3>5. building[k + 1].packs = building[k].packs /\ building[k + 1].pending = building[k].pending
      BY <2>4, <3>1, <3>4 DEF Builds
    <3> QED
      BY <2>6, <3>1, <3>5
  <2>7. \A k \in 0 .. total : k \in P
    <3> HIDE DEF P
    <3> QED
      BY <1>5, <2>5, <2>6, Turnwise
  <2>8. b.packs = {} /\ b.pending = << >>
    BY <1>5, <2>7 DEF b, building
  <2> QED
    BY <1>8, <2>8
<1> QED
  BY <1>1, <1>10, <1>11, <1>12, <1>13, <1>14

---------------------------------------------------------------------------
(* The invariant *)

\* Packs that are not damaged are what their keys say, and the manifest's are there.
StoreOK ==
    /\ store \in [DOMAIN store -> Seq(Bytes)]
    /\ ~damaged => /\ store = [p \in DOMAIN store |-> p]
                   /\ PackKeys(manifest) \subseteq DOMAIN store
    /\ damaged => \E p \in PackKeys(manifest) : FetchPack(p) = Raise

\* The inductive invariant: the head's manifest is one that build_manifest can have
\* written for the head's payload, and the store holds its packs unless one is damaged.
TransportInv ==
    /\ generation \in 0 .. MaxGeneration
    /\ data \in Payloads
    /\ ManifestOK(manifest)
    /\ IF IsChunked(manifest) THEN Cut(manifest, data) ELSE manifest = Whole
    /\ StoreOK

\* A payload is a sequence of bytes.
LEMMA PayloadsAre ==
    Payloads = {d \in Seq(Bytes) : Len(d) <= MaxSize}
<1>0. MaxSize \in Nat
  BY TransportAssumption
<1>1. Payloads = UNION {[1 .. m -> Bytes] : m \in 0 .. MaxSize}
  BY DEF Payloads, BoundedSeq, SeqOf
<1>2. ASSUME NEW d \in Payloads PROVE d \in Seq(Bytes) /\ Len(d) <= MaxSize
  <2>1. PICK m \in 0 .. MaxSize : d \in [1 .. m -> Bytes]
    BY <1>1
  <2>2. d \in Seq(Bytes) /\ DOMAIN d = 1 .. m /\ m \in Nat
    BY <1>0, <2>1, SeqDef
  <2>3. Len(d) = m
    BY <2>2, LenProperties
  <2> QED
    BY <2>2, <2>3
<1>3. ASSUME NEW d \in Seq(Bytes), Len(d) <= MaxSize PROVE d \in Payloads
  <2>1. Len(d) \in 0 .. MaxSize /\ d \in [1 .. Len(d) -> Bytes]
    BY <1>0, <1>3, LenProperties
  <2> QED
    BY <1>1, <2>1
<1> QED
  BY <1>2, <1>3

\* An empty store.
LEMMA EmptyFunction == << >> = [p \in {} |-> p] /\ DOMAIN << >> = {}
<1>1. << >> \in [1 .. 0 -> {}] /\ 1 .. 0 = {}
  BY EmptySeq, LenProperties
<1> QED
  BY <1>1

\* The fields of the entries of a manifest.
LEMMA EntriesAre ==
    ASSUME NEW m, ManifestOK(m)
    PROVE  /\ Len(m.entries) \in Nat /\ DOMAIN m.entries = 1 .. Len(m.entries)
           /\ \A i \in 1 .. Len(m.entries) :
                 /\ m.entries[i] \in Entries
                 /\ m.entries[i].chunk \in Seq(Bytes) /\ m.entries[i].pack \in Seq(Bytes)
                 /\ m.entries[i].offset \in Nat
                 /\ Length(m.entries[i]) \in Nat
                 /\ m.entries[i].pack \in PackKeys(m)
           /\ PackKeys(m) \subseteq Seq(Bytes) \ {<< >>}
<1>1. m.entries \in Seq(Entries)
  BY DEF ManifestOK
<1>2. Len(m.entries) \in Nat /\ DOMAIN m.entries = 1 .. Len(m.entries)
  BY <1>1, LenProperties
<1>3. ASSUME NEW i \in 1 .. Len(m.entries)
      PROVE  /\ m.entries[i] \in Entries
             /\ m.entries[i].chunk \in Seq(Bytes) /\ m.entries[i].pack \in Seq(Bytes)
             /\ m.entries[i].offset \in Nat
             /\ Length(m.entries[i]) \in Nat
             /\ m.entries[i].pack \in PackKeys(m)
             /\ m.entries[i].pack # << >>
  <2>1. m.entries[i] \in Entries
    BY <1>1, ElementOfSeq
  <2>2. m.entries[i].chunk \in Seq(Bytes) /\ m.entries[i].pack \in Seq(Bytes)
        /\ m.entries[i].offset \in Nat
    BY <2>1 DEF Entries
  <2>3. Length(m.entries[i]) \in Nat
    BY <2>2, LenProperties DEF Length
  <2> QED
    BY <1>2, <2>1, <2>2, <2>3 DEF PackKeys, ManifestOK, Placed
<1>4. PackKeys(m) \subseteq Seq(Bytes) \ {<< >>}
  BY <1>2, <1>3 DEF PackKeys
<1> QED
  BY <1>2, <1>3, <1>4

\* A payload that is stored whole has no packs.
LEMMA WholeIs == ManifestOK(Whole) /\ ~IsChunked(Whole) /\ PackKeys(Whole) = {}
<1>1. << >> \in Seq(Entries) /\ Len(<< >>) = 0 /\ DOMAIN << >> = {}
  BY EmptySeq, EmptyFunction
<1>2. \A i \in 1 .. 0 : FALSE
  OBVIOUS
<1>3. Whole.entries = << >> /\ Whole.size = 0 /\ Whole \in [size : Nat, entries : Seq(Entries)]
  BY <1>1 DEF Whole
<1> QED
  BY <1>1, <1>2, <1>3 DEF ManifestOK, IsChunked, PackKeys

\* Bootstrap begins with a payload stored whole.
LEMMA InitInv == Init => TransportInv
<1> SUFFICES ASSUME Init PROVE TransportInv
  OBVIOUS
<1>1. << >> \in Seq(Bytes) /\ Len(<< >>) = 0
  BY EmptySeq
<1>2. generation \in 0 .. MaxGeneration /\ data \in Payloads
  BY <1>1, PayloadsAre, TransportAssumption DEF Init
<1>3. store = [p \in {} |-> p] /\ DOMAIN store = {}
  BY EmptyFunction DEF Init
<1>4. StoreOK
  BY <1>3, WholeIs DEF StoreOK, Init
<1> QED
  BY <1>2, <1>4, WholeIs DEF TransportInv, Init

\* What a commit publishes.
LEMMA PublishKeeps ==
    ASSUME TransportInv, ~damaged, ~damaged', NEW d \in Payloads, Publish(d)
    PROVE  /\ ManifestOK(manifest') /\ data' = d
           /\ IF IsChunked(manifest') THEN Cut(manifest', d) ELSE manifest' = Whole
           /\ StoreOK'
           /\ Cut(manifest, d) => store' = store
<1>1. d \in Seq(Bytes) /\ ManifestOK(manifest) /\ data' = d
  BY PayloadsAre DEF TransportInv, Publish
<1>2. /\ store = [p \in DOMAIN store |-> p] /\ store \in [DOMAIN store -> Seq(Bytes)]
      /\ PackKeys(manifest) \subseteq DOMAIN store
  BY DEF TransportInv, StoreOK
<1>3. CASE Len(d) >= Threshold
  <2> DEFINE built == BuildManifest(d, manifest)
  <2>1. /\ manifest' = built.manifest
        /\ store' = [p \in DOMAIN store \cup built.packs |-> p]
    BY <1>3 DEF Publish, Upload
  <2>2. /\ ManifestOK(built.manifest)
        /\ Cut(built.manifest, d)
        /\ built.packs \subseteq Seq(Bytes)
        /\ PackKeys(built.manifest) \subseteq built.packs \cup PackKeys(manifest)
        /\ Cut(manifest, d) => built.packs = {}
    BY <1>1, BuildManifestCuts
  <2> HIDE DEF built
  <2>3. DOMAIN store \subseteq Seq(Bytes)
    BY <1>2
  <2>4. StoreOK'
    BY <1>2, <2>1, <2>2, <2>3 DEF StoreOK, PackKeys
  <2>5. Cut(manifest, d) => store' = store
    BY <1>2, <2>1, <2>2
  <2> QED
    BY <1>1, <2>1, <2>2, <2>4, <2>5 DEF Cut
<1>4. CASE ~(Len(d) >= Threshold)
  <2>1. manifest' = Whole /\ store' = store
    BY <1>4 DEF Publish
  <2>2. PackKeys(manifest') = {}
    BY <2>1, WholeIs
  <2> QED
    BY <1>1, <1>2, <2>1, <2>2, WholeIs DEF StoreOK, PackKeys
<1> QED
  BY <1>3, <1>4

\* A commit keeps the invariant, whatever it commits.
LEMMA CommitKeeps ==
    TransportInv /\ Commit => TransportInv'
<1> SUFFICES ASSUME TransportInv, Commit PROVE TransportInv'
  OBVIOUS
<1>1. PICK d \in Payloads : Publish(d)
  BY DEF Commit
<1>2. ~damaged /\ ~damaged' /\ generation' \in 0 .. MaxGeneration
  BY TransportAssumption DEF Commit, TransportInv
<1>3. /\ ManifestOK(manifest') /\ data' = d
      /\ IF IsChunked(manifest') THEN Cut(manifest', d) ELSE manifest' = Whole
      /\ StoreOK'
  BY <1>1, <1>2, PublishKeeps
<1> QED
  BY <1>2, <1>3 DEF TransportInv, ManifestOK, Cut, IsChunked, Placed, Lies, Payloads

\* The pack sweep keeps what the head's manifest names.
LEMMA SweepKeeps ==
    TransportInv /\ SweepPacks => TransportInv'
<1> SUFFICES ASSUME TransportInv, SweepPacks PROVE TransportInv'
  OBVIOUS
<1>1. /\ store = [p \in DOMAIN store |-> p] /\ store \in [DOMAIN store -> Seq(Bytes)]
      /\ PackKeys(manifest) \subseteq DOMAIN store
  BY DEF TransportInv, StoreOK, SweepPacks
<1>2. /\ store' = [p \in PackKeys(manifest) |-> store[p]] /\ ~damaged' /\ manifest' = manifest
      /\ data' = data /\ generation' = generation
  BY DEF SweepPacks
<1>3. \A p \in PackKeys(manifest) : store[p] = p /\ p \in Seq(Bytes)
  BY <1>1
<1>4. PackKeys(manifest)' = PackKeys(manifest)
  BY <1>2 DEF PackKeys
<1>5. StoreOK'
  BY <1>2, <1>3, <1>4 DEF StoreOK
<1> QED
  BY <1>2, <1>5 DEF TransportInv, ManifestOK, Cut, IsChunked

\* A damaged pack is still bytes.
LEMMA DamagedIsBytes ==
    ASSUME NEW p \in Seq(Bytes) \ {<< >>}, NEW body \in Damaged(p)
    PROVE  body \in Seq(Bytes)
<1>1. Len(p) \in Nat /\ DOMAIN p = 1 .. Len(p)
  BY LenProperties
<1>2. Front(p) \in Seq(Bytes)
  <2>1. \A i \in 1 .. Len(p) - 1 : p[i] \in Bytes
    BY <1>1, ElementOfSeq
  <2>2. 1 \in Int /\ Len(p) - 1 \in Int
    BY <1>1
  <2> QED
    BY <2>1, <2>2, SubSeqProperties DEF Front
<1>3. \A i \in DOMAIN p, b \in Bytes : [p EXCEPT ![i] = b] \in Seq(Bytes)
  BY <1>1, ExceptSeq
<1> QED
  BY <1>2, <1>3 DEF Damaged

\* A damaged pack is one of the head's, and fetching it raises.
LEMMA DamageKeeps ==
    TransportInv /\ Damage => TransportInv'
<1> SUFFICES ASSUME TransportInv, Damage PROVE TransportInv'
  OBVIOUS
<1>1. /\ damaged' = TRUE /\ manifest' = manifest /\ data' = data /\ generation' = generation
  BY DEF Damage
<1>2. PackKeys(manifest)' = PackKeys(manifest)
  BY <1>1 DEF PackKeys
<1>3. PackKeys(manifest) \subseteq Seq(Bytes) \ {<< >>}
  BY EntriesAre DEF TransportInv
<1>4. PICK p \in PackKeys(manifest) :
          \/ store' = [q \in PackKeys(manifest) \ {p} |-> q]
          \/ \E body \in Damaged(p) \ {p} :
                store' = [q \in PackKeys(manifest) |-> IF q = p THEN body ELSE q]
  BY DEF Damage
<1>5. store' \in [DOMAIN store' -> Seq(Bytes)] /\ FetchPack(p)' = Raise
  <2>1. CASE store' = [q \in PackKeys(manifest) \ {p} |-> q]
    <3>1. p \notin DOMAIN store' /\ store' \in [DOMAIN store' -> Seq(Bytes)]
      BY <1>3, <2>1
    <3> QED
      BY <3>1 DEF FetchPack, Raise
  <2>2. ASSUME NEW body \in Damaged(p) \ {p},
               store' = [q \in PackKeys(manifest) |-> IF q = p THEN body ELSE q]
        PROVE  store' \in [DOMAIN store' -> Seq(Bytes)] /\ FetchPack(p)' = Raise
    <3>1. body \in Seq(Bytes)
      BY <1>3, DamagedIsBytes
    <3>2. store'[p] # p /\ store' \in [DOMAIN store' -> Seq(Bytes)]
      BY <1>3, <2>2, <3>1
    <3> QED
      BY <3>2 DEF FetchPack, Raise
  <2> QED
    BY <1>4, <2>1, <2>2
<1>6. StoreOK'
  BY <1>1, <1>2, <1>5 DEF StoreOK
<1> QED
  BY <1>1, <1>6 DEF TransportInv, ManifestOK, Cut, IsChunked

\* The invariant holds in every reachable state of Transport.
THEOREM TransportInvariant == Spec => []TransportInv
<1>1. TransportInv /\ UNCHANGED vars => TransportInv'
  BY DEF vars, TransportInv, ManifestOK, Cut, IsChunked, StoreOK, FetchPack, PackKeys
<1>2. TransportInv /\ [Next]_vars => TransportInv'
  BY <1>1, CommitKeeps, SweepKeeps, DamageKeeps DEF Next
<1> QED
  BY InitInv, <1>2, PTL DEF Spec

\* A generation with the payload of its base uploads nothing: build_manifest keeps
\* the base's chunk size and finds every chunk, whatever the sizes and the history.
THEOREM UnchangedIsFreeHolds == Spec => UnchangedIsFree
<1>1. TransportInv /\ [Next]_vars
      => [generation' > generation /\ data' = data /\ IsChunked(manifest)
            => store' = store]_vars
  <2> SUFFICES ASSUME TransportInv, [Next]_vars, generation' > generation, data' = data,
                      IsChunked(manifest)
               PROVE  store' = store
    OBVIOUS
  <2>1. generation \in Int
    BY DEF TransportInv
  <2>2. Commit
    BY <2>1 DEF Next, SweepPacks, Damage, vars
  <2>3. PICK d \in Payloads : Publish(d)
    BY <2>2 DEF Commit
  <2>4. ~damaged /\ ~damaged'
    BY <2>2 DEF Commit
  <2>5. data' = d /\ (Cut(manifest, d) => store' = store)
    BY <2>3, <2>4, PublishKeeps
  <2> QED
    BY <2>5 DEF TransportInv
<1> QED
  BY TransportInvariant, <1>1, PTL DEF Spec, UnchangedIsFree

---------------------------------------------------------------------------
(* The entries of a manifest tile the payload *)

\* StartsOf is the running sum it describes.
LEMMA StartsLoop ==
    ASSUME NEW m, Len(m.entries) \in Nat
    PROVE  LET starts == StartsOf(m)
           IN \A i \in 1 .. Len(m.entries) :
                 starts[i] = IF i = 1 THEN 0 ELSE starts[i - 1] + Length(m.entries[i - 1])
<1> DEFINE total == Len(m.entries)
           IsLoop(g, n) == g = [i \in 1 .. n |->
                                   IF i = 1 THEN 0 ELSE g[i - 1] + Length(m.entries[i - 1])]
           P == {n \in Nat : \E g : IsLoop(g, n)}
<1>1. IsLoop([i \in 1 .. 0 |-> 0], 0)
  OBVIOUS
<1>2. ASSUME NEW n \in 0 .. total, n # total, n \in P PROVE n + 1 \in P
  <2>1. PICK g : IsLoop(g, n)
    BY <1>2
  <2> DEFINE h == [i \in 1 .. n + 1 |->
                      IF i = 1 THEN 0 ELSE g[i - 1] + Length(m.entries[i - 1])]
  <2>2. \A i \in 1 .. n : h[i] = g[i]
    BY <2>1
  <2>3. \A i \in 1 .. n + 1 : i # 1 => i - 1 \in 1 .. n
    OBVIOUS
  <2>4. h = [i \in 1 .. n + 1 |->
                IF i = 1 THEN 0 ELSE h[i - 1] + Length(m.entries[i - 1])]
    BY <2>2, <2>3
  <2> HIDE DEF h
  <2>5. n + 1 \in Nat /\ IsLoop(h, n + 1)
    BY <2>4
  <2> QED
    BY <2>5
<1>3. 0 \in P
  BY <1>1
<1>4. \A n \in 0 .. total : n # total /\ n \in P => n + 1 \in P
  BY <1>2
<1>5. total \in P
  <2>1. total \in Nat
    OBVIOUS
  <2> HIDE DEF P, total
  <2>2. \A n \in 0 .. total : n \in P
    BY <1>3, <1>4, <2>1, Turnwise
  <2> QED
    BY <2>1, <2>2
<1>6. StartsOf(m) = CHOOSE g : IsLoop(g, total)
  BY DEF StartsOf
<1>7. \E g : IsLoop(g, total)
  BY <1>5
<1>8. IsLoop(StartsOf(m), total)
  <2> HIDE DEF IsLoop
  <2> QED
    BY <1>6, <1>7
<1> DEFINE starts == StartsOf(m)
<1> HIDE DEF starts
<1> QED
  BY <1>8 DEF starts

\* Entry i holds the bytes from its start to its end, and the next begins there.
Tiled(m, d) ==
    /\ Len(m.entries) \in Nat
    /\ Len(m.entries) = 0 <=> Len(d) = 0
    /\ Len(m.entries) <= MaxEntries
    /\ Len(m.entries) # 0 => StartsOf(m)[1] = 0 /\ EndOf(m, Len(m.entries)) = Len(d)
    /\ \A i \in 1 .. Len(m.entries) :
          /\ StartsOf(m)[i] \in Nat /\ EndOf(m, i) \in Nat
          /\ StartsOf(m)[i] < EndOf(m, i) /\ EndOf(m, i) <= Len(d)
          /\ EndOf(m, i) = StartsOf(m)[i] + Length(m.entries[i])
          /\ m.entries[i].chunk = Slice(d, StartsOf(m)[i], EndOf(m, i))
          /\ \A x \in 1 .. Length(m.entries[i]) :
                m.entries[i].chunk[x] = d[StartsOf(m)[i] + x]
          /\ i # Len(m.entries) => StartsOf(m)[i + 1] = EndOf(m, i)
    /\ \A i, j \in 1 .. Len(m.entries) : i < j => EndOf(m, i) <= StartsOf(m)[j]

\* A manifest of a payload tiles it.
LEMMA EntriesTile ==
    ASSUME NEW m, NEW d \in Seq(Bytes), ManifestOK(m), Cut(m, d)
    PROVE  Tiled(m, d)
<1> DEFINE n == Len(m.entries)
           size == m.size
           starts == StartsOf(m)
           from(i) == (i - 1) * size
           to(i) == ChunkEnd(d, size, i)
<1>1. size \in Nat \ {0} /\ n \in Nat /\ Fits(Len(d), size) /\ Len(d) \in Nat
  BY EntriesAre, LenProperties DEF ManifestOK, Cut, IsChunked
<1>2. /\ n = 0 <=> Len(d) = 0
      /\ n <= MaxEntries
      /\ n # 0 => to(n) = Len(d)
      /\ \A i \in 1 .. n :
            /\ from(i) \in Nat /\ to(i) \in Nat
            /\ from(i) < to(i)
            /\ to(i) <= Len(d)
            /\ i # n => to(i) = i * size
            /\ m.entries[i].chunk = Slice(d, from(i), to(i))
  <2>1. n = Len(Chunks(d, size)) /\ \A i \in 1 .. n : m.entries[i].chunk = Chunks(d, size)[i]
    BY DEF Cut
  <2> HIDE DEF n, size
  <2> DEFINE q == (Len(d) + size - 1) \div size
  <2>2. q \in Nat /\ Len(Chunks(d, size)) = q
    BY <1>1, ChunksAre
  <2>3. n = q
    BY <2>1, <2>2
  <2>4. /\ q = 0 <=> Len(d) = 0
        /\ q <= MaxEntries
        /\ q # 0 => to(q) = Len(d)
        /\ \A i \in 1 .. q :
              /\ from(i) \in Nat /\ to(i) \in Nat
              /\ from(i) < to(i)
              /\ to(i) <= Len(d)
              /\ i # q => to(i) = i * size
              /\ Chunks(d, size)[i] = Slice(d, from(i), to(i))
    BY <1>1, ChunksAre
  <2> HIDE DEF q, from, to
  <2> QED
    BY <2>1, <2>3, <2>4
<1> HIDE DEF n, size
<1>3. ASSUME NEW i \in 1 .. n
      PROVE  /\ Length(m.entries[i]) = to(i) - from(i)
             /\ \A x \in 1 .. Length(m.entries[i]) : m.entries[i].chunk[x] = d[from(i) + x]
  <2> DEFINE a == from(i)
             b == to(i)
  <2>1. a \in Nat /\ b \in Nat /\ a <= b /\ b <= Len(d) /\ m.entries[i].chunk = Slice(d, a, b)
    BY <1>2
  <2> HIDE DEF a, b
  <2>a. /\ Len(Slice(d, a, b)) = b - a
        /\ \A x \in 1 .. b - a : Slice(d, a, b)[x] = d[a + x]
    BY <2>1, SliceIs
  <2>2. /\ Length(m.entries[i]) = b - a
        /\ \A x \in 1 .. b - a : m.entries[i].chunk[x] = d[a + x]
    BY <2>1, <2>a DEF Length
  <2> QED
    BY <2>2 DEF a, b
<1>4. \A i \in 1 .. n : starts[i] = from(i)
  <2> DEFINE P == {k \in 0 .. n : k # 0 => starts[k] = from(k)}
  <2>1. \A i \in 1 .. n : starts[i] = IF i = 1 THEN 0
                                      ELSE starts[i - 1] + Length(m.entries[i - 1])
    BY <1>1, StartsLoop DEF n
  <2> HIDE DEF starts
  <2>2. 0 \in P
    BY <1>1
  <2>3. ASSUME NEW k \in 0 .. n, k # n, k \in P PROVE k + 1 \in P
    <3>1. k + 1 \in 1 .. n /\ k + 1 \in 0 .. n /\ (k + 1) - 1 = k
      BY <1>1, <2>3
    <3>2. CASE k = 0
      <4>1. from(1) = 0
        BY <1>1
      <4> QED
        BY <2>1, <3>1, <3>2, <4>1
    <3>3. CASE k # 0
      <4>1. k \in 1 .. n /\ starts[k] = from(k)
        BY <2>3, <3>3
      <4>2. starts[k + 1] = starts[k] + Length(m.entries[k])
        BY <2>1, <3>1, <3>3
      <4>3. Length(m.entries[k]) = to(k) - from(k) /\ to(k) = k * size /\ from(k) \in Nat
            /\ to(k) \in Nat
        BY <1>2, <1>3, <2>3, <4>1
      <4> HIDE DEF to
      <4>4. starts[k + 1] = k * size
        <5> HIDE DEF from
        <5> QED
          BY <4>1, <4>2, <4>3
      <4> QED
        BY <3>1, <4>4
    <3> QED
      BY <3>2, <3>3
  <2>4. \A k \in 0 .. n : k \in P
    <3> HIDE DEF P
    <3> QED
      BY <1>1, <2>2, <2>3, Turnwise
  <2> QED
    BY <1>1, <2>4
<1>5. \A i \in 1 .. n : EndOf(m, i) = to(i)
  <2> HIDE DEF to, from
  <2> QED
    BY <1>2, <1>3, <1>4 DEF EndOf
<1>6. ASSUME NEW i \in 1 .. n, NEW j \in 1 .. n, i < j PROVE to(i) <= from(j)
  <2>1. i # n /\ to(i) = i * size
    <3>1. i # n
      BY <1>1, <1>6
    <3> HIDE DEF to
    <3> QED
      BY <1>2, <3>1
  <2>2. (i = j - 1 \/ i < j - 1) /\ i \in Nat /\ j - 1 \in Nat
    BY <1>1, <1>6
  <2>3. i < j - 1 => i * size + size <= (j - 1) * size
    BY <1>1, <2>2, TimesGrows
  <2>4. i * size \in Nat /\ from(j) \in Nat
    BY <1>1, <1>2
  <2>5. i * size <= (j - 1) * size
    BY <1>1, <2>2, <2>3, <2>4
  <2> QED
    BY <2>1, <2>5
<1>7. ASSUME NEW i \in 1 .. n, i # n PROVE starts[i + 1] = EndOf(m, i)
  <2>1. i + 1 \in 1 .. n /\ from(i + 1) = i * size /\ to(i) = i * size
    BY <1>1, <1>2, <1>7
  <2> QED
    BY <1>4, <1>5, <2>1
<1> HIDE DEF from, to
<1>8. n # 0 => starts[1] = 0 /\ EndOf(m, n) = Len(d)
  <2>1. n # 0 => 1 \in 1 .. n /\ n \in 1 .. n
    BY <1>1
  <2>2. from(1) = 0
    BY <1>1 DEF from
  <2> QED
    BY <1>2, <1>4, <1>5, <2>1, <2>2
<1>9. \A i \in 1 .. n :
          /\ starts[i] \in Nat /\ EndOf(m, i) \in Nat
          /\ starts[i] < EndOf(m, i) /\ EndOf(m, i) <= Len(d)
          /\ EndOf(m, i) = starts[i] + Length(m.entries[i])
          /\ m.entries[i].chunk = Slice(d, starts[i], EndOf(m, i))
          /\ \A x \in 1 .. Length(m.entries[i]) : m.entries[i].chunk[x] = d[starts[i] + x]
  <2>1. \A i \in 1 .. n : EndOf(m, i) = starts[i] + Length(m.entries[i])
    BY DEF EndOf
  <2> QED
    BY <1>2, <1>3, <1>4, <1>5, <2>1
<1>10. \A i, j \in 1 .. n : i < j => EndOf(m, i) <= starts[j]
  BY <1>4, <1>5, <1>6
<1> QED
  BY <1>1, <1>2, <1>7, <1>8, <1>9, <1>10 DEF Tiled, n

\* Two slices that meet are one.
LEMMA SlicesJoin ==
    ASSUME NEW d \in Seq(Bytes), NEW s \in Nat, NEW a \in Nat, NEW b \in Nat,
           s <= a, a <= b, b <= Len(d)
    PROVE  Slice(d, s, a) \o Slice(d, a, b) = Slice(d, s, b)
<1>0. Len(d) \in Nat
  BY LenProperties
<1> DEFINE p == Slice(d, s, a)
           q == Slice(d, a, b)
           r == Slice(d, s, b)
<1>1. /\ p \in Seq(Bytes) /\ Len(p) = a - s /\ \A x \in 1 .. a - s : p[x] = d[s + x]
      /\ q \in Seq(Bytes) /\ Len(q) = b - a /\ \A x \in 1 .. b - a : q[x] = d[a + x]
      /\ r \in Seq(Bytes) /\ Len(r) = b - s /\ \A x \in 1 .. b - s : r[x] = d[s + x]
  <2>1. a <= Len(d) /\ s <= b
    BY <1>0
  <2>2. p \in Seq(Bytes) /\ Len(p) = a - s /\ \A x \in 1 .. a - s : p[x] = d[s + x]
    BY <2>1, SliceIs
  <2>3. q \in Seq(Bytes) /\ Len(q) = b - a /\ \A x \in 1 .. b - a : q[x] = d[a + x]
    BY SliceIs
  <2>4. r \in Seq(Bytes) /\ Len(r) = b - s /\ \A x \in 1 .. b - s : r[x] = d[s + x]
    BY <2>1, SliceIs
  <2> QED
    BY <2>2, <2>3, <2>4
<1> HIDE DEF p, q, r
<1>2. /\ p \o q \in Seq(Bytes) /\ Len(p \o q) = Len(p) + Len(q)
      /\ \A x \in 1 .. Len(p) : (p \o q)[x] = p[x]
      /\ \A x \in 1 .. Len(q) : (p \o q)[Len(p) + x] = q[x]
  BY <1>1, ThenIs
<1>3. Len(p \o q) = b - s /\ b - s \in Nat /\ a - s \in Nat
  BY <1>1, <1>2
<1>4. ASSUME NEW x \in 1 .. b - s PROVE (p \o q)[x] = r[x]
  <2>1. CASE x <= a - s
    <3>1. x \in 1 .. a - s
      BY <2>1
    <3> QED
      BY <1>1, <1>2, <3>1
  <2>2. CASE x > a - s
    <3> DEFINE y == x - (a - s)
    <3>1. y \in 1 .. b - a /\ x = (a - s) + y /\ a + y = s + x
      BY <2>2
    <3> HIDE DEF y
    <3>2. (p \o q)[(a - s) + y] = d[a + y]
      BY <1>1, <1>2, <3>1
    <3> QED
      BY <1>1, <3>1, <3>2
  <2>3. x <= a - s \/ x > a - s
    BY <1>3
  <2> QED
    BY <2>1, <2>2, <2>3
<1>5. p \o q = r
  BY <1>1, <1>2, <1>3, <1>4, SeqEqual
<1> QED
  BY <1>5 DEF p, q, r

\* The slice of everything, and of nothing.
LEMMA SliceWhole ==
    ASSUME NEW d \in Seq(Bytes)
    PROVE  /\ Slice(d, 0, Len(d)) = d
           /\ \A s \in 0 .. Len(d) : Slice(d, s, s) = << >>
<1>0. Len(d) \in Nat
  BY LenProperties
<1>1. Slice(d, 0, Len(d)) \in Seq(Bytes) /\ Len(Slice(d, 0, Len(d))) = Len(d)
      /\ \A x \in 1 .. Len(d) : Slice(d, 0, Len(d))[x] = d[x]
  <2>1. Len(d) - 0 = Len(d) /\ \A x \in 1 .. Len(d) : 0 + x = x
    BY <1>0
  <2>2. Slice(d, 0, Len(d)) \in Seq(Bytes) /\ Len(Slice(d, 0, Len(d))) = Len(d) - 0
        /\ \A x \in 1 .. Len(d) - 0 : Slice(d, 0, Len(d))[x] = d[0 + x]
    <3>1. 0 \in Nat /\ 0 <= Len(d) /\ Len(d) <= Len(d)
      BY <1>0
    <3> QED
      BY <1>0, <3>1, SliceIs
  <2> QED
    BY <2>1, <2>2
<1>2. Slice(d, 0, Len(d)) = d
  BY <1>1, SeqEqual
<1>3. ASSUME NEW s \in 0 .. Len(d) PROVE Slice(d, s, s) = << >>
  <2>1. Slice(d, s, s) \in Seq(Bytes) /\ Len(Slice(d, s, s)) = s - s /\ s - s = 0
    BY <1>0, SliceIs
  <2> QED
    BY <2>1, EmptySeq
<1> QED
  BY <1>2, <1>3

\* FlattenSeq is the loop it describes.
LEMMA FlattenLoop ==
    ASSUME NEW seqs, Len(seqs) \in Nat \ {0}
    PROVE  \E f : /\ FlattenSeq(seqs) = f[Len(seqs)]
                  /\ f[1] = seqs[1]
                  /\ \A i \in 2 .. Len(seqs) : f[i] = f[i - 1] \o seqs[i]
<1> DEFINE total == Len(seqs)
           joined(a, i) == a \o seqs[i]
           IsLoop(g, n) == g = [i \in 1 .. n |-> IF i = 1 THEN seqs[i] ELSE joined(g[i - 1], i)]
           P == {n \in Nat : \E g : IsLoop(g, n)}
<1>1. IsLoop([i \in 1 .. 0 |-> 0], 0)
  OBVIOUS
<1> HIDE DEF joined
<1>2. ASSUME NEW n \in 0 .. total, n # total, n \in P PROVE n + 1 \in P
  <2>1. PICK g : IsLoop(g, n)
    BY <1>2
  <2> DEFINE h == [i \in 1 .. n + 1 |-> IF i = 1 THEN seqs[i] ELSE joined(g[i - 1], i)]
  <2>2. \A i \in 1 .. n : h[i] = g[i]
    BY <2>1
  <2>3. \A i \in 1 .. n + 1 : i # 1 => i - 1 \in 1 .. n
    OBVIOUS
  <2>4. h = [i \in 1 .. n + 1 |-> IF i = 1 THEN seqs[i] ELSE joined(h[i - 1], i)]
    BY <2>2, <2>3
  <2> HIDE DEF h
  <2>5. n + 1 \in Nat /\ IsLoop(h, n + 1)
    BY <2>4
  <2> QED
    BY <2>5
<1>3. 0 \in P
  BY <1>1
<1>4. \A n \in 0 .. total : n # total /\ n \in P => n + 1 \in P
  BY <1>2
<1>5. total \in P
  <2>1. total \in Nat
    OBVIOUS
  <2> HIDE DEF P, total
  <2>2. \A n \in 0 .. total : n \in P
    BY <1>3, <1>4, <2>1, Turnwise
  <2> QED
    BY <2>1, <2>2
<1> DEFINE f == CHOOSE g : IsLoop(g, total)
<1>6. FlattenSeq(seqs) = f[total]
  BY DEF FlattenSeq, joined
<1>7. \E g : IsLoop(g, total)
  BY <1>5
<1>8. IsLoop(f, total)
  <2> HIDE DEF IsLoop
  <2> QED
    BY <1>7
<1> HIDE DEF f
<1>9. \A i \in 1 .. total : f[i] = IF i = 1 THEN seqs[i] ELSE joined(f[i - 1], i)
  BY <1>8
<1>10. 1 \in 1 .. total /\ \A i \in 2 .. total : i \in 1 .. total /\ i # 1
  OBVIOUS
<1>11. f[1] = seqs[1] /\ \A i \in 2 .. total : f[i] = joined(f[i - 1], i)
  BY <1>9, <1>10
<1> QED
  BY <1>6, <1>11 DEF joined

\* The chunks one after the other are the payload.
LEMMA ChunksFlatten ==
    ASSUME NEW m, NEW d \in Seq(Bytes), ManifestOK(m), Cut(m, d)
    PROVE  FlattenSeq([i \in DOMAIN m.entries |-> m.entries[i].chunk]) = d
<1> DEFINE n == Len(m.entries)
           seqs == [i \in DOMAIN m.entries |-> m.entries[i].chunk]
<1>1. Tiled(m, d)
  BY EntriesTile
<1>2. /\ n \in Nat /\ DOMAIN m.entries = 1 .. n
      /\ \A i \in 1 .. n : m.entries[i].chunk \in Seq(Bytes)
  BY EntriesAre
<1>3. seqs \in [1 .. n -> Seq(Bytes)] /\ \A i \in 1 .. n : seqs[i] = m.entries[i].chunk
  BY <1>2
<1> HIDE DEF seqs, n
<1>4. seqs \in Seq(Seq(Bytes))
  BY <1>2, <1>3, SeqDef
<1>5. Len(seqs) = n
  BY <1>2, <1>3, <1>4, LenProperties
<1>6. CASE n = 0
  <2>1. FlattenSeq(seqs) = seqs
    BY <1>5, <1>6 DEF FlattenSeq
  <2>2. seqs = << >> /\ d = << >>
    BY <1>1, <1>4, <1>5, <1>6, EmptySeq DEF Tiled, n
  <2> QED
    BY <2>1, <2>2 DEF seqs
<1>7. CASE n # 0
  <2>1. PICK f : /\ FlattenSeq(seqs) = f[n]
                 /\ f[1] = seqs[1]
                 /\ \A i \in 2 .. n : f[i] = f[i - 1] \o seqs[i]
    BY <1>2, <1>5, <1>7, FlattenLoop
  <2> DEFINE P == {k \in 0 .. n : k # 0 => f[k] = Slice(d, 0, EndOf(m, k))}
  <2>2. 0 \in P
    BY <1>2
  <2>3. ASSUME NEW k \in 0 .. n, k # n, k \in P PROVE k + 1 \in P
    <3>1. k + 1 \in 1 .. n /\ k + 1 \in 0 .. n /\ (k + 1) - 1 = k
      BY <1>2, <2>3
    <3>2. seqs[k + 1] = Slice(d, StartsOf(m)[k + 1], EndOf(m, k + 1))
      BY <1>1, <1>3, <3>1 DEF Tiled, n
    <3>3. CASE k = 0
      <4>1. StartsOf(m)[1] = 0
        BY <1>1, <1>7 DEF Tiled, n
      <4> QED
        BY <2>1, <3>1, <3>2, <3>3, <4>1
    <3>4. CASE k # 0
      <4>1. k \in 1 .. n /\ k + 1 \in 2 .. n /\ f[k] = Slice(d, 0, EndOf(m, k))
        BY <1>2, <2>3, <3>4
      <4>2. f[k + 1] = f[k] \o seqs[k + 1]
        BY <2>1, <3>1, <4>1
      <4>3. /\ StartsOf(m)[k + 1] = EndOf(m, k) /\ EndOf(m, k) \in Nat
            /\ EndOf(m, k + 1) \in Nat /\ StartsOf(m)[k + 1] < EndOf(m, k + 1)
            /\ EndOf(m, k + 1) <= Len(d)
        BY <1>1, <2>3, <3>1, <4>1 DEF Tiled, n
      <4>4. Slice(d, 0, EndOf(m, k)) \o Slice(d, EndOf(m, k), EndOf(m, k + 1))
                = Slice(d, 0, EndOf(m, k + 1))
        <5> DEFINE a == EndOf(m, k)
                   b == EndOf(m, k + 1)
        <5>1. a \in Nat /\ b \in Nat /\ 0 <= a /\ a <= b /\ b <= Len(d)
          BY <4>3
        <5> HIDE DEF a, b
        <5>2. Slice(d, 0, a) \o Slice(d, a, b) = Slice(d, 0, b)
          BY <5>1, SlicesJoin
        <5> QED
          BY <5>2 DEF a, b
      <4> QED
        BY <3>1, <3>2, <4>1, <4>2, <4>3, <4>4
    <3> QED
      BY <3>3, <3>4
  <2>4. \A k \in 0 .. n : k \in P
    <3> HIDE DEF P
    <3> QED
      BY <1>2, <2>2, <2>3, Turnwise
  <2>5. f[n] = Slice(d, 0, EndOf(m, n))
    BY <1>2, <1>7, <2>4
  <2>6. EndOf(m, n) = Len(d)
    BY <1>1, <1>7 DEF Tiled, n
  <2>7. FlattenSeq(seqs) = d
    BY <2>1, <2>5, <2>6, SliceWhole
  <2> QED
    BY <2>7 DEF seqs
<1> QED
  BY <1>6, <1>7

\* Every reachable manifest tiles its payload within the entry cap, and its packs
\* keep to pack_target, for any sizes.
THEOREM TransportTypes == Spec => []TransportTypeOK
<1>1. TransportInv => TransportTypeOK
  <2> SUFFICES ASSUME TransportInv PROVE TransportTypeOK
    OBVIOUS
  <2>1. generation \in 0 .. MaxGeneration /\ data \in Payloads /\ data \in Seq(Bytes)
        /\ ManifestOK(manifest)
    BY PayloadsAre DEF TransportInv
  <2>2. ASSUME IsChunked(manifest)
        PROVE  /\ FlattenSeq([i \in DOMAIN manifest.entries |-> manifest.entries[i].chunk]) = data
               /\ Len(manifest.entries) <= MaxEntries
    <3>1. Cut(manifest, data)
      BY <2>2 DEF TransportInv
    <3>2. Tiled(manifest, data)
      BY <2>1, <3>1, EntriesTile
    <3> QED
      BY <2>1, <3>1, <3>2, ChunksFlatten DEF Tiled
  <2>3. ASSUME NEW p \in PackKeys(manifest)
        PROVE  Len(p) <= IF PackTarget < manifest.size THEN manifest.size ELSE PackTarget
    <3>1. PICK i \in 1 .. Len(manifest.entries) : p = manifest.entries[i].pack
      BY <2>1, EntriesAre DEF PackKeys
    <3> QED
      BY <2>1, <3>1 DEF ManifestOK, Placed, Limit
  <2> QED
    BY <2>1, <2>2, <2>3 DEF TransportTypeOK
<1> QED
  BY TransportInvariant, <1>1, PTL

---------------------------------------------------------------------------
(* reconstruct: its windows *)

\* Every entry has one first use of its pack, at or before it.
LEMMA FirstUsesAre ==
    ASSUME NEW m, ManifestOK(m)
    PROVE  /\ FirstUses(m) \subseteq 1 .. Len(m.entries)
           /\ IsFiniteSet(FirstUses(m)) /\ Cardinality(FirstUses(m)) \in Nat
           /\ \A i \in 1 .. Len(m.entries) :
                 /\ FirstUse(m, i) \in FirstUses(m) /\ FirstUse(m, i) <= i
                 /\ m.entries[FirstUse(m, i)].pack = m.entries[i].pack
           /\ \A i \in FirstUses(m) : FirstUse(m, i) = i
<1> DEFINE n == Len(m.entries)
           F == FirstUses(m)
           pack(i) == m.entries[i].pack
<1>1. n \in Nat /\ DOMAIN m.entries = 1 .. n
  BY EntriesAre
<1> HIDE DEF n
<1>2. F = {i \in 1 .. n : \A j \in 1 .. i - 1 : pack(j) # pack(i)}
  BY <1>1 DEF FirstUses
<1> HIDE DEF F, pack
<1>3. F \subseteq 1 .. n /\ IsFiniteSet(F) /\ Cardinality(F) \in Nat
  <2>1. F \subseteq 1 .. n
    BY <1>2
  <2>2. IsFiniteSet(1 .. n)
    BY <1>1, FS_Interval
  <2> QED
    BY <2>1, <2>2, FS_Subset, FS_CardinalityType
<1>4. ASSUME NEW i \in 1 .. n PROVE \E j \in F : pack(j) = pack(i) /\ j <= i
  <2> DEFINE T == {j \in 1 .. n : pack(j) = pack(i)}
  <2>1. T \subseteq Nat /\ i \in T
    BY <1>1
  <2>2. PICK j \in T : \A k \in Nat : k < j => k \notin T
    <3> HIDE DEF T
    <3> QED
      BY <2>1, Least
  <2>3. j \in 1 .. n /\ pack(j) = pack(i) /\ \A k \in 1 .. j - 1 : pack(k) # pack(j)
    <3>1. j \in 1 .. n /\ pack(j) = pack(i)
      OBVIOUS
    <3>2. ASSUME NEW k \in 1 .. j - 1 PROVE pack(k) # pack(j)
      <4>1. k \in Nat /\ k < j /\ k \in 1 .. n
        BY <1>1, <3>1
      <4> QED
        BY <2>2, <3>1, <4>1
    <3> QED
      BY <3>1, <3>2
  <2>4. j <= i
    <3>1. ~(i < j)
      BY <2>1, <2>2
    <3> QED
      BY <1>1, <2>3, <3>1
  <2> QED
    BY <1>2, <2>3, <2>4
<1>5. ASSUME NEW j \in F, NEW k \in F, pack(j) = pack(k) PROVE j = k
  <2>1. j \in 1 .. n /\ k \in 1 .. n
    BY <1>3
  <2>2. ~(j < k)
    <3> SUFFICES ASSUME j < k PROVE FALSE
      OBVIOUS
    <3>1. j \in 1 .. k - 1
      BY <1>1, <2>1
    <3> QED
      BY <1>2, <1>5, <3>1
  <2>3. ~(k < j)
    <3> SUFFICES ASSUME k < j PROVE FALSE
      OBVIOUS
    <3>1. k \in 1 .. j - 1
      BY <1>1, <2>1
    <3> QED
      BY <1>2, <1>5, <3>1
  <2> QED
    BY <1>1, <2>1, <2>2, <2>3
<1>6. ASSUME NEW i \in 1 .. n
      PROVE  FirstUse(m, i) \in F /\ FirstUse(m, i) <= i /\ pack(FirstUse(m, i)) = pack(i)
  <2>1. FirstUse(m, i) = CHOOSE j \in F : pack(j) = pack(i)
    BY DEF FirstUse, F, pack
  <2>2. PICK j \in F : pack(j) = pack(i) /\ j <= i
    BY <1>4
  <2>3. FirstUse(m, i) \in F /\ pack(FirstUse(m, i)) = pack(i)
    BY <2>1, <2>2
  <2> QED
    BY <1>5, <2>2, <2>3
<1>7. \A i \in F : FirstUse(m, i) = i
  BY <1>3, <1>5, <1>6
<1> QED
  BY <1>3, <1>6, <1>7 DEF F, pack, n

\* Every entry has a window, and packs used first earlier have no later window.
LEMMA WindowsAre ==
    ASSUME NEW m, ManifestOK(m)
    PROVE  /\ Windows(m) \in Nat /\ Turns(m) \in Nat
           /\ Len(m.entries) = 0 => Windows(m) = 0
           /\ \A i \in 1 .. Len(m.entries) : WindowOf(m, i) \in 1 .. Windows(m)
           /\ \A i, j \in 1 .. Len(m.entries) :
                 FirstUse(m, i) <= FirstUse(m, j) => WindowOf(m, i) <= WindowOf(m, j)
<1> DEFINE n == Len(m.entries)
           F == FirstUses(m)
           c == Cardinality(F)
           w == WindowPacks
           before(i) == {j \in F : j < FirstUse(m, i)}
<1>1. n \in Nat /\ DOMAIN m.entries = 1 .. n
  BY EntriesAre
<1>2. /\ F \subseteq 1 .. n /\ IsFiniteSet(F) /\ c \in Nat
      /\ \A i \in 1 .. n : FirstUse(m, i) \in F
  BY FirstUsesAre
<1>ints. /\ \A k \in F : k \in Int
      /\ \A i \in 1 .. n : FirstUse(m, i) \in Int
  <2>1. \A k \in 1 .. n : k \in Int
    BY <1>1
  <2> QED
    BY <1>2, <2>1
<1>3. w \in Nat \ {0} /\ c + w - 1 \in Nat
  <2>1. w \in Nat \ {0}
    BY TransportAssumption
  <2> HIDE DEF c, w
  <2> QED
    BY <1>2, <2>1
<1> HIDE DEF n, F, c, w
<1>4. Windows(m) = (c + w - 1) \div w
  BY DEF Windows, c, w, F
<1>5. Windows(m) \in Nat /\ c + w - 1 < Windows(m) * w + w /\ Windows(m) * w <= c + w - 1
  BY <1>3, <1>4, Division
<1>6. \A i \in 1 .. n : /\ IsFiniteSet(before(i)) /\ PositionOf(m, i) = Cardinality(before(i))
                        /\ PositionOf(m, i) \in Nat /\ PositionOf(m, i) < c
                        /\ WindowOf(m, i) = PositionOf(m, i) \div w + 1
  <2> TAKE i \in 1 .. n
  <2>1. before(i) \in SUBSET F /\ FirstUse(m, i) \notin before(i) /\ before(i) # F
    <3>1. FirstUse(m, i) \in F /\ FirstUse(m, i) \in Int
      BY <1>ints, <1>2
    <3> QED
      BY <3>1
  <2>2. PositionOf(m, i) = Cardinality(before(i)) /\ WindowOf(m, i) = PositionOf(m, i) \div w + 1
    BY DEF PositionOf, WindowOf, F, w
  <2> HIDE DEF before
  <2>3. IsFiniteSet(before(i)) /\ Cardinality(before(i)) <= c /\ Cardinality(before(i)) # c
    BY <1>2, <2>1, FS_Subset DEF c
  <2>4. Cardinality(before(i)) \in Nat
    BY <2>3, FS_CardinalityType
  <2> QED
    BY <1>2, <2>2, <2>3, <2>4
<1>7. ASSUME NEW i \in 1 .. n PROVE WindowOf(m, i) \in 1 .. Windows(m)
  <2> DEFINE p == PositionOf(m, i)
             q == p \div w
  <2>1. p \in Nat /\ p < c /\ WindowOf(m, i) = q + 1
    BY <1>6
  <2> HIDE DEF p
  <2>2. q \in Nat /\ q * w <= p
    BY <1>3, <2>1, Division
  <2> HIDE DEF q
  <2>3. q * w \in Nat /\ Windows(m) * w \in Nat
    BY <1>3, <1>5, <2>2
  <2>4. q * w < Windows(m) * w
    BY <1>2, <1>3, <1>5, <2>1, <2>2, <2>3
  <2>5. q < Windows(m)
    BY <1>3, <1>5, <2>2, <2>4, TimesGrows
  <2> QED
    BY <1>5, <2>1, <2>2, <2>5
<1>8. ASSUME NEW i \in 1 .. n, NEW j \in 1 .. n, FirstUse(m, i) <= FirstUse(m, j)
      PROVE  WindowOf(m, i) <= WindowOf(m, j)
  <2> DEFINE p == PositionOf(m, i)
             r == PositionOf(m, j)
  <2>1. before(i) \in SUBSET before(j)
    <3>1. FirstUse(m, i) \in Int /\ FirstUse(m, j) \in Int /\ \A k \in F : k \in Int
      BY <1>ints
    <3> QED
      BY <1>8, <3>1
  <2>2. p \in Nat /\ r \in Nat /\ p <= r
    <3> HIDE DEF before
    <3>1. IsFiniteSet(before(j)) /\ p = Cardinality(before(i)) /\ r = Cardinality(before(j))
          /\ p \in Nat /\ r \in Nat
      BY <1>6
    <3>2. Cardinality(before(i)) <= Cardinality(before(j))
      BY <2>1, <3>1, FS_Subset
    <3> QED
      BY <3>1, <3>2
  <2>3. WindowOf(m, i) = p \div w + 1 /\ WindowOf(m, j) = r \div w + 1
    BY <1>6
  <2> HIDE DEF p, r
  <2> DEFINE a == p \div w
             b == r \div w
  <2>4. a \in Nat /\ b \in Nat /\ a * w <= p /\ r < b * w + w
    BY <1>3, <2>2, Division
  <2> HIDE DEF a, b
  <2>5. b < a => b * w + w <= a * w
    BY <1>3, <2>4, TimesGrows
  <2>6. a * w \in Nat /\ b * w + w \in Nat
    BY <1>3, <2>4
  <2>7. ~(b < a)
    BY <2>2, <2>4, <2>5, <2>6
  <2> QED
    BY <2>3, <2>4, <2>7 DEF a, b
<1>9. ASSUME n = 0 PROVE Windows(m) = 0
  <2>1. F = {}
    BY <1>2, <1>9
  <2>2. c = 0
    BY <2>1, FS_EmptySet DEF c
  <2>3. Windows(m) * w <= w - 1 /\ Windows(m) * w \in Nat
    BY <1>3, <1>5, <2>2
  <2>4. Windows(m) # 0 => w <= Windows(m) * w
    BY <1>3, <1>5, TimesGrows
  <2> QED
    BY <1>3, <1>5, <2>3, <2>4
<1> QED
  BY <1>1, <1>5, <1>7, <1>8, <1>9 DEF Turns, n

---------------------------------------------------------------------------
(* reconstruct: its turns *)

\* Writing is the loop it describes.
LEMMA WritingLoop ==
    ASSUME NEW m, Turns(m) \in Nat
    PROVE  LET turn == Writing(m)
           IN /\ turn[0] = [window |-> 1, next |-> 1, backRef |-> << >>,
                            read |-> Return(<< >>), gets |-> 0]
              /\ \A t \in 1 .. Turns(m) : turn[t] = Turn(m, turn[t - 1])
<1> DEFINE total == Turns(m)
           first == [window |-> 1, next |-> 1, backRef |-> << >>,
                     read |-> Return(<< >>), gets |-> 0]
           IsLoop(g, n) == g = [t \in 0 .. n |-> IF t = 0 THEN first ELSE Turn(m, g[t - 1])]
           P == {n \in Nat : \E g : IsLoop(g, n)}
<1> HIDE DEF first
<1>1. IsLoop([t \in 0 .. 0 |-> first], 0)
  OBVIOUS
<1>2. ASSUME NEW n \in 0 .. total, n # total, n \in P PROVE n + 1 \in P
  <2>1. PICK g : IsLoop(g, n)
    BY <1>2
  <2> DEFINE h == [t \in 0 .. n + 1 |-> IF t = 0 THEN first ELSE Turn(m, g[t - 1])]
  <2>2. \A t \in 0 .. n : h[t] = g[t]
    BY <2>1
  <2>3. \A t \in 0 .. n + 1 : t # 0 => t - 1 \in 0 .. n
    OBVIOUS
  <2>4. h = [t \in 0 .. n + 1 |-> IF t = 0 THEN first ELSE Turn(m, h[t - 1])]
    BY <2>2, <2>3
  <2> HIDE DEF h
  <2>5. n + 1 \in Nat /\ IsLoop(h, n + 1)
    BY <2>4
  <2> QED
    BY <2>5
<1>3. 0 \in P
  BY <1>1
<1>4. \A n \in 0 .. total : n # total /\ n \in P => n + 1 \in P
  BY <1>2
<1>5. total \in P
  <2>1. total \in Nat
    OBVIOUS
  <2> HIDE DEF P, total
  <2>2. \A n \in 0 .. total : n \in P
    BY <1>3, <1>4, <2>1, Turnwise
  <2> QED
    BY <2>1, <2>2
<1>6. Writing(m) = CHOOSE g : IsLoop(g, total)
  BY DEF Writing, first
<1>7. \E g : IsLoop(g, total)
  BY <1>5
<1>8. IsLoop(Writing(m), total)
  <2> HIDE DEF IsLoop
  <2> QED
    BY <1>6, <1>7
<1> DEFINE turn == Writing(m)
<1> HIDE DEF turn
<1>9. \A t \in 0 .. total : turn[t] = IF t = 0 THEN first ELSE Turn(m, turn[t - 1])
  BY <1>8 DEF turn
<1>10. 0 \in 0 .. total /\ \A t \in 1 .. total : t \in 0 .. total /\ t # 0
  OBVIOUS
<1>11. turn[0] = first /\ \A t \in 1 .. total : turn[t] = Turn(m, turn[t - 1])
  BY <1>9, <1>10
<1> QED
  BY <1>11 DEF first, turn

\* What a read returns.
Results == [ok : BOOLEAN, bytes : Seq(Bytes)]

\* The states of write_windows' loops.
Marks == [window : Nat, next : Nat, backRef : Seq(Bytes), read : Results, gets : Nat]

\* The loops' counters after t turns: every turn has ended a window or written an
\* entry; an entry that is written in its pack's window, or before, is there in time.
Progress(m, s, t) ==
    /\ s \in Marks
    /\ s.window \in 1 .. Windows(m) + 1
    /\ s.next \in 1 .. Len(m.entries) + 1
    /\ s.window <= Windows(m) => s.window + s.next = t + 2
    /\ s.window > Windows(m) => s.next = Len(m.entries) + 1
    /\ \A i \in FirstUses(m) : s.next <= i => s.window <= WindowOf(m, i)

\* The two things that a turn does while there are windows.
EndsWindow(m, s, u) ==
    /\ s.next > Len(m.entries) \/ WindowOf(m, s.next) > s.window
    /\ u.window = s.window + 1
    /\ u.next = s.next
    /\ u.backRef = s.backRef
    /\ u.read = s.read
    /\ u.gets = s.gets + Cardinality(PacksIn(m, s.window))

\* The next entry is in a pack of an earlier window.
Late(m, s) == WindowOf(m, s.next) < s.window

\* The turn writes an entry.
WritesEntry(m, s, u) ==
    LET e == m.entries[s.next]
        body == FetchPack(e.pack)
        piece == Slice(body.bytes, e.offset, e.offset + Length(e))
    IN /\ s.next \in 1 .. Len(m.entries)
       /\ WindowOf(m, s.next) <= s.window
       /\ u.window = s.window
       /\ u.next = s.next + 1
       /\ u.backRef = IF Late(m, s) THEN e.pack ELSE s.backRef
       /\ u.read = IF body.ok /\ Len(piece) = Length(e) THEN Then(s.read, Return(piece))
                   ELSE Raise
       /\ u.gets = s.gets + IF Late(m, s) /\ NotMemoised(e, s.backRef) THEN 1 ELSE 0

\* A GET of a whole pack returns it or raises.
LEMMA FetchedIs ==
    ASSUME NEW key \in Seq(Bytes)
    PROVE  FetchPack(key) \in Results /\ FetchPack(key) \in {Return(key), Raise}
<1>1. << >> \in Seq(Bytes)
  BY EmptySeq
<1> QED
  BY <1>1 DEF FetchPack, Results, Return, Raise

\* A turn ends a window, writes an entry, or finds everything written.
LEMMA TurnIs ==
    ASSUME NEW m, ManifestOK(m), NEW s, NEW t \in Nat, Progress(m, s, t)
    PROVE  LET u == Turn(m, s)
           IN /\ u \in Marks
              /\ \/ s.window > Windows(m) /\ u = s
                 \/ s.window <= Windows(m) /\ EndsWindow(m, s, u)
                 \/ s.window <= Windows(m) /\ WritesEntry(m, s, u)
<1> DEFINE u == Turn(m, s)
           n == Len(m.entries)
           w == WindowOf(m, s.next)
           e == m.entries[s.next]
           body == FetchPack(e.pack)
           piece == Slice(body.bytes, e.offset, e.offset + Length(e))
<1>1. /\ n \in Nat /\ Windows(m) \in Nat /\ s.window \in Nat /\ s.next \in Nat
      /\ s.next \in 1 .. n + 1 /\ s \in Marks
  BY EntriesAre, WindowsAre DEF Progress, Marks
<1>2. CASE s.window > Windows(m)
  BY <1>1, <1>2 DEF Turn
<1>3. CASE s.window <= Windows(m) /\ (s.next > n \/ w > s.window)
  <2>1. u = [s EXCEPT !.window = @ + 1, !.gets = @ + Cardinality(PacksIn(m, s.window))]
    BY <1>1, <1>3 DEF Turn
  <2>2. Cardinality(PacksIn(m, s.window)) \in Nat
    <3>1. PacksIn(m, s.window) \in SUBSET FirstUses(m)
      BY DEF PacksIn
    <3> QED
      BY <3>1, FirstUsesAre, FS_Subset, FS_CardinalityType
  <2> DEFINE more == Cardinality(PacksIn(m, s.window))
  <2> HIDE DEF u, more
  <2>3. /\ u \in Marks
        /\ u.window = s.window + 1 /\ u.next = s.next /\ u.backRef = s.backRef
        /\ u.read = s.read /\ u.gets = s.gets + more
    <3>1. u = [s EXCEPT !.window = @ + 1, !.gets = @ + more] /\ more \in Nat
      BY <2>1, <2>2 DEF more
    <3>2. /\ s.gets \in Nat /\ s.window \in Nat /\ s.next \in Nat /\ s.backRef \in Seq(Bytes)
          /\ s.read \in Results
      BY <1>1 DEF Marks
    <3>3. u = [window |-> s.window + 1, next |-> s.next, backRef |-> s.backRef,
               read |-> s.read, gets |-> s.gets + more]
      BY <1>1, <3>1 DEF Marks
    <3>4. s.gets + more \in Nat /\ s.window + 1 \in Nat
      BY <3>1, <3>2
    <3> QED
      BY <3>2, <3>3, <3>4 DEF Marks
  <2>4. EndsWindow(m, s, u)
    BY <1>3, <2>3 DEF EndsWindow, more
  <2> QED
    BY <1>3, <2>3, <2>4 DEF u
<1>4. CASE s.window <= Windows(m) /\ ~(s.next > n \/ w > s.window)
  <2>1. s.next \in 1 .. n
    BY <1>1, <1>4
  <2>2. w \in Nat /\ w <= s.window
    <3>1. w \in 1 .. Windows(m)
      BY <2>1, WindowsAre
    <3> QED
      BY <1>1, <1>4, <3>1
  <2>3. e.pack \in Seq(Bytes) /\ e.offset \in Nat /\ Length(e) \in Nat
    BY <2>1, EntriesAre
  <2>4. body \in Results
    BY <2>3, FetchedIs
  <2> DEFINE late == w < s.window
             fetched == late /\ NotMemoised(e, s.backRef)
             read == IF body.ok /\ Len(piece) = Length(e) THEN Then(s.read, Return(piece))
                     ELSE Raise
  <2>5. u = [window |-> s.window, next |-> s.next + 1,
             backRef |-> IF late THEN e.pack ELSE s.backRef,
             read |-> read,
             gets |-> s.gets + IF fetched THEN 1 ELSE 0]
    BY <1>1, <1>4 DEF Turn
  <2>6. piece \in Seq(Bytes)
    <3> DEFINE from == e.offset
               to == e.offset + Length(e)
    <3>1. from \in Nat /\ to \in Nat /\ body.bytes \in Seq(Bytes)
      BY <2>3, <2>4 DEF Results
    <3> HIDE DEF from, to, body
    <3> QED
      BY <3>1, SliceIsBytes DEF from, to
  <2>7. read \in Results
    <3> HIDE DEF piece, body, e
    <3>1. Raise \in Results
      BY EmptySeq DEF Raise, Results
    <3>2. s.read.bytes \in Seq(Bytes)
      BY <1>1 DEF Marks, Results
    <3>3. s.read.bytes \o piece \in Seq(Bytes)
      BY <2>6, <3>2, ThenIs
    <3>4. Then(s.read, Return(piece)) \in Results
      BY <3>1, <3>3 DEF Then, Return, Results
    <3> QED
      BY <3>1, <3>4
  <2> HIDE DEF u, read, late, fetched
  <2>8. u \in Marks
    <3>1. /\ s.window \in Nat /\ s.next + 1 \in Nat /\ s.backRef \in Seq(Bytes)
          /\ s.gets \in Nat
      BY <1>1 DEF Marks
    <3>2. s.gets + (IF fetched THEN 1 ELSE 0) \in Nat
      BY <3>1
    <3>3. (IF late THEN e.pack ELSE s.backRef) \in Seq(Bytes)
      BY <2>3, <3>1
    <3> HIDE DEF e, w, n, body, piece
    <3> QED
      BY <2>5, <2>7, <3>1, <3>2, <3>3 DEF Marks
  <2>9. WritesEntry(m, s, u)
    BY <2>1, <2>2, <2>5 DEF WritesEntry, Late, read, late, fetched
  <2> QED
    BY <1>4, <2>8, <2>9 DEF u
<1> QED
  BY <1>1, <1>2, <1>3, <1>4

\* A turn makes progress.
LEMMA TurnProgresses ==
    ASSUME NEW m, ManifestOK(m), NEW s, NEW t \in Nat, Progress(m, s, t)
    PROVE  Progress(m, Turn(m, s), t + 1)
<1> DEFINE u == Turn(m, s)
           n == Len(m.entries)
           ws == Windows(m)
<1>1. /\ n \in Nat /\ ws \in Nat
      /\ s.window \in 1 .. ws + 1 /\ s.next \in 1 .. n + 1
      /\ s.window \in Nat /\ s.next \in Nat
      /\ FirstUses(m) \subseteq 1 .. n
  <2>1. n \in Nat /\ ws \in Nat /\ FirstUses(m) \subseteq 1 .. n
    BY EntriesAre, WindowsAre, FirstUsesAre
  <2>2. s.window \in 1 .. ws + 1 /\ s.next \in 1 .. n + 1
    BY DEF Progress
  <2> QED
    BY <2>1, <2>2
<1>2. /\ s.window <= ws => s.window + s.next = t + 2
      /\ s.window > ws => s.next = n + 1
      /\ \A i \in FirstUses(m) : s.next <= i => s.window <= WindowOf(m, i)
  BY DEF Progress
<1>3. /\ u \in Marks
      /\ \/ s.window > ws /\ u = s
         \/ s.window <= ws /\ EndsWindow(m, s, u)
         \/ s.window <= ws /\ WritesEntry(m, s, u)
  BY TurnIs
<1> SUFFICES Progress(m, u, t + 1)
  OBVIOUS
<1> HIDE DEF u
<1>4. CASE s.window > ws /\ u = s
  <2>1. ~(s.window <= ws)
    BY <1>1, <1>4
  <2> QED
    BY <1>1, <1>2, <1>3, <1>4, <2>1 DEF Progress
<1>5. CASE s.window <= ws /\ EndsWindow(m, s, u)
  <2>1. u.window = s.window + 1 /\ u.next = s.next /\ (s.next > n \/ WindowOf(m, s.next) > s.window)
    BY <1>5 DEF EndsWindow
  <2>2. \A i \in 1 .. n : WindowOf(m, i) \in 1 .. ws
    BY WindowsAre
  <2>3. s.next <= n => s.next \in 1 .. n /\ WindowOf(m, s.next) > s.window
    BY <1>1, <2>1
  <2>4. u.window <= ws => u.window + u.next = (t + 1) + 2
    BY <1>1, <1>2, <1>5, <2>1
  <2>5. u.window > ws => u.next = n + 1
    <3>1. ASSUME u.window > ws, s.next <= n PROVE FALSE
      <4>1. s.window = ws /\ WindowOf(m, s.next) > ws
        BY <1>1, <1>5, <2>1, <2>3, <3>1
      <4>2. WindowOf(m, s.next) \in 1 .. ws
        BY <2>2, <2>3, <3>1
      <4> QED
        BY <1>1, <4>1, <4>2
    <3> QED
      BY <1>1, <2>1, <3>1
  <2>6. ASSUME NEW i \in FirstUses(m), u.next <= i PROVE u.window <= WindowOf(m, i)
    <3>1. i \in 1 .. n /\ s.next <= n /\ s.next <= i
      BY <1>1, <2>1, <2>6
    <3>2. s.next \in 1 .. n /\ WindowOf(m, s.next) > s.window
      BY <2>3, <3>1
    <3>3. FirstUse(m, s.next) <= s.next /\ FirstUse(m, s.next) \in 1 .. n /\ FirstUse(m, i) = i
      BY <1>1, <2>6, <3>2, FirstUsesAre
    <3>4. FirstUse(m, s.next) <= FirstUse(m, i)
      BY <1>1, <3>1, <3>3
    <3>5. WindowOf(m, s.next) <= WindowOf(m, i)
      BY <3>1, <3>2, <3>4, WindowsAre
    <3>6. WindowOf(m, s.next) \in Nat /\ WindowOf(m, i) \in Nat
      BY <2>2, <3>1, <3>2
    <3> QED
      BY <1>1, <2>1, <3>2, <3>5, <3>6
  <2>7. u.window \in 1 .. ws + 1
    BY <1>1, <1>5, <2>1
  <2> QED
    BY <1>1, <1>3, <2>1, <2>4, <2>5, <2>6, <2>7 DEF Progress
<1>6. CASE s.window <= ws /\ WritesEntry(m, s, u)
  <2>1. u.window = s.window /\ u.next = s.next + 1 /\ s.next \in 1 .. n
    BY <1>6 DEF WritesEntry
  <2>2. u.next \in 1 .. n + 1 /\ u.window \in 1 .. ws + 1 /\ ~(u.window > ws)
    BY <1>1, <1>6, <2>1
  <2>3. u.window + u.next = (t + 1) + 2
    <3>1. s.window + s.next = t + 2 /\ s.window \in Nat /\ s.next \in Nat
      BY <1>1, <1>2, <1>6, <2>1
    <3> QED
      BY <2>1, <3>1
  <2>4. ASSUME NEW i \in FirstUses(m), u.next <= i PROVE u.window <= WindowOf(m, i)
    <3>1. i \in Nat /\ s.next <= i
      BY <1>1, <2>1, <2>4
    <3> QED
      BY <1>2, <2>1, <3>1
  <2> QED
    BY <1>3, <1>6, <2>1, <2>2, <2>3, <2>4 DEF Progress
<1> QED
  BY <1>3, <1>4, <1>5, <1>6

\* So does every turn of the loop.
LEMMA WritingProgresses ==
    ASSUME NEW m, ManifestOK(m)
    PROVE  \A t \in 0 .. Turns(m) : Progress(m, Writing(m)[t], t)
<1> DEFINE turn == Writing(m)
           P == {t \in 0 .. Turns(m) : Progress(m, turn[t], t)}
<1>1. Turns(m) \in Nat /\ Windows(m) \in Nat /\ Len(m.entries) \in Nat
      /\ (Len(m.entries) = 0 => Windows(m) = 0)
      /\ \A i \in 1 .. Len(m.entries) : WindowOf(m, i) \in 1 .. Windows(m)
  BY WindowsAre, EntriesAre
<1>2. /\ turn[0] = [window |-> 1, next |-> 1, backRef |-> << >>,
                    read |-> Return(<< >>), gets |-> 0]
      /\ \A t \in 1 .. Turns(m) : turn[t] = Turn(m, turn[t - 1])
  BY <1>1, WritingLoop
<1> HIDE DEF turn
<1>3. 0 \in P
  <2>1. turn[0] \in Marks
    BY <1>2, EmptySeq DEF Marks, Results, Return
  <2>2. turn[0].window = 1 /\ turn[0].next = 1
    BY <1>2
  <2>3. 1 > Windows(m) => Len(m.entries) = 0
    <3>1. SUFFICES ASSUME 1 > Windows(m), Len(m.entries) # 0 PROVE FALSE
      OBVIOUS
    <3>2. 1 \in 1 .. Len(m.entries)
      BY <1>1, <3>1
    <3> QED
      BY <1>1, <3>1, <3>2
  <2>4. \A i \in FirstUses(m) : 1 <= WindowOf(m, i)
    BY <1>1, FirstUsesAre
  <2> QED
    BY <1>1, <2>1, <2>2, <2>3, <2>4 DEF Progress
<1>4. ASSUME NEW t \in 0 .. Turns(m), t # Turns(m), t \in P PROVE t + 1 \in P
  <2>1. t + 1 \in 1 .. Turns(m) /\ t + 1 \in 0 .. Turns(m) /\ (t + 1) - 1 = t /\ t \in Nat
    BY <1>1, <1>4
  <2>2. turn[t + 1] = Turn(m, turn[t]) /\ Progress(m, turn[t], t)
    BY <1>2, <1>4, <2>1
  <2> QED
    BY <2>1, <2>2, TurnProgresses
<1>5. \A t \in 0 .. Turns(m) : t \in P
  <2> HIDE DEF P
  <2> QED
    BY <1>1, <1>3, <1>4, Turnwise
<1> QED
  BY <1>5 DEF turn

\* reconstruct has written every entry when its windows are done.
LEMMA WritingEnds ==
    ASSUME NEW m, ManifestOK(m)
    PROVE  WriteWindows(m).next = Len(m.entries) + 1
<1> DEFINE s == WriteWindows(m)
           n == Len(m.entries)
<1>1. Turns(m) \in Nat /\ Windows(m) \in Nat /\ n \in Nat
  BY WindowsAre, EntriesAre
<1>2. Progress(m, s, Turns(m))
  BY <1>1, WritingProgresses DEF WriteWindows
<1> HIDE DEF s
<1>3. /\ s.window \in 1 .. Windows(m) + 1 /\ s.next \in 1 .. n + 1
      /\ s.window <= Windows(m) => s.window + s.next = Turns(m) + 2
      /\ s.window > Windows(m) => s.next = n + 1
  BY <1>2 DEF Progress
<1>4. Turns(m) = Windows(m) + n
  BY DEF Turns
<1>5. s.next = n + 1
  <2>1. s.window \in Nat /\ s.next \in Nat /\ s.next <= n + 1
    BY <1>1, <1>3
  <2> HIDE DEF n
  <2> QED
    BY <1>1, <1>3, <1>4, <2>1
<1> QED
  BY <1>5 DEF s

---------------------------------------------------------------------------
(* reconstruct: what it writes *)

\* Where the bytes of the first k - 1 entries end.
Before(m, k) == IF k = 1 THEN 0 ELSE EndOf(m, k - 1)

\* The bytes before an entry end where it begins.
LEMMA BeforeIs ==
    ASSUME NEW m, NEW d \in Seq(Bytes), Tiled(m, d)
    PROVE  /\ \A i \in 1 .. Len(m.entries) : /\ Before(m, i) = StartsOf(m)[i]
                                             /\ Before(m, i + 1) = EndOf(m, i)
           /\ Before(m, 1) = 0
           /\ Before(m, Len(m.entries) + 1) = Len(d)
<1> DEFINE n == Len(m.entries)
<1>1. n \in Nat /\ (n = 0 <=> Len(d) = 0) /\ Len(d) \in Nat
  BY LenProperties DEF Tiled
<1>2. ASSUME NEW i \in 1 .. n
      PROVE  Before(m, i) = StartsOf(m)[i] /\ Before(m, i + 1) = EndOf(m, i)
  <2>1. i + 1 # 1 /\ (i + 1) - 1 = i
    BY <1>1
  <2>2. CASE i = 1
    <3>1. StartsOf(m)[1] = 0
      BY <1>1 DEF Tiled
    <3> QED
      BY <2>1, <2>2, <3>1 DEF Before
  <2>3. CASE i # 1
    <3>1. i - 1 \in 1 .. n /\ i - 1 # n /\ (i - 1) + 1 = i
      BY <1>1, <2>3
    <3>2. StartsOf(m)[(i - 1) + 1] = EndOf(m, i - 1)
      BY <3>1 DEF Tiled
    <3> QED
      BY <2>1, <2>3, <3>1, <3>2 DEF Before
  <2> QED
    BY <2>2, <2>3
<1>3. Before(m, n + 1) = Len(d)
  <2>1. CASE n = 0
    BY <1>1, <2>1 DEF Before
  <2>2. CASE n # 0
    <3>1. n \in 1 .. n /\ EndOf(m, n) = Len(d)
      BY <1>1, <2>2 DEF Tiled
    <3> QED
      BY <1>2, <3>1
  <2> QED
    BY <2>1, <2>2
<1> QED
  BY <1>2, <1>3 DEF Before

\* An entry's chunk is cut out of its pack.
LEMMA PieceIs ==
    ASSUME NEW e \in Entries, Lies(e, e.pack)
    PROVE  Slice(e.pack, e.offset, e.offset + Length(e)) = e.chunk
<1> DEFINE o == e.offset
           n == Len(e.chunk)
           piece == Slice(e.pack, o, o + n)
<1>1. /\ e.pack \in Seq(Bytes) /\ e.chunk \in Seq(Bytes)
      /\ o \in Nat /\ n \in Nat /\ o + n <= Len(e.pack) /\ Len(e.pack) \in Nat
      /\ \A x \in 1 .. n : e.pack[o + x] = e.chunk[x]
  BY LenProperties DEF Entries, Lies
<1> DEFINE to == o + n
<1> HIDE DEF o
<1>2. to \in Nat /\ o <= to /\ to <= Len(e.pack) /\ to - o = n
  BY <1>1
<1> HIDE DEF to
<1>3. /\ Slice(e.pack, o, to) \in Seq(Bytes) /\ Len(Slice(e.pack, o, to)) = to - o
      /\ \A x \in 1 .. to - o : Slice(e.pack, o, to)[x] = e.pack[o + x]
  BY <1>1, <1>2, SliceIs
<1>4. Slice(e.pack, o, to) = e.chunk
  <2> DEFINE u == Slice(e.pack, o, to)
             v == e.chunk
  <2>1. /\ u \in Seq(Bytes) /\ v \in Seq(Bytes) /\ Len(u) = Len(v)
        /\ \A x \in 1 .. Len(u) : u[x] = v[x]
    BY <1>1, <1>2, <1>3
  <2> HIDE DEF u, v
  <2>2. u = v
    BY <2>1, SeqEqual
  <2> QED
    BY <2>2 DEF u, v
<1> QED
  BY <1>4 DEF o, to, Length

\* The packs of the first k - 1 entries are all what they should be.
Fetched(m, k) == \A j \in 1 .. k - 1 : FetchPack(m.entries[j].pack) # Raise

\* What has been written is the payload so far, or there was a bad pack.
WrittenOK(m, d, s) ==
    /\ Fetched(m, s.next) => s.read = Return(Slice(d, 0, Before(m, s.next)))
    /\ ~Fetched(m, s.next) => s.read = Raise

\* A turn keeps what was written right.
LEMMA TurnWrites ==
    ASSUME NEW m, ManifestOK(m), NEW d \in Seq(Bytes), Cut(m, d),
           NEW s, NEW t \in Nat, Progress(m, s, t), WrittenOK(m, d, s)
    PROVE  WrittenOK(m, d, Turn(m, s))
<1> DEFINE u == Turn(m, s)
           n == Len(m.entries)
<1>1. Tiled(m, d) /\ n \in Nat
  BY EntriesTile DEF Tiled
<1>2. \/ u = s
      \/ EndsWindow(m, s, u)
      \/ WritesEntry(m, s, u)
  BY TurnIs
<1> SUFFICES WrittenOK(m, d, u)
  OBVIOUS
<1> HIDE DEF u
<1>3. CASE u = s
  BY <1>3
<1>4. CASE EndsWindow(m, s, u)
  <2>1. u.next = s.next /\ u.read = s.read
    BY <1>4 DEF EndsWindow
  <2> QED
    BY <2>1 DEF WrittenOK
<1>5. CASE WritesEntry(m, s, u)
  <2> DEFINE i == s.next
             e == m.entries[i]
             body == FetchPack(e.pack)
             piece == Slice(body.bytes, e.offset, e.offset + Length(e))
  <2>1. /\ i \in 1 .. n /\ u.next = i + 1
        /\ u.read = IF body.ok /\ Len(piece) = Length(e) THEN Then(s.read, Return(piece)) ELSE Raise
    BY <1>5 DEF WritesEntry
  <2>2. e \in Entries /\ Lies(e, e.pack) /\ e.pack \in Seq(Bytes) /\ e.chunk \in Seq(Bytes)
    BY <2>1, EntriesAre DEF ManifestOK, Placed
  <2>3. body = Return(e.pack) \/ body = Raise
    BY <2>2, FetchedIs
  <2>4. (i + 1) - 1 = i /\ \A j \in 1 .. i : j \in 1 .. i - 1 \/ j = i
    BY <1>1, <2>1
  <2> HIDE DEF i, e, body
  <2>5. Fetched(m, i + 1) <=> Fetched(m, i) /\ body # Raise
    <3>1. i \in 1 .. i /\ \A j \in 1 .. i - 1 : j \in 1 .. i
      BY <1>1, <2>1
    <3> QED
      BY <2>4, <3>1 DEF Fetched, body, e
  <2>6. CASE body = Raise
    <3>1. u.read = Raise
      BY <2>1, <2>6 DEF Raise
    <3> QED
      BY <2>1, <2>5, <2>6, <3>1 DEF WrittenOK
  <2>7. CASE body = Return(e.pack)
    <3>1. body.ok /\ body # Raise /\ piece = e.chunk
      BY <2>2, <2>7, PieceIs DEF Return, Raise
    <3> HIDE DEF piece
    <3>2. u.read = Then(s.read, Return(e.chunk))
      BY <2>1, <3>1 DEF Length
    <3>3. CASE ~Fetched(m, i)
      <4>1. s.read = Raise
        BY <3>3 DEF WrittenOK, i
      <4>2. u.read = Raise
        BY <3>2, <4>1 DEF Then, Raise
      <4> QED
        BY <2>1, <2>5, <3>3, <4>2 DEF WrittenOK
    <3>4. CASE Fetched(m, i)
      <4> DEFINE a == StartsOf(m)[i]
                 b == EndOf(m, i)
      <4>1. a \in Nat /\ b \in Nat /\ a < b /\ b <= Len(d) /\ e.chunk = Slice(d, a, b)
        BY <1>1, <2>1 DEF Tiled, e
      <4>2. Before(m, i) = a /\ Before(m, i + 1) = b
        BY <1>1, <2>1, BeforeIs
      <4> HIDE DEF a, b
      <4>3. s.read = Return(Slice(d, 0, a))
        BY <3>4, <4>2 DEF WrittenOK, i
      <4>4. Then(s.read, Return(e.chunk)) = Return(Slice(d, 0, a) \o Slice(d, a, b))
        BY <4>1, <4>3 DEF Then, Return
      <4>5. Slice(d, 0, a) \o Slice(d, a, b) = Slice(d, 0, b)
        BY <4>1, SlicesJoin
      <4> QED
        BY <2>1, <2>5, <3>1, <3>2, <3>4, <4>2, <4>4, <4>5 DEF WrittenOK
    <3> QED
      BY <3>3, <3>4
  <2> QED
    BY <2>3, <2>6, <2>7
<1> QED
  BY <1>2, <1>3, <1>4, <1>5

\* reconstruct returns the payload, or raises if a pack it needs is not what it was.
LEMMA ReconstructReturns ==
    ASSUME NEW m, ManifestOK(m), NEW d \in Seq(Bytes), Cut(m, d)
    PROVE  Reconstruct(m, d) =
              IF \A p \in PackKeys(m) : FetchPack(p) # Raise THEN Return(d) ELSE Raise
<1> DEFINE turn == Writing(m)
           n == Len(m.entries)
           P == {t \in 0 .. Turns(m) : WrittenOK(m, d, turn[t])}
<1>1. Turns(m) \in Nat /\ n \in Nat /\ DOMAIN m.entries = 1 .. n /\ Tiled(m, d)
  BY WindowsAre, EntriesAre, EntriesTile
<1>2. /\ turn[0].next = 1 /\ turn[0].read = Return(<< >>)
      /\ \A t \in 1 .. Turns(m) : turn[t] = Turn(m, turn[t - 1])
      /\ \A t \in 0 .. Turns(m) : Progress(m, turn[t], t)
  <2>1. \A t \in 0 .. Turns(m) : Progress(m, turn[t], t)
    BY WritingProgresses
  <2>2. turn[0] = [window |-> 1, next |-> 1, backRef |-> << >>,
                   read |-> Return(<< >>), gets |-> 0]
        /\ \A t \in 1 .. Turns(m) : turn[t] = Turn(m, turn[t - 1])
    BY <1>1, WritingLoop
  <2> HIDE DEF turn
  <2> QED
    BY <2>1, <2>2
<1>3. WriteWindows(m) = turn[Turns(m)] /\ WriteWindows(m).next = n + 1
  BY WritingEnds DEF WriteWindows
<1> HIDE DEF turn, n
<1>4. 0 \in P
  <2>1. Slice(d, 0, 0) = << >>
    <3>1. 0 \in 0 .. Len(d)
      BY LenProperties
    <3> QED
      BY <3>1, SliceWhole
  <2>2. Before(m, 1) = 0
    BY <1>1, BeforeIs
  <2>3. Fetched(m, 1)
    BY DEF Fetched
  <2> QED
    BY <1>1, <1>2, <2>1, <2>2, <2>3 DEF WrittenOK
<1>5. ASSUME NEW t \in 0 .. Turns(m), t # Turns(m), t \in P PROVE t + 1 \in P
  <2>1. t + 1 \in 1 .. Turns(m) /\ t + 1 \in 0 .. Turns(m) /\ (t + 1) - 1 = t /\ t \in Nat
    BY <1>1, <1>5
  <2>2. turn[t + 1] = Turn(m, turn[t]) /\ Progress(m, turn[t], t) /\ WrittenOK(m, d, turn[t])
    BY <1>2, <1>5, <2>1
  <2> QED
    BY <2>1, <2>2, TurnWrites
<1>6. \A t \in 0 .. Turns(m) : t \in P
  <2> HIDE DEF P
  <2> QED
    BY <1>1, <1>4, <1>5, Turnwise
<1>7. WrittenOK(m, d, WriteWindows(m))
  <2>1. Turns(m) \in 0 .. Turns(m)
    BY <1>1
  <2> QED
    BY <1>3, <1>6, <2>1
<1>8. Fetched(m, n + 1) <=> \A p \in PackKeys(m) : FetchPack(p) # Raise
  <2>1. (n + 1) - 1 = n
    BY <1>1
  <2> QED
    BY <1>1, <2>1 DEF Fetched, PackKeys
<1>9. Slice(d, 0, Before(m, n + 1)) = d
  BY <1>1, BeforeIs, SliceWhole DEF n
<1> DEFINE r == WriteWindows(m).read
<1>10. Reconstruct(m, d) = IF r.ok /\ r.bytes = d THEN r ELSE Raise
  BY DEF Reconstruct
<1>11. r = IF Fetched(m, n + 1) THEN Return(d) ELSE Raise
  BY <1>3, <1>7, <1>9 DEF WrittenOK
<1> HIDE DEF r
<1> QED
  BY <1>8, <1>10, <1>11 DEF Return, Raise

\* reconstruct inverts build_manifest for every chain of dedup sources, pack target
\* and window, and raises over damaged packs.
THEOREM ReconstructHolds == Spec => []ReconstructIsExact
<1>1. TransportInv => ReconstructIsExact
  <2> SUFFICES ASSUME TransportInv, IsChunked(manifest)
               PROVE  Reconstruct(manifest, data) = IF damaged THEN Raise ELSE Return(data)
    BY DEF ReconstructIsExact
  <2>1. data \in Seq(Bytes) /\ ManifestOK(manifest) /\ Cut(manifest, data) /\ StoreOK
    BY PayloadsAre DEF TransportInv
  <2>2. Reconstruct(manifest, data) =
            IF \A p \in PackKeys(manifest) : FetchPack(p) # Raise THEN Return(data) ELSE Raise
    BY <2>1, ReconstructReturns
  <2>3. CASE damaged
    BY <2>1, <2>2, <2>3 DEF StoreOK
  <2>4. CASE ~damaged
    <3>1. \A p \in PackKeys(manifest) : p \in DOMAIN store /\ store[p] = p
      BY <2>1, <2>4 DEF StoreOK
    <3>2. \A p \in PackKeys(manifest) : FetchPack(p) # Raise
      BY <3>1 DEF FetchPack, Return, Raise
    <3> QED
      BY <2>2, <2>4, <3>2
  <2> QED
    BY <2>3, <2>4
<1> QED
  BY TransportInvariant, <1>1, PTL

---------------------------------------------------------------------------
(* reconstruct: its GETs *)

\* The entries that begin a run of entries of one pack.
Runs(m) ==
    {i \in DOMAIN m.entries : i = 1 \/ m.entries[i].pack # m.entries[i - 1].pack}

\* The first uses whose windows are done, and the later runs whose first entry is
\* written: the GETs so far are for one of them each.
Closed(m, w) == {i \in FirstUses(m) : WindowOf(m, i) < w}
Reread(m, k) == {i \in Runs(m) \ FirstUses(m) : i < k}

\* The GETs so far are at most the packs of the windows that ended, and one for every
\* run that came back to a pack.
Counted(m, s) ==
    /\ s.gets <= Cardinality(Closed(m, s.window)) + Cardinality(Reread(m, s.next))
    /\ s.next \in 2 .. Len(m.entries) /\ Late(m, s)
           /\ m.entries[s.next].pack = m.entries[s.next - 1].pack
       => s.backRef = m.entries[s.next].pack

\* First uses and runs that come back are different runs.
LEMMA RunsAre ==
    ASSUME NEW m, ManifestOK(m)
    PROVE  /\ Runs(m) \subseteq 1 .. Len(m.entries) /\ IsFiniteSet(Runs(m))
           /\ FirstUses(m) \subseteq Runs(m)
           /\ \A w : IsFiniteSet(Closed(m, w)) /\ Cardinality(Closed(m, w)) \in Nat
           /\ \A k : IsFiniteSet(Reread(m, k)) /\ Cardinality(Reread(m, k)) \in Nat
           /\ \A w, k : Cardinality(Closed(m, w)) + Cardinality(Reread(m, k))
                           <= Cardinality(Runs(m))
<1> DEFINE n == Len(m.entries)
<1>1. n \in Nat /\ DOMAIN m.entries = 1 .. n
  BY EntriesAre
<1> HIDE DEF n
<1>2. Runs(m) \subseteq 1 .. n
  BY <1>1 DEF Runs
<1>3. IsFiniteSet(Runs(m))
  BY <1>1, <1>2, FS_Interval, FS_Subset
<1>4. ASSUME NEW i \in FirstUses(m) PROVE i \in Runs(m)
  <2>1. i \in 1 .. n /\ \A j \in 1 .. i - 1 : m.entries[j].pack # m.entries[i].pack
    BY <1>1 DEF FirstUses
  <2>2. i # 1 => i - 1 \in 1 .. i - 1
    BY <1>1, <2>1
  <2> QED
    BY <1>1, <2>1, <2>2 DEF Runs
<1>5. ASSUME NEW w, NEW k
      PROVE  /\ IsFiniteSet(Closed(m, w)) /\ Cardinality(Closed(m, w)) \in Nat
             /\ IsFiniteSet(Reread(m, k)) /\ Cardinality(Reread(m, k)) \in Nat
             /\ Cardinality(Closed(m, w)) + Cardinality(Reread(m, k)) <= Cardinality(Runs(m))
  <2>1. Closed(m, w) \in SUBSET Runs(m) /\ Reread(m, k) \in SUBSET Runs(m)
        /\ Closed(m, w) \cap Reread(m, k) = {}
    BY <1>4 DEF Closed, Reread
  <2>2. /\ IsFiniteSet(Closed(m, w)) /\ Cardinality(Closed(m, w)) \in Nat
        /\ IsFiniteSet(Reread(m, k)) /\ Cardinality(Reread(m, k)) \in Nat
    BY <1>3, <2>1, FS_Subset, FS_CardinalityType
  <2>3. Cardinality(Closed(m, w) \cup Reread(m, k))
            = Cardinality(Closed(m, w)) + Cardinality(Reread(m, k))
              - Cardinality(Closed(m, w) \cap Reread(m, k))
    BY <2>2, FS_Union
  <2>4. Cardinality(Closed(m, w) \cap Reread(m, k)) = 0
    BY <2>1, FS_EmptySet
  <2>5. Closed(m, w) \cup Reread(m, k) \in SUBSET Runs(m)
    BY <2>1
  <2>6. Cardinality(Closed(m, w) \cup Reread(m, k)) <= Cardinality(Runs(m))
    BY <1>3, <2>5, FS_Subset
  <2> QED
    BY <2>2, <2>3, <2>4, <2>6
<1> QED
  BY <1>2, <1>3, <1>4, <1>5 DEF n

\* A turn keeps the count.
LEMMA TurnCounts ==
    ASSUME NEW m, ManifestOK(m), NEW s, NEW t \in Nat, Progress(m, s, t), Counted(m, s)
    PROVE  Counted(m, Turn(m, s))
<1> DEFINE u == Turn(m, s)
           n == Len(m.entries)
           closed == Cardinality(Closed(m, s.window))
           reread == Cardinality(Reread(m, s.next))
<1>1. /\ n \in Nat /\ DOMAIN m.entries = 1 .. n
      /\ s.window \in Nat /\ s.next \in Nat /\ s.next \in 1 .. n + 1 /\ s.gets \in Nat
      /\ \A i \in 1 .. n : WindowOf(m, i) \in Nat
  <2>1. \A i \in 1 .. n : WindowOf(m, i) \in 1 .. Windows(m)
    BY WindowsAre
  <2>2. \A i \in 1 .. n : WindowOf(m, i) \in Nat
    BY <2>1, WindowsAre
  <2> QED
    BY <2>2, EntriesAre DEF Progress, Marks
<1>2. \/ u = s
      \/ EndsWindow(m, s, u)
      \/ WritesEntry(m, s, u)
  BY TurnIs
<1>3. closed \in Nat /\ reread \in Nat /\ s.gets <= closed + reread
  BY RunsAre DEF Counted
<1> SUFFICES Counted(m, u)
  OBVIOUS
<1> HIDE DEF u, closed, reread
<1>4. CASE u = s
  BY <1>4
<1>5. CASE EndsWindow(m, s, u)
  <2> DEFINE more == Cardinality(PacksIn(m, s.window))
  <2>1. /\ s.next > n \/ WindowOf(m, s.next) > s.window
        /\ u.window = s.window + 1 /\ u.next = s.next /\ u.gets = s.gets + more
    BY <1>5 DEF EndsWindow
  <2>2. Cardinality(Closed(m, s.window + 1)) = closed + more /\ more \in Nat
    <3>1. /\ Closed(m, s.window + 1) = Closed(m, s.window) \cup PacksIn(m, s.window)
          /\ Closed(m, s.window) \cap PacksIn(m, s.window) = {}
          /\ PacksIn(m, s.window) \in SUBSET FirstUses(m)
      <4>1. \A i \in FirstUses(m) : WindowOf(m, i) \in Nat
        BY <1>1, FirstUsesAre
      <4>2. \A i \in FirstUses(m) :
               /\ WindowOf(m, i) < s.window + 1 <=> WindowOf(m, i) < s.window \/ WindowOf(m, i) = s.window
               /\ ~(WindowOf(m, i) < s.window /\ WindowOf(m, i) = s.window)
        BY <1>1, <4>1
      <4> QED
        BY <4>2 DEF Closed, PacksIn
    <3>2. IsFiniteSet(PacksIn(m, s.window)) /\ more \in Nat
      BY <3>1, FirstUsesAre, FS_Subset, FS_CardinalityType
    <3>3. IsFiniteSet(Closed(m, s.window))
      BY RunsAre
    <3>4. Cardinality(Closed(m, s.window) \cup PacksIn(m, s.window))
              = closed + more - Cardinality(Closed(m, s.window) \cap PacksIn(m, s.window))
      BY <3>2, <3>3, FS_Union DEF closed
    <3>5. Cardinality(Closed(m, s.window) \cap PacksIn(m, s.window)) = 0
      BY <3>1, FS_EmptySet
    <3> HIDE DEF more
    <3> QED
      BY <1>3, <3>1, <3>2, <3>4, <3>5
  <2> HIDE DEF more
  <2>3. u.gets <= Cardinality(Closed(m, u.window)) + Cardinality(Reread(m, u.next))
    BY <1>1, <1>3, <2>1, <2>2 DEF reread
  <2>4. ~(u.next \in 2 .. n /\ Late(m, u))
    <3> SUFFICES ASSUME u.next \in 2 .. n, Late(m, u) PROVE FALSE
      OBVIOUS
    <3>1. s.next \in 1 .. n /\ WindowOf(m, s.next) < s.window + 1 /\ WindowOf(m, s.next) > s.window
      BY <1>1, <2>1 DEF Late
    <3> QED
      BY <1>1, <3>1
  <2> QED
    BY <2>3, <2>4 DEF Counted
<1>6. CASE WritesEntry(m, s, u)
  <2> DEFINE i == s.next
             e == m.entries[i]
             late == Late(m, s)
             fetched == late /\ NotMemoised(e, s.backRef)
  <2>1. /\ i \in 1 .. n /\ u.window = s.window /\ u.next = i + 1
        /\ u.backRef = IF late THEN e.pack ELSE s.backRef
        /\ u.gets = s.gets + IF fetched THEN 1 ELSE 0
    BY <1>6 DEF WritesEntry
  <2>2. fetched => i \in Runs(m) \ FirstUses(m)
    <3> SUFFICES ASSUME fetched PROVE i \in Runs(m) \ FirstUses(m)
      OBVIOUS
    <3>1. WindowOf(m, i) < s.window /\ s.backRef # e.pack
      BY DEF Late, NotMemoised
    <3>2. i \notin FirstUses(m)
      <4>1. i \in FirstUses(m) => s.window <= WindowOf(m, i)
        BY <1>1 DEF Progress
      <4> QED
        BY <1>1, <2>1, <3>1, <4>1
    <3>3. i \in Runs(m)
      <4> SUFFICES ASSUME i # 1, e.pack = m.entries[i - 1].pack PROVE FALSE
        BY <1>1, <2>1 DEF Runs
      <4>1. i \in 2 .. n
        BY <1>1, <2>1
      <4> QED
        BY <3>1, <4>1 DEF Counted
    <3> QED
      BY <3>2, <3>3
  <2>3. Cardinality(Reread(m, i + 1)) = reread + IF i \in Runs(m) \ FirstUses(m) THEN 1 ELSE 0
    <3>1. \A j \in Runs(m) : j < i + 1 <=> j < i \/ j = i
      <4>1. \A j \in 1 .. n : j < i + 1 <=> j < i \/ j = i
        BY <1>1
      <4> QED
        BY <4>1, RunsAre
    <3>2. IsFiniteSet(Reread(m, i)) /\ i \notin Reread(m, i)
      <4>1. ~(i < i)
        BY <1>1
      <4>2. i \notin Reread(m, i)
        BY <4>1 DEF Reread
      <4> QED
        BY <4>2, RunsAre
    <3>3. CASE i \in Runs(m) \ FirstUses(m)
      <4>1. Reread(m, i + 1) = Reread(m, i) \cup {i}
        BY <3>1, <3>3 DEF Reread
      <4>2. Cardinality(Reread(m, i) \cup {i}) = Cardinality(Reread(m, i)) + 1
        BY <3>2, FS_AddElement
      <4> QED
        BY <3>3, <4>1, <4>2 DEF reread
    <3>4. CASE i \notin Runs(m) \ FirstUses(m)
      <4>1. Reread(m, i + 1) = Reread(m, i)
        BY <3>1, <3>4 DEF Reread
      <4> QED
        BY <1>3, <3>4, <4>1 DEF reread
    <3> QED
      BY <3>3, <3>4
  <2>4. u.gets <= closed + Cardinality(Reread(m, i + 1))
    <3> DEFINE again == i \in Runs(m) \ FirstUses(m)
    <3> HIDE DEF again, fetched, i
    <3>1. fetched => again
      BY <2>2 DEF again
    <3>2. Cardinality(Reread(m, i + 1)) = reread + IF again THEN 1 ELSE 0
      BY <2>3 DEF again
    <3> QED
      BY <1>1, <1>3, <2>1, <3>1, <3>2
  <2>5. ASSUME u.next \in 2 .. n, Late(m, u), m.entries[u.next].pack = m.entries[u.next - 1].pack
        PROVE  u.backRef = m.entries[u.next].pack
    <3>1. i + 1 \in 1 .. n /\ (i + 1) - 1 = i
      BY <1>1, <2>1, <2>5
    <3>2. m.entries[i + 1].pack = e.pack /\ WindowOf(m, i + 1) < s.window
      BY <2>1, <2>5, <3>1 DEF Late
    <3>3. FirstUse(m, i + 1) = FirstUse(m, i)
      BY <3>2 DEF FirstUse
    <3>4. WindowOf(m, i + 1) = WindowOf(m, i)
      BY <3>3 DEF WindowOf, PositionOf
    <3> QED
      BY <2>1, <3>1, <3>2, <3>4 DEF Late
  <2> QED
    BY <2>1, <2>4, <2>5 DEF Counted, closed
<1> QED
  BY <1>2, <1>4, <1>5, <1>6

\* A payload is read back with one GET of a pack for every run of entries that use
\* it, for every window size.
THEOREM OneGetPerRunHolds == Spec => []OneGetPerRun
<1>1. TransportInv => OneGetPerRun
  <2> SUFFICES ASSUME TransportInv PROVE OneGetPerRun
    OBVIOUS
  <2> DEFINE m == manifest
             turn == Writing(m)
             P == {t \in 0 .. Turns(m) : Counted(m, turn[t])}
  <2>1. ManifestOK(m)
    BY DEF TransportInv
  <2>2. OneGetPerRun <=> WriteWindows(m).gets <= Cardinality(Runs(m))
    BY DEF OneGetPerRun, Runs
  <2>3. WriteWindows(m) = turn[Turns(m)]
    BY DEF WriteWindows
  <2> HIDE DEF m
  <2>4. Turns(m) \in Nat
    BY <2>1, WindowsAre
  <2>5. /\ turn[0].next = 1 /\ turn[0].gets = 0
        /\ \A t \in 1 .. Turns(m) : turn[t] = Turn(m, turn[t - 1])
        /\ \A t \in 0 .. Turns(m) : Progress(m, turn[t], t)
    <3>1. \A t \in 0 .. Turns(m) : Progress(m, turn[t], t)
      BY <2>1, WritingProgresses
    <3>2. turn[0] = [window |-> 1, next |-> 1, backRef |-> << >>,
                     read |-> Return(<< >>), gets |-> 0]
          /\ \A t \in 1 .. Turns(m) : turn[t] = Turn(m, turn[t - 1])
      BY <2>4, WritingLoop
    <3> HIDE DEF turn
    <3> QED
      BY <3>1, <3>2
  <2> HIDE DEF turn
  <2>6. 0 \in P
    <3>1. /\ Cardinality(Closed(m, turn[0].window)) \in Nat
          /\ Cardinality(Reread(m, turn[0].next)) \in Nat
      BY <2>1, RunsAre
    <3>2. 0 <= Cardinality(Closed(m, turn[0].window)) + Cardinality(Reread(m, turn[0].next))
      BY <3>1
    <3> QED
      BY <2>4, <2>5, <3>2 DEF Counted
  <2>7. ASSUME NEW t \in 0 .. Turns(m), t # Turns(m), t \in P PROVE t + 1 \in P
    <3>1. t + 1 \in 1 .. Turns(m) /\ t + 1 \in 0 .. Turns(m) /\ (t + 1) - 1 = t /\ t \in Nat
      BY <2>4, <2>7
    <3>2. turn[t + 1] = Turn(m, turn[t]) /\ Progress(m, turn[t], t) /\ Counted(m, turn[t])
      BY <2>5, <2>7, <3>1
    <3> QED
      BY <2>1, <3>1, <3>2, TurnCounts
  <2>8. \A t \in 0 .. Turns(m) : t \in P
    <3> HIDE DEF P
    <3> QED
      BY <2>4, <2>6, <2>7, Turnwise
  <2>9. Counted(m, WriteWindows(m)) /\ WriteWindows(m) \in Marks
    <3>1. Turns(m) \in 0 .. Turns(m)
      BY <2>4
    <3> QED
      BY <2>3, <2>5, <2>8, <3>1 DEF Progress
  <2> DEFINE s == WriteWindows(m)
             a == Cardinality(Closed(m, s.window))
             b == Cardinality(Reread(m, s.next))
             c == Cardinality(Runs(m))
  <2>10. s.gets <= a + b /\ s.gets \in Nat
    BY <2>9 DEF Counted, Marks
  <2>11. a + b <= c /\ a \in Nat /\ b \in Nat
    BY <2>1, RunsAre
  <2>12. c \in Nat
    BY <2>1, RunsAre, FS_CardinalityType
  <2> HIDE DEF s, a, b, c
  <2>13. s.gets <= c
    BY <2>10, <2>11, <2>12
  <2> QED
    BY <2>2, <2>13 DEF s, c
<1> QED
  BY TransportInvariant, <1>1, PTL

---------------------------------------------------------------------------
(* read_range: its runs *)

\* Reading is the loop it describes.
LEMMA ReadingLoop ==
    ASSUME NEW m, Len(m.entries) \in Nat, NEW start, NEW end
    PROVE  LET turn == Reading(m, start, end)
           IN /\ turn[0] = [next |-> EntryAt(m, start), read |-> Return(<< >>)]
              /\ \A t \in 1 .. Len(m.entries) : turn[t] = ReadRun(m, start, end, turn[t - 1])
<1> DEFINE total == Len(m.entries)
           first == [next |-> EntryAt(m, start), read |-> Return(<< >>)]
           IsLoop(g, n) == g = [t \in 0 .. n |->
                                   IF t = 0 THEN first ELSE ReadRun(m, start, end, g[t - 1])]
           P == {n \in Nat : \E g : IsLoop(g, n)}
<1> HIDE DEF first
<1>1. IsLoop([t \in 0 .. 0 |-> first], 0)
  OBVIOUS
<1>2. ASSUME NEW n \in 0 .. total, n # total, n \in P PROVE n + 1 \in P
  <2>1. PICK g : IsLoop(g, n)
    BY <1>2
  <2> DEFINE h == [t \in 0 .. n + 1 |->
                      IF t = 0 THEN first ELSE ReadRun(m, start, end, g[t - 1])]
  <2>2. \A t \in 0 .. n : h[t] = g[t]
    BY <2>1
  <2>3. \A t \in 0 .. n + 1 : t # 0 => t - 1 \in 0 .. n
    OBVIOUS
  <2>4. h = [t \in 0 .. n + 1 |-> IF t = 0 THEN first ELSE ReadRun(m, start, end, h[t - 1])]
    BY <2>2, <2>3
  <2> HIDE DEF h
  <2>5. n + 1 \in Nat /\ IsLoop(h, n + 1)
    BY <2>4
  <2> QED
    BY <2>5
<1>3. 0 \in P
  BY <1>1
<1>4. \A n \in 0 .. total : n # total /\ n \in P => n + 1 \in P
  BY <1>2
<1>5. total \in P
  <2>1. total \in Nat
    OBVIOUS
  <2> HIDE DEF P, total
  <2>2. \A n \in 0 .. total : n \in P
    BY <1>3, <1>4, <2>1, Turnwise
  <2> QED
    BY <2>1, <2>2
<1>6. Reading(m, start, end) = CHOOSE g : IsLoop(g, total)
  BY DEF Reading, first
<1>7. \E g : IsLoop(g, total)
  BY <1>5
<1>8. IsLoop(Reading(m, start, end), total)
  <2> HIDE DEF IsLoop
  <2> QED
    BY <1>6, <1>7
<1> DEFINE turn == Reading(m, start, end)
<1> HIDE DEF turn
<1>9. \A t \in 0 .. total : turn[t] = IF t = 0 THEN first
                                      ELSE ReadRun(m, start, end, turn[t - 1])
  BY <1>8 DEF turn
<1>10. 0 \in 0 .. total /\ \A t \in 1 .. total : t \in 0 .. total /\ t # 0
  OBVIOUS
<1>11. turn[0] = first /\ \A t \in 1 .. total : turn[t] = ReadRun(m, start, end, turn[t - 1])
  BY <1>9, <1>10
<1> QED
  BY <1>11 DEF first, turn

\* The ranges that are read, of a payload and its manifest.
InRange(m, d, start, end) ==
    /\ ManifestOK(m) /\ d \in Seq(Bytes) /\ Cut(m, d) /\ Tiled(m, d)
    /\ start \in Nat /\ end \in Nat /\ start < end /\ end <= Len(d)
    /\ store \in [DOMAIN store -> Seq(Bytes)]

\* A run that begins with entry i, or ends with entry j, clipped to the range.
From(m, start, i) == IF StartsOf(m)[i] < start THEN start ELSE StartsOf(m)[i]
To(m, end, j) == IF EndOf(m, j) < end THEN EndOf(m, j) ELSE end

\* How far the range is read when entry k is next.
Pos(m, start, end, k) ==
    IF Before(m, k) <= start THEN start ELSE IF Before(m, k) < end THEN Before(m, k) ELSE end

\* bisect finds the entry that the range starts in.
LEMMA EntryAtIs ==
    ASSUME NEW m, NEW d, NEW start, NEW end, InRange(m, d, start, end)
    PROVE  LET i == EntryAt(m, start)
           IN i \in 1 .. Len(m.entries) /\ StartsOf(m)[i] <= start /\ start < EndOf(m, i)
<1> DEFINE n == Len(m.entries)
           T == {k \in DOMAIN m.entries : StartsOf(m)[k] <= start}
           i == EntryAt(m, start)
<1>1. /\ n \in Nat /\ DOMAIN m.entries = 1 .. n /\ start \in Nat /\ end \in Nat
      /\ start < end /\ end <= Len(d) /\ Len(d) \in Nat
  BY EntriesAre, LenProperties DEF InRange
<1>2. /\ n = 0 <=> Len(d) = 0
      /\ n # 0 => StartsOf(m)[1] = 0 /\ EndOf(m, n) = Len(d)
      /\ \A k \in 1 .. n : StartsOf(m)[k] \in Nat /\ EndOf(m, k) \in Nat
                           /\ (k # n => StartsOf(m)[k + 1] = EndOf(m, k))
  BY DEF InRange, Tiled
<1> HIDE DEF n
<1>3. n # 0
  BY <1>1, <1>2
<1>4. T \subseteq 0 .. n /\ 1 \in T
  BY <1>1, <1>2, <1>3
<1>5. i \in T /\ \A k \in T : i >= k
  <2>1. i = Max(T)
    BY DEF EntryAt
  <2> HIDE DEF T, i
  <2> QED
    BY <1>1, <1>4, <2>1, MaxIsGreatest
<1> HIDE DEF i
<1>6. i \in 1 .. n /\ StartsOf(m)[i] <= start
  BY <1>1, <1>5
<1>7. start < EndOf(m, i)
  <2>1. CASE i = n
    BY <1>1, <1>2, <1>3, <2>1
  <2>2. CASE i # n
    <3>1. i + 1 \in 1 .. n /\ StartsOf(m)[i + 1] = EndOf(m, i) /\ ~(i >= i + 1)
      BY <1>1, <1>2, <1>6, <2>2
    <3>2. ~(StartsOf(m)[i + 1] <= start)
      BY <1>1, <1>5, <3>1
    <3> QED
      BY <1>1, <1>2, <1>6, <3>1, <3>2
  <2> QED
    BY <2>1, <2>2
<1> QED
  BY <1>6, <1>7 DEF i, n

\* A run: where it begins and ends, in the file.
LEMMA RunIs ==
    ASSUME NEW m, NEW d, NEW start, NEW end, InRange(m, d, start, end),
           NEW i \in 1 .. Len(m.entries), StartsOf(m)[i] < end, start < EndOf(m, i)
    PROVE  LET j == RunEnd(m, i, end)
               from == From(m, start, i)
               to == To(m, end, j)
           IN /\ j \in i .. Len(m.entries)
              /\ \A k \in i + 1 .. j : Contiguous(m, k)
              /\ from \in Nat /\ to \in Nat /\ start <= from /\ from < to /\ to <= end
              /\ StartsOf(m)[i] <= from /\ to <= EndOf(m, j)
              /\ start < EndOf(m, j)
              /\ Pos(m, start, end, i) = from /\ Pos(m, start, end, j + 1) = to
<1> DEFINE n == Len(m.entries)
           j == RunEnd(m, i, end)
           from == From(m, start, i)
           to == To(m, end, j)
           T == {k \in i .. n : \A l \in i + 1 .. k : StartsOf(m)[l] < end /\ Contiguous(m, l)}
<1>1. /\ n \in Nat /\ start \in Nat /\ end \in Nat /\ start < end /\ end <= Len(d)
  BY EntriesAre DEF InRange
<1>2. /\ \A k \in 1 .. n : StartsOf(m)[k] \in Nat /\ EndOf(m, k) \in Nat
                           /\ StartsOf(m)[k] < EndOf(m, k)
      /\ \A k, l \in 1 .. n : k < l => EndOf(m, k) <= StartsOf(m)[l]
  BY DEF InRange, Tiled
<1>3. T \subseteq 0 .. n /\ i \in T
  BY <1>1
<1>4. j \in T
  <2>1. j = Max(T)
    BY DEF RunEnd
  <2> HIDE DEF T, j
  <2> QED
    BY <1>1, <1>3, <2>1, MaxIsGreatest
<1>5. j \in i .. n /\ j \in 1 .. n /\ \A k \in i + 1 .. j : Contiguous(m, k)
  BY <1>1, <1>4
<1> HIDE DEF j
<1>6. EndOf(m, i) <= EndOf(m, j)
  <2>1. CASE i = j
    BY <1>2, <2>1
  <2>2. CASE i # j
    <3>1. i < j
      BY <1>1, <1>5, <2>2
    <3> QED
      BY <1>2, <1>5, <3>1
  <2> QED
    BY <2>1, <2>2
<1> DEFINE a == StartsOf(m)[i]
           b == EndOf(m, i)
           e == EndOf(m, j)
<1>7. a \in Nat /\ b \in Nat /\ e \in Nat /\ a < b /\ b <= e /\ a < end /\ start < b
  BY <1>2, <1>5, <1>6
<1>8. /\ from = IF a < start THEN start ELSE a
      /\ to = IF e < end THEN e ELSE end
      /\ Pos(m, start, end, i) = IF a <= start THEN start ELSE IF a < end THEN a ELSE end
      /\ Pos(m, start, end, j + 1) = IF e <= start THEN start ELSE IF e < end THEN e ELSE end
  <2>1. Before(m, i) = a /\ Before(m, j + 1) = e
    <3>1. Tiled(m, d) /\ d \in Seq(Bytes)
      BY DEF InRange
    <3> QED
      BY <1>5, <3>1, BeforeIs
  <2> QED
    BY <2>1 DEF From, To, Pos
<1> HIDE DEF a, b, e, from, to
<1>9. /\ from \in Nat /\ to \in Nat /\ start <= from /\ from < to /\ to <= end
      /\ a <= from /\ to <= e /\ start < e
      /\ Pos(m, start, end, i) = from /\ Pos(m, start, end, j + 1) = to
  BY <1>1, <1>7, <1>8
<1> QED
  BY <1>5, <1>9 DEF j, from, to, a, e

\* A slice of a slice.
LEMMA SliceOfSlice ==
    ASSUME NEW d \in Seq(Bytes), NEW from \in Nat, NEW to \in Nat, NEW a \in Nat, NEW b \in Nat,
           from <= a, a <= b, b <= to, to <= Len(d)
    PROVE  Slice(Slice(d, from, to), a - from, b - from) = Slice(d, a, b)
<1> DEFINE p == Slice(d, from, to)
           l == a - from
           h == b - from
<1>0. Len(d) \in Nat
  BY LenProperties
<1>1. p \in Seq(Bytes) /\ Len(p) = to - from /\ \A x \in 1 .. to - from : p[x] = d[from + x]
  <2>1. from <= to
    OBVIOUS
  <2> QED
    BY <2>1, SliceIs
<1>2. /\ Slice(d, a, b) \in Seq(Bytes) /\ Len(Slice(d, a, b)) = b - a
      /\ \A x \in 1 .. b - a : Slice(d, a, b)[x] = d[a + x]
  <2>1. b <= Len(d)
    BY <1>0
  <2> QED
    BY <2>1, SliceIs
<1> HIDE DEF p
<1>3. l \in Nat /\ h \in Nat /\ l <= h /\ h <= Len(p) /\ h - l = b - a /\ b - a \in Nat
  BY <1>1
<1>4. \A x \in 1 .. b - a : l + x \in 1 .. to - from /\ from + (l + x) = a + x
  OBVIOUS
<1> HIDE DEF l, h
<1>5. /\ Slice(p, l, h) \in Seq(Bytes) /\ Len(Slice(p, l, h)) = h - l
      /\ \A x \in 1 .. h - l : Slice(p, l, h)[x] = p[l + x]
  <2>1. p \in Seq(Bytes) /\ l \in Nat /\ h \in Nat /\ l <= h /\ h <= Len(p)
    BY <1>1, <1>3
  <2> QED
    BY <2>1, SliceIs
<1>6. \A x \in 1 .. b - a : Slice(p, l, h)[x] = Slice(d, a, b)[x]
  BY <1>1, <1>2, <1>3, <1>4, <1>5
<1>7. Slice(p, l, h) = Slice(d, a, b)
  BY <1>2, <1>3, <1>5, <1>6, SeqEqual
<1> QED
  BY <1>7 DEF p, l, h

\* Entries i to j are contiguous.
OneRun(m, i, j) == j \in i .. Len(m.entries) /\ \A k \in i + 1 .. j : Contiguous(m, k)

\* The pack of entry i has the payload's bytes from there to the end of entry j.
LiesInPack(m, d, i, j) ==
    LET pack == m.entries[i].pack
        o == m.entries[i].offset
        a == StartsOf(m)[i]
    IN /\ o + (EndOf(m, j) - a) <= Len(pack)
       /\ \A y \in a + 1 .. EndOf(m, j) : pack[o + (y - a)] = d[y]

\* The entries of a run have the payload's bytes, one after the other, in one pack.
LEMMA RunLies ==
    ASSUME NEW m, NEW d, NEW start, NEW end, InRange(m, d, start, end),
           NEW i \in 1 .. Len(m.entries), NEW j, OneRun(m, i, j)
    PROVE  LiesInPack(m, d, i, j)
<1> DEFINE n == Len(m.entries)
           pack == m.entries[i].pack
           o == m.entries[i].offset
           a == StartsOf(m)[i]
           Good(k) == /\ m.entries[k].pack = pack
                      /\ m.entries[k].offset + Length(m.entries[k]) = o + (EndOf(m, k) - a)
                      /\ o + (EndOf(m, k) - a) <= Len(pack)
                      /\ \A y \in a + 1 .. EndOf(m, k) : pack[o + (y - a)] = d[y]
           P == {t \in 0 .. j - i : Good(i + t)}
<1>1. /\ n \in Nat /\ i \in 1 .. n /\ j \in 1 .. n /\ i \in Nat /\ j - i \in Nat
      /\ \A k \in i + 1 .. j : Contiguous(m, k)
  BY EntriesAre DEF InRange, OneRun
<1>2. ASSUME NEW k \in 1 .. n
      PROVE  /\ m.entries[k].offset \in Nat /\ Length(m.entries[k]) \in Nat
             /\ m.entries[k].offset + Length(m.entries[k]) <= Len(m.entries[k].pack)
             /\ Len(m.entries[k].pack) \in Nat
             /\ StartsOf(m)[k] \in Nat /\ EndOf(m, k) \in Nat
             /\ EndOf(m, k) = StartsOf(m)[k] + Length(m.entries[k])
             /\ \A x \in 1 .. Length(m.entries[k]) :
                   m.entries[k].pack[m.entries[k].offset + x] = d[StartsOf(m)[k] + x]
             /\ k # n => StartsOf(m)[k + 1] = EndOf(m, k)
  <2>1. /\ m.entries[k].offset \in Nat /\ Length(m.entries[k]) \in Nat
        /\ m.entries[k].pack \in Seq(Bytes)
    BY EntriesAre DEF InRange
  <2>2. Lies(m.entries[k], m.entries[k].pack)
    BY DEF InRange, ManifestOK, Placed
  <2>3. /\ StartsOf(m)[k] \in Nat /\ EndOf(m, k) \in Nat
        /\ EndOf(m, k) = StartsOf(m)[k] + Length(m.entries[k])
        /\ \A x \in 1 .. Length(m.entries[k]) : m.entries[k].chunk[x] = d[StartsOf(m)[k] + x]
        /\ k # n => StartsOf(m)[k + 1] = EndOf(m, k)
    BY DEF InRange, Tiled
  <2>4. /\ m.entries[k].offset + Length(m.entries[k]) <= Len(m.entries[k].pack)
        /\ \A x \in 1 .. Length(m.entries[k]) :
              m.entries[k].pack[m.entries[k].offset + x] = m.entries[k].chunk[x]
    BY <2>2 DEF Lies, Length
  <2> QED
    BY <2>1, <2>3, <2>4, LenProperties
<1>3. 0 \in P
  <2>1. i + 0 = i /\ 0 \in 0 .. j - i
    BY <1>1
  <2>2. o \in Nat /\ a \in Nat /\ EndOf(m, i) \in Nat /\ Length(m.entries[i]) \in Nat
        /\ EndOf(m, i) = a + Length(m.entries[i])
    BY <1>1, <1>2
  <2>3. o + Length(m.entries[i]) = o + (EndOf(m, i) - a)
    BY <2>2
  <2>4. ASSUME NEW y \in a + 1 .. EndOf(m, i) PROVE pack[o + (y - a)] = d[y]
    <3>1. y - a \in 1 .. Length(m.entries[i]) /\ a + (y - a) = y
      BY <2>2
    <3> QED
      BY <1>1, <1>2, <3>1
  <2>5. Good(i)
    BY <1>1, <1>2, <2>3, <2>4
  <2> QED
    BY <2>1, <2>5
<1>4. ASSUME NEW t \in 0 .. j - i, t # j - i, t \in P PROVE t + 1 \in P
  <2> DEFINE k == i + t
             e == m.entries[k + 1]
             z == Length(e)
             b == EndOf(m, k)
             c == EndOf(m, k + 1)
  <2>1. /\ k \in 1 .. n /\ k # n /\ k + 1 \in 1 .. n /\ k + 1 \in i + 1 .. j
        /\ i + (t + 1) = k + 1 /\ t + 1 \in 0 .. j - i /\ (k + 1) - 1 = k
    <3>1. /\ n \in Nat /\ i \in Nat /\ j \in Nat /\ t \in Nat /\ 1 <= i /\ j <= n
          /\ t <= j - i /\ t # j - i
      BY <1>1, <1>4
    <3> HIDE DEF n
    <3> QED
      BY <3>1
  <2> HIDE DEF k
  <2>2. Good(k)
    BY <1>4 DEF k
  <2>3. Contiguous(m, k + 1)
    BY <1>1, <2>1
  <2>4. e.pack = pack /\ e.offset = o + (b - a)
    BY <2>1, <2>2, <2>3 DEF Contiguous
  <2>5. /\ o \in Nat /\ a \in Nat /\ b \in Nat /\ c \in Nat /\ z \in Nat
        /\ c = b + z /\ StartsOf(m)[k + 1] = b
        /\ e.offset + z <= Len(pack)
        /\ \A x \in 1 .. z : pack[e.offset + x] = d[b + x]
    <3>1. /\ o \in Nat /\ a \in Nat /\ b \in Nat /\ StartsOf(m)[k + 1] = b
      BY <1>1, <1>2, <2>1
    <3>2. /\ c \in Nat /\ z \in Nat /\ c = StartsOf(m)[k + 1] + z
          /\ e.offset + z <= Len(e.pack)
          /\ \A x \in 1 .. z : e.pack[e.offset + x] = d[StartsOf(m)[k + 1] + x]
      BY <1>2, <2>1
    <3> QED
      BY <2>4, <3>1, <3>2
  <2>6. /\ \A y \in a + 1 .. b : pack[o + (y - a)] = d[y]
    BY <2>2
  <2> DEFINE oe == e.offset
  <2>7. oe = o + (b - a) /\ \A x \in 1 .. z : pack[oe + x] = d[b + x]
    BY <2>4, <2>5
  <2>8. oe + z = o + (c - a) /\ o + (c - a) <= Len(pack)
    <3> HIDE DEF oe, z, b, c, o, a
    <3>1. oe + z <= Len(pack)
      BY <2>5 DEF oe
    <3>2. oe + z = o + (c - a)
      BY <2>5, <2>7
    <3> QED
      BY <3>1, <3>2
  <2>9. ASSUME NEW y \in a + 1 .. c PROVE pack[o + (y - a)] = d[y]
    <3> HIDE DEF oe, z, b, c, o, a, pack
    <3>1. CASE y <= b
      <4>1. y \in a + 1 .. b
        BY <2>5, <3>1
      <4> QED
        BY <2>6, <4>1
    <3>2. CASE ~(y <= b)
      <4>1. y - b \in 1 .. z /\ b + (y - b) = y /\ oe + (y - b) = o + (y - a)
        BY <2>5, <2>7, <3>2
      <4> QED
        BY <2>7, <4>1
    <3> QED
      BY <3>1, <3>2
  <2>10. Good(k + 1)
    BY <2>4, <2>8, <2>9
  <2> HIDE DEF Good
  <2> QED
    BY <2>1, <2>10
<1>5. \A t \in 0 .. j - i : t \in P
  <2> HIDE DEF P
  <2> QED
    BY <1>1, <1>3, <1>4, Turnwise
<1>6. Good(j)
  <2>1. j - i \in 0 .. j - i /\ i + (j - i) = j
    BY <1>1
  <2> HIDE DEF Good
  <2> QED
    BY <1>5, <2>1
<1> QED
  BY <1>6 DEF LiesInPack

\* A ranged GET of an intact pack, within a run.
LEMMA RunGot ==
    ASSUME NEW m, NEW d, NEW start, NEW end, InRange(m, d, start, end),
           NEW i \in 1 .. Len(m.entries), NEW j, OneRun(m, i, j),
           NEW from \in Nat, NEW to \in Nat, StartsOf(m)[i] <= from, from <= to, to <= EndOf(m, j),
           m.entries[i].pack \in DOMAIN store, store[m.entries[i].pack] = m.entries[i].pack
    PROVE  GetRange(m.entries[i].pack, m.entries[i].offset + (from - StartsOf(m)[i]), to - from)
               = Return(Slice(d, from, to))
<1> DEFINE pack == m.entries[i].pack
           o == m.entries[i].offset
           a == StartsOf(m)[i]
           e == EndOf(m, j)
           l == o + (from - a)
           h == l + (to - from)
<1>1. /\ o + (e - a) <= Len(pack)
      /\ \A y \in a + 1 .. e : pack[o + (y - a)] = d[y]
  <2>1. LiesInPack(m, d, i, j)
    BY RunLies
  <2> QED
    BY <2>1 DEF LiesInPack
<1>2. /\ pack \in Seq(Bytes) /\ Len(pack) \in Nat /\ o \in Nat /\ a \in Nat /\ e \in Nat
      /\ d \in Seq(Bytes) /\ Len(d) \in Nat /\ e <= Len(d)
  <2>1. ManifestOK(m) /\ d \in Seq(Bytes) /\ Tiled(m, d) /\ Len(m.entries) \in Nat
    BY EntriesAre DEF InRange
  <2>2. pack \in Seq(Bytes) /\ o \in Nat
    BY <2>1, EntriesAre
  <2>3. j \in 1 .. Len(m.entries)
    BY <2>1 DEF OneRun
  <2>4. a \in Nat /\ e \in Nat
        /\ e <= Len(d)
    BY <2>1, <2>3 DEF Tiled
  <2> QED
    BY <2>1, <2>2, <2>4, LenProperties
<1>3. GetRange(pack, l, to - from) = Return(Slice(pack, l, h))
  BY DEF GetRange
<1>4. a <= from /\ from <= to /\ to <= e
  OBVIOUS
<1> HIDE DEF pack, o, a, e
<1>5. l \in Nat /\ h \in Nat /\ l <= h /\ h <= Len(pack) /\ h - l = to - from /\ to <= Len(d)
  <2>1. /\ from \in Nat /\ to \in Nat /\ a <= from /\ from <= to /\ to <= e
        /\ o \in Nat /\ a \in Nat /\ e \in Nat /\ Len(d) \in Nat /\ e <= Len(d)
        /\ Len(pack) \in Nat /\ o + (e - a) <= Len(pack)
    BY <1>1, <1>2, <1>4
  <2> DEFINE lp == Len(pack)
             ld == Len(d)
  <2>2. o + (e - a) <= lp /\ e <= ld /\ lp \in Nat /\ ld \in Nat
    BY <2>1
  <2> HIDE DEF lp, ld
  <2>3. l \in Int /\ h \in Int /\ h - l = to - from /\ 0 <= l /\ l <= h
    BY <2>1
  <2>4. h = o + (to - a) /\ h <= o + (e - a)
    BY <2>1
  <2>5. h <= lp /\ to <= ld
    <3> HIDE DEF h, l
    <3> QED
      BY <2>1, <2>2, <2>3, <2>4
  <2> QED
    BY <2>3, <2>5 DEF lp, ld
<1>6. \A x \in 1 .. to - from
      : from + x \in a + 1 .. e /\ o + ((from + x) - a) = l + x
  BY <1>2, <1>4
<1> HIDE DEF l, h
<1>7. /\ Slice(pack, l, h) \in Seq(Bytes) /\ Len(Slice(pack, l, h)) = h - l
      /\ \A x \in 1 .. h - l : Slice(pack, l, h)[x] = pack[l + x]
  <2>1. pack \in Seq(Bytes) /\ l \in Nat /\ h \in Nat /\ l <= h /\ h <= Len(pack)
    BY <1>2, <1>5
  <2> QED
    BY <2>1, SliceIs
<1>8. /\ Slice(d, from, to) \in Seq(Bytes) /\ Len(Slice(d, from, to)) = to - from
      /\ \A x \in 1 .. to - from : Slice(d, from, to)[x] = d[from + x]
  BY <1>2, <1>5, SliceIs
<1>9. \A x \in 1 .. to - from : pack[l + x] = d[from + x]
  BY <1>1, <1>6
<1>10. Slice(pack, l, h) = Slice(d, from, to)
  <2> DEFINE u == Slice(pack, l, h)
             v == Slice(d, from, to)
  <2>1. /\ u \in Seq(Bytes) /\ v \in Seq(Bytes) /\ Len(u) = Len(v)
        /\ \A x \in 1 .. Len(u) : u[x] = v[x]
    BY <1>5, <1>7, <1>8, <1>9
  <2> HIDE DEF u, v
  <2>2. u = v
    BY <2>1, SeqEqual
  <2> QED
    BY <2>2 DEF u, v
<1> QED
  BY <1>3, <1>10 DEF pack, l, o, a

---------------------------------------------------------------------------
(* read_range: what it reads *)

\* A ranged GET returns bytes or raises.
LEMMA GetRangeIs ==
    ASSUME NEW key, NEW from \in Nat, NEW length \in Nat, store \in [DOMAIN store -> Seq(Bytes)]
    PROVE  GetRange(key, from, length) \in Results
<1>1. CASE key \in DOMAIN store
  <2>1. store[key] \in Seq(Bytes) /\ from + length \in Nat
    BY <1>1
  <2>2. Slice(store[key], from, from + length) \in Seq(Bytes)
    BY <2>1, SliceIsBytes
  <2> QED
    BY <1>1, <2>2 DEF GetRange, Return, Results
<1>2. CASE key \notin DOMAIN store
  <2>1. << >> \in Seq(Bytes)
    OBVIOUS
  <2> QED
    BY <1>2, <2>1 DEF GetRange, Raise, Results
<1> QED
  BY <1>1, <1>2

\* All the packs of a manifest are what they should be.
Intact(m) ==
    \A i \in 1 .. Len(m.entries) :
        m.entries[i].pack \in DOMAIN store /\ store[m.entries[i].pack] = m.entries[i].pack

\* The entries before entry k that lie in the range were read as they are.
SoundTo(m, start, end, k, bytes) ==
    \A l \in 1 .. k - 1 :
        start <= StartsOf(m)[l] /\ EndOf(m, l) <= end =>
            \A x \in 1 .. Length(m.entries[l]) :
                bytes[(StartsOf(m)[l] - start) + x] = m.entries[l].chunk[x]

\* The loop has entries left to read.
Unread(m, end, s) == s.next <= Len(m.entries) /\ StartsOf(m)[s.next] < end

\* What has been read when entry k is next.
ReadOK(m, start, end, k, read) ==
    /\ read \in Results
    /\ read.ok => /\ Len(read.bytes) = Pos(m, start, end, k) - start
                  /\ SoundTo(m, start, end, k, read.bytes)

\* The state of the loop after t turns.
ReadState(m, d, start, end, s, t) ==
    /\ s.next \in 1 .. Len(m.entries) + 1
    /\ Unread(m, end, s) => s.next >= t + 1
    /\ s.next <= Len(m.entries) => start < EndOf(m, s.next)
    /\ ReadOK(m, start, end, s.next, s.read)
    /\ Intact(m) => s.read = Return(Slice(d, start, Pos(m, start, end, s.next)))

\* The bytes of a run that a ranged GET returned, and its verification.
Fetch(m, start, end, i, j) ==
    GetRange(m.entries[i].pack, m.entries[i].offset + (From(m, start, i) - StartsOf(m)[i]),
             To(m, end, j) - From(m, start, i))

\* The GET returned what was asked for, and it was verified.
FetchOK(m, start, end, i, j) ==
    /\ FullLength(Fetch(m, start, end, i, j), To(m, end, j) - From(m, start, i))
    /\ Verified(m, i, j, From(m, start, i), To(m, end, j), Fetch(m, start, end, i, j).bytes)

\* A turn of the loop, by its cases.
LEMMA RunRead ==
    ASSUME NEW m, NEW start, NEW end, NEW s
    PROVE  LET i == s.next
               j == RunEnd(m, i, end)
           IN ReadRun(m, start, end, s) =
                  IF s.next > Len(m.entries) \/ StartsOf(m)[s.next] >= end THEN s
                  ELSE [next |-> j + 1,
                        read |-> IF FetchOK(m, start, end, i, j)
                                 THEN Then(s.read, Fetch(m, start, end, i, j)) ELSE Raise]
  BY DEF ReadRun, FetchOK, Fetch, From, To

\* What RunIs says of a run, for its last entry j.
RunOK(m, start, end, i, j) ==
    /\ i \in 1 .. Len(m.entries) /\ j \in 1 .. Len(m.entries) /\ i <= j /\ OneRun(m, i, j)
    /\ From(m, start, i) \in Nat /\ To(m, end, j) \in Nat
    /\ start <= From(m, start, i) /\ From(m, start, i) < To(m, end, j) /\ To(m, end, j) <= end
    /\ StartsOf(m)[i] <= From(m, start, i) /\ To(m, end, j) <= EndOf(m, j)
    /\ start < EndOf(m, j)
    /\ Pos(m, start, end, i) = From(m, start, i) /\ Pos(m, start, end, j + 1) = To(m, end, j)

\* The run that the loop takes is one.
LEMMA RunIsOK ==
    ASSUME NEW m, NEW d, NEW start, NEW end, InRange(m, d, start, end),
           NEW i \in 1 .. Len(m.entries), StartsOf(m)[i] < end, start < EndOf(m, i)
    PROVE  RunOK(m, start, end, i, RunEnd(m, i, end))
<1> DEFINE j == RunEnd(m, i, end)
<1>1. /\ j \in i .. Len(m.entries)
      /\ \A k \in i + 1 .. j : Contiguous(m, k)
      /\ From(m, start, i) \in Nat /\ To(m, end, j) \in Nat
      /\ start <= From(m, start, i) /\ From(m, start, i) < To(m, end, j) /\ To(m, end, j) <= end
      /\ StartsOf(m)[i] <= From(m, start, i) /\ To(m, end, j) <= EndOf(m, j)
      /\ start < EndOf(m, j)
      /\ Pos(m, start, end, i) = From(m, start, i)
      /\ Pos(m, start, end, j + 1) = To(m, end, j)
  BY RunIs
<1>2. Len(m.entries) \in Nat
  BY EntriesAre DEF InRange
<1> HIDE DEF j
<1>3. j \in 1 .. Len(m.entries) /\ i <= j /\ OneRun(m, i, j)
  BY <1>1, <1>2 DEF OneRun
<1>4. RunOK(m, start, end, i, j)
  BY <1>1, <1>3 DEF RunOK
<1> QED
  BY <1>4 DEF j

\* The entries of a run that lie in the range are those the GET covers.
LEMMA CoveredAre ==
    ASSUME NEW m, NEW d, NEW start, NEW end, InRange(m, d, start, end), NEW i, NEW j,
           RunOK(m, start, end, i, j), NEW l \in i .. j,
           start <= StartsOf(m)[l], EndOf(m, l) <= end
    PROVE  /\ l \in 1 .. Len(m.entries)
           /\ From(m, start, i) <= StartsOf(m)[l] /\ EndOf(m, l) <= To(m, end, j)
<1>1. /\ l \in 1 .. Len(m.entries) /\ i \in 1 .. Len(m.entries) /\ j \in 1 .. Len(m.entries)
      /\ i \in Nat /\ j \in Nat /\ l \in Nat /\ i <= l /\ l <= j
  BY EntriesAre DEF InRange, RunOK
<1>2. \A k \in 1 .. Len(m.entries) : /\ StartsOf(m)[k] \in Nat /\ EndOf(m, k) \in Nat
                                     /\ StartsOf(m)[k] < EndOf(m, k)
  BY DEF InRange, Tiled
<1>3. \A k, h \in 1 .. Len(m.entries) : k < h => EndOf(m, k) <= StartsOf(m)[h]
  BY DEF InRange, Tiled
<1>4. StartsOf(m)[i] <= StartsOf(m)[l]
  <2>1. CASE i = l
    BY <1>1, <1>2, <2>1
  <2>2. CASE i < l
    BY <1>1, <1>2, <1>3, <2>2
  <2> QED
    BY <1>1, <2>1, <2>2
<1>5. EndOf(m, l) <= EndOf(m, j)
  <2>1. CASE l = j
    BY <1>1, <1>2, <2>1
  <2>2. CASE l < j
    BY <1>1, <1>2, <1>3, <2>2
  <2> QED
    BY <1>1, <2>1, <2>2
<1> QED
  BY <1>1, <1>4, <1>5 DEF From, To

\* A run that was fetched and verified has the right bytes where it is verified.
LEMMA FetchIs ==
    ASSUME NEW m, NEW d, NEW start, NEW end, InRange(m, d, start, end), NEW i, NEW j,
           RunOK(m, start, end, i, j)
    PROVE  /\ Fetch(m, start, end, i, j) \in Results
           /\ FetchOK(m, start, end, i, j) =>
                 LET got == Fetch(m, start, end, i, j)
                 IN /\ got.ok /\ Len(got.bytes) = To(m, end, j) - From(m, start, i)
                    /\ \A l \in i .. j :
                          start <= StartsOf(m)[l] /\ EndOf(m, l) <= end =>
                              \A x \in 1 .. Length(m.entries[l]) :
                                  got.bytes[(StartsOf(m)[l] - From(m, start, i)) + x]
                                      = m.entries[l].chunk[x]
<1> DEFINE got == Fetch(m, start, end, i, j)
           from == From(m, start, i)
           to == To(m, end, j)
<1>1. got \in Results
  <2>1. m.entries[i].offset \in Nat /\ StartsOf(m)[i] \in Nat
    <3>1. i \in 1 .. Len(m.entries)
      BY DEF RunOK
    <3> QED
      BY <3>1, EntriesAre DEF InRange, Tiled
  <2>2. from \in Nat /\ to \in Nat /\ StartsOf(m)[i] <= from /\ from < to
    BY DEF RunOK
  <2>3. store \in [DOMAIN store -> Seq(Bytes)]
    BY DEF InRange
  <2> DEFINE length == to - from
             at == m.entries[i].offset + (from - StartsOf(m)[i])
  <2>4. at \in Nat /\ length \in Nat
    BY <2>1, <2>2
  <2>5. got = GetRange(m.entries[i].pack, at, length)
    BY DEF Fetch
  <2> HIDE DEF length, at, got
  <2> QED
    BY <2>3, <2>4, <2>5, GetRangeIs
<1>2. ASSUME FetchOK(m, start, end, i, j)
      PROVE  /\ got.ok /\ Len(got.bytes) = to - from
             /\ \A l \in i .. j :
                   start <= StartsOf(m)[l] /\ EndOf(m, l) <= end =>
                       \A x \in 1 .. Length(m.entries[l]) :
                           got.bytes[(StartsOf(m)[l] - from) + x] = m.entries[l].chunk[x]
  <2>1. got.ok /\ Len(got.bytes) = to - from
    BY <1>2 DEF FetchOK, FullLength
  <2>2. ASSUME NEW l \in i .. j, start <= StartsOf(m)[l], EndOf(m, l) <= end
        PROVE  \A x \in 1 .. Length(m.entries[l]) :
                   got.bytes[(StartsOf(m)[l] - from) + x] = m.entries[l].chunk[x]
    <3> DEFINE a == StartsOf(m)[l]
               b == EndOf(m, l)
               lo == a - from
               hi == b - from
               body == got.bytes
               z == Length(m.entries[l])
               chunk == m.entries[l].chunk
    <3>1. l \in 1 .. Len(m.entries) /\ from <= a /\ b <= to
      BY <2>2, CoveredAre
    <3>2. Slice(body, lo, hi) = chunk
      BY <1>2, <3>1 DEF FetchOK, Verified, Covered
    <3>3. a \in Nat /\ b \in Nat /\ a < b /\ b = a + z /\ z \in Nat
      <4>1. z \in Nat
        BY <3>1, EntriesAre DEF InRange
      <4> QED
        BY <3>1, <4>1 DEF InRange, Tiled
    <3>4. from \in Nat /\ to \in Nat
      BY DEF RunOK
    <3>5. body \in Seq(Bytes) /\ Len(body) = to - from
      BY <1>1, <2>1 DEF Results
    <3> HIDE DEF a, b, from, to, got, body, z, chunk
    <3>6. lo \in Nat /\ hi \in Nat /\ lo <= hi /\ hi <= Len(body) /\ hi - lo = z
      <4>1. lo \in Int /\ hi \in Int /\ 0 <= lo /\ lo <= hi /\ hi <= to - from
        BY <3>1, <3>3, <3>4
      <4>2. hi - lo = z
        BY <3>3, <3>4
      <4> HIDE DEF lo, hi
      <4> QED
        BY <3>5, <4>1, <4>2
    <3> HIDE DEF lo, hi
    <3>7. \A x \in 1 .. hi - lo : Slice(body, lo, hi)[x] = body[lo + x]
      BY <3>5, <3>6, SliceIs
    <3>8. \A x \in 1 .. z : body[lo + x] = chunk[x]
      BY <3>2, <3>6, <3>7
    <3> QED
      BY <3>8 DEF lo, body, z, chunk, a, from, got
  <2> QED
    BY <2>1, <2>2
<1> QED
  BY <1>1, <1>2

\* A run of intact packs is read and verified.
LEMMA FetchIntact ==
    ASSUME NEW m, NEW d, NEW start, NEW end, InRange(m, d, start, end), NEW i, NEW j,
           RunOK(m, start, end, i, j), Intact(m)
    PROVE  /\ Fetch(m, start, end, i, j) = Return(Slice(d, From(m, start, i), To(m, end, j)))
           /\ FetchOK(m, start, end, i, j)
<1> DEFINE from == From(m, start, i)
           to == To(m, end, j)
           got == Fetch(m, start, end, i, j)
           part == Slice(d, from, to)
<1>1. /\ i \in 1 .. Len(m.entries) /\ j \in 1 .. Len(m.entries) /\ OneRun(m, i, j)
      /\ from \in Nat /\ to \in Nat /\ from < to /\ from <= to /\ to <= end
      /\ StartsOf(m)[i] <= from /\ to <= EndOf(m, j)
  <2>1. /\ i \in 1 .. Len(m.entries) /\ j \in 1 .. Len(m.entries) /\ OneRun(m, i, j)
        /\ from \in Nat /\ to \in Nat /\ from < to /\ to <= end
        /\ StartsOf(m)[i] <= from /\ to <= EndOf(m, j)
    BY DEF RunOK
  <2> HIDE DEF from, to
  <2> QED
    BY <2>1
<1>2. d \in Seq(Bytes) /\ Len(d) \in Nat /\ end \in Nat /\ end <= Len(d) /\ Tiled(m, d)
  BY LenProperties DEF InRange
<1>3. m.entries[i].pack \in DOMAIN store /\ store[m.entries[i].pack] = m.entries[i].pack
  BY <1>1 DEF Intact
<1>4. got = Return(part)
  <2>1. got = GetRange(m.entries[i].pack, m.entries[i].offset + (from - StartsOf(m)[i]), to - from)
    BY DEF Fetch
  <2> HIDE DEF from, to, got
  <2> QED
    BY <1>1, <1>3, <2>1, RunGot
<1> HIDE DEF from, to
<1>5. to <= Len(d)
  BY <1>1, <1>2
<1>6. part \in Seq(Bytes) /\ Len(part) = to - from
  BY <1>1, <1>2, <1>5, SliceIs
<1>7. got.ok /\ got.bytes = part
  BY <1>4 DEF Return
<1>8. FullLength(got, to - from)
  BY <1>6, <1>7 DEF FullLength
<1>9. Verified(m, i, j, from, to, part)
  <2>1. ASSUME NEW k \in i .. j, Covered(from, to, StartsOf(m)[k], EndOf(m, k))
        PROVE  Slice(part, StartsOf(m)[k] - from, EndOf(m, k) - from) = m.entries[k].chunk
    <3> DEFINE a == StartsOf(m)[k]
               b == EndOf(m, k)
    <3>1. k \in 1 .. Len(m.entries)
      BY <1>1, <1>2 DEF Tiled
    <3>2. a \in Nat /\ b \in Nat /\ a < b /\ m.entries[k].chunk = Slice(d, a, b)
      BY <1>2, <3>1 DEF Tiled
    <3>3. from <= a /\ b <= to
      <4>1. a >= from /\ b <= to
        BY <2>1 DEF Covered
      <4> HIDE DEF a, b
      <4> QED
        BY <1>1, <3>2, <4>1
    <3> HIDE DEF a, b
    <3>4. a <= b
      BY <3>2
    <3>5. Slice(part, a - from, b - from) = Slice(d, a, b)
      BY <1>1, <1>2, <1>5, <3>2, <3>3, <3>4, SliceOfSlice
    <3> QED
      BY <3>2, <3>5 DEF a, b
  <2> QED
    BY <2>1 DEF Verified
<1>10. FetchOK(m, start, end, i, j)
  BY <1>7, <1>8, <1>9 DEF FetchOK, from, to
<1> QED
  BY <1>4, <1>10 DEF from, to

\* What a turn of the loop adds to what was read.
LEMMA RunReadsOn ==
    ASSUME NEW m, NEW d, NEW start, NEW end, InRange(m, d, start, end), NEW i, NEW j,
           RunOK(m, start, end, i, j), NEW read, ReadOK(m, start, end, i, read),
           read.ok, FetchOK(m, start, end, i, j)
    PROVE  ReadOK(m, start, end, j + 1, Then(read, Fetch(m, start, end, i, j)))
<1> DEFINE from == From(m, start, i)
           to == To(m, end, j)
           got == Fetch(m, start, end, i, j)
           a == read.bytes
           b == got.bytes
           n == Len(m.entries)
<1>1. /\ read = Return(a) /\ a \in Seq(Bytes) /\ Len(a) = from - start
      /\ SoundTo(m, start, end, i, a)
  <2>1. read \in Results /\ Pos(m, start, end, i) = from
    BY DEF ReadOK, RunOK
  <2> QED
    BY <2>1 DEF ReadOK, Results, Return
<1>2. /\ got = Return(b) /\ b \in Seq(Bytes) /\ Len(b) = to - from
      /\ \A l \in i .. j :
            start <= StartsOf(m)[l] /\ EndOf(m, l) <= end =>
                \A x \in 1 .. Length(m.entries[l]) :
                    b[(StartsOf(m)[l] - from) + x] = m.entries[l].chunk[x]
  <2>1. /\ got \in Results /\ got.ok /\ Len(b) = to - from
        /\ \A l \in i .. j :
              start <= StartsOf(m)[l] /\ EndOf(m, l) <= end =>
                  \A x \in 1 .. Length(m.entries[l]) :
                      b[(StartsOf(m)[l] - from) + x] = m.entries[l].chunk[x]
    BY FetchIs
  <2>2. got = Return(b) /\ b \in Seq(Bytes)
    <3> HIDE DEF got
    <3> QED
      BY <2>1 DEF Results, Return
  <2> QED
    BY <2>1, <2>2
<1>3. /\ i \in 1 .. n /\ j \in 1 .. n /\ i <= j /\ n \in Nat /\ i \in Nat /\ j \in Nat
      /\ from \in Nat /\ to \in Nat /\ start \in Nat /\ start <= from /\ from < to
      /\ StartsOf(m)[i] <= from /\ Pos(m, start, end, j + 1) = to
  <2>1. n \in Nat /\ start \in Nat
    BY EntriesAre DEF InRange
  <2> QED
    BY <2>1 DEF RunOK
<1>4. /\ \A k \in 1 .. n : /\ StartsOf(m)[k] \in Nat /\ EndOf(m, k) \in Nat
                           /\ Length(m.entries[k]) \in Nat
                           /\ EndOf(m, k) = StartsOf(m)[k] + Length(m.entries[k])
      /\ \A k, l \in 1 .. n : k < l => EndOf(m, k) <= StartsOf(m)[l]
  BY EntriesAre DEF InRange, Tiled
<1> DEFINE c == a \o b
<1>5. /\ Then(read, got) = Return(c) /\ c \in Seq(Bytes) /\ Len(c) = Len(a) + Len(b)
      /\ \A x \in 1 .. Len(a) : c[x] = a[x]
      /\ \A x \in 1 .. Len(b) : c[Len(a) + x] = b[x]
  <2> HIDE DEF a, b, got
  <2> QED
    BY <1>1, <1>2, ThenIs
<1> HIDE DEF from, to, got, a, b, c, n
<1>6. Len(c) = to - start
  <2>1. Len(c) = (from - start) + (to - from)
    BY <1>1, <1>2, <1>5
  <2> QED
    BY <1>3, <2>1
<1>7. ASSUME NEW l \in 1 .. j, start <= StartsOf(m)[l], EndOf(m, l) <= end,
             NEW x \in 1 .. Length(m.entries[l])
      PROVE  c[(StartsOf(m)[l] - start) + x] = m.entries[l].chunk[x]
  <2> DEFINE s == StartsOf(m)[l]
             z == Length(m.entries[l])
             chunk == m.entries[l].chunk
  <2>1. l \in 1 .. n /\ l \in Nat
    BY <1>3
  <2>2. s \in Nat /\ z \in Nat /\ EndOf(m, l) \in Nat /\ EndOf(m, l) = s + z /\ start <= s
    BY <1>4, <1>7, <2>1
  <2>3. CASE l < i
    <3>1. EndOf(m, l) <= StartsOf(m)[i] /\ StartsOf(m)[i] \in Nat
      BY <1>3, <1>4, <2>1, <2>3
    <3> HIDE DEF s, z
    <3>2. (s - start) + x \in 1 .. from - start
      BY <1>3, <1>7, <2>2, <3>1 DEF z
    <3>3. l \in 1 .. i - 1
      BY <1>3, <2>1, <2>3
    <3>4. a[(s - start) + x] = chunk[x]
      BY <1>1, <1>7, <3>3 DEF SoundTo, s
    <3>5. c[(s - start) + x] = a[(s - start) + x]
      BY <1>1, <1>5, <3>2
    <3> QED
      BY <3>4, <3>5 DEF s
  <2>4. CASE ~(l < i)
    <3>1. l \in i .. j
      BY <1>3, <2>1, <2>4
    <3>2. from <= s /\ EndOf(m, l) <= to
      BY <1>7, <3>1, CoveredAre DEF from, to
    <3>3. b[(s - from) + x] = chunk[x]
      BY <1>2, <1>7, <3>1
    <3> HIDE DEF s, z
    <3>4. /\ (s - from) + x \in 1 .. to - from
          /\ (from - start) + ((s - from) + x) = (s - start) + x
      BY <1>3, <1>7, <2>2, <3>2 DEF z
    <3>5. c[(from - start) + ((s - from) + x)] = b[(s - from) + x]
      BY <1>1, <1>2, <1>5, <3>4
    <3> QED
      BY <3>3, <3>4, <3>5 DEF s
  <2> QED
    BY <2>3, <2>4
<1>8. SoundTo(m, start, end, j + 1, c)
  <2>1. (j + 1) - 1 = j
    BY <1>3
  <2> QED
    BY <1>7, <2>1 DEF SoundTo
<1>9. ReadOK(m, start, end, j + 1, Return(c))
  <2>1. Return(c) \in Results /\ Return(c).bytes = c
    BY <1>5 DEF Return, Results
  <2> QED
    BY <1>3, <1>6, <1>8, <2>1 DEF ReadOK
<1> QED
  BY <1>5, <1>9 DEF got

\* The loop keeps what has been read right.
LEMMA RunKeeps ==
    ASSUME NEW m, NEW d, NEW start, NEW end, InRange(m, d, start, end), NEW t \in Nat,
           NEW s, ReadState(m, d, start, end, s, t)
    PROVE  ReadState(m, d, start, end, ReadRun(m, start, end, s), t + 1)
<1> DEFINE n == Len(m.entries)
           i == s.next
           j == RunEnd(m, i, end)
           u == ReadRun(m, start, end, s)
<1>1. /\ n \in Nat /\ start \in Nat /\ end \in Nat /\ end <= Len(d) /\ Len(d) \in Nat
      /\ d \in Seq(Bytes) /\ i \in 1 .. n + 1 /\ i \in Nat
      /\ \A k \in 1 .. n : /\ StartsOf(m)[k] \in Nat /\ EndOf(m, k) \in Nat
                           /\ StartsOf(m)[k] < EndOf(m, k)
                           /\ (k # n => StartsOf(m)[k + 1] = EndOf(m, k))
  <2>1. n \in Nat /\ start \in Nat /\ end \in Nat /\ end <= Len(d) /\ Len(d) \in Nat
        /\ d \in Seq(Bytes) /\ Tiled(m, d)
    BY EntriesAre, LenProperties DEF InRange
  <2>2. i \in 1 .. n + 1
    BY DEF ReadState
  <2>3. \A k \in 1 .. n : /\ StartsOf(m)[k] \in Nat /\ EndOf(m, k) \in Nat
                          /\ StartsOf(m)[k] < EndOf(m, k)
                          /\ (k # n => StartsOf(m)[k + 1] = EndOf(m, k))
    BY <2>1 DEF Tiled
  <2> QED
    BY <2>1, <2>2, <2>3
<1>2. CASE ~Unread(m, end, s)
  <2>1. s.next > n \/ StartsOf(m)[s.next] >= end
    <3>1. CASE i > n
      BY <3>1
    <3>2. CASE ~(i > n)
      <4>1. i \in 1 .. n /\ i <= n
        BY <1>1, <3>2
      <4>2. StartsOf(m)[i] \in Nat /\ ~(StartsOf(m)[i] < end)
        BY <1>1, <1>2, <4>1 DEF Unread
      <4> QED
        BY <1>1, <4>2
    <3> QED
      BY <3>1, <3>2
  <2>2. u = s
    BY <2>1, RunRead
  <2>3. ReadState(m, d, start, end, s, t + 1)
    BY <1>2 DEF ReadState
  <2> QED
    BY <2>2, <2>3
<1>3. CASE Unread(m, end, s)
  <2>1. /\ i \in 1 .. n /\ StartsOf(m)[i] < end /\ start < EndOf(m, i) /\ i >= t + 1
        /\ ReadOK(m, start, end, i, s.read)
        /\ Intact(m) => s.read = Return(Slice(d, start, Pos(m, start, end, i)))
    BY <1>1, <1>3 DEF Unread, ReadState
  <2>2. RunOK(m, start, end, i, j)
    BY <2>1, RunIsOK
  <2>3. /\ j \in 1 .. n /\ i <= j /\ start < EndOf(m, j)
        /\ From(m, start, i) \in Nat /\ To(m, end, j) \in Nat
        /\ start <= From(m, start, i) /\ From(m, start, i) < To(m, end, j)
        /\ To(m, end, j) <= end
        /\ Pos(m, start, end, i) = From(m, start, i)
        /\ Pos(m, start, end, j + 1) = To(m, end, j)
    BY <2>2 DEF RunOK
  <2> DEFINE got == Fetch(m, start, end, i, j)
             read == IF FetchOK(m, start, end, i, j) THEN Then(s.read, got) ELSE Raise
  <2>4. u = [next |-> j + 1, read |-> read]
    <3>1. ~(s.next > n) /\ ~(StartsOf(m)[s.next] >= end)
      BY <1>1, <2>1
    <3> QED
      BY <3>1, RunRead
  <2> HIDE DEF u
  <2>5. u.next = j + 1 /\ u.read = read
    BY <2>4
  <2>6. ReadOK(m, start, end, j + 1, read)
    <3>1. CASE s.read.ok /\ FetchOK(m, start, end, i, j)
      BY <2>1, <2>2, <3>1, RunReadsOn
    <3>2. CASE ~(s.read.ok /\ FetchOK(m, start, end, i, j))
      <4>1. read = Raise
        BY <3>2 DEF Then
      <4>2. Raise \in Results /\ ~Raise.ok
        <5>1. << >> \in Seq(Bytes)
          OBVIOUS
        <5> QED
          BY <5>1 DEF Raise, Results
      <4> HIDE DEF read
      <4> QED
        BY <4>1, <4>2 DEF ReadOK
    <3> QED
      BY <3>1, <3>2
  <2>7. ASSUME Intact(m) PROVE read = Return(Slice(d, start, To(m, end, j)))
    <3> DEFINE from == From(m, start, i)
               to == To(m, end, j)
    <3>1. FetchOK(m, start, end, i, j) /\ got = Return(Slice(d, from, to))
      BY <2>2, <2>7, FetchIntact
    <3>2. s.read = Return(Slice(d, start, from))
      BY <2>1, <2>3, <2>7
    <3>3. read = Then(s.read, got)
      BY <3>1
    <3>4. /\ from \in Nat /\ to \in Nat /\ start <= from /\ from <= to /\ to <= Len(d)
          /\ from <= Len(d)
      <4>1. /\ from \in Nat /\ to \in Nat /\ start <= from /\ from < to /\ to <= end
        BY <2>3
      <4> HIDE DEF from, to
      <4> QED
        BY <1>1, <4>1
    <3> HIDE DEF from, to, got, read
    <3>5. Slice(d, start, from) \in Seq(Bytes) /\ Slice(d, from, to) \in Seq(Bytes)
      BY <1>1, <3>4, SliceIs
    <3>6. Then(s.read, got) = Return(Slice(d, start, from) \o Slice(d, from, to))
      BY <3>1, <3>2, <3>5, ThenIs
    <3>7. Slice(d, start, from) \o Slice(d, from, to) = Slice(d, start, to)
      <4>1. /\ d \in Seq(Bytes) /\ start \in Nat /\ from \in Nat /\ to \in Nat
            /\ start <= from /\ from <= to /\ to <= Len(d)
        BY <1>1, <3>4
      <4> QED
        BY <4>1, SlicesJoin
    <3> QED
      BY <3>3, <3>6, <3>7 DEF to
  <2> HIDE DEF j, read
  <2>8. j + 1 \in 1 .. n + 1 /\ j + 1 >= (t + 1) + 1
    <3>1. n \in Nat /\ j \in 1 .. n
      BY <1>1, <2>3
    <3>2. i \in Nat /\ i <= j /\ i >= t + 1
      BY <2>1, <2>3
    <3> HIDE DEF n, i
    <3> QED
      BY <3>1, <3>2
  <2>9. j + 1 <= n => start < EndOf(m, j + 1)
    <3>1. ASSUME j + 1 <= n PROVE start < EndOf(m, j + 1)
      <4>1. j + 1 \in 1 .. n /\ j # n
        BY <1>1, <2>3, <3>1
      <4>2. StartsOf(m)[j + 1] = EndOf(m, j) /\ StartsOf(m)[j + 1] < EndOf(m, j + 1)
            /\ EndOf(m, j) \in Nat /\ EndOf(m, j + 1) \in Nat
        BY <1>1, <2>3, <4>1
      <4> QED
        BY <1>1, <2>3, <4>2
    <3> QED
      BY <3>1
  <2> QED
    <3>1. u.next = j + 1 /\ Pos(m, start, end, u.next) = To(m, end, j)
      BY <2>3, <2>5
    <3>2. u.next \in 1 .. n + 1 /\ u.next >= (t + 1) + 1
      BY <2>8, <3>1
    <3>3. u.next <= n => start < EndOf(m, u.next)
      BY <2>9, <3>1
    <3>4. ReadOK(m, start, end, u.next, u.read)
      BY <2>5, <2>6, <3>1
    <3>5. Intact(m) => u.read = Return(Slice(d, start, Pos(m, start, end, u.next)))
      BY <2>5, <2>7, <3>1
    <3>6. ReadState(m, d, start, end, u, t + 1)
      BY <3>2, <3>3, <3>4, <3>5 DEF ReadState
    <3> QED
      BY <3>6 DEF u
<1> QED
  BY <1>2, <1>3

\* Before the first turn.
LEMMA ReadStarts ==
    ASSUME NEW m, NEW d, NEW start, NEW end, InRange(m, d, start, end)
    PROVE  ReadState(m, d, start, end,
                     [next |-> EntryAt(m, start), read |-> Return(<< >>)], 0)
<1> DEFINE n == Len(m.entries)
           i == EntryAt(m, start)
<1>1. i \in 1 .. n /\ StartsOf(m)[i] <= start /\ start < EndOf(m, i)
  BY EntryAtIs
<1>2. n \in Nat /\ start \in Nat /\ start \in 0 .. Len(d) /\ d \in Seq(Bytes) /\ Tiled(m, d)
  <2>1. n \in Nat /\ start \in Nat /\ end \in Nat /\ start < end /\ end <= Len(d)
        /\ d \in Seq(Bytes) /\ Tiled(m, d) /\ Len(d) \in Nat
    BY EntriesAre, LenProperties DEF InRange
  <2> QED
    BY <2>1
<1> HIDE DEF i, n
<1>3. i \in 1 .. n + 1 /\ i >= 0 + 1
  BY <1>1, <1>2
<1>4. Pos(m, start, end, i) = start
  <2>1. Before(m, i) = StartsOf(m)[i]
    BY <1>1, <1>2, BeforeIs DEF n
  <2> QED
    BY <1>1, <2>1 DEF Pos
<1>5. Return(<< >>) \in Results /\ Return(<< >>).bytes = << >> /\ Len(<< >>) = start - start
  <2>1. << >> \in Seq(Bytes) /\ Len(<< >>) = 0 /\ start - start = 0
    BY <1>2
  <2> QED
    BY <2>1 DEF Return, Results
<1>6. SoundTo(m, start, end, i, << >>)
  <2>1. ASSUME NEW l \in 1 .. i - 1 PROVE ~(start <= StartsOf(m)[l])
    <3>1. l \in 1 .. n /\ l < i
      BY <1>1, <1>2
    <3>2. /\ StartsOf(m)[l] \in Nat /\ EndOf(m, l) \in Nat /\ StartsOf(m)[l] < EndOf(m, l)
          /\ EndOf(m, l) <= StartsOf(m)[i] /\ StartsOf(m)[i] \in Nat
      BY <1>1, <1>2, <3>1 DEF Tiled, n
    <3> QED
      BY <1>1, <1>2, <3>2
  <2> QED
    BY <2>1 DEF SoundTo
<1>7. ReadOK(m, start, end, i, Return(<< >>))
  BY <1>4, <1>5, <1>6 DEF ReadOK
<1>8. Slice(d, start, start) = << >>
  BY <1>2, SliceWhole
<1> QED
  BY <1>1, <1>3, <1>4, <1>7, <1>8 DEF ReadState, i, n

\* What a read of a range returns, for the range start to end of a chunked payload.
RangeOK(m, d, start, end, r) ==
    /\ r \in Results
    /\ r.ok => /\ Len(r.bytes) = end - start
               /\ SoundTo(m, start, end, Len(m.entries) + 1, r.bytes)
    /\ Intact(m) => r = Return(Slice(d, start, end))

\* The loop reads the whole range.
LEMMA RangeIsRead ==
    ASSUME NEW m, NEW d, NEW start, NEW end, InRange(m, d, start, end)
    PROVE  RangeOK(m, d, start, end, Reading(m, start, end)[Len(m.entries)].read)
<1> DEFINE n == Len(m.entries)
           turn == Reading(m, start, end)
           P == {t \in 0 .. n : ReadState(m, d, start, end, turn[t], t)}
<1> SUFFICES RangeOK(m, d, start, end, turn[n].read)
  OBVIOUS
<1>1. /\ n \in Nat /\ start \in Nat /\ end \in Nat /\ start < end /\ end <= Len(d)
      /\ Len(d) \in Nat /\ Tiled(m, d) /\ d \in Seq(Bytes)
  BY EntriesAre, LenProperties DEF InRange
<1>2. /\ turn[0] = [next |-> EntryAt(m, start), read |-> Return(<< >>)]
      /\ \A t \in 1 .. n : turn[t] = ReadRun(m, start, end, turn[t - 1])
  BY <1>1, ReadingLoop
<1> HIDE DEF turn
<1>3. 0 \in P
  BY <1>1, <1>2, ReadStarts
<1>4. ASSUME NEW t \in 0 .. n, t # n, t \in P PROVE t + 1 \in P
  <2>1. t \in Nat /\ t + 1 \in 1 .. n /\ t + 1 \in 0 .. n /\ (t + 1) - 1 = t
    BY <1>1, <1>4
  <2>2. turn[t + 1] = ReadRun(m, start, end, turn[t]) /\ ReadState(m, d, start, end, turn[t], t)
    BY <1>2, <1>4, <2>1
  <2>3. ReadState(m, d, start, end, turn[t + 1], t + 1)
    BY <2>1, <2>2, RunKeeps
  <2> QED
    BY <2>1, <2>3
<1>5. \A t \in 0 .. n : t \in P
  <2> HIDE DEF P, n
  <2> QED
    BY <1>1, <1>3, <1>4, Turnwise
<1> DEFINE s == turn[n]
           k == s.next
<1>6. ReadState(m, d, start, end, s, n)
  <2>1. n \in 0 .. n
    BY <1>1
  <2> QED
    BY <1>5, <2>1
<1> HIDE DEF s
<1>7. /\ k \in 1 .. n + 1 /\ k \in Nat /\ ReadOK(m, start, end, k, s.read)
      /\ Intact(m) => s.read = Return(Slice(d, start, Pos(m, start, end, k)))
  <2>1. /\ k \in 1 .. n + 1 /\ ReadOK(m, start, end, k, s.read)
        /\ Intact(m) => s.read = Return(Slice(d, start, Pos(m, start, end, k)))
    BY <1>6 DEF ReadState
  <2> QED
    BY <1>1, <2>1
<1>8. ~Unread(m, end, s)
  <2>1. Unread(m, end, s) => k >= n + 1 /\ k <= n
    BY <1>6 DEF ReadState, Unread
  <2> QED
    BY <1>1, <1>7, <2>1
<1>9. k = n + 1 \/ (k \in 1 .. n /\ end <= StartsOf(m)[k])
  <2>1. CASE k <= n
    <3>1. k \in 1 .. n
      BY <1>1, <1>7, <2>1
    <3>2. StartsOf(m)[k] \in Nat /\ ~(StartsOf(m)[k] < end)
      BY <1>1, <1>8, <2>1, <3>1 DEF Tiled, Unread
    <3> QED
      BY <1>1, <3>1, <3>2
  <2>2. CASE ~(k <= n)
    BY <1>1, <1>7, <2>2
  <2> QED
    BY <2>1, <2>2
<1> HIDE DEF k, n
<1>10. Before(m, k) \in Nat /\ end <= Before(m, k)
  <2>1. CASE k = n + 1
    <3>1. Before(m, n + 1) = Len(d)
      BY <1>1, BeforeIs DEF n
    <3> QED
      BY <1>1, <2>1, <3>1
  <2>2. CASE k \in 1 .. n /\ end <= StartsOf(m)[k]
    <3>1. Before(m, k) = StartsOf(m)[k] /\ StartsOf(m)[k] \in Nat
      BY <1>1, <2>2, BeforeIs DEF n, Tiled
    <3> QED
      BY <2>2, <3>1
  <2> QED
    BY <1>9, <2>1, <2>2
<1>11. Pos(m, start, end, k) = end
  <2> DEFINE b == Before(m, k)
  <2>1. Pos(m, start, end, k) = IF b <= start THEN start ELSE IF b < end THEN b ELSE end
    BY DEF Pos
  <2>2. b \in Nat /\ end <= b
    BY <1>10
  <2> HIDE DEF b
  <2> QED
    BY <1>1, <2>1, <2>2
<1>12. ASSUME NEW l \in 1 .. n, EndOf(m, l) <= end PROVE l \in 1 .. k - 1
  <2>1. StartsOf(m)[l] \in Nat /\ EndOf(m, l) \in Nat /\ StartsOf(m)[l] < EndOf(m, l)
    BY <1>1 DEF Tiled, n
  <2>2. CASE k = n + 1
    BY <1>1, <2>2
  <2>3. CASE k \in 1 .. n /\ end <= StartsOf(m)[k]
    <3>1. StartsOf(m)[k] \in Nat /\ (k < l => EndOf(m, k) <= StartsOf(m)[l])
          /\ EndOf(m, k) \in Nat /\ StartsOf(m)[k] < EndOf(m, k)
      BY <1>1, <2>3 DEF Tiled, n
    <3>2. ~(k < l) /\ k # l
      BY <1>1, <1>12, <2>1, <2>3, <3>1
    <3> QED
      BY <1>1, <1>7, <3>2
  <2> QED
    BY <1>9, <2>2, <2>3
<1>13. /\ s.read \in Results
       /\ s.read.ok => Len(s.read.bytes) = end - start /\ SoundTo(m, start, end, k, s.read.bytes)
       /\ Intact(m) => s.read = Return(Slice(d, start, end))
  BY <1>7, <1>11 DEF ReadOK
<1>14. s.read.ok => SoundTo(m, start, end, n + 1, s.read.bytes)
  <2>1. (n + 1) - 1 = n
    BY <1>1
  <2> QED
    BY <1>12, <1>13, <2>1 DEF SoundTo
<1>15. RangeOK(m, d, start, end, s.read)
  BY <1>13, <1>14 DEF RangeOK, n
<1> QED
  BY <1>15 DEF s

\* A slice that reaches past the end, or begins there.
LEMMA SliceIsClipped ==
    ASSUME NEW d \in Seq(Bytes), NEW s \in Nat, NEW e \in Nat
    PROVE  /\ Slice(d, s, e) = Slice(d, s, IF e < Len(d) THEN e ELSE Len(d))
           /\ s >= Len(d) => Slice(d, s, e) = << >>
<1>1. Len(d) \in Nat
  BY LenProperties
<1> DEFINE last == IF e < Len(d) THEN e ELSE Len(d)
<1>2. last \in Nat /\ last <= Len(d) /\ (IF last < Len(d) THEN last ELSE Len(d)) = last
  BY <1>1
<1>3. Slice(d, s, e) = SubSeq(d, s + 1, last) /\ Slice(d, s, last) = SubSeq(d, s + 1, last)
  BY <1>2 DEF Slice
<1>4. ASSUME s >= Len(d) PROVE Slice(d, s, e) = << >>
  <2> HIDE DEF last
  <2>1. s + 1 \in Int /\ last \in Int /\ ~(s + 1 <= last)
    BY <1>1, <1>2, <1>4
  <2>2. \A i \in s + 1 .. last : d[i] \in Bytes
    BY <2>1
  <2>3. SubSeq(d, s + 1, last) \in Seq(Bytes) /\ Len(SubSeq(d, s + 1, last)) = 0
    BY <2>1, <2>2, SubSeqProperties
  <2>4. SubSeq(d, s + 1, last) = << >>
    BY <2>3, EmptySeq
  <2> QED
    BY <1>3, <2>4
<1> QED
  BY <1>3, <1>4

---------------------------------------------------------------------------
(* cat_file *)

\* Where a position is, counted from the start of the payload, and the position
\* of the end: what lies before the start is not clamped yet.
Start(start) == FromStart(Len(data), start)
End(end) == IF end >= 0 THEN end ELSE Len(data) + end
Clipped(end) == IF End(end) < Len(data) THEN End(end) ELSE Len(data)

\* A slice and a read of it are empty in the same cases, and take the same range
\* in the others.
LEMMA CatFileIs ==
    ASSUME NEW start \in Int, NEW end \in Int, TransportInv
    PROVE  /\ Start(start) \in Nat /\ End(end) \in Int
           /\ End(end) <= Start(start) \/ Start(start) >= Len(data) =>
                 /\ PythonSlice(data, start, end) = << >>
                 /\ CatFile(start, end) = Return(<< >>)
           /\ ~(End(end) <= Start(start) \/ Start(start) >= Len(data)) =>
                 /\ PythonSlice(data, start, end) = Slice(data, Start(start), Clipped(end))
                 /\ ~IsChunked(manifest) =>
                       CatFile(start, end) = Return(Slice(data, Start(start), Clipped(end)))
                 /\ IsChunked(manifest) =>
                       /\ InRange(manifest, data, Start(start), Clipped(end))
                       /\ CatFile(start, end) =
                             Reading(manifest, Start(start), Clipped(end))
                                 [Len(manifest.entries)].read
<1> DEFINE size == Len(data)
           s == Start(start)
           e == End(end)
           last == Clipped(end)
           clamped == IF e >= 0 THEN e ELSE 0
<1>1. data \in Seq(Bytes) /\ size \in Nat /\ ManifestOK(manifest)
      /\ (IsChunked(manifest) => Cut(manifest, data) /\ Tiled(manifest, data))
      /\ store \in [DOMAIN store -> Seq(Bytes)]
  <2>1. data \in Seq(Bytes)
    BY PayloadsAre DEF TransportInv
  <2>2. ManifestOK(manifest) /\ store \in [DOMAIN store -> Seq(Bytes)]
        /\ (IsChunked(manifest) => Cut(manifest, data))
    BY DEF TransportInv, StoreOK
  <2> QED
    BY <2>1, <2>2, EntriesTile, LenProperties
<1>2. s \in Nat /\ e \in Int
  BY <1>1 DEF Start, FromStart, End
<1>3. /\ last = IF e < size THEN e ELSE size
      /\ CatFile(start, end) = IF IsChunked(manifest) THEN ReadRange(manifest, size, s, e - s)
                               ELSE Return(IF e <= s THEN << >> ELSE Slice(data, s, e))
  BY DEF CatFile, Start, End, Clipped
<1>4. PythonSlice(data, start, end) = IF clamped <= s THEN << >> ELSE Slice(data, s, clamped)
  <2>1. s = IF start >= 0 THEN start ELSE IF size + start > 0 THEN size + start ELSE 0
    BY DEF Start, FromStart
  <2>2. clamped = IF end >= 0 THEN end ELSE IF size + end > 0 THEN size + end ELSE 0
    BY <1>1 DEF End
  <2> HIDE DEF clamped, s
  <2> QED
    BY <2>1, <2>2 DEF PythonSlice
<1>5. ReadRange(manifest, size, s, e - s) =
          IF e - s <= 0 \/ s >= size THEN Return(<< >>)
          ELSE Reading(manifest, s, last)[Len(manifest.entries)].read
  <2>1. s + (e - s) = e
    BY <1>2
  <2> HIDE DEF s, e
  <2> QED
    BY <1>3, <2>1 DEF ReadRange
<1> HIDE DEF size, s, e, last
<1>6. ASSUME e <= s \/ s >= size
      PROVE  PythonSlice(data, start, end) = << >> /\ CatFile(start, end) = Return(<< >>)
  <2>1. CASE e <= s
    <3>1. clamped <= s /\ e - s <= 0
      BY <1>2, <2>1
    <3> QED
      BY <1>3, <1>4, <1>5, <2>1, <3>1
  <2>2. CASE s >= size /\ ~(e <= s)
    <3>1. e \in Nat /\ clamped = e
      BY <1>2, <2>2
    <3>2. Slice(data, s, e) = << >>
      BY <1>1, <1>2, <2>2, <3>1, SliceIsClipped DEF size
    <3> QED
      BY <1>3, <1>4, <1>5, <2>2, <3>1, <3>2
  <2> QED
    BY <1>6, <2>1, <2>2
<1>7. ASSUME ~(e <= s \/ s >= size)
      PROVE  /\ PythonSlice(data, start, end) = Slice(data, s, last)
             /\ ~IsChunked(manifest) => CatFile(start, end) = Return(Slice(data, s, last))
             /\ IsChunked(manifest) =>
                   /\ InRange(manifest, data, s, last)
                   /\ CatFile(start, end) =
                         Reading(manifest, s, last)[Len(manifest.entries)].read
  <2>1. e \in Nat /\ clamped = e /\ ~(e - s <= 0) /\ last \in Nat /\ s < last /\ last <= size
    BY <1>1, <1>2, <1>3, <1>7
  <2>2. Slice(data, s, e) = Slice(data, s, last)
    BY <1>1, <1>2, <1>3, <2>1, SliceIsClipped DEF size
  <2>3. IsChunked(manifest) => InRange(manifest, data, s, last)
    BY <1>1, <1>2, <2>1 DEF InRange, size
  <2> HIDE DEF clamped
  <2> QED
    BY <1>3, <1>4, <1>5, <1>7, <2>1, <2>2, <2>3
<1> QED
  BY <1>2, <1>6, <1>7 DEF s, e, last, size

\* A selective read of a payload returns what the slice of it has, for all starts
\* and ends: cat_file, read_range and the runs of contiguous entries
\* (ReadsAreExact).
THEOREM ReadsHold == Spec => []ReadsAreExact
<1>1. TransportInv => ReadsAreExact
  <2> SUFFICES ASSUME TransportInv, ~damaged, NEW start \in Positions, NEW end \in Positions
               PROVE  CatFile(start, end) = Return(PythonSlice(data, start, end))
    BY DEF ReadsAreExact
  <2>1. start \in Int /\ end \in Int
    <3>1. MaxSize \in Nat
      BY TransportAssumption
    <3> QED
      BY <3>1 DEF Positions
  <2> DEFINE s == Start(start)
             e == Clipped(end)
             r == Reading(manifest, s, e)[Len(manifest.entries)].read
  <2>2. CASE End(end) <= Start(start) \/ Start(start) >= Len(data)
    BY <2>1, <2>2, CatFileIs
  <2>3. CASE ~(End(end) <= Start(start) \/ Start(start) >= Len(data))
    <3>1. /\ PythonSlice(data, start, end) = Slice(data, s, e)
          /\ ~IsChunked(manifest) => CatFile(start, end) = Return(Slice(data, s, e))
          /\ IsChunked(manifest) =>
                InRange(manifest, data, s, e) /\ CatFile(start, end) = r
      BY <2>1, <2>3, CatFileIs
    <3>2. Intact(manifest)
      <4>1. \A p \in PackKeys(manifest) : p \in DOMAIN store /\ store[p] = p
        BY DEF TransportInv, StoreOK
      <4>2. \A i \in 1 .. Len(manifest.entries) : manifest.entries[i].pack \in PackKeys(manifest)
        BY EntriesAre DEF TransportInv, PackKeys
      <4> QED
        BY <4>1, <4>2 DEF Intact
    <3> HIDE DEF s, e
    <3>3. IsChunked(manifest) => r = Return(Slice(data, s, e))
      <4>1. ASSUME IsChunked(manifest) PROVE RangeOK(manifest, data, s, e, r)
        BY <3>1, <4>1, RangeIsRead
      <4> QED
        BY <3>2, <4>1 DEF RangeOK
    <3> QED
      BY <3>1, <3>3
  <2> QED
    BY <2>2, <2>3
<1> QED
  BY TransportInvariant, <1>1, PTL

\* A selective read over damaged packs raises, or has the right length and, in
\* every chunk it covers, the right bytes: the length check and the verification of
\* covered chunks in read_range (DamageIsNoticed).
THEOREM DamageHolds == Spec => []DamageIsNoticed
<1>1. TransportInv => DamageIsNoticed
  <2> DEFINE m == manifest
             d == data
             Same(start, end, body, right) ==
                 /\ Len(body) = Len(right)
                 /\ \A i \in DOMAIN m.entries :
                       start <= StartsOf(m)[i] /\ EndOf(m, i) <= end =>
                           Slice(body, StartsOf(m)[i] - start, EndOf(m, i) - start)
                               = Slice(right, StartsOf(m)[i] - start, EndOf(m, i) - start)
  <2> SUFFICES ASSUME TransportInv, IsChunked(m),
                      NEW start \in 0 .. Len(d), NEW end \in 0 .. Len(d),
                      CatFile(start, end).ok
               PROVE  Same(start, end, CatFile(start, end).bytes, PythonSlice(d, start, end))
    BY DEF DamageIsNoticed, EndOf
  <2>1. /\ d \in Seq(Bytes) /\ Len(d) \in Nat /\ start \in Nat /\ end \in Nat
        /\ start <= Len(d) /\ end <= Len(d) /\ start \in Int /\ end \in Int
    <3>1. d \in Seq(Bytes) /\ Len(d) \in Nat
      BY PayloadsAre, LenProperties DEF TransportInv
    <3> QED
      BY <3>1
  <2>2. Start(start) = start /\ End(end) = end /\ Clipped(end) = end
    BY <2>1 DEF Start, FromStart, End, Clipped
  <2> DEFINE r == CatFile(start, end)
             right == PythonSlice(d, start, end)
  <2>3. CASE end <= start \/ start >= Len(d)
    <3>1. right = << >> /\ r = Return(<< >>)
      BY <2>1, <2>2, <2>3, CatFileIs
    <3>2. r.bytes = right
      BY <3>1 DEF Return
    <3>3. Same(start, end, right, right)
      <4> HIDE DEF right, m
      <4> QED
        OBVIOUS
    <3> HIDE DEF Same
    <3> QED
      BY <3>2, <3>3
  <2>4. CASE ~(end <= start \/ start >= Len(d))
    <3>1. /\ right = Slice(d, start, end)
          /\ InRange(m, d, start, end)
          /\ r = Reading(m, start, end)[Len(m.entries)].read
      <4>1. ~(End(end) <= Start(start) \/ Start(start) >= Len(d))
        BY <2>2, <2>4
      <4>2. /\ right = Slice(d, Start(start), Clipped(end))
            /\ InRange(m, d, Start(start), Clipped(end))
            /\ r = Reading(m, Start(start), Clipped(end))[Len(m.entries)].read
        BY <2>1, <4>1, CatFileIs
      <4> QED
        BY <2>2, <4>2
    <3>2. RangeOK(m, d, start, end, r)
      BY <3>1, RangeIsRead
    <3> HIDE DEF right, r, m, d
    <3> DEFINE body == r.bytes
    <3>3. body \in Seq(Bytes) /\ Len(body) = end - start
          /\ SoundTo(m, start, end, Len(m.entries) + 1, body)
      <4>1. r.ok
        BY DEF r
      <4> QED
        BY <3>2, <4>1 DEF RangeOK, Results
    <3>4. right \in Seq(Bytes) /\ Len(right) = end - start
      <4>1. start <= end
        BY <2>1, <2>4
      <4>2. Slice(d, start, end) \in Seq(Bytes) /\ Len(Slice(d, start, end)) = end - start
        BY <2>1, <4>1, SliceIs
      <4> QED
        BY <3>1, <4>2
    <3>5. DOMAIN m.entries = 1 .. Len(m.entries) /\ Len(m.entries) \in Nat /\ Tiled(m, d)
          /\ \A i \in 1 .. Len(m.entries) : /\ Length(m.entries[i]) \in Nat
                                            /\ m.entries[i].chunk \in Seq(Bytes)
      BY <3>1, EntriesAre DEF InRange
    <3> HIDE DEF body
    <3>6. ASSUME NEW i \in DOMAIN m.entries, start <= StartsOf(m)[i], EndOf(m, i) <= end
          PROVE  Slice(body, StartsOf(m)[i] - start, EndOf(m, i) - start)
                     = Slice(right, StartsOf(m)[i] - start, EndOf(m, i) - start)
      <4> DEFINE a == StartsOf(m)[i]
                 b == EndOf(m, i)
                 lo == a - start
                 hi == b - start
                 z == Length(m.entries[i])
                 chunk == m.entries[i].chunk
                 cut == Slice(body, lo, hi)
      <4>1. i \in 1 .. Len(m.entries) /\ i \in 1 .. (Len(m.entries) + 1) - 1
        BY <3>5
      <4>2. a \in Nat /\ b \in Nat /\ b = a + z /\ chunk = Slice(d, a, b)
        BY <3>5, <4>1 DEF Tiled
      <4>3. chunk \in Seq(Bytes) /\ Len(chunk) = z /\ z \in Nat
        BY <3>5, <4>1 DEF Length
      <4>4. \A x \in 1 .. z : body[lo + x] = chunk[x]
        BY <3>3, <3>6, <4>1 DEF SoundTo
      <4>5. start <= a /\ b <= end
        BY <3>6
      <4> HIDE DEF a, b, z, chunk
      <4>6. lo \in Nat /\ hi \in Nat /\ lo <= hi /\ hi - lo = z /\ hi <= end - start
        BY <2>1, <4>2, <4>3, <4>5
      <4>7. Slice(right, lo, hi) = chunk
        <5>1. a <= b
          BY <4>2, <4>3
        <5>2. Slice(Slice(d, start, end), a - start, b - start) = Slice(d, a, b)
          BY <2>1, <4>2, <4>5, <5>1, SliceOfSlice
        <5> QED
          BY <3>1, <4>2, <5>2
      <4> HIDE DEF lo, hi
      <4>8. cut \in Seq(Bytes) /\ Len(cut) = hi - lo /\ \A x \in 1 .. hi - lo : cut[x] = body[lo + x]
        <5>1. hi <= Len(body)
          BY <3>3, <4>6
        <5> QED
          BY <3>3, <4>6, <5>1, SliceIs
      <4> HIDE DEF cut
      <4>9. Len(cut) = Len(chunk) /\ \A x \in 1 .. Len(cut) : cut[x] = chunk[x]
        BY <4>3, <4>4, <4>6, <4>8
      <4>10. cut = chunk
        BY <4>3, <4>8, <4>9, SeqEqual
      <4>11. cut = Slice(right, lo, hi)
        BY <4>7, <4>10
      <4> QED
        BY <4>11 DEF cut, lo, hi, a, b
    <3>7. Same(start, end, body, right)
      BY <3>3, <3>4, <3>6
    <3> QED
      BY <3>7 DEF body, r, right, d, m
  <2> QED
    BY <2>3, <2>4
<1> QED
  BY TransportInvariant, <1>1, PTL
===========================================================================
