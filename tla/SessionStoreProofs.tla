--------------------------- MODULE SessionStoreProofs ---------------------------
(***************************************************************************)
(* Proofs about the store of a session.  Typed is the inductive invariant:  *)
(* the files have their types, a publication under way writes a generation  *)
(* above all others, which is the newest until superseded ones are gone,    *)
(* and every generation has its chunks.  From it follow that no number is   *)
(* given twice and that the cache is what a load finds.                     *)
(*                                                                         *)
(* CurrentOK, SeenOK and MissOK are the invariant of the process that reads *)
(* without a lease: what CURRENT names is whole and numbers only grow, the  *)
(* segment of a generation it left is closed and held the log, and an       *)
(* attempt misses a file only after CURRENT moved or when nobody can load.  *)
(***************************************************************************)
EXTENDS SessionStore, FiniteSetTheorems, WellFoundedInduction, SequenceTheorems, TLAPS

-----------------------------------------------------------------------------
(* Maxima, and what a sequence cut into chunks is made of.                 *)

LEMMA MaxOfSet ==
  ASSUME NEW S \in SUBSET Nat, NEW m \in S, \A n \in S : n <= m
  PROVE  Max(S) = m
<1>1. \A y \in S : m >= y
  OBVIOUS
<1>2. Max(S) \in S /\ \A y \in S : Max(S) >= y
  BY <1>1 DEF Max
<1>3. Max(S) \in Nat /\ Max(S) <= m /\ Max(S) >= m /\ m \in Nat
  BY <1>2
<1> QED BY <1>3

LEMMA MaxOfTwo ==
  ASSUME NEW m \in Nat, NEW n \in Nat
  PROVE  Max({m, n}) = IF m >= n THEN m ELSE n
<1>1. CASE m >= n
  BY <1>1, MaxOfSet
<1>2. CASE ~(m >= n)
  <2>1. n \in {m, n} /\ {m, n} \in SUBSET Nat /\ \A k \in {m, n} : k <= n
    BY <1>2
  <2> QED BY <2>1, <1>2, MaxOfSet
<1> QED BY <1>1, <1>2

LEMMA MinOfTwo ==
  ASSUME NEW m \in Nat, NEW n \in Nat
  PROVE  Min({m, n}) = IF m <= n THEN m ELSE n
<1>1. CASE m <= n
  <2>1. \A y \in {m, n} : m =< y
    BY <1>1
  <2>2. Min({m, n}) \in {m, n} /\ \A y \in {m, n} : Min({m, n}) =< y
    BY <2>1 DEF Min
  <2> QED BY <2>2, <1>1
<1>2. CASE ~(m <= n)
  <2>1. \A y \in {m, n} : n =< y
    BY <1>2
  <2>2. Min({m, n}) \in {m, n} /\ \A y \in {m, n} : Min({m, n}) =< y
    BY <2>1 DEF Min
  <2> QED BY <2>2, <1>2
<1> QED BY <1>1, <1>2

LEMMA ChunkSizePositive == ChunkSize \in Nat /\ ChunkSize >= 1
BY StoreAssumption

\* How many chunks a log of so many records has.
LEMMA ChunkCount ==
  ASSUME NEW n \in Nat
  PROVE  LET count == (n + ChunkSize - 1) \div ChunkSize
         IN  /\ count \in Nat
             /\ count * ChunkSize >= n
             /\ n > 0 => count >= 1 /\ (count - 1) * ChunkSize < n
             /\ n = 0 => count = 0
<1> DEFINE m == n + ChunkSize - 1
           count == m \div ChunkSize
<1>1. m \in Nat
  BY ChunkSizePositive
<1>2. /\ count \in Nat
      /\ ChunkSize * count <= m /\ m < ChunkSize * count + ChunkSize
  BY <1>1, ChunkSizePositive, SMTT(20)
<1> HIDE DEF count
<1>3. (count - 1) * ChunkSize = ChunkSize * count - ChunkSize /\ count * ChunkSize = ChunkSize * count
  BY <1>2, ChunkSizePositive
<1>4. n > 0 => count >= 1
  BY <1>2, ChunkSizePositive, SMTT(20)
<1>5. n = 0 => count = 0
  BY <1>2, ChunkSizePositive, SMTT(20)
<1> QED BY <1>2, <1>3, <1>4, <1>5, ChunkSizePositive DEF count

\* Where the i-th chunk starts and ends.
Until(log, i) == IF i * ChunkSize <= Len(log) THEN i * ChunkSize ELSE Len(log)

LEMMA ChunksAre ==
  ASSUME NEW T, NEW log \in Seq(T)
  PROVE  /\ Chunks(log) \in Seq(Seq(T))
         /\ Len(Chunks(log)) = (Len(log) + ChunkSize - 1) \div ChunkSize
         /\ \A i \in 1..Len(Chunks(log)) :
              Chunks(log)[i] = SubSeq(log, (i - 1) * ChunkSize + 1, Until(log, i))
<1> DEFINE count == (Len(log) + ChunkSize - 1) \div ChunkSize
<1>1. Len(log) \in Nat
  OBVIOUS
<1>2. count \in Nat
  BY <1>1, ChunkCount
<1>3. Chunks(log) = [i \in 1..count |-> SubSeq(log, (i - 1) * ChunkSize + 1, Min({i * ChunkSize, Len(log)}))]
  BY DEF Chunks
<1> HIDE DEF count
<1>4. ASSUME NEW i \in 1..count
      PROVE  /\ Min({i * ChunkSize, Len(log)}) = Until(log, i)
             /\ SubSeq(log, (i - 1) * ChunkSize + 1, Until(log, i)) \in Seq(T)
  <2>1. i * ChunkSize \in Nat /\ (i - 1) * ChunkSize + 1 \in Nat \ {0} /\ i \in Nat
    BY <1>2, ChunkSizePositive
  <2>2. Min({i * ChunkSize, Len(log)}) = Until(log, i)
    BY <2>1, <1>1, MinOfTwo DEF Until
  <2>3. Until(log, i) \in Nat /\ Until(log, i) <= Len(log)
    BY <2>1, <1>1 DEF Until
  <2>4. \A k \in (i - 1) * ChunkSize + 1 .. Until(log, i) : log[k] \in T
    BY <2>1, <2>3, <1>1
  <2> DEFINE from == (i - 1) * ChunkSize + 1
             to == Until(log, i)
  <2> HIDE DEF from, to
  <2>5. SubSeq(log, from, to) \in Seq(T)
    BY <2>1, <2>3, <2>4, <1>1, SubSeqProperties DEF from, to
  <2> QED BY <2>2, <2>5 DEF from, to
<1>5. Chunks(log) = [i \in 1..count |-> SubSeq(log, (i - 1) * ChunkSize + 1, Until(log, i))]
  BY <1>3, <1>4, Zenon
<1>6. Chunks(log) \in [1..count -> Seq(T)]
  BY <1>5, <1>4
<1>7. Chunks(log) \in Seq(Seq(T)) /\ Len(Chunks(log)) = count
  BY <1>6, <1>2
<1> QED BY <1>5, <1>7 DEF count

\* Stands in for induction: a property fails first somewhere.
LEMMA LeastNatural ==
  ASSUME NEW S \in SUBSET Nat, S # {}
  PROVE  \E m \in S : \A n \in S : m <= n
<1> DEFINE less == OpToRel(<, Nat)
<1>1. \A x, y \in Nat : x < y => <<x, y>> \in less
  BY DEF OpToRel
<1> HIDE DEF less
<1>2. IsWellFoundedOn(less, Nat)
  BY NatLessThanWellFounded DEF less
<1>3. PICK m \in S : \A n \in S : ~(<<n, m>> \in less)
  BY <1>2, WFMin
<1>4. m \in Nat /\ S \subseteq Nat
  OBVIOUS
<1>5. ASSUME NEW n \in S
      PROVE  m <= n
  <2>1. n \in Nat /\ ~(<<n, m>> \in less)
    BY <1>3, <1>4
  <2>2. ~(n < m)
    BY <2>1, <1>1, <1>4
  <2> QED BY <2>1, <2>2, <1>4
<1> QED BY <1>5

\* The pieces of a sequence, joined, are the sequence.
LEMMA JoinPieces ==
  ASSUME NEW T, NEW log \in Seq(T), NEW a \in Nat, NEW b \in Nat, a <= b, b <= Len(log)
  PROVE  SubSeq(log, 1, a) \o SubSeq(log, a + 1, b) = SubSeq(log, 1, b)
OBVIOUS

LEMMA FlattenChunks ==
  ASSUME NEW T, NEW log \in Seq(T)
  PROVE  FlattenSeq(Chunks(log)) = log
<1> DEFINE chunks == Chunks(log)
           count == Len(chunks)
           joined == [i \in 1..count |-> SubSeq(log, 1, Until(log, i))]
<1>1. /\ chunks \in Seq(Seq(T)) /\ count \in Nat /\ Len(log) \in Nat
      /\ \A i \in 1..count : chunks[i] = SubSeq(log, (i - 1) * ChunkSize + 1, Until(log, i))
  BY ChunksAre
<1>2. /\ count * ChunkSize >= Len(log)
      /\ Len(log) > 0 => count >= 1 /\ (count - 1) * ChunkSize < Len(log)
      /\ Len(log) = 0 => count = 0
  BY <1>1, ChunksAre, ChunkCount
<1> HIDE DEF count, chunks
<1>3. CASE count = 0
  <2>1. log = <<>> /\ chunks = <<>>
    BY <1>1, <1>2, <1>3, EmptySeq DEF count
  <2>2. FlattenSeq(<<>>) = <<>>
    BY DEF FlattenSeq
  <2> QED BY <2>1, <2>2 DEF chunks
<1>4. CASE count # 0
  <2> DEFINE Flat(f) == f = [i \in 1..count |-> IF i = 1 THEN chunks[i] ELSE f[i - 1] \o chunks[i]]
             flatten == CHOOSE f : Flat(f)
  <2>1. ASSUME NEW i \in 1..count
        PROVE  /\ i - 1 < count => (i - 1) * ChunkSize <= Len(log)
               /\ i * ChunkSize = (i - 1) * ChunkSize + ChunkSize
               /\ i < count => Until(log, i) = i * ChunkSize
               /\ (i - 1) * ChunkSize <= Until(log, i) /\ Until(log, i) <= Len(log)
               /\ (i - 1) * ChunkSize \in Nat /\ Until(log, i) \in Nat
    <3>1. \A j, k \in Nat : j <= k => j * ChunkSize <= k * ChunkSize
      BY ChunkSizePositive
    <3>2. i - 1 \in Nat /\ count - 1 \in Nat /\ i - 1 <= count - 1
      BY <1>1
    <3>3. (i - 1) * ChunkSize <= (count - 1) * ChunkSize /\ (i - 1) * ChunkSize \in Nat
      BY <3>1, <3>2, ChunkSizePositive
    <3>4. i * ChunkSize = (i - 1) * ChunkSize + ChunkSize
      BY <3>2, ChunkSizePositive
    <3>5. (count - 1) * ChunkSize \in Nat
      BY <3>2, ChunkSizePositive
    <3>6. (count - 1) * ChunkSize <= Len(log)
      BY <1>1, <1>2, <1>4, <3>5
    <3>7. i < count => i * ChunkSize <= (count - 1) * ChunkSize
      BY <3>1, <3>2, <1>1
    <3>8. i * ChunkSize \in Nat /\ (i - 1) * ChunkSize <= i * ChunkSize
      BY <3>3, <3>4, ChunkSizePositive
    <3>9. (i - 1) * ChunkSize <= Len(log)
      BY <3>3, <3>5, <3>6, <1>1
    <3>10. i < count => Until(log, i) = i * ChunkSize
      BY <3>5, <3>6, <3>7, <3>8, <1>1 DEF Until
    <3>11. (i - 1) * ChunkSize <= Until(log, i) /\ Until(log, i) <= Len(log) /\ Until(log, i) \in Nat
      BY <3>8, <3>9, <3>3, <1>1 DEF Until
    <3> QED BY <3>3, <3>4, <3>9, <3>10, <3>11
  <2>2. joined[1] = chunks[1]
    <3>1. 1 \in 1..count /\ (1 - 1) * ChunkSize + 1 = 1
      BY <1>1, <1>4, ChunkSizePositive
    <3>2. chunks[1] = SubSeq(log, (1 - 1) * ChunkSize + 1, Until(log, 1))
      BY <3>1, <1>1
    <3> QED BY <3>1, <3>2
  <2>3. ASSUME NEW i \in 1..count, i # 1
        PROVE  joined[i] = joined[i - 1] \o chunks[i]
    <3>1. i - 1 \in 1..count /\ i - 1 < count
      BY <2>3, <1>1
    <3>2. Until(log, i - 1) = (i - 1) * ChunkSize
      BY <3>1, <2>1
    <3>3. joined[i] = SubSeq(log, 1, Until(log, i)) /\ joined[i - 1] = SubSeq(log, 1, (i - 1) * ChunkSize)
      BY <3>1, <3>2
    <3> HIDE DEF joined
    <3>4. (i - 1) * ChunkSize <= Until(log, i) /\ Until(log, i) <= Len(log)
      BY <2>1
    <3>5. (i - 1) * ChunkSize \in Nat /\ Until(log, i) \in Nat
      BY <2>1
    <3>6. SubSeq(log, 1, (i - 1) * ChunkSize) \o SubSeq(log, (i - 1) * ChunkSize + 1, Until(log, i))
            = SubSeq(log, 1, Until(log, i))
      BY <3>4, <3>5, JoinPieces
    <3> QED BY <3>3, <3>6, <1>1
  <2>4. Flat(joined)
    BY <2>2, <2>3, Zenon
  <2>5. Flat(flatten)
    BY <2>4
  <2>6. FlattenSeq(chunks) = flatten[count]
    BY <1>4 DEF FlattenSeq, count
  <2> DEFINE wrong == {i \in 1..count : flatten[i] # joined[i]}
  <2> HIDE DEF flatten, joined
  <2>7. \A i \in 1..count : flatten[i] = IF i = 1 THEN chunks[i] ELSE flatten[i - 1] \o chunks[i]
    BY <2>5, Zenon
  <2>8. \A i \in 1..count : flatten[i] = joined[i]
    <3> SUFFICES ASSUME wrong # {}
                 PROVE  FALSE
      OBVIOUS
    <3>1. PICK i \in wrong : \A k \in wrong : i <= k
      <4>1. wrong \in SUBSET Nat
        BY <1>1
      <4> HIDE DEF wrong
      <4> QED BY <4>1, LeastNatural
    <3>2. i \in 1..count /\ i # 1
      BY <3>1, <2>2, <2>7
    <3>3. i - 1 \in 1..count /\ flatten[i - 1] = joined[i - 1]
      BY <3>1, <3>2, <1>1
    <3> QED BY <3>1, <3>2, <3>3, <2>3, <2>7
  <2>9. joined[count] = SubSeq(log, 1, Len(log))
    <3>1. Until(log, count) = Len(log)
      BY <1>1, <1>2, <1>4, ChunkSizePositive DEF Until
    <3> QED BY <3>1, <1>1, <1>4 DEF joined
  <2>10. joined[count] = log
    BY <2>9, SubSeqFull
  <2> QED BY <2>6, <2>8, <2>10, <1>1, <1>4 DEF chunks
<1> QED BY <1>3, <1>4

-----------------------------------------------------------------------------
(* What the files and the variables hold.  A published generation has a     *)
(* number above every number in use, until it is installed; then it is the  *)
(* newest, and so it is when CURRENT names it and the old ones go.  All     *)
(* faults are allowed here.                                                *)

Entries(n) == [sequence : Nat, id : 1..n, previous : Nat]

IsGeneration(x, n) ==
  /\ x \in [sequence : Nat, chunks : Seq(Seq(1..n)), whole : BOOLEAN]
  /\ \E log \in Seq(1..n) : x.chunks = Chunks(log)

Segments(n) == [records : Seq(Entries(n)), torn : BOOLEAN]

Sessions(n) ==
  [first : Nat \ {0}, base : Seq(1..n), records : Seq(Entries(n)), size : Nat]

Stages == {"segment", "chunks", "switch", "generations", "segments", "collect", "prime", "empty"}

Publications(n) ==
  [ kind : {"compact", "replace", "repair"}, stage : Stages, sequence : Nat, generation : Nat,
    base : Seq(1..n), dropped : SUBSET (1..n), sealed : BOOLEAN, empties : BOOLEAN ]

Newest(g) == g \in DOMAIN generations /\ \A other \in DOMAIN generations : other <= g

GenerationsOK ==
  /\ DOMAIN generations \subseteq Nat
  /\ \A g \in DOMAIN generations : IsGeneration(generations[g], appended)
  /\ \E g \in DOMAIN generations : Newest(g)

JournalOK ==
  /\ DOMAIN journal \subseteq Nat \ {0}
  /\ \A first \in DOMAIN journal : journal[first] \in Segments(appended)

CacheOK ==
  /\ mode \in {"down", "repairing", "open"}
  /\ cache # None => mode # "down" /\ cache \in Sessions(appended)

PublicationOK ==
  /\ mode = "down" => publication = None
  /\ publication # None =>
       /\ publication \in Publications(appended)
       /\ publication.stage # "empty" => cache = None
       /\ publication.stage \in {"segment", "chunks"} =>
            \A g \in DOMAIN generations : g < publication.generation
       /\ publication.stage = "switch" => Newest(publication.generation)
       /\ publication.stage = "generations" => Newest(current)

ReaderOK == "pc" \in DOMAIN reader /\ reader.pc \in Reading \cup {"idle", "done", "failed"}

Typed ==
  /\ appended \in Nat /\ acked \subseteq 1..appended
  /\ GenerationsOK /\ JournalOK /\ current \in DOMAIN generations
  /\ CacheOK /\ PublicationOK
  /\ ReaderOK
  /\ ChunksOutliveManifests

-----------------------------------------------------------------------------
(* Types.                                                                  *)

LEMMA Grows ==
  ASSUME NEW n \in Nat, NEW m \in Nat, n <= m
  PROVE  /\ \A x : IsGeneration(x, n) => IsGeneration(x, m)
         /\ Segments(n) \subseteq Segments(m)
         /\ Sessions(n) \subseteq Sessions(m)
         /\ Publications(n) \subseteq Publications(m)
<1>1. 1..n \subseteq 1..m
  OBVIOUS
<1>2. Entries(n) \subseteq Entries(m)
  BY <1>1 DEF Entries
<1>3. Seq(1..n) \subseteq Seq(1..m) /\ Seq(Entries(n)) \subseteq Seq(Entries(m))
  BY <1>1, <1>2
<1>4. Seq(Seq(1..n)) \subseteq Seq(Seq(1..m))
  BY <1>3
<1>5. \A x : IsGeneration(x, n) => IsGeneration(x, m)
  BY <1>3, <1>4 DEF IsGeneration
<1>6. Segments(n) \subseteq Segments(m)
  BY <1>3 DEF Segments
<1>7. Sessions(n) \subseteq Sessions(m)
  BY <1>3 DEF Sessions
<1>8. Publications(n) \subseteq Publications(m)
  BY <1>1, <1>3 DEF Publications
<1> QED BY <1>5, <1>6, <1>7, <1>8

LEMMA SizeIsNat ==
  ASSUME NEW n, NEW x \in Segments(n)
  PROVE  Size(x) \in Nat
<1>1. x.records \in Seq(Entries(n)) /\ x.torn \in BOOLEAN
  BY DEF Segments
<1>2. Len(x.records) \in Nat
  BY <1>1
<1>3. CASE x.torn
  BY <1>2, <1>3 DEF Size
<1>4. CASE ~x.torn
  BY <1>2, <1>4 DEF Size
<1> QED BY <1>1, <1>3, <1>4

LEMMA SessionTyped ==
  ASSUME GenerationsOK, JournalOK, NEW g, Readable(g)
  PROVE  /\ Session(g) \in Sessions(appended)
         /\ \A log \in Seq(1..appended) : generations[g].chunks = Chunks(log) => Session(g).base = log
<1>1. g \in DOMAIN generations /\ First(g) \in DOMAIN journal
  BY DEF Readable
<1>2. IsGeneration(generations[g], appended) /\ journal[First(g)] \in Segments(appended)
  BY <1>1 DEF GenerationsOK, JournalOK
<1>3. \A log \in Seq(1..appended) : generations[g].chunks = Chunks(log) =>
        FlattenSeq(generations[g].chunks) = log
  BY FlattenChunks
<1>4. FlattenSeq(generations[g].chunks) \in Seq(1..appended)
  BY <1>2, <1>3 DEF IsGeneration
<1>5. First(g) \in Nat \ {0}
  BY <1>1 DEF JournalOK
<1>6. Size(journal[First(g)]) \in Nat
  BY <1>2, SizeIsNat
<1>7. journal[First(g)].records \in Seq(Entries(appended))
  BY <1>2 DEF Segments
<1> QED BY <1>3, <1>4, <1>5, <1>6, <1>7 DEF Session, Sessions

LEMMA StoredTyped ==
  ASSUME Typed, cache # None \/ Readable(current)
  PROVE  Stored \in Sessions(appended)
BY SessionTyped DEF Typed, CacheOK, Stored

LEMMA TypedImpliesTypeOK ==
  ASSUME Typed
  PROVE  TypeOK
<1>1. \A g \in DOMAIN generations :
        generations[g] \in [sequence : Nat, chunks : Seq(pool \cup Seq(1..appended)), whole : BOOLEAN]
  <2>1. Seq(Seq(1..appended)) \subseteq Seq(pool \cup Seq(1..appended))
    OBVIOUS
  <2> QED BY <2>1 DEF Typed, GenerationsOK, IsGeneration
<1>2. \A first \in DOMAIN journal :
       journal[first] \in [records : Seq([sequence : Nat, id : 1..appended, previous : Nat]),
                           torn : BOOLEAN]
  BY DEF Typed, JournalOK, Segments, Entries
<1>3. current \in Nat
  BY DEF Typed, GenerationsOK
<1> QED BY <1>1, <1>2, <1>3 DEF Typed, TypeOK, GenerationsOK, JournalOK, CacheOK, PublicationOK, ReaderOK

-----------------------------------------------------------------------------
(* Every action keeps the types.                                           *)

LEMMA InitTyped == Init => Typed
<1> SUFFICES ASSUME Init PROVE Typed
  OBVIOUS
<1>1. /\ DOMAIN generations = {0} /\ generations[0] = [sequence |-> 0, chunks |-> <<>>, whole |-> TRUE]
      /\ DOMAIN journal = {1} /\ journal[1] = NoRecords
  BY DEF Init
<1>2. Chunks(<<>>) = <<>>
  <2>1. Chunks(<<>>) \in Seq(Seq({})) /\ Len(Chunks(<<>>)) = 0
    <3>1. (0 + ChunkSize - 1) \div ChunkSize = 0
      BY ChunkCount
    <3>2. <<>> \in Seq({}) /\ Len(<<>>) = 0
      OBVIOUS
    <3> QED BY <3>1, <3>2, ChunksAre, ChunkSizePositive
  <2> QED BY <2>1, EmptySeq
<1>3. GenerationsOK
  <2>1. IsGeneration(generations[0], 0)
    BY <1>1, <1>2 DEF IsGeneration
  <2> QED BY <1>1, <2>1 DEF Init, GenerationsOK, Newest
<1>4. JournalOK
  BY <1>1 DEF Init, JournalOK, NoRecords, Segments, Entries
<1>5. ChunksOutliveManifests
  BY <1>1 DEF ChunksOutliveManifests, ToSet
<1>6. ReaderOK
  BY DEF Init, ReaderOK, NotReading
<1>7. CacheOK /\ PublicationOK
  BY DEF Init, CacheOK, PublicationOK
<1>8. appended \in Nat /\ acked \subseteq 1..appended /\ current \in DOMAIN generations
  BY <1>1 DEF Init
<1> QED BY <1>3, <1>4, <1>5, <1>6, <1>7, <1>8 DEF Typed

\* What is on disk, when it does not change.
LEMMA SameFiles ==
  ASSUME Typed, UNCHANGED <<generations, journal, current, appended>>, pool \subseteq pool'
  PROVE  GenerationsOK' /\ JournalOK' /\ (current \in DOMAIN generations)' /\ ChunksOutliveManifests'
BY DEF Typed, GenerationsOK, JournalOK, Newest, ChunksOutliveManifests

\* The process goes on in the same publication.
LEMMA NextStage ==
  ASSUME Typed, NEW was \in Stages, NEW stage \in Stages, InStage(was),
         publication' = [publication EXCEPT !.stage = stage]
  PROVE  /\ publication'.stage = stage
         /\ publication \in Publications(appended) /\ publication' \in Publications(appended)
         /\ publication'.generation = publication.generation
         /\ mode # "down"
BY DEF Typed, PublicationOK, InStage, Publications

LEMMA OutOfPublication ==
  ASSUME publication' = None
  PROVE  PublicationOK'
BY DEF PublicationOK

LEMMA Disowned ==
  ASSUME Die
  PROVE  CacheOK' /\ PublicationOK'
BY DEF Die, CacheOK, PublicationOK

LEMMA PutTyped ==
  ASSUME NEW n \in Nat, NEW x \in Segments(n), NEW record \in Entries(n)
  PROVE  Put(x, record) \in Segments(n) /\ PutPart(x) \in Segments(n)
<1>1. Append(x.records, record) \in Seq(Entries(n))
  BY DEF Segments
<1>2. Put(x, record) \in Segments(n)
  BY <1>1 DEF Put, Segments
<1>3. PutPart(x) \in Segments(n)
  BY DEF PutPart, Segments
<1> QED BY <1>2, <1>3

\* One more record: what there was is still typed.
LEMMA AppendingTyped ==
  ASSUME Typed, Appending, acked' \subseteq acked \cup {NextRecord.id},
         NEW segment \in {journal[Stored.first], PutPart(journal[Stored.first]), Put(journal[Stored.first], NextRecord)},
         journal' = [journal EXCEPT ![Stored.first] = segment]
  PROVE  /\ appended' \in Nat /\ appended <= appended' /\ appended \in Nat /\ acked' \subseteq 1..appended'
         /\ GenerationsOK' /\ JournalOK' /\ (current \in DOMAIN generations)' /\ ReaderOK'
         /\ ChunksOutliveManifests'
         /\ Stored \in Sessions(appended') /\ NextRecord \in Entries(appended')
<1>1. appended \in Nat /\ appended' = appended + 1
  BY DEF Typed, Appending
<1>2. Stored \in Sessions(appended) /\ Stored.first \in DOMAIN journal
  BY StoredTyped DEF Appending
<1>3. /\ Stored.first \in Nat \ {0} /\ Stored.records \in Seq(Entries(appended)) /\ Len(Stored.records) \in Nat
  BY <1>2 DEF Sessions
<1>4. NextRecord \in Entries(appended')
  <2>1. CASE Stored.records = <<>>
    BY <1>1, <1>3, <2>1 DEF NextRecord, Entries
  <2>2. CASE Stored.records # <<>>
    <3>1. Last(Stored.records) \in Entries(appended)
      BY <1>3, <2>2 DEF Last
    <3>2. Last(Stored.records).id \in Nat
      BY <3>1, <1>1 DEF Entries
    <3> QED BY <1>1, <1>3, <2>2, <3>2, SMTT(30) DEF NextRecord, Entries
  <2> QED BY <2>1, <2>2
<1>5. Stored \in Sessions(appended')
  BY <1>1, <1>2, Grows
<1>6. journal[Stored.first] \in Segments(appended')
  BY <1>1, <1>2, Grows DEF Typed, JournalOK
<1>7. segment \in Segments(appended')
  BY <1>1, <1>4, <1>6, PutTyped
<1>8. JournalOK'
  BY <1>1, <1>2, <1>7, Grows DEF Typed, JournalOK
<1>9. GenerationsOK' /\ (current \in DOMAIN generations)' /\ ChunksOutliveManifests'
  BY <1>1, Grows DEF Typed, Appending, GenerationsOK, Newest, ChunksOutliveManifests
<1>10. ReaderOK'
  BY DEF Typed, Appending, ReaderOK
<1>11. acked' \subseteq 1..appended'
  <2>1. NextRecord.id = appended + 1
    BY DEF NextRecord
  <2> QED BY <1>1, <2>1 DEF Typed
<1> QED BY <1>1, <1>4, <1>5, <1>8, <1>9, <1>10, <1>11

LEMMA ExtendedTyped ==
  ASSUME NEW n \in Nat, NEW stored \in Sessions(n), NEW record \in Entries(n)
  PROVE  Extended(stored, record) \in Sessions(n)
<1>1. /\ Append(stored.records, record) \in Seq(Entries(n)) /\ stored.size + 2 \in Nat
      /\ stored \in [first : Nat \ {0}, base : Seq(1..n), records : Seq(Entries(n)), size : Nat]
  BY DEF Sessions
<1>2. Extended(stored, record) =
        [stored EXCEPT !.records = Append(stored.records, record), !.size = stored.size + 2]
  BY DEF Extended
<1> QED BY <1>1, <1>2 DEF Sessions

LEMMA AppendRecordTyped == ASSUME Typed, AppendRecord PROVE Typed'
<1>1. /\ Appending /\ journal' = [journal EXCEPT ![Stored.first] = Put(@, NextRecord)]
      /\ acked' = acked \cup {NextRecord.id} /\ UNCHANGED <<mode, publication>>
      /\ cache' \in {Extended(Stored, NextRecord), None}
  BY DEF AppendRecord
<1>2. journal' = [journal EXCEPT ![Stored.first] = Put(journal[Stored.first], NextRecord)]
  BY <1>1
<1>3. CacheOK'
  BY <1>1, <1>2, AppendingTyped, ExtendedTyped DEF CacheOK, Typed, Appending
<1> QED BY <1>1, <1>2, <1>3, AppendingTyped, OutOfPublication DEF Typed, Appending

LEMMA AppendShortTyped == ASSUME Typed, AppendShort PROVE Typed'
<1>1. /\ Appending /\ journal' = [journal EXCEPT ![Stored.first] = PutPart(journal[Stored.first])]
      /\ acked' = acked \cup {NextRecord.id} /\ UNCHANGED <<mode, publication>> /\ cache' = None
  BY DEF AppendShort
<1>2. CacheOK'
  BY <1>1 DEF CacheOK, Typed
<1> QED BY <1>1, <1>2, AppendingTyped, OutOfPublication DEF Typed, Appending

LEMMA AppendUnsyncedTyped == ASSUME Typed, AppendUnsynced PROVE Typed'
<1>1. /\ Appending /\ journal' = [journal EXCEPT ![Stored.first] = Put(journal[Stored.first], NextRecord)]
      /\ UNCHANGED <<mode, publication, acked>> /\ cache' = Stored
  BY DEF AppendUnsynced
<1>2. CacheOK'
  BY <1>1, AppendingTyped DEF CacheOK, Typed, Appending
<1> QED BY <1>1, <1>2, AppendingTyped, OutOfPublication DEF Typed, Appending

LEMMA AppendDyingTyped == ASSUME Typed, AppendDying PROVE Typed'
<1>1. PICK segment \in {PutPart(journal[Stored.first]), Put(journal[Stored.first], NextRecord)} :
        journal' = [journal EXCEPT ![Stored.first] = segment]
  BY DEF AppendDying
<1>2. Appending /\ Die /\ UNCHANGED acked
  BY DEF AppendDying
<1> QED BY <1>1, <1>2, AppendingTyped, Disowned DEF Typed

LEMMA NextGenerationIsAbove ==
  ASSUME GenerationsOK, NEW sequence \in Nat
  PROVE  /\ NextGeneration(sequence) \in Nat
         /\ \A g \in DOMAIN generations : g < NextGeneration(sequence)
<1>1. PICK m \in DOMAIN generations : \A g \in DOMAIN generations : g <= m
  BY DEF GenerationsOK, Newest
<1>2. DOMAIN generations \in SUBSET Nat
  BY DEF GenerationsOK
<1>3. Max(DOMAIN generations) = m
  BY <1>1, <1>2, MaxOfSet
<1>4. m \in Nat /\ m + 1 \in Nat
  BY <1>1, <1>2
<1>5. NextGeneration(sequence) = IF sequence >= m + 1 THEN sequence ELSE m + 1
  BY <1>3, <1>4, MaxOfTwo DEF NextGeneration
<1>6. NextGeneration(sequence) \in Nat /\ m < NextGeneration(sequence)
  BY <1>4, <1>5
<1> QED BY <1>1, <1>2, <1>4, <1>6

LEMMA PublishTyped ==
  ASSUME Typed, NEW kind \in {"compact", "replace", "repair"}, NEW sequence \in Nat,
         NEW base \in Seq(1..appended), NEW dropped \in SUBSET (1..appended), NEW empties \in BOOLEAN,
         Publish(kind, sequence, base, dropped, empties), mode' \in {"open", "repairing"}
  PROVE  Typed'
<1>1. /\ cache' = None /\ UNCHANGED <<disk, acked, appended, reader>>
      /\ publication' =
           [ kind |-> kind, stage |-> "segment", sequence |-> sequence,
             generation |-> NextGeneration(sequence), base |-> base,
             dropped |-> dropped, sealed |-> FALSE, empties |-> empties ]
  BY DEF Publish
<1>2. /\ NextGeneration(sequence) \in Nat
      /\ \A g \in DOMAIN generations : g < NextGeneration(sequence)
  BY NextGenerationIsAbove DEF Typed
<1>3. publication' \in Publications(appended)
  BY <1>1, <1>2 DEF Publications, Stages
<1>4. publication'.stage = "segment" /\ publication'.generation = NextGeneration(sequence)
  BY <1>1
<1>5. PublicationOK'
  BY <1>1, <1>2, <1>3, <1>4 DEF PublicationOK, disk
<1>6. CacheOK'
  BY <1>1 DEF CacheOK
<1>7. GenerationsOK' /\ JournalOK' /\ (current \in DOMAIN generations)' /\ ChunksOutliveManifests'
  BY <1>1, SameFiles DEF disk
<1> QED BY <1>1, <1>5, <1>6, <1>7 DEF Typed, ReaderOK

LEMMA ToSetTyped ==
  ASSUME NEW T, NEW s \in Seq(T)
  PROVE  ToSet(s) \subseteq T
BY DEF ToSet

\* A sequence cut in two.
LEMMA CutTyped ==
  ASSUME NEW T, NEW s \in Seq(T), NEW kept \in 0..Len(s)
  PROVE  /\ SubSeq(s, 1, kept) \in Seq(T) /\ Len(SubSeq(s, 1, kept)) = kept
         /\ SubSeq(s, kept + 1, Len(s)) \in Seq(T)
<1>1. Len(s) \in Nat /\ kept \in Nat /\ kept <= Len(s)
  OBVIOUS
<1>2. \A i \in 1..kept : s[i] \in T
  BY <1>1
<1>3. \A i \in kept + 1..Len(s) : s[i] \in T
  BY <1>1
<1>4. SubSeq(s, 1, kept) \in Seq(T) /\ Len(SubSeq(s, 1, kept)) = IF 1 <= kept THEN kept - 1 + 1 ELSE 0
  BY <1>1, <1>2, SubSeqProperties
<1>5. SubSeq(s, kept + 1, Len(s)) \in Seq(T)
  BY <1>1, <1>3, SubSeqProperties
<1> QED BY <1>1, <1>4, <1>5

LEMMA IdsTyped ==
  ASSUME NEW n \in Nat, NEW records \in Seq(Entries(n))
  PROVE  Ids(records) \in Seq(1..n) /\ Len(Ids(records)) = Len(records)
<1>1. \A i \in DOMAIN records : records[i] \in Entries(n)
  OBVIOUS
<1>2. \A i \in DOMAIN records : records[i].id \in 1..n
  BY <1>1 DEF Entries
<1> QED BY <1>2 DEF Ids

LEMMA LogTyped ==
  ASSUME NEW n \in Nat, NEW session \in Sessions(n)
  PROVE  Log(session) \in Seq(1..n) /\ LastSequence(session) \in Nat
<1>1. session.base \in Seq(1..n) /\ session.records \in Seq(Entries(n)) /\ session.first \in Nat \ {0}
  BY DEF Sessions
<1>2. Ids(session.records) \in Seq(1..n)
  BY <1>1, IdsTyped
<1>3. Len(session.records) \in Nat
  BY <1>1
<1>4. LastSequence(session) \in Nat
  BY <1>1, <1>3 DEF LastSequence
<1>5. session.base \o Ids(session.records) \in Seq(1..n)
  BY <1>1, <1>2
<1> QED BY <1>4, <1>5 DEF Log

LEMMA CompactTyped == ASSUME Typed, Compact PROVE Typed'
<1>1. Stored \in Sessions(appended) /\ appended \in Nat
  BY StoredTyped DEF Compact, Typed
<1>2. Log(Stored) \in Seq(1..appended) /\ LastSequence(Stored) \in Nat
  BY <1>1, LogTyped
<1>3. Publish("compact", LastSequence(Stored), Log(Stored), {}, FALSE) /\ mode' = "open"
  BY DEF Compact, Idle
<1> QED BY <1>2, <1>3, PublishTyped

LEMMA ReplaceTyped == ASSUME Typed, Replace PROVE Typed'
<1>1. Stored \in Sessions(appended) /\ appended \in Nat
  BY StoredTyped DEF Replace, Typed
<1>2. PICK kept \in 0..Len(Stored.base) :
        Publish("replace", LastSequence(Stored), SubSeq(Stored.base, 1, kept),
                ToSet(SubSeq(Stored.base, kept + 1, Len(Stored.base))), FALSE)
  BY DEF Replace
<1>3. Stored.base \in Seq(1..appended) /\ LastSequence(Stored) \in Nat
  BY <1>1, LogTyped DEF Sessions
<1>4. SubSeq(Stored.base, 1, kept) \in Seq(1..appended)
  BY <1>3, CutTyped
<1>5. SubSeq(Stored.base, kept + 1, Len(Stored.base)) \in Seq(1..appended)
  BY <1>3, CutTyped
<1>6. ToSet(SubSeq(Stored.base, kept + 1, Len(Stored.base))) \in SUBSET (1..appended)
  BY <1>5, ToSetTyped
<1>7. mode' = "open"
  BY DEF Replace, Idle
<1> QED BY <1>2, <1>3, <1>4, <1>6, <1>7, PublishTyped

LEMMA OpenTyped == ASSUME Typed, Open PROVE Typed'
<1>1. Readable(current) /\ Session(current) \in Sessions(appended) /\ appended \in Nat
  BY SessionTyped DEF Open, Typed
<1>2. CASE mode' = "open" /\ cache' = Session(current) /\ UNCHANGED <<disk, publication, acked, counts, reader>>
  <2>1. UNCHANGED <<generations, journal, pool, current, publication, acked, appended, reader>> /\ publication = None
    BY <1>2 DEF Open, disk, counts, Typed, PublicationOK
  <2>2. CacheOK'
    BY <1>1, <1>2, <2>1 DEF CacheOK
  <2> QED BY <1>2, <2>1, <2>2, SameFiles, OutOfPublication DEF Typed, ReaderOK
<1>3. CASE /\ mode' = "repairing"
           /\ \E k \in DOMAIN Session(current).records : Repair(Session(current), k)
  <2> DEFINE session == Session(current)
  <2>1. PICK k \in DOMAIN session.records : Repair(session, k)
    BY <1>3
  <2> DEFINE kept == SubSeq(session.records, 1, k - 1)
  <2>2. /\ session.base \in Seq(1..appended) /\ session.records \in Seq(Entries(appended))
        /\ session.first \in Nat \ {0}
    BY <1>1 DEF Sessions
  <2>3. k \in 1..Len(session.records) /\ Len(session.records) \in Nat
    BY <2>2
  <2>4. session.first + k - 2 \in Nat
    BY <2>2, <2>3
  <2>5. Publish("repair", session.first + k - 2, session.base \o Ids(kept),
                ToSet(Ids(session.records)) \ ToSet(Ids(kept)), k = 1)
    BY <2>1 DEF Repair
  <2> HIDE DEF session
  <2>6. kept \in Seq(Entries(appended))
    BY <2>2, <2>3
  <2> HIDE DEF kept
  <2>7. Ids(kept) \in Seq(1..appended) /\ Ids(session.records) \in Seq(1..appended)
    BY <1>1, <2>2, <2>6, IdsTyped
  <2>8. session.base \o Ids(kept) \in Seq(1..appended)
    BY <2>2, <2>7
  <2>9. ToSet(Ids(session.records)) \ ToSet(Ids(kept)) \in SUBSET (1..appended)
    BY <2>7, ToSetTyped
  <2> QED BY <1>3, <2>4, <2>5, <2>8, <2>9, PublishTyped
<1> QED BY <1>2, <1>3 DEF Open

\* A step of the publication under way.
LEMMA OwnerGoesOn ==
  ASSUME Typed, NEW was \in Stages, NEW stage \in Stages, InStage(was),
         publication' = [publication EXCEPT !.stage = stage],
         UNCHANGED <<cache, mode, appended>>,
         was # "empty",
         stage \in {"segment", "chunks"} => \A g \in DOMAIN generations' : g < publication.generation,
         stage = "switch" => Newest(publication.generation)',
         stage = "generations" => Newest(current)'
  PROVE  PublicationOK' /\ CacheOK'
<1>1. /\ publication'.stage = stage
      /\ publication \in Publications(appended) /\ publication' \in Publications(appended)
      /\ publication'.generation = publication.generation
      /\ mode # "down" /\ cache = None
  BY NextStage DEF Typed, PublicationOK, InStage
<1>2. CacheOK'
  BY <1>1 DEF CacheOK, Typed
<1>3. PublicationOK'
  BY <1>1 DEF PublicationOK, Newest
<1> QED BY <1>2, <1>3


LEMMA AdoptedTyped ==
  ASSUME JournalOK, NEW first \in Nat \ {0}, NoRecords \in Segments(appended),
         journal' = AdoptedSegment(first), UNCHANGED appended
  PROVE  JournalOK'
<1>1. CASE first \in DOMAIN journal
  BY <1>1 DEF JournalOK, AdoptedSegment
<1>2. CASE first \notin DOMAIN journal
  <2>1. journal' = With(journal, first, NoRecords)
    BY <1>2 DEF AdoptedSegment
  <2>2. /\ DOMAIN journal' = DOMAIN journal \cup {first} /\ journal'[first] = NoRecords
        /\ \A other \in DOMAIN journal : other # first => journal'[other] = journal[other]
    BY <2>1 DEF With
  <2> QED BY <2>2, <1>2 DEF JournalOK
<1> QED BY <1>1, <1>2

LEMMA CreateSegmentTyped == ASSUME Typed, CreateSegment PROVE Typed'
<1>1. /\ InStage("segment") /\ publication' = [publication EXCEPT !.stage = "chunks"]
      /\ UNCHANGED <<generations, pool, current, mode, cache, acked, appended, reader>>
      /\ journal' = AdoptedSegment(publication.sequence + 1)
  BY DEF CreateSegment, counts
<1>2. PublicationOK' /\ CacheOK'
  <2>1. \A g \in DOMAIN generations' : g < publication.generation
    BY <1>1 DEF Typed, PublicationOK, InStage
  <2> QED BY <1>1, <2>1, OwnerGoesOn DEF Stages
<1>3. publication.sequence + 1 \in Nat \ {0}
  BY <1>1 DEF Typed, PublicationOK, InStage, Publications
<1>4. NoRecords \in Segments(appended)
  BY DEF NoRecords, Segments
<1>5. JournalOK'
  BY <1>1, <1>3, <1>4, AdoptedTyped DEF Typed
<1>6. GenerationsOK' /\ (current \in DOMAIN generations)' /\ ChunksOutliveManifests'
  BY <1>1 DEF Typed, GenerationsOK, Newest, ChunksOutliveManifests
<1> QED BY <1>1, <1>2, <1>5, <1>6 DEF Typed, ReaderOK

LEMMA WriteChunkTyped == ASSUME Typed, WriteChunk PROVE Typed'
<1>1. PICK chunk \in MissingChunks :
         /\ pool' = pool \cup {chunk}
         /\ publication' = [publication EXCEPT !.sealed = @ \/ Sealed(chunk)]
  BY DEF WriteChunk
<1>2. /\ InStage("chunks")
      /\ UNCHANGED <<generations, journal, current, mode, cache, acked, appended, reader>>
  BY DEF WriteChunk, counts
<1>3. /\ publication \in Publications(appended) /\ publication.stage = "chunks" /\ cache = None
      /\ \A g \in DOMAIN generations : g < publication.generation
      /\ mode # "down"
  BY <1>2 DEF Typed, PublicationOK, InStage
<1>4. /\ publication' \in Publications(appended) /\ publication'.stage = "chunks"
      /\ publication'.generation = publication.generation
  <2>1. (publication.sealed \/ Sealed(chunk)) \in BOOLEAN
    BY DEF Sealed
  <2>2. publication' = [publication EXCEPT !.sealed = publication.sealed \/ Sealed(chunk)]
    BY <1>1
  <2> QED BY <1>3, <2>1, <2>2 DEF Publications
<1>5. PublicationOK' /\ CacheOK'
  BY <1>2, <1>3, <1>4 DEF PublicationOK, CacheOK, Typed
<1>6. GenerationsOK' /\ JournalOK' /\ (current \in DOMAIN generations)' /\ ChunksOutliveManifests'
  BY <1>1, <1>2, SameFiles
<1> QED BY <1>2, <1>5, <1>6 DEF Typed, ReaderOK

LEMMA InstallTyped == ASSUME Typed, Install PROVE Typed'
<1>0. PICK n, generation :
        /\ n = publication.generation
        /\ generation = [ sequence |-> publication.sequence,
                          chunks |-> Chunks(publication.base), whole |-> TRUE ]
  OBVIOUS
<1>1. /\ InStage("chunks") /\ publication' = [publication EXCEPT !.stage = "switch"]
      /\ UNCHANGED <<journal, pool, current, mode, cache, acked, appended, reader>>
      /\ generations' = With(generations, n, generation)
      /\ ToSet(Chunks(publication.base)) \subseteq pool
  BY <1>0 DEF Install, counts, MissingChunks
<1>2. /\ publication \in Publications(appended)
      /\ \A g \in DOMAIN generations : g < n
  BY <1>0, <1>1 DEF Typed, PublicationOK, InStage
<1>3. n \in Nat /\ publication.sequence \in Nat /\ publication.base \in Seq(1..appended)
  BY <1>0, <1>2 DEF Publications
<1>4. IsGeneration(generation, appended)
  BY <1>0, <1>3, ChunksAre DEF IsGeneration
<1>5. /\ DOMAIN generations' = DOMAIN generations \cup {n} /\ generations'[n] = generation
      /\ \A g \in DOMAIN generations : g # n => generations'[g] = generations[g]
  BY <1>1 DEF With
<1>6. \A g \in DOMAIN generations' : g <= n
  BY <1>2, <1>3, <1>5 DEF Typed, GenerationsOK
<1>7. GenerationsOK'
  BY <1>1, <1>3, <1>4, <1>5, <1>6 DEF Typed, GenerationsOK, Newest
<1>8. ChunksOutliveManifests'
  <2>1. ToSet(generation.chunks) \subseteq pool
    BY <1>0, <1>1
  <2> QED BY <1>1, <1>5, <2>1 DEF Typed, ChunksOutliveManifests
<1>9. PublicationOK' /\ CacheOK'
  <2>1. publication'.generation = n /\ publication'.stage = "switch" /\ publication' \in Publications(appended)
    BY <1>0, <1>1, NextStage DEF Stages
  <2>2. Newest(n)'
    BY <1>5, <1>6 DEF Newest
  <2>3. mode # "down" /\ cache = None
    BY <1>1 DEF Typed, PublicationOK, InStage
  <2> QED BY <1>1, <2>1, <2>2, <2>3 DEF PublicationOK, CacheOK, Typed, Newest
<1> QED BY <1>1, <1>5, <1>7, <1>8, <1>9 DEF Typed, JournalOK, ReaderOK

LEMMA SwitchTyped == ASSUME Typed, Switch PROVE Typed'
<1>1. /\ InStage("switch") /\ publication' = [publication EXCEPT !.stage = "generations"]
      /\ UNCHANGED <<generations, journal, pool, mode, cache, appended, reader>>
      /\ current' = publication.generation /\ acked' \subseteq acked
  BY DEF Switch, counts
<1>2. Newest(publication.generation)
  BY <1>1 DEF Typed, PublicationOK, InStage
<1>3. Newest(current)'
  BY <1>1, <1>2 DEF Newest
<1>4. PublicationOK' /\ CacheOK'
  BY <1>1, <1>3, OwnerGoesOn DEF Stages
<1>5. GenerationsOK' /\ JournalOK' /\ (current \in DOMAIN generations)' /\ ChunksOutliveManifests'
  BY <1>1, <1>2 DEF Typed, GenerationsOK, JournalOK, Newest, ChunksOutliveManifests
<1> QED BY <1>1, <1>4, <1>5 DEF Typed, ReaderOK

\* The greatest number is never superseded.
LEMMA NewestStays ==
  ASSUME NEW names \in SUBSET Nat, NEW name \in names, \A other \in names : other <= name
  PROVE  name \notin Superseded(names)
<1>1. {other \in names : other > name} = {}
  <2>1. \A other \in names : other \in Nat /\ name \in Nat /\ other <= name
    OBVIOUS
  <2>2. \A other \in names : ~(other > name)
    BY <2>1
  <2> QED BY <2>2
<1>2. Cardinality({other \in names : other > name}) = 0
  BY <1>1, FS_EmptySet, Zenon
<1> DEFINE count == Cardinality({other \in names : other > name})
<1> HIDE DEF count
<1>3. ~(count >= 2)
  BY <1>2 DEF count
<1> QED BY <1>3 DEF Superseded, count

\* What a discard leaves of the generations, and of a generation in part.
LEMMA GenerationsAfterDiscard ==
  ASSUME Typed, DiscardGenerations
  PROVE  /\ DOMAIN generations' \subseteq DOMAIN generations
         /\ \A g \in DOMAIN generations' :
              /\ generations'[g].sequence = generations[g].sequence
              /\ generations'[g].chunks = generations[g].chunks
              /\ generations'[g].whole \in BOOLEAN
              /\ generations'[g].whole => generations[g].whole
              /\ generations'[g] \in [sequence : Nat, chunks : Seq(Seq(1..appended)), whole : BOOLEAN]
         /\ \A g \in DOMAIN generations : Newest(g) => g \in DOMAIN generations' /\ generations'[g] = generations[g]
<1>1. PICK old : old = Superseded(DOMAIN generations)
  OBVIOUS
<1>2. \/ generations' = Kept(generations, DOMAIN generations \ old)
      \/ \E whole \in BOOLEAN :
           generations' = [g \in DOMAIN generations |->
                             IF g \in old THEN [generations[g] EXCEPT !.whole = generations[g].whole /\ whole]
                             ELSE generations[g]]
  BY <1>1 DEF DiscardGenerations
<1>3. \A g \in DOMAIN generations :
        generations[g] \in [sequence : Nat, chunks : Seq(Seq(1..appended)), whole : BOOLEAN]
  BY DEF Typed, GenerationsOK, IsGeneration
<1>4. \A g \in DOMAIN generations : Newest(g) => g \notin old
  BY <1>1, NewestStays DEF Typed, GenerationsOK, Newest
<1>5. CASE generations' = Kept(generations, DOMAIN generations \ old)
  BY <1>3, <1>4, <1>5 DEF Kept
<1>6. ASSUME NEW whole \in BOOLEAN,
             generations' = [g \in DOMAIN generations |->
                               IF g \in old THEN [generations[g] EXCEPT !.whole = generations[g].whole /\ whole]
                               ELSE generations[g]]
      PROVE  /\ DOMAIN generations' = DOMAIN generations
             /\ \A g \in DOMAIN generations' :
                  /\ generations'[g].sequence = generations[g].sequence
                  /\ generations'[g].chunks = generations[g].chunks
                  /\ generations'[g].whole \in BOOLEAN
                  /\ generations'[g].whole => generations[g].whole
                  /\ generations'[g] \in [sequence : Nat, chunks : Seq(Seq(1..appended)), whole : BOOLEAN]
             /\ \A g \in DOMAIN generations : Newest(g) => generations'[g] = generations[g]
  <2>1. DOMAIN generations' = DOMAIN generations
    BY <1>6
  <2>2. ASSUME NEW g \in DOMAIN generations, g \in old
        PROVE  /\ generations'[g].sequence = generations[g].sequence
               /\ generations'[g].chunks = generations[g].chunks
               /\ generations'[g].whole = (generations[g].whole /\ whole)
               /\ generations'[g] \in [sequence : Nat, chunks : Seq(Seq(1..appended)), whole : BOOLEAN]
    <3>1. generations'[g] = [generations[g] EXCEPT !.whole = generations[g].whole /\ whole]
      BY <1>6, <2>2
    <3>2. (generations[g].whole /\ whole) \in BOOLEAN
      OBVIOUS
    <3> QED BY <1>3, <3>1, <3>2
  <2>3. \A g \in DOMAIN generations : g \notin old => generations'[g] = generations[g]
    BY <1>6
  <2>4. \A g \in DOMAIN generations : generations[g].whole \in BOOLEAN
    BY <1>3
  <2> QED BY <1>3, <1>4, <2>1, <2>2, <2>3, <2>4
<1> QED BY <1>2, <1>5, <1>6

LEMMA DiscardGenerationsTyped == ASSUME Typed, DiscardGenerations PROVE Typed'
<1>1. /\ InStage("generations") /\ publication' = [publication EXCEPT !.stage = "segments"]
      /\ UNCHANGED <<journal, pool, current, mode, cache, acked, appended, reader>>
  BY DEF DiscardGenerations
<1>2. Newest(current) /\ current \in DOMAIN generations
  BY <1>1 DEF Typed, PublicationOK, InStage
<1>3. current \in DOMAIN generations' /\ Newest(current)'
  BY <1>1, <1>2, GenerationsAfterDiscard DEF Newest
<1>4. \A g \in DOMAIN generations' : IsGeneration(generations'[g], appended)
  BY GenerationsAfterDiscard DEF Typed, GenerationsOK, IsGeneration
<1>5. GenerationsOK'
  BY <1>1, <1>3, <1>4, GenerationsAfterDiscard DEF Typed, GenerationsOK
<1>6. ChunksOutliveManifests'
  BY <1>1, GenerationsAfterDiscard DEF Typed, ChunksOutliveManifests
<1>7. PublicationOK' /\ CacheOK'
  BY <1>1, OwnerGoesOn DEF Stages
<1> QED BY <1>1, <1>3, <1>5, <1>6, <1>7 DEF Typed, JournalOK, ReaderOK

LEMMA DiscardSegmentsTyped == ASSUME Typed, DiscardSegments PROVE Typed'
<1>1. /\ InStage("segments") /\ publication' = [publication EXCEPT !.stage = "collect"]
      /\ UNCHANGED <<generations, pool, current, mode, cache, acked, appended, reader>>
      /\ journal' \in {journal, Kept(journal, DOMAIN journal \ Superseded(DOMAIN journal))}
  BY DEF DiscardSegments
<1>2. JournalOK'
  BY <1>1 DEF Typed, JournalOK, Kept
<1>3. PublicationOK' /\ CacheOK'
  BY <1>1, OwnerGoesOn DEF Stages
<1> QED BY <1>1, <1>2, <1>3 DEF Typed, GenerationsOK, Newest, ChunksOutliveManifests, ReaderOK

LEMMA CollectChunksTyped == ASSUME Typed, CollectChunks PROVE Typed'
<1>1. /\ InStage("collect") /\ publication' = [publication EXCEPT !.stage = "prime"]
      /\ UNCHANGED <<generations, journal, current, mode, cache, acked, appended, reader>>
      /\ pool' \in {pool, pool \cap Referenced}
  BY DEF CollectChunks, counts
<1>2. \A g \in DOMAIN generations : ToSet(generations[g].chunks) \subseteq Referenced
  BY DEF Referenced
<1>3. ChunksOutliveManifests'
  BY <1>1, <1>2 DEF Typed, ChunksOutliveManifests
<1>4. PublicationOK' /\ CacheOK'
  BY <1>1, OwnerGoesOn DEF Stages
<1> QED BY <1>1, <1>3, <1>4 DEF Typed, GenerationsOK, JournalOK, Newest, ReaderOK

LEMMA PrimeCacheTyped == ASSUME Typed, PrimeCache PROVE Typed'
<1>1. /\ InStage("prime") /\ UNCHANGED <<generations, journal, pool, current, acked, appended, reader>>
      /\ cache' = IF Readable(current) THEN Primed(current) ELSE None
      /\ \/ publication' = [publication EXCEPT !.stage = "empty"] /\ UNCHANGED mode
         \/ publication' = None /\ mode' = IF mode = "repairing" /\ ~Readable(current) THEN "down" ELSE "open"
  BY DEF PrimeCache, disk, counts
<1>2. cache' # None => Readable(current) /\ cache' \in Sessions(appended)
  BY <1>1, SessionTyped DEF Primed, Typed
<1>3. CacheOK' /\ PublicationOK'
  <2>1. CASE publication' = [publication EXCEPT !.stage = "empty"] /\ UNCHANGED mode
    <3>1. mode # "down" /\ publication'.stage = "empty" /\ publication' \in Publications(appended)
      BY <1>1, <2>1, NextStage DEF Stages
    <3> QED BY <1>1, <1>2, <2>1, <3>1 DEF CacheOK, PublicationOK, Typed
  <2>2. CASE publication' = None /\ mode' = IF mode = "repairing" /\ ~Readable(current) THEN "down" ELSE "open"
    <3>1. CacheOK'
      BY <1>1, <1>2, <2>2 DEF CacheOK, Typed
    <3> QED BY <3>1, <2>2, OutOfPublication
  <2> QED BY <1>1, <2>1, <2>2
<1> QED BY <1>1, <1>3, SameFiles DEF Typed, ReaderOK

LEMMA EmptySegmentTyped == ASSUME Typed, EmptySegment PROVE Typed'
<1>1. /\ publication' = None /\ mode' = "open"
      /\ journal' = [journal EXCEPT ![First(current)] = NoRecords]
      /\ UNCHANGED <<generations, pool, current, cache, appended, reader>>
      /\ acked' \subseteq acked
  BY DEF EmptySegment, counts
<1>2. NoRecords \in Segments(appended)
  BY DEF NoRecords, Segments
<1>3. JournalOK'
  BY <1>1, <1>2 DEF Typed, JournalOK
<1>4. CacheOK'
  BY <1>1 DEF CacheOK, Typed
<1> QED BY <1>1, <1>3, <1>4, OutOfPublication
       DEF Typed, GenerationsOK, Newest, ChunksOutliveManifests, ReaderOK

LEMMA PublicationFailsTyped == ASSUME Typed, PublicationFails PROVE Typed'
<1>1. /\ publication' = None /\ UNCHANGED <<generations, journal, pool, current, cache, acked, appended, reader>>
      /\ mode' \in {mode, "down"}
  BY DEF PublicationFails, disk
<1>2. cache = None
  BY DEF PublicationFails, InStage, Typed, PublicationOK
<1>3. CacheOK'
  BY <1>1, <1>2 DEF CacheOK, Typed
<1> QED BY <1>1, <1>3, SameFiles, OutOfPublication DEF Typed, ReaderOK

LEMMA CrashTyped == ASSUME Typed, Crash \/ Close PROVE Typed'
<1>1. /\ UNCHANGED <<generations, journal, pool, current, acked, appended, reader>>
      /\ mode' = "down" /\ cache' = None /\ publication' = None
  BY DEF Crash, Die, Close, Idle, disk, counts
<1>2. CacheOK'
  BY <1>1 DEF CacheOK
<1> QED BY <1>1, <1>2, SameFiles, OutOfPublication DEF Typed, ReaderOK

ReaderNext ==
  \/ StartLoad \/ ReadCurrent \/ ReadManifest \/ ReadChunks
  \/ ReadDocuments \/ ReadJournal \/ RetryLoad

LEMMA ReaderTyped == ASSUME Typed, ReaderNext PROVE Typed'
<1>1. UNCHANGED <<disk, process, acked, counts>>
  BY DEF ReaderNext, StartLoad, ReadCurrent, ReadManifest, ReadChunks, ReadDocuments, ReadJournal,
         RetryLoad, ReaderStep
<1>2. UNCHANGED <<generations, journal, pool, current, mode, cache, publication, acked, appended>>
  BY <1>1 DEF disk, process, counts
<1>3. "pc" \in DOMAIN reader
  BY DEF Typed, ReaderOK
<1>4. ReaderOK'
  <2>1. CASE StartLoad
    BY <1>3, <2>1 DEF StartLoad, ReaderOK, Reading
  <2>2. CASE ReadCurrent
    BY <1>3, <2>2 DEF ReadCurrent, ReaderOK, Reading
  <2>3. CASE ReadManifest
    BY <1>3, <2>3 DEF ReadManifest, ReaderOK, Reading, GoTo
  <2>4. CASE ReadChunks
    BY <1>3, <2>4 DEF ReadChunks, ReaderOK, Reading, GoTo
  <2>5. CASE ReadDocuments
    BY <1>3, <2>5 DEF ReadDocuments, ReaderOK, Reading, GoTo
  <2>6. CASE ReadJournal
    BY <1>3, <2>6 DEF ReadJournal, ReaderOK, Reading, GoTo
  <2>7. CASE RetryLoad
    BY <1>3, <2>7 DEF RetryLoad, ReaderOK, Reading
  <2> QED BY <2>1, <2>2, <2>3, <2>4, <2>5, <2>6, <2>7 DEF ReaderNext
<1>5. CacheOK' /\ PublicationOK'
  BY <1>2 DEF CacheOK, PublicationOK, Typed, Newest
<1> QED BY <1>2, <1>4, <1>5, SameFiles DEF Typed

LEMMA NextTyped ==
  ASSUME Typed, [Next]_vars
  PROVE  Typed'
<1>1. CASE UNCHANGED vars
  <2>1. UNCHANGED <<generations, journal, pool, current, mode, cache, publication, acked, appended, reader>>
    BY <1>1 DEF vars, disk, process, counts
  <2>2. CacheOK' /\ PublicationOK'
    BY <2>1 DEF CacheOK, PublicationOK, Typed, Newest
  <2> QED BY <2>1, <2>2, SameFiles DEF Typed, ReaderOK
<1>2. CASE Next
  BY <1>2, AppendRecordTyped, AppendShortTyped, AppendUnsyncedTyped, AppendDyingTyped, CompactTyped,
     ReplaceTyped, OpenTyped, CrashTyped, CreateSegmentTyped, WriteChunkTyped, InstallTyped,
     SwitchTyped, DiscardGenerationsTyped, DiscardSegmentsTyped, CollectChunksTyped,
     PrimeCacheTyped, EmptySegmentTyped, PublicationFailsTyped, ReaderTyped
     DEF Next, ReaderNext
<1> QED BY <1>1, <1>2

LEMMA TypedInvariant == Spec => []Typed
<1>1. Typed /\ [Next]_vars => Typed'
  BY NextTyped
<1> QED BY InitTyped, <1>1, PTL DEF Spec

\* The type invariant holds, whichever faults happen and however often.
THEOREM TypeCorrect == Spec => []TypeOK
BY TypedInvariant, TypedImpliesTypeOK, PTL

\* Whatever is published, discarded in part, collected or left behind, the
\* chunks of a generation that is whole on disk are in the pool.
THEOREM ChunksOutliveTheirManifests == Spec => []ChunksOutliveManifests
<1>1. Typed => ChunksOutliveManifests
  BY DEF Typed
<1> QED BY TypedInvariant, <1>1, PTL

LEMMA SameExceptWhole ==
  ASSUME Typed, [Next]_vars
  PROVE  \A g \in DOMAIN generations \cap DOMAIN generations' :
           [generations'[g] EXCEPT !.whole = TRUE] = [generations[g] EXCEPT !.whole = TRUE]
<1>1. CASE Install
  <2>1. \A g \in DOMAIN generations : g # publication.generation
    BY <1>1 DEF Install, Typed, PublicationOK, InStage, GenerationsOK
  <2>2. \A g \in DOMAIN generations : generations'[g] = generations[g]
    BY <1>1, <2>1 DEF Install, With
  <2> QED BY <2>2
<1>2. CASE DiscardGenerations
  <2> TAKE g \in DOMAIN generations \cap DOMAIN generations'
  <2>1. /\ generations'[g].sequence = generations[g].sequence
        /\ generations'[g].chunks = generations[g].chunks
        /\ generations'[g] \in [sequence : Nat, chunks : Seq(Seq(1..appended)), whole : BOOLEAN]
        /\ generations[g] \in [sequence : Nat, chunks : Seq(Seq(1..appended)), whole : BOOLEAN]
    BY <1>2, GenerationsAfterDiscard DEF Typed, GenerationsOK, IsGeneration
  <2> QED BY <2>1
<1>3. CASE ~(Install \/ DiscardGenerations)
  <2>1. UNCHANGED generations
    BY <1>3 DEF Next, vars, disk, Appending, AppendRecord, AppendShort, AppendUnsynced, AppendDying,
       Compact, Replace, Publish, Open, Repair, Close, Crash, CreateSegment, WriteChunk, Switch,
       DiscardSegments, CollectChunks, PrimeCache, EmptySegment, PublicationFails, ReaderStep,
       StartLoad, ReadCurrent, ReadManifest, ReadChunks, ReadDocuments, ReadJournal, RetryLoad
  <2> QED BY <2>1
<1> QED BY <1>1, <1>2, <1>3

\* No step changes what a generation with a given number is, other than that
\* it may be discarded or left in part (_next_generation, _discard_superseded).
THEOREM GenerationsAreNeverRewritten == Spec => GenerationsNeverRewritten
<1>1. Typed /\ [Next]_vars =>
        [\A g \in DOMAIN generations \cap DOMAIN generations' :
           [generations'[g] EXCEPT !.whole = TRUE] = [generations[g] EXCEPT !.whole = TRUE]]_vars
  BY SameExceptWhole
<1> QED BY <1>1, TypedInvariant, PTL DEF Spec, GenerationsNeverRewritten

-----------------------------------------------------------------------------
(* The cache.                                                              *)

LEMMA StoredIsSession ==
  ASSUME CacheIsTrue, cache # None \/ Readable(current)
  PROVE  Stored = Session(current) /\ Readable(current)
BY DEF CacheIsTrue, Stored

\* A load depends on one generation, its chunks and its segment.
LEMMA SameLoad ==
  ASSUME NEW g, Readable(g), g \in DOMAIN generations', generations'[g] = generations[g],
         First(g) \in DOMAIN journal', journal'[First(g)] = journal[First(g)],
         ToSet(generations[g].chunks) \subseteq pool'
  PROVE  Readable(g)' /\ Session(g)' = Session(g)
<1>1. First(g)' = First(g)
  BY DEF First
<1>2. Reads(journal[First(g)].records, First(g))' = Reads(journal[First(g)].records, First(g))
  BY <1>1 DEF Reads
<1>3. Size(journal[First(g)])' = Size(journal[First(g)])
  BY <1>1 DEF Size
<1> QED BY <1>1, <1>2, <1>3 DEF Readable, Session

LEMMA SameFilesSameLoad ==
  ASSUME UNCHANGED disk
  PROVE  /\ Readable(current)' <=> Readable(current)
         /\ Session(current)' = Session(current)
         /\ StoredLog' = StoredLog
BY DEF disk, Readable, Reads, First, Session, Size, StoredLog, Log, Ids, Lost

\* A record that follows the last one of a segment.
Follows(record, session) ==
  /\ record.sequence = session.first + Len(session.records)
  /\ record.previous = IF session.records = <<>> THEN 0 ELSE Last(session.records).id

LEMMA NextRecordFollows == Follows(NextRecord, Stored)
BY DEF Follows, NextRecord

LEMMA PutReads ==
  ASSUME NEW n \in Nat, NEW records \in Seq(Entries(n)), NEW first \in Nat, NEW record \in Entries(n),
         Reads(records, first), record.sequence = first + Len(records),
         record.previous = IF records = <<>> THEN 0 ELSE Last(records).id
  PROVE  Reads(Append(records, record), first)
<1> DEFINE more == Append(records, record)
<1>1. /\ Len(records) \in Nat /\ DOMAIN more = 1..Len(records) + 1
      /\ \A i \in 1..Len(records) : more[i] = records[i]
      /\ more[Len(records) + 1] = record
  OBVIOUS
<1> HIDE DEF more
<1>2. ASSUME NEW i \in 1..Len(records)
      PROVE  /\ more[i].sequence = first + i - 1
             /\ more[i].previous = IF i = 1 THEN 0 ELSE more[i - 1].id
  <2>1. i \in DOMAIN records
    BY <1>1
  <2>2. /\ records[i].sequence = first + i - 1
        /\ records[i].previous = IF i = 1 THEN 0 ELSE records[i - 1].id
    BY <2>1 DEF Reads
  <2>3. i # 1 => i - 1 \in 1..Len(records)
    BY <1>1
  <2>4. more[i] = records[i] /\ (i # 1 => more[i - 1] = records[i - 1])
    BY <1>1, <2>3
  <2> QED BY <2>2, <2>4
<1>3. ASSUME NEW i, i = Len(records) + 1
      PROVE  /\ more[i].sequence = first + i - 1
             /\ more[i].previous = IF i = 1 THEN 0 ELSE more[i - 1].id
  <2>1. more[i].sequence = first + i - 1
    BY <1>1, <1>3
  <2>2. CASE i = 1
    BY <1>1, <1>3, <2>1, <2>2
  <2>3. CASE i # 1
    <3>1. records # <<>> /\ i - 1 \in 1..Len(records) /\ i - 1 = Len(records)
      BY <1>1, <1>3, <2>3
    <3>2. Last(records) = records[Len(records)]
      BY DEF Last
    <3>3. more[i - 1] = Last(records)
      BY <1>1, <3>1, <3>2
    <3> QED BY <1>1, <1>3, <2>1, <2>3, <3>1, <3>3
  <2> QED BY <2>2, <2>3
<1>4. \A i \in DOMAIN more : i \in 1..Len(records) \/ i = Len(records) + 1
  BY <1>1
<1>5. Reads(more, first)
  BY <1>2, <1>3, <1>4 DEF Reads
<1> QED BY <1>5 DEF more

\* What a load finds after a record was put down.
LEMMA PutLoads ==
  ASSUME Typed, NEW g, Readable(g), NEW record \in Entries(appended'), appended' \in Nat, appended <= appended',
         Follows(record, Session(g)),
         journal' = [journal EXCEPT ![First(g)] = Put(journal[First(g)], record)],
         UNCHANGED <<generations, pool>>
  PROVE  /\ Readable(g)'
         /\ Session(g)' = [first |-> Session(g).first, base |-> Session(g).base,
                           records |-> Append(Session(g).records, record),
                           size |-> Size(journal'[First(g)])]
<1>1. First(g)' = First(g) /\ First(g) \in DOMAIN journal /\ g \in DOMAIN generations
  BY DEF First, Readable
<1>2. PICK f, records : f = First(g) /\ records = journal[First(g)].records
  OBVIOUS
<1>3. journal'[f] = Put(journal[f], record) /\ f \in DOMAIN journal' /\ First(g)' = f
  BY <1>1, <1>2
<1>4. journal'[f].records = Append(records, record)
  BY <1>2, <1>3 DEF Put
<1>5. journal[f] \in Segments(appended) /\ f \in Nat
  BY <1>1, <1>2 DEF Typed, JournalOK
<1>6. records \in Seq(Entries(appended'))
  BY <1>2, <1>5, Grows DEF Typed, Segments
<1>7. Session(g).first = f /\ Session(g).records = records
  BY <1>2 DEF Session
<1>8. Reads(records, f)
  BY <1>2 DEF Readable
<1>9. Reads(Append(records, record), f)
  BY <1>5, <1>6, <1>7, <1>8, PutReads DEF Follows
<1>10. Reads(journal[f].records, f)'
  BY <1>4, <1>9 DEF Reads
<1>11. /\ g \in DOMAIN generations' /\ generations'[g].whole
       /\ ToSet(generations'[g].chunks) \subseteq pool'
  BY DEF Readable
<1>12. Readable(g)'
  BY <1>3, <1>10, <1>11 DEF Readable
<1>13. Session(g)' = [first |-> f, base |-> FlattenSeq(generations[g].chunks),
                      records |-> Append(records, record), size |-> Size(journal'[f])]
  BY <1>3, <1>4 DEF Session, Size
<1> QED BY <1>2, <1>7, <1>12, <1>13 DEF Session

\* A torn tail is read by nobody.
LEMMA PutPartLoads ==
  ASSUME Typed, NEW g, Readable(g),
         journal' = [journal EXCEPT ![First(g)] = PutPart(journal[First(g)])],
         UNCHANGED <<generations, pool>>
  PROVE  /\ Readable(g)'
         /\ Session(g)'.base = Session(g).base /\ Session(g)'.records = Session(g).records
<1>1. First(g)' = First(g) /\ First(g) \in DOMAIN journal /\ g \in DOMAIN generations
  BY DEF First, Readable
<1>2. journal[First(g)] \in Segments(appended)
  BY <1>1 DEF Typed, JournalOK
<1>3. journal'[First(g)].records = journal[First(g)].records
  BY <1>1, <1>2 DEF PutPart, Segments
<1> QED BY <1>1, <1>3 DEF Readable, Reads, Session

LEMMA SessionFields ==
  ASSUME NEW n, NEW x \in Sessions(n)
  PROVE  x = [first |-> x.first, base |-> x.base, records |-> x.records, size |-> x.size]
BY DEF Sessions

LEMMA AppendRecordTrue == ASSUME Typed, CacheIsTrue, AppendRecord PROVE CacheIsTrue'
<1>1. Appending /\ UNCHANGED <<generations, pool, current>>
  BY DEF AppendRecord, Appending
<1>2. Stored = Session(current) /\ Readable(current)
  BY <1>1, StoredIsSession DEF Appending
<1>3. Stored.first = First(current)
  BY <1>2 DEF Session
<1>4. /\ journal' = [journal EXCEPT ![First(current)] = Put(journal[First(current)], NextRecord)]
      /\ acked' = acked \cup {NextRecord.id}
  BY <1>3 DEF AppendRecord
<1>5. PICK g : g = current
  OBVIOUS
<1>6. appended' \in Nat /\ appended <= appended' /\ NextRecord \in Entries(appended')
      /\ Stored \in Sessions(appended')
  BY <1>1, <1>3, <1>4, AppendingTyped
<1>7. /\ Readable(g)'
      /\ Session(g)' = [first |-> Session(g).first, base |-> Session(g).base,
                        records |-> Append(Session(g).records, NextRecord),
                        size |-> Size(journal'[First(g)])]
  BY <1>1, <1>2, <1>4, <1>5, <1>6, NextRecordFollows, PutLoads
<1>8. cache' = IF Extended(Stored, NextRecord).size = Size(journal'[First(g)])
               THEN Extended(Stored, NextRecord) ELSE None
  BY <1>3, <1>5 DEF AppendRecord
<1>9. Extended(Stored, NextRecord) =
        [first |-> Stored.first, base |-> Stored.base,
         records |-> Append(Stored.records, NextRecord), size |-> Stored.size + 2]
  <2>1. Extended(Stored, NextRecord) \in Sessions(appended') /\ Stored \in Sessions(appended')
    BY <1>6, ExtendedTyped
  <2>2. /\ Extended(Stored, NextRecord).first = Stored.first
        /\ Extended(Stored, NextRecord).base = Stored.base
        /\ Extended(Stored, NextRecord).records = Append(Stored.records, NextRecord)
        /\ Extended(Stored, NextRecord).size = Stored.size + 2
    BY <2>1 DEF Extended, Sessions
  <2> QED BY <2>1, <2>2, SessionFields
<1>10. cache' # None => cache' = Session(g)'
  <2>1. Stored = Session(g)
    BY <1>2, <1>5
  <2>2. CASE Extended(Stored, NextRecord).size = Size(journal'[First(g)])
    <3>1. Stored.size + 2 = Size(journal'[First(g)])
      BY <1>6, <2>2, ExtendedTyped DEF Extended, Sessions
    <3> QED BY <1>7, <1>8, <1>9, <2>1, <2>2, <3>1
  <2> QED BY <1>8, <2>2
<1>11. current' = g
  BY <1>1, <1>5
<1> QED BY <1>7, <1>10, <1>11 DEF CacheIsTrue

\* A segment without a byte is what an emptied one is.
LEMMA SizeZero ==
  ASSUME NEW n \in Nat, NEW x \in Segments(n), Size(x) = 0
  PROVE  x = NoRecords
<1>1. x.records \in Seq(Entries(n)) /\ Len(x.records) \in Nat /\ x.torn \in BOOLEAN
  BY DEF Segments
<1>2. ~x.torn /\ Len(x.records) = 0
  <2>1. CASE x.torn
    BY <1>1, <2>1 DEF Size
  <2>2. CASE ~x.torn
    BY <1>1, <2>2 DEF Size
  <2> QED BY <2>1, <2>2
<1>3. x.records = <<>>
  BY <1>1, <1>2, EmptySeq
<1> QED BY <1>1, <1>2, <1>3 DEF Segments, NoRecords

\* What is cached during a publication was primed from an empty segment.
PrimedEmpty == publication # None /\ cache # None => Size(journal[First(current)]) = 0

CacheOfSession == CacheIsTrue /\ PrimedEmpty

LEMMA NoCache ==
  ASSUME cache' = None
  PROVE  CacheOfSession'
BY DEF CacheOfSession, CacheIsTrue, PrimedEmpty

\* Nothing is cached before a publication primes the cache.
LEMMA PublishingTrue ==
  ASSUME Typed, NEW stage \in Stages \ {"empty"}, InStage(stage), UNCHANGED cache
  PROVE  CacheOfSession'
<1>1. cache = None
  BY DEF Typed, PublicationOK, InStage
<1> QED BY <1>1, NoCache

LEMMA SameDiskTrue ==
  ASSUME CacheOfSession, UNCHANGED <<disk, cache>>, publication' \in {publication, None}
  PROVE  CacheOfSession'
BY SameFilesSameLoad DEF CacheOfSession, CacheIsTrue, PrimedEmpty, disk, First, Size

LEMMA OpenTrue == ASSUME Typed, Open PROVE CacheOfSession'
<1>1. CASE cache' = Session(current) /\ UNCHANGED <<disk, publication>>
  <2>1. publication' = None /\ Readable(current)
    BY <1>1 DEF Open, Typed, PublicationOK
  <2> QED BY <1>1, <2>1, SameFilesSameLoad DEF CacheOfSession, CacheIsTrue, PrimedEmpty
<1>2. CASE \E k \in DOMAIN Session(current).records : Repair(Session(current), k)
  BY <1>2, NoCache DEF Repair, Publish
<1> QED BY <1>1, <1>2 DEF Open

LEMMA PrimeCacheTrue == ASSUME Typed, PrimeCache PROVE CacheOfSession'
<1>1. UNCHANGED disk /\ cache' = IF Readable(current) THEN Primed(current) ELSE None
  BY DEF PrimeCache
<1>2. CASE cache' = None
  BY <1>2, NoCache
<1>3. CASE cache' # None
  <2>1. Readable(current) /\ cache' = Session(current) /\ Size(journal[First(current)]) = 0
    BY <1>1, <1>3 DEF Primed
  <2>2. Size(journal[First(current)])' = Size(journal[First(current)])
    BY <1>1 DEF disk, Size, First
  <2> QED BY <1>1, <2>1, <2>2, SameFilesSameLoad DEF CacheOfSession, CacheIsTrue, PrimedEmpty
<1> QED BY <1>2, <1>3

LEMMA EmptySegmentTrue == ASSUME Typed, CacheOfSession, EmptySegment PROVE CacheOfSession'
<1>1. /\ publication' = None /\ publication # None
      /\ journal' = [journal EXCEPT ![First(current)] = NoRecords]
      /\ UNCHANGED <<generations, pool, current, cache>>
  BY DEF EmptySegment, InStage
<1>2. CASE cache = None
  BY <1>1, <1>2, NoCache
<1>3. CASE cache # None
  <2>1. /\ Readable(current) /\ cache = Session(current)
        /\ Size(journal[First(current)]) = 0
    BY <1>1, <1>3 DEF CacheOfSession, CacheIsTrue, PrimedEmpty
  <2>2. First(current) \in DOMAIN journal
    BY <2>1 DEF Readable
  <2>3. journal[First(current)] = NoRecords
    BY <2>1, <2>2, SizeZero DEF Typed, JournalOK
  <2>4. PICK g : g = current
    OBVIOUS
  <2>5. /\ Readable(g) /\ First(g) \in DOMAIN journal'
        /\ journal'[First(g)] = journal[First(g)]
    BY <1>1, <2>1, <2>2, <2>3, <2>4
  <2>6. g \in DOMAIN generations' /\ generations'[g] = generations[g] /\ ToSet(generations[g].chunks) \subseteq pool'
    BY <1>1, <2>5 DEF Readable
  <2>7. Readable(g)' /\ Session(g)' = Session(g)
    BY <2>5, <2>6, SameLoad
  <2> QED BY <1>1, <2>1, <2>4, <2>7 DEF CacheOfSession, CacheIsTrue, PrimedEmpty
<1> QED BY <1>2, <1>3

LEMMA NextTrue ==
  ASSUME "fsync" \notin Faults, Typed, CacheOfSession, [Next]_vars
  PROVE  CacheOfSession'
<1> USE DEF Stages
<1>1. CASE UNCHANGED vars
  BY <1>1, SameDiskTrue DEF vars, process
<1>2. CASE AppendRecord
  <2>1. publication' = None
    BY <1>2 DEF AppendRecord, Appending
  <2> QED BY <1>2, <2>1, AppendRecordTrue DEF CacheOfSession, PrimedEmpty
<1>3. CASE AppendShort \/ AppendDying \/ Crash \/ Close \/ Compact \/ Replace
  BY <1>3, NoCache DEF AppendShort, AppendDying, Crash, Close, Die, Compact, Replace, Publish
<1>4. CASE AppendUnsynced
  BY <1>4 DEF AppendUnsynced, Fault
<1>5. CASE Open
  BY <1>5, OpenTrue
<1>6. CASE CreateSegment
  BY <1>6, PublishingTrue DEF CreateSegment
<1>7. CASE WriteChunk
  BY <1>7, PublishingTrue DEF WriteChunk
<1>8. CASE Install
  BY <1>8, PublishingTrue DEF Install
<1>9. CASE Switch
  BY <1>9, PublishingTrue DEF Switch
<1>10. CASE DiscardGenerations
  BY <1>10, PublishingTrue DEF DiscardGenerations
<1>11. CASE DiscardSegments
  BY <1>11, PublishingTrue DEF DiscardSegments
<1>12. CASE CollectChunks
  BY <1>12, PublishingTrue DEF CollectChunks
<1>13. CASE PrimeCache
  BY <1>13, PrimeCacheTrue
<1>14. CASE EmptySegment
  BY <1>14, EmptySegmentTrue
<1>15. CASE PublicationFails
  BY <1>15, PublishingTrue DEF PublicationFails
<1>16. CASE ReaderNext
  <2>1. UNCHANGED <<disk, cache, publication>>
    BY <1>16 DEF ReaderNext, StartLoad, ReadCurrent, ReadManifest, ReadChunks, ReadDocuments,
       ReadJournal, RetryLoad, ReaderStep, process
  <2> QED BY <2>1, SameDiskTrue
<1> QED BY <1>1, <1>2, <1>3, <1>4, <1>5, <1>6, <1>7, <1>8, <1>9, <1>10, <1>11, <1>12, <1>13,
           <1>14, <1>15, <1>16 DEF Next, ReaderNext

LEMMA CacheOfSessionInvariant ==
  ASSUME "fsync" \notin Faults
  PROVE  Spec => []CacheOfSession
<1>1. Init => CacheOfSession
  BY DEF Init, CacheOfSession, CacheIsTrue, PrimedEmpty
<1>2. Typed /\ CacheOfSession /\ [Next]_vars => CacheOfSession'
  BY NextTrue
<1> QED BY <1>1, <1>2, TypedInvariant, PTL DEF Spec

\* As long as no fsync fails after its write, what the owner has cached is what
\* a full load would find, across publications, repairs, deaths, files that
\* are not removed and writes that are cut short (_extend_cache, _prime_cache).
THEOREM CacheIsTrueHolds ==
  ASSUME "fsync" \notin Faults
  PROVE  Spec => []CacheIsTrue
<1>1. CacheOfSession => CacheIsTrue
  BY DEF CacheOfSession
<1> QED BY <1>1, CacheOfSessionInvariant, PTL

-----------------------------------------------------------------------------
(* The process without a lease.                                            *)

\* The generation CURRENT names is whole, and the one to replace it has a
\* greater number and no earlier segment.
CurrentOK ==
  /\ generations[current].whole
  /\ cache # None => cache.first = First(current)
  /\ publication # None /\ publication.stage \in {"segment", "chunks", "switch"} =>
       publication.sequence + 1 >= First(current)
  /\ publication # None /\ publication.stage = "switch" =>
       /\ publication.generation > current
       /\ generations[publication.generation].whole
       /\ generations[publication.generation].sequence = publication.sequence

\* The transcript of a manifest with the records of its segment.
Loaded(sequence, chunks) == FlattenSeq(chunks) \o Ids(journal[sequence + 1].records)

\* A segment that is written no more, and what was the log with its records.
Closed(sequence, chunks) ==
  /\ sequence + 1 < First(current)
  /\ sequence + 1 \in DOMAIN journal /\ Reads(journal[sequence + 1].records, sequence + 1) =>
       Loaded(sequence, chunks) \in watch.logs

Attempting == {"manifest", "chunks", "documents", "journal"}
HoldsManifest == {"chunks", "documents", "journal"}

\* What the read has seen of the store, wherever the store has got to since.
SeenOK ==
  /\ DOMAIN reader = {"pc", "pointer", "retried", "generation", "sequence", "chunks", "log"}
  /\ reader.pc \in Reading => StoredLog \in watch.logs
  /\ reader.pc \in Attempting =>
       reader.generation \in Nat /\ reader.generation <= current
  /\ reader.pc = "manifest" /\ reader.generation # current
       /\ reader.generation \in DOMAIN generations /\ ~watch.reused =>
         Closed(generations[reader.generation].sequence, generations[reader.generation].chunks)
  /\ reader.pc \in HoldsManifest =>
       /\ reader.sequence \in Nat
       /\ reader.generation \in DOMAIN generations =>
            /\ reader.sequence = generations[reader.generation].sequence
            /\ reader.chunks = generations[reader.generation].chunks
       /\ reader.generation # current /\ ~watch.reused => Closed(reader.sequence, reader.chunks)
  /\ ReaderSeesALogOfItsSegment

\* How far the store has moved on when an attempt misses what it looks for.
Behind == watch.moves >= (IF reader.retried THEN 2 ELSE 1)

MissOK ==
  /\ watch.moves \in Nat /\ reader.retried \in BOOLEAN
  /\ reader.pc = "idle" => watch.moves = 0 /\ ~reader.retried
  /\ reader.pc \in Reading =>
       /\ reader.pointer \in Nat /\ reader.pointer <= current
       /\ current = reader.pointer <=> watch.moves = 0
       /\ reader.retried => watch.moves >= 1
  /\ reader.pc \in Attempting /\ reader.generation # current => Behind
  /\ reader.pc = "missed" => Behind \/ Lost \in watch.logs
  /\ ReaderFailsOnlyBehind

LEMMA CurrentTyped ==
  ASSUME Typed
  PROVE  /\ current \in Nat /\ generations[current].sequence \in Nat /\ First(current) \in Nat \ {0}
         /\ \A g \in DOMAIN generations : g \in Nat /\ generations[g].sequence \in Nat
         /\ generations[current].chunks \in Seq(Seq(1..appended))
         /\ publication # None => publication \in Publications(appended)
BY DEF Typed, GenerationsOK, IsGeneration, First, PublicationOK

LEMMA StoredFirst ==
  ASSUME CurrentOK
  PROVE  Stored.first = First(current)
BY DEF CurrentOK, Stored, Session

\* Nothing that was the present generation's, or an earlier one's, is written
\* by a step that leaves CURRENT where it is, but the present segment.
Steady ==
  /\ current' = current /\ First(current)' = First(current)
  /\ \A first \in DOMAIN journal' : first < First(current) =>
       first \in DOMAIN journal /\ journal'[first] = journal[first]
  /\ \A g \in DOMAIN generations' : g <= current =>
       /\ g \in DOMAIN generations
       /\ generations'[g].sequence = generations[g].sequence
       /\ generations'[g].chunks = generations[g].chunks

Moved ==
  /\ UNCHANGED <<generations, journal, pool>>
  /\ current' > current /\ current' \in DOMAIN generations
  /\ generations[current'].sequence >= generations[current].sequence

LEMMA StaysCurrent ==
  ASSUME Typed, CurrentOK, UNCHANGED <<generations, current>>,
         cache' # None => cache'.first = First(current),
         \/ publication' \in {None, publication}
         \/ publication'.stage \notin {"segment", "chunks", "switch"}
         \/ publication'.stage \in {"segment", "chunks"} /\ publication'.sequence + 1 >= First(current)
  PROVE  CurrentOK'
<1>1. First(current)' = First(current)
  BY DEF First
<1> QED BY <1>1 DEF CurrentOK

LEMMA StaysSteady ==
  ASSUME UNCHANGED <<generations, current>>,
         \A first \in DOMAIN journal' : first < First(current) =>
           first \in DOMAIN journal /\ journal'[first] = journal[first]
  PROVE  Steady
<1>1. First(current)' = First(current)
  BY DEF First
<1> QED BY <1>1 DEF Steady

LEMMA AppendingOn ==
  ASSUME Typed, CurrentOK, AppendRecord \/ AppendShort \/ AppendUnsynced \/ AppendDying
  PROVE  CurrentOK' /\ Steady
<1>1. /\ UNCHANGED <<generations, current>> /\ publication' = None
      /\ cache # None \/ Readable(current)
  BY DEF AppendRecord, AppendShort, AppendUnsynced, AppendDying, Appending, Die
<1>2. PICK first : first = First(current)
  OBVIOUS
<1>3. Stored.first = first /\ first \in Nat
  BY <1>2, StoredFirst, CurrentTyped
<1>4. \E segment : journal' = [journal EXCEPT ![first] = segment]
  BY <1>3 DEF AppendRecord, AppendShort, AppendUnsynced, AppendDying
<1>5. \A other \in DOMAIN journal' : other < first =>
        other \in DOMAIN journal /\ journal'[other] = journal[other]
  BY <1>3, <1>4
<1>6. Stored \in Sessions(appended)
  BY <1>1, StoredTyped
<1>7. cache' # None => cache'.first = first
  <2>1. CASE AppendRecord
    <3>1. cache' # None => cache' = Extended(Stored, NextRecord)
      BY <2>1 DEF AppendRecord
    <3>2. Extended(Stored, NextRecord).first = Stored.first
      BY <1>6 DEF Extended, Sessions
    <3> QED BY <3>1, <3>2, <1>3
  <2>2. CASE AppendShort \/ AppendUnsynced \/ AppendDying
    BY <2>2, <1>3 DEF AppendShort, AppendUnsynced, AppendDying, Die
  <2> QED BY <2>1, <2>2
<1>8. CurrentOK'
  BY <1>1, <1>2, <1>7, StaysCurrent
<1>9. Steady
  BY <1>1, <1>2, <1>5, StaysSteady
<1> QED BY <1>8, <1>9

LEMMA PublishingOn ==
  ASSUME Typed, CurrentOK, Compact \/ Replace \/ Open
  PROVE  CurrentOK' /\ Steady
<1>1. UNCHANGED <<generations, journal, current>>
  BY DEF Compact, Replace, Open, Repair, Publish, disk
<1>2. Steady
  BY <1>1, StaysSteady
<1>3. First(current) \in Nat /\ Stored.first = First(current)
  BY CurrentTyped, StoredFirst
<1>4. CASE Compact \/ Replace
  <2>1. /\ cache' = None /\ publication'.stage = "segment"
        /\ publication'.sequence = LastSequence(Stored)
        /\ cache # None \/ Readable(current)
    BY <1>4 DEF Compact, Replace, Publish
  <2>2. Len(Stored.records) \in Nat
    BY <2>1, StoredTyped DEF Sessions
  <2>3. LastSequence(Stored) + 1 >= First(current)
    BY <1>3, <2>2 DEF LastSequence
  <2> QED BY <1>1, <1>2, <2>1, <2>3, StaysCurrent
<1>5. CASE Open
  <2>1. CASE cache' = Session(current) /\ UNCHANGED publication
    <3>1. Session(current).first = First(current)
      BY DEF Session
    <3> QED BY <1>1, <1>2, <2>1, <3>1, StaysCurrent
  <2>2. CASE \E k \in DOMAIN Session(current).records : Repair(Session(current), k)
    <3>1. Readable(current)
      BY <1>5 DEF Open
    <3>2. PICK k \in DOMAIN Session(current).records : Repair(Session(current), k)
      BY <2>2
    <3>3. Session(current).records \in Seq(Entries(appended)) /\ Session(current).first = First(current)
      BY <3>1, SessionTyped DEF Typed, Sessions, Session
    <3>4. k \in Nat /\ k >= 1
      BY <3>3
    <3>5. /\ cache' = None /\ publication'.stage = "segment"
          /\ publication'.sequence = Session(current).first + k - 2
      BY <3>2 DEF Repair, Publish
    <3>6. publication'.sequence + 1 >= First(current)
      BY <1>3, <3>3, <3>4, <3>5
    <3> QED BY <1>1, <1>2, <3>5, <3>6, StaysCurrent
  <2> QED BY <1>5, <2>1, <2>2 DEF Open
<1> QED BY <1>4, <1>5

LEMMA InstallOn ==
  ASSUME Typed, CurrentOK, Install
  PROVE  CurrentOK' /\ Steady
<1>1. PICK new, entry :
        /\ new = publication.generation
        /\ entry = [sequence |-> publication.sequence, chunks |-> Chunks(publication.base),
                    whole |-> TRUE]
  OBVIOUS
<1>2. /\ generations' = With(generations, new, entry) /\ InStage("chunks")
      /\ publication' = [publication EXCEPT !.stage = "switch"]
      /\ UNCHANGED <<journal, current, cache>>
  BY <1>1 DEF Install
<1>3. /\ publication'.stage = "switch" /\ publication'.generation = new
      /\ publication'.sequence = publication.sequence
  BY <1>1, <1>2, CurrentTyped DEF InStage, Publications
<1>4. \A g \in DOMAIN generations : g < new /\ g \in Nat
  BY <1>1, <1>2 DEF Typed, PublicationOK, InStage, GenerationsOK
<1>5. current \in DOMAIN generations /\ current \in Nat /\ new \in Nat
  BY <1>1, <1>2, CurrentTyped DEF Typed, InStage, Publications
<1>6. /\ generations'[new] = entry
      /\ \A g \in DOMAIN generations : generations'[g] = generations[g]
      /\ DOMAIN generations' = DOMAIN generations \cup {new}
  BY <1>2, <1>4 DEF With
<1>7. First(current)' = First(current)
  BY <1>2, <1>5, <1>6 DEF First
<1>8. publication.sequence + 1 >= First(current)
  BY <1>2 DEF CurrentOK, InStage
<1>9. CurrentOK'
  <2>1. entry.whole = TRUE /\ entry.sequence = publication.sequence
    BY <1>1
  <2>2. generations[current].whole /\ new > current /\ cache = None
    BY <1>2, <1>4, <1>5 DEF CurrentOK, Typed, PublicationOK, InStage
  <2>3. generations'[current'].whole /\ cache' = None
    BY <1>2, <1>5, <1>6, <2>2
  <2>4. publication'.sequence + 1 >= First(current)'
    BY <1>3, <1>7, <1>8
  <2>5. /\ publication'.generation > current' /\ generations'[publication'.generation].whole
        /\ generations'[publication'.generation].sequence = publication'.sequence
    BY <1>2, <1>3, <1>6, <2>1, <2>2
  <2> QED BY <2>3, <2>4, <2>5 DEF CurrentOK
<1>10. Steady
  BY <1>2, <1>4, <1>5, <1>6, <1>7 DEF Steady
<1> QED BY <1>9, <1>10

LEMMA SwitchOn ==
  ASSUME Typed, CurrentOK, Switch
  PROVE  CurrentOK' /\ Moved
<1>1. /\ InStage("switch") /\ publication' = [publication EXCEPT !.stage = "generations"]
      /\ UNCHANGED <<generations, journal, pool, cache>> /\ current' = publication.generation
  BY DEF Switch
<1>2. /\ publication.generation > current /\ generations[publication.generation].whole
      /\ generations[publication.generation].sequence = publication.sequence
      /\ publication.sequence + 1 >= First(current)
  BY <1>1 DEF CurrentOK, InStage
<1>3. publication'.stage = "generations" /\ cache = None /\ publication.sequence \in Nat
  BY <1>1, NextStage DEF Stages, Typed, PublicationOK, InStage, Publications
<1>4. Newest(publication.generation)
  BY <1>1 DEF Typed, PublicationOK, InStage
<1>5. CurrentOK'
  BY <1>1, <1>2, <1>3 DEF CurrentOK
<1>6. Moved
  BY <1>1, <1>2, <1>3, <1>4, CurrentTyped DEF Moved, First, Newest
<1> QED BY <1>5, <1>6

LEMMA DiscardGenerationsOn ==
  ASSUME Typed, CurrentOK, DiscardGenerations
  PROVE  CurrentOK' /\ Steady
<1>1. /\ InStage("generations") /\ publication' = [publication EXCEPT !.stage = "segments"]
      /\ UNCHANGED <<journal, current, cache>>
  BY DEF DiscardGenerations
<1>2. Newest(current) /\ current \in DOMAIN generations /\ cache = None
  BY <1>1 DEF Typed, PublicationOK, InStage
<1>3. current \in DOMAIN generations' /\ generations'[current] = generations[current]
  BY <1>2, GenerationsAfterDiscard
<1>4. First(current)' = First(current)
  BY <1>1, <1>3 DEF First
<1>5. publication'.stage = "segments"
  BY <1>1, NextStage DEF Stages
<1>6. CurrentOK'
  BY <1>1, <1>2, <1>3, <1>4, <1>5 DEF CurrentOK
<1>7. Steady
  BY <1>1, <1>3, <1>4, GenerationsAfterDiscard DEF Steady
<1> QED BY <1>6, <1>7

LEMMA SegmentsOn ==
  ASSUME Typed, CurrentOK, CreateSegment \/ DiscardSegments \/ EmptySegment
  PROVE  CurrentOK' /\ Steady
<1>1. UNCHANGED <<generations, current, cache>>
  BY DEF CreateSegment, DiscardSegments, EmptySegment
<1>2. PICK first : first = First(current)
  OBVIOUS
<1>3. first \in Nat
  BY <1>2, CurrentTyped
<1>4. CASE CreateSegment
  <2>1. PICK new : new = publication.sequence + 1
    OBVIOUS
  <2>2. /\ InStage("segment") /\ publication' = [publication EXCEPT !.stage = "chunks"]
        /\ journal' = AdoptedSegment(new)
    BY <1>4, <2>1 DEF CreateSegment
  <2>3. new >= first /\ new \in Nat
    BY <1>2, <2>1, <2>2, CurrentTyped DEF CurrentOK, InStage, Publications
  <2>4. \A other \in DOMAIN journal' : other < first =>
          other \in DOMAIN journal /\ journal'[other] = journal[other]
    BY <1>3, <2>2, <2>3 DEF AdoptedSegment, With
  <2>5. publication'.stage = "chunks" /\ publication'.sequence = publication.sequence
    BY <2>2, CurrentTyped DEF InStage, Publications
  <2>6. Steady
    BY <1>1, <1>2, <2>4, StaysSteady
  <2>7. CurrentOK'
    BY <1>1, <1>2, <2>1, <2>3, <2>5, StaysCurrent DEF CurrentOK
  <2> QED BY <2>6, <2>7
<1>5. CASE DiscardSegments
  <2>1. /\ journal' \in {journal, Kept(journal, DOMAIN journal \ Superseded(DOMAIN journal))}
        /\ publication' = [publication EXCEPT !.stage = "collect"] /\ InStage("segments")
    BY <1>5 DEF DiscardSegments
  <2>2. publication'.stage = "collect"
    BY <2>1, NextStage DEF Stages
  <2>3. \A other \in DOMAIN journal' : other \in DOMAIN journal /\ journal'[other] = journal[other]
    BY <2>1 DEF Kept
  <2>4. Steady
    BY <1>1, <2>3, StaysSteady
  <2>5. CurrentOK'
    BY <1>1, <2>2, StaysCurrent DEF CurrentOK
  <2> QED BY <2>4, <2>5
<1>6. CASE EmptySegment
  <2>1. publication' = None /\ journal' = [journal EXCEPT ![first] = NoRecords]
    BY <1>2, <1>6 DEF EmptySegment
  <2>2. \A other \in DOMAIN journal' : other < first =>
          other \in DOMAIN journal /\ journal'[other] = journal[other]
    BY <1>3, <2>1
  <2>3. Steady
    BY <1>1, <1>2, <2>2, StaysSteady
  <2>4. CurrentOK'
    BY <1>1, <2>1, StaysCurrent DEF CurrentOK
  <2> QED BY <2>3, <2>4
<1> QED BY <1>4, <1>5, <1>6

LEMMA OthersOn ==
  ASSUME Typed, CurrentOK,
         \/ Crash \/ Close \/ WriteChunk \/ CollectChunks \/ PrimeCache \/ PublicationFails
         \/ ReaderNext
  PROVE  CurrentOK' /\ Steady
<1>1. UNCHANGED <<generations, journal, current>>
  BY DEF Crash, Close, WriteChunk, CollectChunks, PrimeCache, PublicationFails, disk, ReaderNext,
     StartLoad, ReadCurrent, ReadManifest, ReadChunks, ReadDocuments, ReadJournal, RetryLoad, ReaderStep
<1>2. Steady
  BY <1>1, StaysSteady
<1>3. CASE Crash \/ Close \/ PublicationFails \/ ReaderNext
  <2>1. cache' \in {None, cache} /\ publication' \in {None, publication}
    BY <1>3 DEF Crash, Close, Die, PublicationFails, process, ReaderNext,
       StartLoad, ReadCurrent, ReadManifest, ReadChunks, ReadDocuments, ReadJournal, RetryLoad, ReaderStep
  <2> QED BY <1>1, <1>2, <2>1, StaysCurrent DEF CurrentOK
<1>4. CASE WriteChunk
  <2>1. /\ InStage("chunks") /\ UNCHANGED cache
        /\ \E chunk : publication' = [publication EXCEPT !.sealed = @ \/ Sealed(chunk)]
    BY <1>4 DEF WriteChunk
  <2>2. publication'.stage = "chunks" /\ publication'.sequence = publication.sequence
    BY <2>1, CurrentTyped DEF InStage, Publications
  <2> QED BY <1>1, <1>2, <2>1, <2>2, StaysCurrent DEF CurrentOK, InStage
<1>5. CASE CollectChunks
  <2>1. /\ InStage("collect") /\ UNCHANGED cache
        /\ publication' = [publication EXCEPT !.stage = "prime"]
    BY <1>5 DEF CollectChunks
  <2>2. publication'.stage = "prime"
    BY <2>1, NextStage DEF Stages
  <2> QED BY <1>1, <1>2, <2>1, <2>2, StaysCurrent DEF CurrentOK
<1>6. CASE PrimeCache
  <2>1. /\ InStage("prime") /\ cache' = IF Readable(current) THEN Primed(current) ELSE None
        /\ publication' \in {[publication EXCEPT !.stage = "empty"], None}
    BY <1>6 DEF PrimeCache
  <2>2. cache' # None => cache'.first = First(current)
    BY <2>1 DEF Primed, Session
  <2>3. publication' = None \/ publication'.stage = "empty"
    BY <2>1, NextStage DEF Stages
  <2> QED BY <1>1, <1>2, <2>2, <2>3, StaysCurrent
<1> QED BY <1>3, <1>4, <1>5, <1>6

LEMMA StepOn ==
  ASSUME Typed, CurrentOK, [Next]_vars
  PROVE  CurrentOK' /\ (Steady \/ Moved)
<1>1. CASE UNCHANGED vars
  <2>1. UNCHANGED <<generations, journal, current, cache, publication>>
    BY <1>1 DEF vars, disk, process
  <2> QED BY <2>1, StaysCurrent, StaysSteady DEF CurrentOK
<1> QED BY <1>1, AppendingOn, PublishingOn, InstallOn, SwitchOn, DiscardGenerationsOn, SegmentsOn,
          OthersOn DEF Next, ReaderNext

LEMMA InitOn == Init => CurrentOK
<1> SUFFICES ASSUME Init PROVE CurrentOK
  OBVIOUS
<1>1. generations[0].whole /\ current = 0 /\ cache = None /\ publication = None
  BY DEF Init
<1> QED BY <1>1 DEF CurrentOK

-----------------------------------------------------------------------------
\* What a read is compared with, while it lasts and after.
LEMMA WatchedFacts ==
  ASSUME Watched
  PROVE  /\ reader'.pc \in Reading =>
              /\ watch'.logs = watch.logs \cup {StoredLog'}
              /\ watch'.moves = watch.moves + IF current' # current THEN 1 ELSE 0
              /\ watch'.reused = (watch.reused \/ SegmentReused)
         /\ reader'.pc \notin Reading => watch' = watch
BY DEF Watched

LEMMA OwnerStep ==
  ASSUME Next, ~ReaderNext
  PROVE  reader' = reader /\ Watched
BY DEF Next, ReaderNext, Appending, AppendRecord, AppendShort, AppendUnsynced, AppendDying,
   Compact, Replace, Publish, Open, Repair, Close, Crash, CreateSegment, WriteChunk, Install, Switch,
   DiscardGenerations, DiscardSegments, CollectChunks, PrimeCache, EmptySegment, PublicationFails

\* A load of the present generation finds its transcript and its records.
LEMMA CurrentJoined ==
  ASSUME Typed, CurrentOK, NEW sequence, sequence = generations[current].sequence,
         sequence + 1 \in DOMAIN journal,
         Reads(journal[sequence + 1].records, sequence + 1)
  PROVE  StoredLog = Loaded(sequence, generations[current].chunks)
<1>1. First(current) = sequence + 1
  BY DEF First
<1>2. Readable(current)
  BY <1>1 DEF Readable, CurrentOK, Typed, ChunksOutliveManifests
<1> QED BY <1>1, <1>2 DEF StoredLog, Log, Session, Loaded

\* What is closed stays as it is.
LEMMA ClosedStays ==
  ASSUME Typed, Steady \/ Moved, NEW sequence \in Nat, NEW chunks, Closed(sequence, chunks),
         watch.logs \subseteq watch'.logs
  PROVE  Closed(sequence, chunks)'
<1>1. First(current)' >= First(current) /\ First(current) \in Nat /\ First(current)' \in Nat
  BY CurrentTyped, SMTT(30) DEF Steady, Moved, First
<1>2. sequence + 1 \in DOMAIN journal' =>
        sequence + 1 \in DOMAIN journal /\ journal'[sequence + 1] = journal[sequence + 1]
  BY DEF Steady, Moved, Closed
<1>3. (sequence + 1 < First(current))'
  BY <1>1 DEF Closed
<1> QED BY <1>2, <1>3 DEF Closed, Loaded

\* The segment CURRENT leaves is closed, unless it is taken over.
LEMMA LeftClosed ==
  ASSUME Typed, CurrentOK, Moved, ~SegmentReused, StoredLog \in watch.logs,
         watch.logs \subseteq watch'.logs,
         NEW sequence, sequence = generations[current].sequence,
         NEW chunks, chunks = generations[current].chunks
  PROVE  Closed(sequence, chunks)'
<1>1. current' # current /\ current \in DOMAIN generations /\ sequence \in Nat
  BY CurrentTyped DEF Moved, Typed
<1>2. generations[current'].sequence # sequence
  BY <1>1 DEF SegmentReused, Moved
<1>3. (sequence + 1 < First(current))'
  BY <1>1, <1>2, CurrentTyped DEF Moved, First
<1>4. ASSUME sequence + 1 \in DOMAIN journal,
             Reads(journal[sequence + 1].records, sequence + 1)
      PROVE  Loaded(sequence, chunks) \in watch'.logs
  BY <1>4, CurrentJoined
<1> QED BY <1>3, <1>4 DEF Closed, Loaded, Moved

LEMMA OwnerSeen ==
  ASSUME Typed, CurrentOK, SeenOK, reader' = reader, Watched, Steady \/ Moved
  PROVE  SeenOK'
<1>1. CASE reader.pc \notin Reading
  <2>1. watch' = watch
    BY <1>1, WatchedFacts
  <2>2. reader.pc \notin Attempting \cup HoldsManifest
    BY <1>1 DEF Reading, Attempting, HoldsManifest
  <2> QED BY <1>1, <2>1, <2>2 DEF SeenOK, ReaderSeesALogOfItsSegment, Attempting
<1>2. CASE reader.pc \in Reading
  <2>1. /\ watch'.logs = watch.logs \cup {StoredLog'}
        /\ watch'.reused = (watch.reused \/ SegmentReused)
        /\ StoredLog \in watch.logs
    BY <1>2, WatchedFacts DEF SeenOK
  <2>2. PICK g : g = reader.generation
    OBVIOUS
  <2>3. reader.pc \in Attempting => g \in Nat /\ g <= current /\ g <= current'
    BY <2>2, CurrentTyped DEF SeenOK, Steady, Moved, Typed, GenerationsOK
  <2>4. ASSUME reader.pc \in Attempting, g \in DOMAIN generations'
        PROVE  /\ g \in DOMAIN generations
               /\ generations'[g].sequence = generations[g].sequence
               /\ generations'[g].chunks = generations[g].chunks
    BY <2>3, <2>4 DEF Steady, Moved
  <2>5. ASSUME NEW sequence, NEW chunks, reader.pc \in Attempting, g # current',
               g = current =>
                 sequence = generations[current].sequence /\ chunks = generations[current].chunks,
               sequence \in Nat, ~watch'.reused,
               g # current => Closed(sequence, chunks)
        PROVE  Closed(sequence, chunks)'
    <3>1. CASE g = current
      <4>1. Moved
        BY <2>5, <3>1 DEF Steady
      <4> QED BY <2>1, <2>5, <3>1, <4>1, LeftClosed
    <3>2. CASE g # current
      BY <2>1, <2>5, <3>2, ClosedStays
    <3> QED BY <3>1, <3>2
  <2>6. ASSUME reader.pc = "manifest", g # current', g \in DOMAIN generations', ~watch'.reused
        PROVE  Closed(generations[g].sequence, generations[g].chunks)'
    <3>1. PICK sequence, chunks :
            sequence = generations[g].sequence /\ chunks = generations[g].chunks
      OBVIOUS
    <3>2. /\ reader.pc \in Attempting /\ g \in DOMAIN generations
          /\ generations'[g].sequence = sequence /\ generations'[g].chunks = chunks
      BY <2>4, <2>6, <3>1 DEF Attempting
    <3>3. g # current => Closed(sequence, chunks)
      BY <2>1, <2>2, <2>6, <3>1, <3>2 DEF SeenOK
    <3>4. sequence \in Nat
      BY <3>1, <3>2, CurrentTyped
    <3>5. Closed(sequence, chunks)'
      BY <2>5, <2>6, <3>1, <3>2, <3>3, <3>4
    <3> QED BY <3>2, <3>5
  <2>7. ASSUME reader.pc \in HoldsManifest
        PROVE  /\ reader.sequence \in Nat
               /\ g \in DOMAIN generations' =>
                    /\ reader.sequence = generations'[g].sequence
                    /\ reader.chunks = generations'[g].chunks
               /\ g # current' /\ ~watch'.reused => Closed(reader.sequence, reader.chunks)'
    <3>1. PICK sequence, chunks : sequence = reader.sequence /\ chunks = reader.chunks
      OBVIOUS
    <3>2. /\ reader.pc \in Attempting /\ sequence \in Nat
          /\ g \in DOMAIN generations => sequence = generations[g].sequence /\ chunks = generations[g].chunks
          /\ g # current /\ ~watch.reused => Closed(sequence, chunks)
      BY <2>2, <2>7, <3>1 DEF SeenOK, HoldsManifest, Attempting
    <3>3. current \in DOMAIN generations
      BY DEF Typed
    <3>4. g # current' /\ ~watch'.reused => Closed(sequence, chunks)'
      BY <2>1, <2>5, <3>2, <3>3
    <3> QED BY <2>4, <3>1, <3>2, <3>4
  <2>8. ReaderSeesALogOfItsSegment'
    BY <1>2 DEF ReaderSeesALogOfItsSegment, Reading
  <2> QED BY <2>1, <2>2, <2>3, <2>6, <2>7, <2>8 DEF SeenOK
<1> QED BY <1>1, <1>2

LEMMA ReaderSteady ==
  ASSUME ReaderNext
  PROVE  /\ UNCHANGED <<generations, journal, pool, current>> /\ StoredLog' = StoredLog
         /\ Steady /\ Watched /\ ~SegmentReused
<1>1. UNCHANGED disk /\ Watched
  BY DEF ReaderNext, StartLoad, ReadCurrent, ReadManifest, ReadChunks, ReadDocuments, ReadJournal,
         RetryLoad, ReaderStep
<1> QED BY <1>1, SameFilesSameLoad, StaysSteady DEF disk, SegmentReused

\* The read goes on, and nothing else does.
LEMMA ReaderGoesOn ==
  ASSUME Typed, ReaderNext, reader'.pc \in Reading
  PROVE  /\ watch'.logs = watch.logs \cup {StoredLog}
         /\ watch'.reused <=> watch.reused
         /\ watch'.moves = watch.moves + 0
         /\ \A sequence \in Nat : \A chunks : Closed(sequence, chunks) => Closed(sequence, chunks)'
<1>1. /\ watch'.logs = watch.logs \cup {StoredLog} /\ watch.logs \subseteq watch'.logs
      /\ watch'.reused = (watch.reused \/ FALSE)
      /\ watch'.moves = watch.moves + 0
  BY ReaderSteady, WatchedFacts
<1>2. watch'.reused <=> watch.reused
  BY <1>1
<1>3. ASSUME NEW sequence \in Nat, NEW chunks, Closed(sequence, chunks)
      PROVE  Closed(sequence, chunks)'
  BY <1>1, <1>3, ReaderSteady, ClosedStays
<1> QED BY <1>1, <1>2, <1>3

\* Of the reader's seven steps, the six that keep it reading.
LEMMA AttemptSeen ==
  ASSUME Typed, CurrentOK, SeenOK, StartLoad \/ ReadCurrent \/ RetryLoad
  PROVE  SeenOK'
<1>1. ReaderNext /\ "pc" \in DOMAIN reader
  BY DEF ReaderNext, Typed, ReaderOK
<1>2. UNCHANGED <<generations, journal, pool, current>> /\ StoredLog' = StoredLog
  BY <1>1, ReaderSteady
<1>3. DOMAIN reader = {"pc", "pointer", "retried", "generation", "sequence", "chunks", "log"}
  BY DEF SeenOK
<1>4. current \in Nat
  BY CurrentTyped
<1>5. CASE StartLoad \/ ReadCurrent
  <2>1. /\ DOMAIN reader' = DOMAIN reader
        /\ \/ reader'.pc = "current"
           \/ reader'.pc = "manifest" /\ reader'.generation = current
    BY <1>3, <1>5 DEF StartLoad, ReadCurrent
  <2>2. reader'.pc \in Reading /\ reader'.pc \notin HoldsManifest \cup {"done"}
    BY <2>1 DEF Reading, HoldsManifest
  <2>3. StoredLog' \in watch'.logs
    BY <1>1, <1>2, <2>2, ReaderGoesOn
  <2> QED BY <1>2, <1>3, <1>4, <2>1, <2>2, <2>3 DEF SeenOK, Attempting, HoldsManifest, ReaderSeesALogOfItsSegment
<1>6. CASE RetryLoad
  <2>1. DOMAIN reader' = DOMAIN reader /\ reader'.pc \in {"current", "failed"}
    BY <1>3, <1>6 DEF RetryLoad
  <2>2. /\ reader'.pc \in Reading => reader'.pc = "current"
        /\ reader'.pc \notin Attempting \cup HoldsManifest \cup {"done"}
    BY <2>1 DEF Reading, Attempting, HoldsManifest
  <2>3. reader'.pc \in Reading => StoredLog' \in watch'.logs
    BY <1>1, <1>2, <2>2, ReaderGoesOn
  <2> QED BY <1>3, <2>1, <2>2, <2>3 DEF SeenOK, Attempting, HoldsManifest, ReaderSeesALogOfItsSegment
<1> QED BY <1>5, <1>6

\* A read that misses something looks for nothing more in this attempt.
LEMMA MissedSeen ==
  ASSUME Typed, SeenOK, ReaderNext, reader' = [reader EXCEPT !.pc = "missed"]
  PROVE  SeenOK'
<1>1. DOMAIN reader = {"pc", "pointer", "retried", "generation", "sequence", "chunks", "log"}
  BY DEF SeenOK
<1>2. DOMAIN reader' = DOMAIN reader /\ reader'.pc = "missed"
  BY <1>1
<1>3. reader'.pc \in Reading /\ reader'.pc \notin Attempting \cup HoldsManifest \cup {"done"}
  BY <1>2 DEF Reading, Attempting, HoldsManifest
<1>4. StoredLog' \in watch'.logs
  BY <1>3, ReaderSteady, ReaderGoesOn
<1> QED BY <1>1, <1>2, <1>3, <1>4 DEF SeenOK, Attempting, HoldsManifest, ReaderSeesALogOfItsSegment

LEMMA ManifestSeen ==
  ASSUME Typed, CurrentOK, SeenOK, ReadManifest
  PROVE  SeenOK'
<1>1. ReaderNext /\ reader.pc = "manifest"
  BY DEF ReaderNext, ReadManifest, ReaderStep
<1>2. UNCHANGED <<generations, journal, pool, current>> /\ StoredLog' = StoredLog
  BY <1>1, ReaderSteady
<1>3. DOMAIN reader = {"pc", "pointer", "retried", "generation", "sequence", "chunks", "log"}
  BY DEF SeenOK
<1>4. PICK g : g = reader.generation
  OBVIOUS
<1>5. CASE ~Present(g)
  BY <1>1, <1>4, <1>5, MissedSeen DEF ReadManifest, GoTo
<1>6. CASE Present(g)
  <2>1. PICK sequence, chunks :
          sequence = generations[g].sequence /\ chunks = generations[g].chunks
    OBVIOUS
  <2>2. reader' = [reader EXCEPT !.pc = "chunks", !.sequence = sequence, !.chunks = chunks]
    BY <1>4, <1>6, <2>1 DEF ReadManifest
  <2>3. /\ DOMAIN reader' = DOMAIN reader /\ reader'.pc = "chunks" /\ reader'.sequence = sequence
        /\ reader'.chunks = chunks /\ reader'.generation = g
    BY <1>3, <1>4, <2>2
  <2>4. /\ reader'.pc \in Reading \cap Attempting \cap HoldsManifest
        /\ reader'.pc \notin {"manifest", "done"} /\ reader.pc \in Attempting
    BY <1>1, <2>3 DEF Reading, Attempting, HoldsManifest
  <2>5. sequence \in Nat /\ g \in DOMAIN generations
    BY <1>6, <2>1, CurrentTyped DEF Present
  <2>6. /\ StoredLog' \in watch'.logs /\ (watch'.reused <=> watch.reused)
        /\ Closed(sequence, chunks) => Closed(sequence, chunks)'
    BY <1>1, <1>2, <2>4, <2>5, ReaderGoesOn
  <2>7. g # current /\ ~watch.reused => Closed(sequence, chunks)
    BY <1>1, <1>4, <2>1, <2>5 DEF SeenOK
  <2>8. g \in Nat /\ g <= current
    BY <1>4, <2>4 DEF SeenOK
  <2> QED BY <1>2, <1>3, <2>1, <2>3, <2>4, <2>5, <2>6, <2>7, <2>8 DEF SeenOK, ReaderSeesALogOfItsSegment
<1> QED BY <1>5, <1>6

LEMMA DocumentsSeen ==
  ASSUME Typed, CurrentOK, SeenOK, ReadChunks \/ ReadDocuments
  PROVE  SeenOK'
<1>1. ReaderNext /\ reader.pc \in {"chunks", "documents"}
  BY DEF ReaderNext, ReadChunks, ReadDocuments, ReaderStep
<1>2. UNCHANGED <<generations, journal, pool, current>> /\ StoredLog' = StoredLog
  BY <1>1, ReaderSteady
<1>3. DOMAIN reader = {"pc", "pointer", "retried", "generation", "sequence", "chunks", "log"}
  BY DEF SeenOK
<1>4. CASE reader' = [reader EXCEPT !.pc = "missed"]
  BY <1>1, <1>4, MissedSeen
<1>5. ASSUME NEW pc \in {"documents", "journal"}, reader' = [reader EXCEPT !.pc = pc]
      PROVE  SeenOK'
  <2>1. PICK g, sequence, chunks :
          g = reader.generation /\ sequence = reader.sequence /\ chunks = reader.chunks
    OBVIOUS
  <2>2. /\ DOMAIN reader' = DOMAIN reader /\ reader'.pc = pc /\ reader'.generation = g
        /\ reader'.sequence = sequence /\ reader'.chunks = chunks
    BY <1>3, <1>5, <2>1
  <2>3. /\ reader'.pc \in Reading \cap Attempting \cap HoldsManifest
        /\ reader'.pc \notin {"manifest", "done"}
        /\ reader.pc \in Attempting \cap HoldsManifest
    BY <1>1, <2>2 DEF Reading, Attempting, HoldsManifest
  <2>4. /\ sequence \in Nat /\ g \in Nat /\ g <= current
        /\ g \in DOMAIN generations => sequence = generations[g].sequence /\ chunks = generations[g].chunks
        /\ g # current /\ ~watch.reused => Closed(sequence, chunks)
    BY <2>1, <2>3 DEF SeenOK
  <2>5. /\ StoredLog' \in watch'.logs /\ (watch'.reused <=> watch.reused)
        /\ Closed(sequence, chunks) => Closed(sequence, chunks)'
    BY <1>1, <1>2, <2>3, <2>4, ReaderGoesOn
  <2> QED BY <1>2, <1>3, <2>2, <2>3, <2>4, <2>5 DEF SeenOK, ReaderSeesALogOfItsSegment
<1>6. \/ reader' = [reader EXCEPT !.pc = "missed"]
      \/ \E pc \in {"documents", "journal"} : reader' = [reader EXCEPT !.pc = pc]
  BY DEF ReadChunks, ReadDocuments, GoTo
<1> QED BY <1>4, <1>5, <1>6

LEMMA JournalSeen ==
  ASSUME Typed, CurrentOK, SeenOK, ReadJournal
  PROVE  SeenOK'
<1>1. ReaderNext /\ reader.pc = "journal"
  BY DEF ReaderNext, ReadJournal, ReaderStep
<1>2. DOMAIN reader = {"pc", "pointer", "retried", "generation", "sequence", "chunks", "log"}
  BY DEF SeenOK
<1>3. PICK g, sequence, chunks :
        g = reader.generation /\ sequence = reader.sequence /\ chunks = reader.chunks
  OBVIOUS
<1>4. CASE sequence + 1 \in DOMAIN journal /\ Reads(journal[sequence + 1].records, sequence + 1)
  <2>1. PICK log : log = Loaded(sequence, chunks)
    OBVIOUS
  <2>2. reader' = [reader EXCEPT !.pc = "done", !.log = log]
    BY <1>3, <1>4, <2>1 DEF ReadJournal, JournalRead, Loaded
  <2>3. DOMAIN reader' = DOMAIN reader /\ reader'.pc = "done" /\ reader'.log = log
    BY <1>2, <2>2
  <2>4. reader'.pc \notin Reading \cup Attempting \cup HoldsManifest /\ reader'.pc # "manifest"
    BY <2>3 DEF Reading, Attempting, HoldsManifest
  <2>5. watch' = watch
    BY <1>1, <2>4, ReaderSteady, WatchedFacts
  <2>6. /\ StoredLog \in watch.logs
        /\ g \in DOMAIN generations => sequence = generations[g].sequence /\ chunks = generations[g].chunks
        /\ g # current /\ ~watch.reused => Closed(sequence, chunks)
    BY <1>1, <1>3 DEF SeenOK, Reading, HoldsManifest
  <2>7. CASE g = current
    <3>1. current \in DOMAIN generations
      BY DEF Typed
    <3>2. StoredLog = Loaded(sequence, chunks)
      BY <1>4, <2>6, <2>7, <3>1, CurrentJoined
    <3> QED BY <1>2, <2>1, <2>3, <2>4, <2>5, <2>6, <3>2 DEF SeenOK, ReaderSeesALogOfItsSegment
  <2>8. CASE g # current
    <3>1. ~watch.reused => Loaded(sequence, chunks) \in watch.logs
      BY <1>4, <2>6, <2>8 DEF Closed
    <3> QED BY <1>2, <2>1, <2>3, <2>4, <2>5, <3>1 DEF SeenOK, ReaderSeesALogOfItsSegment
  <2> QED BY <2>7, <2>8
<1>5. CASE ~(sequence + 1 \in DOMAIN journal /\ Reads(journal[sequence + 1].records, sequence + 1))
  BY <1>1, <1>3, <1>5, MissedSeen DEF ReadJournal, JournalRead, GoTo
<1> QED BY <1>4, <1>5

LEMMA ReaderSeen ==
  ASSUME Typed, CurrentOK, SeenOK, ReaderNext
  PROVE  SeenOK'
BY AttemptSeen, ManifestSeen, DocumentsSeen, JournalSeen DEF ReaderNext

LEMMA StepSeen ==
  ASSUME Typed, CurrentOK, SeenOK, [Next]_vars
  PROVE  SeenOK'
<1>1. CASE UNCHANGED vars
  <2>1. UNCHANGED <<disk, reader, watch>> /\ UNCHANGED <<generations, journal, current>>
    BY <1>1 DEF vars, disk
  <2>2. StoredLog' = StoredLog /\ Steady
    BY <2>1, SameFilesSameLoad, StaysSteady
  <2>3. \A sequence, chunks : Closed(sequence, chunks) => Closed(sequence, chunks)'
    BY <2>1, <2>2 DEF Closed, Loaded, First
  <2> QED BY <2>1, <2>2, <2>3 DEF SeenOK, ReaderSeesALogOfItsSegment, Closed, Loaded, First
<1>2. CASE Next /\ ~ReaderNext
  BY <1>2, OwnerStep, StepOn, OwnerSeen
<1> QED BY <1>1, <1>2, ReaderSeen

-----------------------------------------------------------------------------
LEMMA OwnerMiss ==
  ASSUME Typed, MissOK, reader' = reader, Watched, Steady \/ Moved
  PROVE  MissOK'
<1>1. CASE reader.pc \notin Reading
  <2>1. watch' = watch
    BY <1>1, WatchedFacts
  <2>2. reader.pc \notin Attempting \cup {"missed"}
    BY <1>1 DEF Reading, Attempting
  <2> QED BY <1>1, <2>1, <2>2 DEF MissOK, ReaderFailsOnlyBehind
<1>2. CASE reader.pc \in Reading
  <2>1. /\ watch'.logs = watch.logs \cup {StoredLog'}
        /\ watch'.moves = watch.moves + IF current' # current THEN 1 ELSE 0
    BY <1>2, WatchedFacts
  <2>2. /\ watch.moves \in Nat /\ reader.retried \in BOOLEAN
        /\ reader.pointer \in Nat /\ reader.pointer <= current /\ current \in Nat
        /\ current = reader.pointer <=> watch.moves = 0
        /\ reader.retried => watch.moves >= 1
        /\ reader.pc \notin {"idle", "failed"}
    BY <1>2, CurrentTyped DEF MissOK, Reading
  <2>3. CASE Steady
    <3>1. current' = current /\ watch'.moves = watch.moves
      BY <2>1, <2>2, <2>3 DEF Steady
    <3>2. Behind' <=> Behind
      BY <3>1 DEF Behind
    <3> QED BY <2>1, <2>2, <3>1, <3>2 DEF MissOK, ReaderFailsOnlyBehind
  <2>4. CASE Moved
    <3>1. current' > current /\ current' \in Nat /\ watch'.moves = watch.moves + 1
      BY <2>1, <2>2, <2>4, CurrentTyped DEF Moved
    <3>2. Behind'
      BY <2>2, <3>1 DEF Behind
    <3> QED BY <2>1, <2>2, <3>1, <3>2 DEF MissOK, ReaderFailsOnlyBehind
  <2> QED BY <2>3, <2>4
<1> QED BY <1>1, <1>2

\* An attempt misses something only when the store has moved on, or cannot be
\* loaded by anybody.
LEMMA ReasonToMiss ==
  ASSUME Typed, CurrentOK, SeenOK, ReadManifest \/ ReadChunks \/ ReadDocuments \/ ReadJournal,
         reader' = [reader EXCEPT !.pc = "missed"]
  PROVE  reader.generation # current \/ Lost \in watch'.logs
<1>1. ReaderNext /\ "pc" \in DOMAIN reader
  BY DEF ReaderNext, Typed, ReaderOK
<1>2. reader'.pc = "missed" /\ reader'.pc \in Reading
  BY <1>1 DEF Reading
<1>3. SUFFICES ASSUME reader.generation = current PROVE Lost \in watch'.logs
  OBVIOUS
<1>4. Present(current) /\ ToSet(generations[current].chunks) \subseteq pool
  BY DEF Present, CurrentOK, Typed, ChunksOutliveManifests
<1>5. reader.pc \in HoldsManifest =>
        reader.sequence = generations[current].sequence /\ reader.chunks = generations[current].chunks
  BY <1>3 DEF SeenOK, Typed
<1>6. ~ReadManifest
  <2>1. SUFFICES ASSUME ReadManifest PROVE FALSE
    OBVIOUS
  <2>2. reader' = [reader EXCEPT !.pc = "chunks",
                                 !.sequence = generations[current].sequence,
                                 !.chunks = generations[current].chunks]
    BY <1>3, <1>4, <2>1 DEF ReadManifest
  <2>3. reader'.pc = "chunks"
    BY <1>1, <2>2
  <2> QED BY <1>2, <2>3
<1>7. ~ReadChunks
  BY <1>1, <1>2, <1>4, <1>5 DEF ReadChunks, ReaderStep, HoldsManifest, GoTo
<1>8. ~ReadDocuments
  BY <1>1, <1>2, <1>3, <1>4 DEF ReadDocuments, GoTo
<1>9. CASE ReadJournal
  <2>1. reader.sequence + 1 = First(current)
    BY <1>5, <1>9 DEF ReadJournal, ReaderStep, HoldsManifest, First
  <2>2. ~(First(current) \in DOMAIN journal /\ Reads(journal[First(current)].records, First(current)))
    <3>1. SUFFICES ASSUME First(current) \in DOMAIN journal,
                          Reads(journal[First(current)].records, First(current))
                   PROVE  FALSE
      OBVIOUS
    <3>2. \E log : reader' = [reader EXCEPT !.pc = "done", !.log = log]
      BY <1>9, <2>1, <3>1 DEF ReadJournal, JournalRead
    <3>3. reader'.pc = "done"
      BY <1>1, <3>2
    <3> QED BY <1>2, <3>3
  <2>3. StoredLog = Lost
    BY <2>2 DEF StoredLog, Readable
  <2> QED BY <1>1, <1>2, <2>3, ReaderGoesOn
<1> QED BY <1>6, <1>7, <1>8, <1>9

LEMMA ReaderMiss ==
  ASSUME Typed, CurrentOK, SeenOK, MissOK, ReaderNext
  PROVE  MissOK'
<1>1. UNCHANGED current /\ current \in Nat /\ watch.moves \in Nat /\ reader.retried \in BOOLEAN
  BY ReaderSteady, CurrentTyped DEF MissOK
<1>2. DOMAIN reader = {"pc", "pointer", "retried", "generation", "sequence", "chunks", "log"}
  BY DEF SeenOK
<1>3. reader'.pc \in Reading => watch.logs \subseteq watch'.logs /\ watch'.moves = watch.moves
  BY <1>1, ReaderGoesOn
<1>4. reader'.pc \notin Reading => watch' = watch
  BY ReaderSteady, WatchedFacts
<1>5. CASE StartLoad
  <2>1. /\ reader.pc = "idle" /\ reader'.pc = "current" /\ reader'.pointer = current
        /\ reader'.retried = reader.retried
    BY <1>2, <1>5 DEF StartLoad, ReaderStep
  <2> QED BY <1>1, <1>3, <2>1 DEF MissOK, Reading, Attempting, ReaderFailsOnlyBehind
<1>6. CASE ReadCurrent
  <2>1. /\ reader.pc = "current" /\ reader'.pc = "manifest" /\ reader'.generation = current
        /\ reader'.retried = reader.retried /\ reader'.pointer = reader.pointer
    BY <1>2, <1>6 DEF ReadCurrent, ReaderStep
  <2> QED BY <1>1, <1>3, <2>1 DEF MissOK, Reading, Attempting, ReaderFailsOnlyBehind
<1>7. CASE ReadManifest \/ ReadChunks \/ ReadDocuments \/ ReadJournal
  <2>1. /\ reader.pc \in Attempting /\ reader'.pc \in HoldsManifest \cup {"done", "missed"}
        /\ reader'.retried = reader.retried /\ reader'.pointer = reader.pointer
        /\ reader'.generation = reader.generation
        /\ reader'.pc = "missed" => reader' = [reader EXCEPT !.pc = "missed"]
    BY <1>2, <1>7 DEF ReadManifest, ReadChunks, ReadDocuments, ReadJournal, ReaderStep, GoTo,
       Attempting, HoldsManifest
  <2>2. reader.pc \in Reading
    BY <2>1 DEF Attempting, Reading
  <2>3. reader'.pc = "missed" => reader.generation # current \/ Lost \in watch'.logs
    BY <1>7, <2>1, ReasonToMiss
  <2>4. CASE reader'.pc = "done"
    <3>1. watch' = watch
      BY <1>4, <2>4 DEF Reading
    <3> QED BY <1>1, <2>1, <2>4, <3>1 DEF MissOK, Reading, Attempting, ReaderFailsOnlyBehind
  <2>5. CASE reader'.pc # "done"
    <3>1. reader'.pc \in Reading /\ reader'.pc \notin {"idle", "failed"}
      BY <2>1, <2>5 DEF Reading, HoldsManifest
    <3>2. Behind' <=> Behind
      BY <1>3, <2>1, <3>1 DEF Behind
    <3>3. reader.generation # current => Behind
      BY <2>1 DEF MissOK
    <3> QED BY <1>1, <1>3, <2>1, <2>2, <2>3, <3>1, <3>2, <3>3 DEF MissOK, ReaderFailsOnlyBehind
  <2> QED BY <2>4, <2>5
<1>8. CASE RetryLoad
  <2>1. reader.pc = "missed" /\ (Behind \/ Lost \in watch.logs) /\ reader.pointer \in Nat
    BY <1>8 DEF RetryLoad, ReaderStep, MissOK, Reading
  <2>2. /\ reader.pointer <= current
        /\ current = reader.pointer <=> watch.moves = 0
        /\ reader.retried => watch.moves >= 1
    BY <2>1 DEF MissOK, Reading
  <2>3. CASE Retries
    <3>1. /\ reader'.pc = "current" /\ reader'.retried = TRUE /\ reader'.pointer = reader.pointer
          /\ current # reader.pointer
      BY <1>2, <1>8, <2>3 DEF RetryLoad, Retries
    <3>2. watch'.moves = watch.moves /\ watch.moves >= 1
      BY <1>1, <1>3, <2>2, <3>1 DEF Reading
    <3> QED BY <1>1, <2>1, <2>2, <3>1, <3>2 DEF MissOK, Attempting, ReaderFailsOnlyBehind
  <2>4. CASE ~Retries
    <3>1. reader'.pc = "failed" /\ reader'.retried = reader.retried /\ watch' = watch
      BY <1>2, <1>4, <1>8, <2>4 DEF RetryLoad, Reading
    <3>2. watch.moves >= 2 \/ Lost \in watch.logs
      BY <1>1, <2>1, <2>2, <2>4 DEF Retries, Behind
    <3> QED BY <1>1, <3>1, <3>2 DEF MissOK, Reading, Attempting, ReaderFailsOnlyBehind
  <2> QED BY <2>3, <2>4
<1> QED BY <1>5, <1>6, <1>7, <1>8 DEF ReaderNext

LEMMA StepMiss ==
  ASSUME Typed, CurrentOK, SeenOK, MissOK, [Next]_vars
  PROVE  MissOK'
<1>1. CASE UNCHANGED vars
  <2>1. UNCHANGED <<current, reader, watch>>
    BY <1>1 DEF vars, disk
  <2> QED BY <2>1 DEF MissOK, Behind, ReaderFailsOnlyBehind
<1>2. CASE Next /\ ~ReaderNext
  BY <1>2, OwnerStep, StepOn, OwnerMiss
<1> QED BY <1>1, <1>2, ReaderMiss

LEMMA InitRead == Init => SeenOK /\ MissOK
<1> SUFFICES ASSUME Init PROVE SeenOK /\ MissOK
  OBVIOUS
<1>1. /\ DOMAIN reader = {"pc", "pointer", "retried", "generation", "sequence", "chunks", "log"}
      /\ reader.pc = "idle" /\ reader.retried = FALSE /\ watch.moves = 0
  BY DEF Init, NotReading
<1>2. /\ reader.pc \notin Reading /\ reader.pc \notin Attempting /\ reader.pc \notin HoldsManifest
      /\ reader.pc \notin {"manifest", "missed", "done", "failed"}
  BY <1>1 DEF Reading, Attempting, HoldsManifest
<1>3. SeenOK
  BY <1>1, <1>2 DEF SeenOK, ReaderSeesALogOfItsSegment
<1>4. MissOK
  <2>1. watch.moves \in Nat
    BY <1>1
  <2>2. reader.retried \in BOOLEAN /\ ~reader.retried
    BY <1>1, Zenon
  <2> QED BY <1>1, <1>2, <2>1, <2>2, Zenon DEF MissOK, ReaderFailsOnlyBehind
<1> QED BY <1>3, <1>4

LEMMA ReadInvariant == Spec => [](CurrentOK /\ SeenOK /\ MissOK)
<1> DEFINE ReadOK == CurrentOK /\ SeenOK /\ MissOK
<1>1. Init => ReadOK
  BY InitOn, InitRead
<1>2. Typed /\ ReadOK /\ [Next]_vars => ReadOK'
  BY StepOn, StepSeen, StepMiss
<1> QED BY <1>1, <1>2, TypedInvariant, PTL DEF Spec

\* Whatever is published, folded, repaired, discarded in part or collected while
\* it reads, and whichever writes fail: a read without a lease finds the log of
\* some moment of the read, unless its segment was taken over by a replacement.
THEOREM ReaderSeesALog == Spec => []ReaderSeesALogOfItsSegment
<1>1. SeenOK => ReaderSeesALogOfItsSegment
  BY DEF SeenOK
<1> QED BY <1>1, ReadInvariant, PTL

\* Such a read fails only when CURRENT moved under each of its two attempts, or
\* when the store could not be loaded by anybody.
THEOREM ReaderFailsBehind == Spec => []ReaderFailsOnlyBehind
<1>1. MissOK => ReaderFailsOnlyBehind
  BY DEF MissOK
<1> QED BY <1>1, ReadInvariant, PTL
=============================================================================
