----------------------------- MODULE SessionStore -----------------------------
(***************************************************************************)
(* The store of one session on disk (vibe/_storage.py,                      *)
(* UnifiedSessionStore): generations, journal segments, a pool of chunks    *)
(* and the pointer CURRENT.  The process that holds the lease appends       *)
(* records to the segment of the current generation and folds them into a   *)
(* new generation from time to time; it may die between any two writes, and *)
(* a write may fail.  Another process reads the store without a lease.      *)
(*                                                                         *)
(* A record is known by the ordinal of the append that wrote it.  The       *)
(* transcript a generation holds is the sequence of the records folded      *)
(* into it; a chunk is a run of it and is its own digest.                   *)
(***************************************************************************)
EXTENDS Integers, Sequences, FiniteSets, FiniteSetsExt, SequencesExt

CONSTANTS
  ChunkSize,       \* records to a sealed chunk (_CHUNK_TARGET_BYTES)
  MaxRecords,      \* bound: calls of append_record
  MaxPublications, \* bound: calls of write_generation
  MaxRepairs,      \* bound: how often a journal diverges
  Faults,          \* which faults happen
  MaxFaults,       \* bound: how many
  MayRead,         \* whether another process reads the store
  None

AllFaults == {"crash", "publish", "discard", "short", "fsync"}

ASSUME StoreAssumption ==
  /\ ChunkSize \in Nat \ {0}
  /\ {MaxRecords, MaxPublications, MaxRepairs, MaxFaults} \subseteq Nat
  /\ Faults \subseteq AllFaults /\ MayRead \in BOOLEAN

VARIABLES
  generations, \* directory: number -> its sequence, its chunks, whole or not
  journal,     \* directory: first sequence -> its records and its torn tail
  pool,        \* directory: the chunks
  current,     \* the generation CURRENT names
  mode,        \* of the leased process: "down", "repairing", "open"
  cache,       \* its cached session, or None
  publication, \* its call of write_generation, or None
  acked,       \* the records append_record returned and nobody cut back
  appended, published, repairs, faults, \* counts, for the bounds
  reader,      \* the process without a lease
  watch        \* history of its read: the logs there were, CURRENT's moves

disk == <<generations, journal, pool, current>>
process == <<mode, cache, publication>>
counts == <<appended, published, repairs, faults>>
vars == <<disk, process, acked, counts, reader, watch>>

-----------------------------------------------------------------------------
(* What is on disk.                                                        *)

NoRecords == [records |-> <<>>, torn |-> FALSE]

\* In half records: a torn tail is smaller than a record.
Size(segment) == 2 * Len(segment.records) + IF segment.torn THEN 1 ELSE 0

\* _read_journal: a segment that does not number and chain its records fails.
Reads(records, first) ==
  \A i \in DOMAIN records :
    /\ records[i].sequence = first + i - 1
    /\ records[i].previous = IF i = 1 THEN 0 ELSE records[i - 1].id

First(g) == generations[g].sequence + 1

Readable(g) ==
  /\ g \in DOMAIN generations /\ generations[g].whole
  /\ ToSet(generations[g].chunks) \subseteq pool
  /\ First(g) \in DOMAIN journal
  /\ Reads(journal[First(g)].records, First(g))

\* A directory in which a name is put, or put again.
With(directory, name, entry) ==
  [other \in DOMAIN directory \cup {name} |-> IF other = name THEN entry ELSE directory[other]]

\* What _load returns.
Session(g) ==
  [ first |-> First(g), base |-> FlattenSeq(generations[g].chunks),
    records |-> journal[First(g)].records, size |-> Size(journal[First(g)]) ]

Ids(records) == [i \in DOMAIN records |-> records[i].id]

Log(session) == session.base \o Ids(session.records)

Lost == <<0>>

StoredLog == IF Readable(current) THEN Log(Session(current)) ELSE Lost

\* Where an item belongs depends on what is before it alone.
Chunks(log) ==
  [ i \in 1..((Len(log) + ChunkSize - 1) \div ChunkSize) |->
      SubSeq(log, (i - 1) * ChunkSize + 1, Min({i * ChunkSize, Len(log)})) ]

Sealed(chunk) == Len(chunk) = ChunkSize

-----------------------------------------------------------------------------
(* A process that loads the store without a lease (list_sessions), and the *)
(* history its read is compared with.                                      *)

NotReading == [ pc |-> "idle", pointer |-> 0, retried |-> FALSE, generation |-> 0,
                sequence |-> 0, chunks |-> <<>>, log |-> <<>> ]

Reading == {"current", "manifest", "chunks", "documents", "journal", "missed"}

\* CURRENT moves to a generation with its predecessor's segment.
SegmentReused ==
  /\ current' # current /\ current \in DOMAIN generations
  /\ generations'[current'].sequence = generations[current].sequence

Watched ==
  watch' = IF reader'.pc \in Reading
           THEN [ logs |-> watch.logs \cup {StoredLog'},
                  moves |-> watch.moves + IF current' # current THEN 1 ELSE 0,
                  reused |-> watch.reused \/ SegmentReused ]
           ELSE watch

-----------------------------------------------------------------------------
(* Faults.                                                                 *)

Fault(kind) == kind \in Faults /\ faults < MaxFaults /\ faults' = faults + 1

\* The process dies and, with it, its lease.
Die == mode' = "down" /\ cache' = None /\ publication' = None

Crash ==
  /\ mode # "down" /\ Fault("crash") /\ Die
  /\ UNCHANGED <<disk, acked, appended, published, repairs, reader>>
  /\ Watched

-----------------------------------------------------------------------------
(* append_record.  load answers from the cache of a process with a lease.  *)

Stored == IF cache # None THEN cache ELSE Session(current)

NextRecord ==
  [ sequence |-> Stored.first + Len(Stored.records),
    id |-> appended + 1,
    previous |-> IF Stored.records = <<>> THEN 0 ELSE Last(Stored.records).id ]

Appending ==
  /\ mode = "open" /\ publication = None /\ appended < MaxRecords
  /\ cache # None \/ Readable(current)
  /\ Stored.first \in DOMAIN journal
  /\ appended' = appended + 1
  /\ UNCHANGED <<generations, pool, current, published, repairs, reader>>

\* Seeded fault: the record is joined to a torn tail, and nothing but the tail is read.
PutAfterTornTail(segment, record) ==
  IF segment.torn THEN segment
  ELSE [records |-> Append(segment.records, record), torn |-> FALSE]

\* _append_journal_record cuts a torn tail off first.
Put(segment, record) ==
  [records |-> Append(segment.records, record), torn |-> FALSE]

PutPart(segment) == [segment EXCEPT !.torn = TRUE]

Extended(stored, record) ==
  [stored EXCEPT !.records = Append(@, record), !.size = @ + 2]

\* _extend_cache: other bytes than the record's own drop the cache.
AppendRecord ==
  /\ Appending
  /\ journal' = [journal EXCEPT ![Stored.first] = Put(@, NextRecord)]
  /\ cache' = LET extended == Extended(Stored, NextRecord)
              IN IF extended.size = Size(journal'[Stored.first])
                 THEN extended ELSE None
  /\ acked' = acked \cup {NextRecord.id}
  /\ UNCHANGED <<mode, publication, faults>>
  /\ Watched

\* write takes a part of the bytes and says so, to nobody.
AppendShort ==
  /\ Appending /\ Fault("short")
  /\ journal' = [journal EXCEPT ![Stored.first] = PutPart(@)]
  /\ cache' = None
  /\ acked' = acked \cup {NextRecord.id}
  /\ UNCHANGED <<mode, publication>>
  /\ Watched

\* fsync fails after the write: the caller is told of a failure, and
\* record_core_input looks for its record in the cache in vain.
AppendUnsynced ==
  /\ Appending /\ Fault("fsync")
  /\ journal' = [journal EXCEPT ![Stored.first] = Put(@, NextRecord)]
  /\ cache' = Stored
  /\ UNCHANGED <<mode, publication, acked>>
  /\ Watched

\* The process dies in the middle of the write, or before it answers.
AppendDying ==
  /\ Appending /\ Fault("crash") /\ Die
  /\ \E segment \in { PutPart(journal[Stored.first]),
                      Put(journal[Stored.first], NextRecord) } :
       journal' = [journal EXCEPT ![Stored.first] = segment]
  /\ UNCHANGED acked
  /\ Watched

-----------------------------------------------------------------------------
(* write_generation.  Its stages are the writes it makes, in their order.  *)

\* Seeded fault: the number of the generation is its sequence.
NextGenerationBySequence(sequence) == sequence

NextGeneration(sequence) == Max({sequence, Max(DOMAIN generations) + 1})

\* Seeded fault: the cache is primed whatever the segment holds.
PrimedAnyway(g) == [Session(g) EXCEPT !.records = <<>>, !.size = 0]

\* _prime_cache: only for a segment with nothing in it.
Primed(g) == IF Size(journal[First(g)]) = 0 THEN Session(g) ELSE None

Publish(kind, sequence, base, dropped, empties) ==
  /\ published < MaxPublications
  /\ published' = published + 1
  /\ cache' = None
  /\ publication' =
       [ kind |-> kind, stage |-> "segment", sequence |-> sequence,
         generation |-> NextGeneration(sequence), base |-> base,
         dropped |-> dropped, sealed |-> FALSE, empties |-> empties ]
  /\ UNCHANGED <<disk, acked, appended, reader>>

Idle == mode = "open" /\ publication = None

LastSequence(session) == session.first + Len(session.records) - 1

\* _compact_store_sync: the journal is folded into a new generation.
Compact ==
  /\ Idle /\ (cache # None \/ Readable(current))
  /\ Stored.records # <<>>
  /\ Publish("compact", LastSequence(Stored), Log(Stored), {}, FALSE)
  /\ UNCHANGED <<mode, repairs, faults>>
  /\ Watched

\* With an empty journal: _commit_runtime_state_locked keeps what there is,
\* replace_quiescent_context does not.  The segment stays the same.
Replace ==
  /\ Idle /\ (cache # None \/ Readable(current))
  /\ Stored.records = <<>>
  /\ \E kept \in 0..Len(Stored.base) :
       Publish("replace", LastSequence(Stored), SubSeq(Stored.base, 1, kept),
               ToSet(SubSeq(Stored.base, kept + 1, Len(Stored.base))), FALSE)
  /\ UNCHANGED <<mode, repairs, faults>>
  /\ Watched

\* repair_diverged_generation, with the records from k on dropped.
Repair(session, k) ==
  LET kept == SubSeq(session.records, 1, k - 1)
  IN Publish("repair", session.first + k - 2, session.base \o Ids(kept),
             ToSet(Ids(session.records)) \ ToSet(Ids(kept)), k = 1)

InStage(stage) == publication # None /\ publication.stage = stage

\* Seeded fault: a segment that exists is emptied at once.
FreshSegment(first) == With(journal, first, NoRecords)

\* _create_empty_file adopts a segment that exists.
AdoptedSegment(first) ==
  IF first \in DOMAIN journal THEN journal ELSE With(journal, first, NoRecords)

CreateSegment ==
  /\ InStage("segment")
  /\ journal' = AdoptedSegment(publication.sequence + 1)
  /\ publication' = [publication EXCEPT !.stage = "chunks"]
  /\ UNCHANGED <<generations, pool, current, mode, cache, acked, counts, reader>>
  /\ Watched

MissingChunks == ToSet(Chunks(publication.base)) \ pool

WriteChunk ==
  /\ InStage("chunks")
  /\ \E chunk \in MissingChunks :
       /\ pool' = pool \cup {chunk}
       /\ publication' = [publication EXCEPT !.sealed = @ \/ Sealed(chunk)]
  /\ UNCHANGED <<generations, journal, current, mode, cache, acked, counts, reader>>
  /\ Watched

\* The directory is staged, synced and renamed.
Install ==
  /\ InStage("chunks") /\ MissingChunks = {}
  /\ generations' =
       With(generations, publication.generation,
            [ sequence |-> publication.sequence,
              chunks |-> Chunks(publication.base), whole |-> TRUE ])
  /\ publication' = [publication EXCEPT !.stage = "switch"]
  /\ UNCHANGED <<journal, pool, current, mode, cache, acked, counts, reader>>
  /\ Watched

Switch ==
  /\ InStage("switch")
  /\ current' = publication.generation
  /\ acked' = IF publication.empties THEN acked ELSE acked \ publication.dropped
  /\ publication' = [publication EXCEPT !.stage = "generations"]
  /\ UNCHANGED <<generations, journal, pool, mode, cache, counts, reader>>
  /\ Watched

\* All but the _RETAINED_GENERATIONS = 2 newest, by name.
Superseded(names) ==
  {name \in names : Cardinality({other \in names : other > name}) >= 2}

Kept(directory, names) == [name \in names |-> directory[name]]

\* An entry that cannot be removed stays, a generation perhaps in part.
DiscardGenerations ==
  /\ InStage("generations")
  /\ LET old == Superseded(DOMAIN generations)
     IN \/ /\ generations' = Kept(generations, DOMAIN generations \ old)
           /\ UNCHANGED faults
        \/ /\ old # {} /\ Fault("discard")
           /\ \E whole \in BOOLEAN :
                generations' =
                  [ g \in DOMAIN generations |->
                      IF g \in old THEN [generations[g] EXCEPT !.whole = @ /\ whole]
                      ELSE generations[g] ]
  /\ publication' = [publication EXCEPT !.stage = "segments"]
  /\ UNCHANGED <<journal, pool, current, mode, cache, acked, appended, published,
                 repairs, reader>>
  /\ Watched

DiscardSegments ==
  /\ InStage("segments")
  /\ LET old == Superseded(DOMAIN journal)
     IN \/ /\ journal' = Kept(journal, DOMAIN journal \ old)
           /\ UNCHANGED faults
        \/ old # {} /\ Fault("discard") /\ UNCHANGED journal
  /\ publication' = [publication EXCEPT !.stage = "collect"]
  /\ UNCHANGED <<generations, pool, current, mode, cache, acked, appended, published,
                 repairs, reader>>
  /\ Watched

\* Seeded fault: only the current generation's chunks are kept.
ReferencedByCurrent == ToSet(generations[current].chunks)

Referenced == UNION {ToSet(generations[g].chunks) : g \in DOMAIN generations}

\* _collect_chunks, after a publication that sealed a chunk; a manifest that
\* cannot be read licenses nothing.
CollectChunks ==
  /\ InStage("collect")
  /\ pool' = IF publication.sealed /\ \A g \in DOMAIN generations : generations[g].whole
             THEN pool \cap Referenced ELSE pool
  /\ publication' = [publication EXCEPT !.stage = "prime"]
  /\ UNCHANGED <<generations, journal, current, mode, cache, acked, counts, reader>>
  /\ Watched

\* The caller loads the store again; a repaired one must restore.
PrimeCache ==
  /\ InStage("prime")
  /\ cache' = IF Readable(current) THEN Primed(current) ELSE None
  /\ IF publication.empties
     THEN publication' = [publication EXCEPT !.stage = "empty"] /\ UNCHANGED mode
     ELSE /\ publication' = None
          /\ mode' = IF mode = "repairing" /\ ~Readable(current) THEN "down" ELSE "open"
  /\ UNCHANGED <<disk, acked, counts, reader>>
  /\ Watched

\* The end of a repair that kept no record: _empty_journal_segment.
EmptySegment ==
  /\ InStage("empty")
  /\ journal' = [journal EXCEPT ![First(current)] = NoRecords]
  /\ acked' = acked \ publication.dropped
  /\ publication' = None /\ mode' = "open"
  /\ UNCHANGED <<generations, pool, current, cache, counts, reader>>
  /\ Watched

\* A write fails: the exception leaves the store as it is.  A repair that
\* fails fails the opening of the session.
PublicationFails ==
  /\ \E stage \in {"segment", "chunks", "switch", "generations"} : InStage(stage)
  /\ Fault("publish")
  /\ publication' = None
  /\ mode' = IF publication.kind = "repair" THEN "down" ELSE mode
  /\ UNCHANGED <<disk, cache, acked, appended, published, repairs, reader>>
  /\ Watched

-----------------------------------------------------------------------------
(* Opening and closing.                                                    *)

\* _preflight_restore: the Core replays the journal, up to a record that it
\* does not replay as it was recorded.
Open ==
  /\ mode = "down" /\ Readable(current)
  /\ \/ /\ mode' = "open" /\ cache' = Session(current)
        /\ UNCHANGED <<disk, publication, acked, counts, reader>>
     \/ /\ repairs < MaxRepairs /\ repairs' = repairs + 1
        /\ mode' = "repairing"
        /\ \E k \in DOMAIN Session(current).records : Repair(Session(current), k)
        /\ UNCHANGED faults
  /\ Watched

Close ==
  /\ Idle
  /\ mode' = "down" /\ cache' = None
  /\ UNCHANGED <<disk, publication, acked, counts, reader>>
  /\ Watched

-----------------------------------------------------------------------------
(* The process without a lease.                                            *)

ReaderStep(pc) == reader.pc = pc /\ UNCHANGED <<disk, process, acked, counts>>

Present(g) == g \in DOMAIN generations /\ generations[g].whole

GoTo(found, pc) == [reader EXCEPT !.pc = IF found THEN pc ELSE "missed"]

StartLoad ==
  /\ MayRead /\ ReaderStep("idle")
  /\ reader' = [reader EXCEPT !.pc = "current", !.pointer = current]
  /\ Watched

ReadCurrent ==
  /\ ReaderStep("current")
  /\ reader' = [reader EXCEPT !.pc = "manifest", !.generation = current]
  /\ Watched

ReadManifest ==
  /\ ReaderStep("manifest")
  /\ LET g == reader.generation
     IN reader' = IF Present(g)
                  THEN [reader EXCEPT !.pc = "chunks",
                                      !.sequence = generations[g].sequence,
                                      !.chunks = generations[g].chunks]
                  ELSE GoTo(FALSE, "missed")
  /\ Watched

ReadChunks ==
  /\ ReaderStep("chunks")
  /\ reader' = GoTo(ToSet(reader.chunks) \subseteq pool, "documents")
  /\ Watched

ReadDocuments ==
  /\ ReaderStep("documents")
  /\ reader' = GoTo(Present(reader.generation), "journal")
  /\ Watched

\* Seeded fault: the segment of the present generation is read.
JournalOfCurrent == generations[current].sequence + 1

JournalRead == reader.sequence + 1

ReadJournal ==
  /\ ReaderStep("journal")
  /\ LET first == JournalRead
     IN reader' =
          IF first \in DOMAIN journal /\ Reads(journal[first].records, first)
          THEN [reader EXCEPT !.pc = "done",
                              !.log = FlattenSeq(reader.chunks) \o Ids(journal[first].records)]
          ELSE GoTo(FALSE, "missed")
  /\ Watched

\* Seeded fault: a read that missed is not tried again.
NeverRetries == FALSE

\* Only a moved pointer can mean a collection; it is tried once more.
Retries == ~reader.retried /\ current # reader.pointer

RetryLoad ==
  /\ ReaderStep("missed")
  /\ reader' = IF Retries
               THEN [reader EXCEPT !.pc = "current", !.retried = TRUE]
               ELSE [reader EXCEPT !.pc = "failed"]
  /\ Watched

-----------------------------------------------------------------------------
\* A session is created with generation 0 and an empty segment.
Init ==
  /\ generations = [g \in {0} |-> [sequence |-> 0, chunks |-> <<>>, whole |-> TRUE]]
  /\ journal = [first \in {1} |-> NoRecords]
  /\ pool = {} /\ current = 0
  /\ mode = "down" /\ cache = None /\ publication = None
  /\ acked = {}
  /\ appended = 0 /\ published = 0 /\ repairs = 0 /\ faults = 0
  /\ reader = NotReading
  /\ watch = [logs |-> {}, moves |-> 0, reused |-> FALSE]

Next ==
  \/ AppendRecord \/ AppendShort \/ AppendUnsynced \/ AppendDying
  \/ Compact \/ Replace \/ Open \/ Close \/ Crash
  \/ CreateSegment \/ WriteChunk \/ Install \/ Switch
  \/ DiscardGenerations \/ DiscardSegments \/ CollectChunks
  \/ PrimeCache \/ EmptySegment \/ PublicationFails
  \/ StartLoad \/ ReadCurrent \/ ReadManifest \/ ReadChunks
  \/ ReadDocuments \/ ReadJournal \/ RetryLoad

Spec == Init /\ [][Next]_vars

-----------------------------------------------------------------------------
(* Properties.                                                             *)

\* Every variable keeps its type; a published generation has a number, and a
\* cache belongs to an open session.
TypeOK ==
  /\ DOMAIN generations \subseteq Nat /\ DOMAIN journal \subseteq Nat \ {0}
  /\ \A g \in DOMAIN generations :
       generations[g] \in [sequence : Nat, chunks : Seq(pool \cup Seq(1..appended)),
                           whole : BOOLEAN]
  /\ \A first \in DOMAIN journal :
       journal[first] \in [records : Seq([sequence : Nat, id : 1..appended, previous : Nat]),
                           torn : BOOLEAN]
  /\ current \in Nat /\ mode \in {"down", "repairing", "open"}
  /\ cache # None => mode # "down"
  /\ mode = "down" => publication = None
  /\ acked \subseteq 1..appended
  /\ reader.pc \in Reading \cup {"idle", "done", "failed"}

\* The store is one log: every append adds one record to what a load finds, a
\* record that was answered stays until a repair or a rewind cuts it off, and
\* neither a publication nor a crash, a failed write, a discarded file or a
\* collected chunk changes what a load finds (write_generation, append_record,
\* repair_diverged_generation, _discard_superseded, _collect_chunks).
Promise == INSTANCE DurableLog WITH log <- StoredLog, acked <- acked

LogKept == Promise!Spec

\* The lease is what lets load answer from memory: what is cached is what a
\* full load would find (_extend_cache, _prime_cache, load).
CacheIsTrue == cache # None => Readable(current) /\ cache = Session(current)

\* A generation that is still on disk has all its chunks in the pool, so a
\* reader that holds its manifest can go on (_collect_chunks, _write_chunks).
ChunksOutliveManifests ==
  \A g \in DOMAIN generations :
    generations[g].whole => ToSet(generations[g].chunks) \subseteq pool

\* A name is given to one generation only, also when the earlier one was left
\* behind by a failed publication (_next_generation).
GenerationsNeverRewritten ==
  [][\A g \in DOMAIN generations \cap DOMAIN generations' :
       [generations'[g] EXCEPT !.whole = TRUE] = [generations[g] EXCEPT !.whole = TRUE]]_vars

\* A read without a lease finds the log as it was at some moment of the read,
\* whatever was published, folded, repaired or collected meanwhile, unless a
\* generation was replaced by one with the same segment: then it joins the old
\* transcript and the new records (_load, _RETAINED_GENERATIONS).
ReaderSeesALogOfItsSegment ==
  reader.pc = "done" /\ ~watch.reused => reader.log \in watch.logs

\* Such a read fails only when the store moved on twice while it ran, once
\* under each attempt, or did not load for anybody (_load_current).
ReaderFailsOnlyBehind ==
  reader.pc = "failed" => watch.moves >= 2 \/ Lost \in watch.logs

\* The pointer names a generation whose journal exists, or no later open could
\* get past it (repair_diverged_generation, _discard_superseded).
CurrentNamesAJournal == First(current) \in DOMAIN journal
=============================================================================
