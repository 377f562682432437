---------------------------- MODULE SessionLogProofs ----------------------------
(***************************************************************************)
(* Proofs that the store of a session implements the log it promises        *)
(* (DurableLog), with StoredLog, what a load finds, for the log.            *)
(*                                                                         *)
(* The generation CURRENT names can be loaded at any moment; segments after *)
(* the current one are empty, so that a publication that adopts one adds no *)
(* record to the log; and a publication under way holds the log, or what it *)
(* keeps of it, so that only the switch of CURRENT and the emptying of a    *)
(* segment cut the log back, and only by what was meant to go.              *)
(***************************************************************************)
EXTENDS SessionStoreProofs

OwnSegment == journal[First(current)]

NoRepeats(s) == \A i, j \in DOMAIN s : s[i] = s[j] => i = j

RecordedOnce ==
  /\ NoRepeats(StoredLog)
  /\ acked \subseteq ToSet(StoredLog)

LaterSegmentsEmpty ==
  \A first \in DOMAIN journal : first > First(current) => journal[first] = NoRecords

\* What the generation to be installed holds.
Keeps(kept) ==
  /\ kept \in 0..Len(StoredLog)
  /\ publication.base = SubSeq(StoredLog, 1, kept)
  /\ publication.dropped = {StoredLog[i] : i \in kept + 1..Len(StoredLog)}

PublishesLog ==
  publication # None =>
    /\ publication.empties => publication.dropped = ToSet(Ids(OwnSegment.records))
    /\ publication.stage = "empty" => publication.empties
    /\ publication.stage \in {"segment", "chunks", "switch"} =>
         /\ publication.sequence + 1 >= First(current)
         /\ publication.empties =>
              publication.sequence + 1 = First(current) /\ publication.base = Session(current).base
         /\ ~publication.empties =>
              /\ \E kept \in 0..Len(StoredLog) : Keeps(kept)
              /\ publication.sequence + 1 = First(current) => OwnSegment.records = <<>>
         /\ publication.stage # "segment" => publication.sequence + 1 \in DOMAIN journal
         /\ publication.stage = "switch" =>
              generations[publication.generation] =
                [sequence |-> publication.sequence, chunks |-> Chunks(publication.base), whole |-> TRUE]

LogOK == Readable(current) /\ RecordedOnce /\ LaterSegmentsEmpty /\ PublishesLog

\* Without repairs, no segment is numbered beyond the record that comes next,
\* and what is published is all there is.
SegmentsReached ==
  /\ repairs = 0
  /\ \A first \in DOMAIN journal : first <= First(current) + Len(OwnSegment.records)
  /\ publication # None =>
       /\ ~publication.empties
       /\ publication.stage \in {"segment", "chunks", "switch"} =>
            publication.sequence + 1 = First(current) + Len(OwnSegment.records)
       /\ publication.stage \notin {"segment", "chunks", "switch"} => OwnSegment.records = <<>>

\* No write says less, or more, than it has done.
HonestWrites == Faults \cap {"short", "fsync"} = {}

-----------------------------------------------------------------------------
(* What a step may do to the log.                                          *)

SameLog == StoredLog' = StoredLog /\ acked' = acked

Written ==
  /\ StoredLog' = Append(StoredLog, appended + 1)
  /\ acked' \in {acked, acked \cup {appended + 1}}

CutTo(kept) ==
  /\ kept \in 0..Len(StoredLog)
  /\ StoredLog' = SubSeq(StoredLog, 1, kept)
  /\ acked' = acked \ {StoredLog[i] : i \in kept + 1..Len(StoredLog)}

LogStep == [Promise!Next]_<<StoredLog, acked>>

SameSegment == First(current)' = First(current) /\ OwnSegment' = OwnSegment

LEMMA StoredLogIs ==
  ASSUME Typed, Readable(current)
  PROVE  /\ StoredLog = Session(current).base \o Ids(OwnSegment.records)
         /\ StoredLog \in Seq(1..appended)
         /\ Session(current).records = OwnSegment.records
         /\ Session(current).first = First(current)
         /\ Session(current) \in Sessions(appended)
         /\ Session(current).base \in Seq(1..appended) /\ OwnSegment.records \in Seq(Entries(appended))
         /\ appended \in Nat /\ First(current) \in Nat \ {0}
<1>1. /\ Session(current).records = OwnSegment.records /\ Session(current).first = First(current)
  BY DEF Session, OwnSegment
<1>2. StoredLog = Session(current).base \o Ids(OwnSegment.records)
  BY <1>1 DEF StoredLog, Log
<1>3. Session(current) \in Sessions(appended) /\ appended \in Nat
  BY SessionTyped DEF Typed
<1>4. /\ Session(current).base \in Seq(1..appended) /\ OwnSegment.records \in Seq(Entries(appended))
      /\ First(current) \in Nat \ {0}
  BY <1>1, <1>3 DEF Sessions
<1>5. Ids(OwnSegment.records) \in Seq(1..appended)
  BY <1>3, <1>4, IdsTyped
<1>6. StoredLog \in Seq(1..appended)
  BY <1>2, <1>4, <1>5
<1> QED BY <1>1, <1>2, <1>3, <1>4, <1>6

LEMMA SameLogIsStep ==
  ASSUME RecordedOnce, SameLog
  PROVE  RecordedOnce' /\ LogStep
BY DEF RecordedOnce, SameLog, LogStep, ToSet, NoRepeats

LEMMA WrittenIsStep ==
  ASSUME Typed, Readable(current), RecordedOnce, Written
  PROVE  RecordedOnce' /\ LogStep
<1>1. PICK log, new : log = StoredLog /\ new = appended + 1
  OBVIOUS
<1>2. log \in Seq(1..appended) /\ appended \in Nat /\ Len(log) \in Nat
  BY <1>1, StoredLogIs
<1>3. /\ StoredLog' = Append(log, new) /\ new \in Nat \ {0}
      /\ \A i \in DOMAIN log : log[i] # new
  BY <1>1, <1>2 DEF Written
<1> DEFINE more == Append(log, new)
<1>4. /\ DOMAIN log = 1..Len(log) /\ DOMAIN more = 1..Len(log) + 1
      /\ \A i \in 1..Len(log) : more[i] = log[i]
      /\ more[Len(log) + 1] = new
  BY <1>2
<1> HIDE DEF more
<1>5. NoRepeats(more)
  <2>1. \A i, j \in DOMAIN log : log[i] = log[j] => i = j
    BY <1>1 DEF RecordedOnce, NoRepeats
  <2> QED BY <2>1, <1>2, <1>3, <1>4 DEF NoRepeats
<1>6. ToSet(more) = ToSet(log) \cup {new}
  <2>1. \A i \in DOMAIN more : i \in DOMAIN log \/ i = Len(log) + 1
    BY <1>2, <1>4
  <2>2. DOMAIN log \subseteq DOMAIN more /\ Len(log) + 1 \in DOMAIN more
    BY <1>2, <1>4
  <2> QED BY <2>1, <2>2, <1>4 DEF ToSet
<1>7. acked' \subseteq ToSet(more)
  <2>1. acked \subseteq ToSet(log)
    BY <1>1 DEF RecordedOnce
  <2> QED BY <2>1, <1>1, <1>6 DEF Written
<1>8. RecordedOnce'
  BY <1>3, <1>5, <1>7 DEF RecordedOnce, more, ToSet, NoRepeats
<1>9. Promise!Write(new)
  BY <1>1, <1>3 DEF Promise!Write, Promise!Records, Written
<1>10. new \in {more[i] : i \in DOMAIN more}
  <2>1. Len(log) + 1 \in DOMAIN more
    BY <1>2, <1>4
  <2> QED BY <2>1, <1>4
<1>11. new \in {StoredLog'[i] : i \in DOMAIN StoredLog'}
  BY <1>10, <1>3 DEF more
<1> QED BY <1>8, <1>9, <1>11 DEF LogStep, Promise!Next

LEMMA CutIsStep ==
  ASSUME Typed, Readable(current), RecordedOnce, NEW kept, CutTo(kept)
  PROVE  RecordedOnce' /\ LogStep
<1>1. PICK log : log = StoredLog
  OBVIOUS
<1>2. log \in Seq(1..appended) /\ Len(log) \in Nat /\ kept \in 0..Len(log) /\ DOMAIN log = 1..Len(log)
  <2>1. log \in Seq(1..appended)
    BY <1>1, StoredLogIs
  <2> QED BY <2>1, <1>1 DEF CutTo
<1>3. /\ StoredLog' = SubSeq(log, 1, kept)
      /\ acked' = acked \ {log[i] : i \in kept + 1..Len(log)}
  BY <1>1 DEF CutTo
<1> DEFINE rest == SubSeq(log, 1, kept)
<1>4. DOMAIN rest = 1..kept /\ \A i \in 1..kept : rest[i] = log[i]
  BY <1>2
<1> HIDE DEF rest
<1>5. 1..kept \subseteq 1..Len(log) /\ \A i \in 1..Len(log) : i \in 1..kept \/ i \in kept + 1..Len(log)
  BY <1>2
<1>6. /\ \A i, j \in DOMAIN log : log[i] = log[j] => i = j
      /\ acked \subseteq {log[i] : i \in DOMAIN log}
  BY <1>1 DEF RecordedOnce, ToSet, NoRepeats
<1>7. \A i \in 1..kept, j \in kept + 1..Len(log) : i \in DOMAIN log /\ j \in DOMAIN log /\ i # j
  BY <1>2
<1>8. acked' = acked \cap {log[i] : i \in 1..kept}
  BY <1>2, <1>3, <1>5, <1>6, <1>7
<1>9. RecordedOnce'
  <2>1. NoRepeats(rest)
    BY <1>2, <1>4, <1>5, <1>6 DEF NoRepeats
  <2>2. acked' \subseteq {rest[i] : i \in DOMAIN rest}
    BY <1>4, <1>8
  <2> QED BY <2>1, <2>2, <1>3 DEF RecordedOnce, ToSet, rest, NoRepeats
<1>10. Promise!CutBack(kept) /\ kept \in 0..Len(StoredLog)
  BY <1>1, <1>2, <1>3, <1>8 DEF Promise!CutBack
<1> QED BY <1>9, <1>10 DEF LogStep, Promise!Next

-----------------------------------------------------------------------------
(* A step that leaves the generation, the segment and the chunks of CURRENT. *)

LEMMA CurrentStays ==
  ASSUME Readable(current), UNCHANGED current,
         current \in DOMAIN generations', generations'[current] = generations[current],
         First(current) \in DOMAIN journal', journal'[First(current)] = journal[First(current)],
         ToSet(generations[current].chunks) \subseteq pool'
  PROVE  /\ Readable(current)' /\ StoredLog' = StoredLog /\ Session(current)' = Session(current)
         /\ First(current)' = First(current) /\ OwnSegment' = OwnSegment
<1>1. PICK g : g = current
  OBVIOUS
<1>2. Readable(g)' /\ Session(g)' = Session(g)
  BY <1>1, SameLoad
<1>3. Readable(current)' /\ Session(current)' = Session(current)
  BY <1>1, <1>2
<1>4. First(current)' = First(current) /\ OwnSegment' = OwnSegment
  BY DEF First, OwnSegment
<1>5. Log(Session(current))' = Log(Session(current))
  BY <1>3 DEF Log, Ids
<1> QED BY <1>3, <1>4, <1>5 DEF StoredLog

LEMMA NothingPublished ==
  ASSUME publication' = None
  PROVE  PublishesLog'
BY DEF PublishesLog

\* Nothing on disk changes, and nothing is published by the step.
LEMMA SameDisk ==
  ASSUME LogOK, UNCHANGED <<disk, acked>>, publication' = None
  PROVE  LogOK' /\ LogStep /\ SameSegment
<1>1. Readable(current)' /\ StoredLog' = StoredLog /\ SameSegment
  BY SameFilesSameLoad DEF LogOK, disk, First, OwnSegment, SameSegment
<1>2. RecordedOnce' /\ LogStep
  BY <1>1, SameLogIsStep DEF LogOK, SameLog
<1>3. LaterSegmentsEmpty'
  BY <1>1 DEF LogOK, LaterSegmentsEmpty, disk, SameSegment
<1> QED BY <1>1, <1>2, <1>3, NothingPublished DEF LogOK

\* The publication under way is at this stage next, with what it had to publish.
GoesOn(stage) ==
  /\ publication # None /\ publication'.stage = stage
  /\ publication'.empties = publication.empties /\ publication'.dropped = publication.dropped
  /\ publication'.base = publication.base /\ publication'.sequence = publication.sequence
  /\ publication'.generation = publication.generation

LEMMA NextStageGoesOn ==
  ASSUME Typed, NEW was, InStage(was), NEW stage, publication' = [publication EXCEPT !.stage = stage]
  PROVE  GoesOn(stage)
BY DEF Typed, PublicationOK, InStage, Publications, GoesOn

\* The publication under way moves on, and what CURRENT names stays.
LEMMA StageLog ==
  ASSUME Typed, LogOK, NEW was \in Stages, NEW stage \in Stages, InStage(was),
         GoesOn(stage), UNCHANGED <<current, acked>>,
         current \in DOMAIN generations', generations'[current] = generations[current],
         First(current) \in DOMAIN journal', journal'[First(current)] = journal[First(current)],
         ToSet(generations[current].chunks) \subseteq pool',
         \A first \in DOMAIN journal' : first > First(current) => journal'[first] = NoRecords,
         stage = "empty" => publication.empties,
         stage \in {"segment", "chunks", "switch"} => was \in {"segment", "chunks", "switch"},
         stage \in {"chunks", "switch"} => publication.sequence + 1 \in DOMAIN journal',
         stage = "switch" =>
           generations'[publication.generation] =
             [sequence |-> publication.sequence, chunks |-> Chunks(publication.base), whole |-> TRUE]
  PROVE  LogOK' /\ LogStep /\ SameSegment
<1>1. /\ Readable(current)' /\ StoredLog' = StoredLog /\ Session(current)' = Session(current)
      /\ First(current)' = First(current) /\ OwnSegment' = OwnSegment
  BY CurrentStays DEF LogOK
<1>2. RecordedOnce' /\ LogStep
  BY <1>1, SameLogIsStep DEF LogOK, SameLog
<1>3. LaterSegmentsEmpty'
  BY <1>1 DEF LaterSegmentsEmpty
<1>4. /\ publication'.stage = stage /\ publication'.empties = publication.empties
      /\ publication'.dropped = publication.dropped /\ publication'.base = publication.base
      /\ publication'.sequence = publication.sequence /\ publication'.generation = publication.generation
      /\ publication.stage = was /\ publication # None
  BY DEF GoesOn, InStage
<1>5. \A kept : Keeps(kept)' <=> Keeps(kept)
  BY <1>1, <1>4 DEF Keeps
<1>6. PublishesLog'
  <2>1. publication'.empties => publication'.dropped = ToSet(Ids(OwnSegment.records))'
    BY <1>1, <1>4 DEF LogOK, PublishesLog, Ids, ToSet
  <2>2. publication'.stage = "empty" => publication'.empties
    BY <1>4
  <2>3. ASSUME stage \in {"segment", "chunks", "switch"}
        PROVE  /\ publication'.sequence + 1 >= First(current)'
               /\ publication'.empties =>
                    publication'.sequence + 1 = First(current)' /\ publication'.base = Session(current)'.base
               /\ ~publication'.empties =>
                    /\ \E kept \in 0..Len(StoredLog)' : Keeps(kept)'
                    /\ publication'.sequence + 1 = First(current)' => OwnSegment'.records = <<>>
               /\ publication'.stage # "segment" => publication'.sequence + 1 \in DOMAIN journal'
               /\ publication'.stage = "switch" =>
                    generations'[publication'.generation] =
                      [sequence |-> publication'.sequence, chunks |-> Chunks(publication'.base), whole |-> TRUE]
    BY <1>1, <1>4, <1>5, <2>3 DEF LogOK, PublishesLog
  <2> QED BY <1>4, <2>1, <2>2, <2>3 DEF PublishesLog
<1> QED BY <1>1, <1>2, <1>3, <1>6 DEF LogOK, SameSegment

-----------------------------------------------------------------------------
(* Appends.                                                                *)

LEMMA AppendIds ==
  ASSUME NEW n, NEW records \in Seq(Entries(n)), NEW record \in Entries(n)
  PROVE  Ids(Append(records, record)) = Append(Ids(records), record.id)
<1> DEFINE more == Append(records, record)
<1>1. /\ Len(records) \in Nat /\ DOMAIN records = 1..Len(records) /\ DOMAIN more = 1..Len(records) + 1
      /\ \A i \in 1..Len(records) : more[i] = records[i]
      /\ more[Len(records) + 1] = record
  OBVIOUS
<1>2. Ids(more) = [i \in 1..Len(records) + 1 |-> more[i].id]
  BY <1>1 DEF Ids
<1>3. Ids(records) = [i \in 1..Len(records) |-> records[i].id]
  BY <1>1 DEF Ids
<1> HIDE DEF more
<1>4. Len(Ids(records)) = Len(records) /\ Ids(records) \in Seq({records[i].id : i \in 1..Len(records)})
  BY <1>1, <1>3
<1> DEFINE ids == Ids(records)
<1> HIDE DEF ids
<1>5. Append(ids, record.id) = [i \in 1..Len(ids) + 1 |-> IF i <= Len(ids) THEN ids[i] ELSE record.id]
  BY <1>4 DEF ids
<1>6. \A i \in 1..Len(records) + 1 : more[i].id = IF i <= Len(records) THEN ids[i] ELSE record.id
  BY <1>1, <1>3 DEF ids
<1>7. Ids(more) = Append(ids, record.id)
  BY <1>2, <1>4, <1>5, <1>6 DEF ids
<1> QED BY <1>7 DEF more, ids

LEMMA LaterSegmentsAfterAppend ==
  ASSUME LaterSegmentsEmpty, UNCHANGED <<generations, current>>, NEW segment,
         journal' = [journal EXCEPT ![First(current)] = segment], First(current) \in Nat
  PROVE  LaterSegmentsEmpty'
<1>1. First(current)' = First(current)
  BY DEF First
<1> QED BY <1>1 DEF LaterSegmentsEmpty

LEMMA PutIsStep ==
  ASSUME Typed, CacheIsTrue, LogOK, Appending,
         journal' = [journal EXCEPT ![Stored.first] = Put(journal[Stored.first], NextRecord)],
         acked' \in {acked, acked \cup {NextRecord.id}}, publication' = None
  PROVE  LogOK' /\ LogStep
<1>1. /\ Stored = Session(current) /\ Readable(current) /\ Stored.first = First(current)
      /\ UNCHANGED <<generations, pool, current>>
  BY StoredIsSession, StoredLogIs DEF Appending, LogOK
<1>2. journal' = [journal EXCEPT ![First(current)] = Put(journal[First(current)], NextRecord)]
  BY <1>1
<1>3. /\ appended' \in Nat /\ appended <= appended' /\ appended \in Nat
      /\ NextRecord \in Entries(appended') /\ Stored \in Sessions(appended')
  BY AppendingTyped
<1>4. PICK g, record : g = current /\ record = NextRecord
  OBVIOUS
<1>5. /\ Readable(g)'
      /\ Session(g)' = [first |-> Session(g).first, base |-> Session(g).base,
                        records |-> Append(Session(g).records, record),
                        size |-> Size(journal'[First(g)])]
  BY <1>1, <1>2, <1>3, <1>4, NextRecordFollows, PutLoads
<1>6. PICK base, records : base = Session(current).base /\ records = Session(current).records
  OBVIOUS
<1>7. /\ Readable(current)' /\ Session(current)'.base = base
      /\ Session(current)'.records = Append(records, record)
  BY <1>1, <1>4, <1>5, <1>6
<1>8. /\ base \in Seq(1..appended') /\ records \in Seq(Entries(appended')) /\ record \in Entries(appended')
      /\ record.id = appended + 1
  BY <1>1, <1>3, <1>4, <1>6 DEF Sessions, NextRecord
<1>9. Ids(Append(records, record)) = Append(Ids(records), appended + 1)
  BY <1>8, AppendIds
<1>10. Ids(records) \in Seq(1..appended')
  BY <1>3, <1>8, IdsTyped
<1>11. StoredLog' = base \o Append(Ids(records), appended + 1)
  <2>1. StoredLog' = Log(Session(current))'
    BY <1>7 DEF StoredLog
  <2>2. Log(Session(current))' = base \o Ids(Append(records, record))
    BY <1>7 DEF Log, Ids
  <2> QED BY <2>1, <2>2, <1>9
<1>12. StoredLog = base \o Ids(records)
  BY <1>1, <1>6 DEF StoredLog, Log
<1>13. base \o Append(Ids(records), appended + 1) = Append(base \o Ids(records), appended + 1)
  <2> DEFINE ids == Ids(records)
             id == appended + 1
  <2>1. base \in Seq(Nat) /\ ids \in Seq(Nat) /\ id \in Nat
    <3>1. 1..appended' \subseteq Nat
      BY <1>3
    <3> QED BY <3>1, <1>3, <1>8, <1>10
  <2> HIDE DEF ids, id
  <2>2. base \o Append(ids, id) = Append(base \o ids, id)
    BY <2>1, AppendIsConcat, ConcatAssociative
  <2> QED BY <2>2 DEF ids, id
<1>14. Written
  BY <1>11, <1>12, <1>13, <1>4, <1>8 DEF Written
<1>15. RecordedOnce' /\ LogStep
  BY <1>1, <1>14, WrittenIsStep DEF LogOK
<1>16. LaterSegmentsEmpty'
  BY <1>1, <1>2, StoredLogIs, LaterSegmentsAfterAppend DEF LogOK
<1> QED BY <1>7, <1>15, <1>16, NothingPublished DEF LogOK

LEMMA PutPartIsStep ==
  ASSUME Typed, CacheIsTrue, LogOK, Appending,
         journal' = [journal EXCEPT ![Stored.first] = PutPart(journal[Stored.first])],
         acked' = acked, publication' = None
  PROVE  LogOK' /\ LogStep
<1>1. /\ Stored = Session(current) /\ Readable(current) /\ Stored.first = First(current)
      /\ UNCHANGED <<generations, pool, current>>
  BY StoredIsSession, StoredLogIs DEF Appending, LogOK
<1>2. journal' = [journal EXCEPT ![First(current)] = PutPart(journal[First(current)])]
  BY <1>1
<1>3. PICK g : g = current
  OBVIOUS
<1>4. /\ Readable(g)'
      /\ Session(g)'.base = Session(g).base /\ Session(g)'.records = Session(g).records
  BY <1>1, <1>2, <1>3, PutPartLoads
<1>5. /\ Readable(current)'
      /\ Session(current)'.base = Session(current).base /\ Session(current)'.records = Session(current).records
  BY <1>1, <1>3, <1>4
<1>6. StoredLog' = StoredLog
  BY <1>1, <1>5 DEF StoredLog, Log, Ids
<1>7. RecordedOnce' /\ LogStep
  BY <1>6, SameLogIsStep DEF LogOK, SameLog
<1>8. LaterSegmentsEmpty'
  BY <1>1, <1>2, StoredLogIs, LaterSegmentsAfterAppend DEF LogOK
<1> QED BY <1>5, <1>7, <1>8, NothingPublished DEF LogOK

LEMMA AppendsAreSteps ==
  ASSUME HonestWrites, Typed, CacheIsTrue, LogOK,
         AppendRecord \/ AppendShort \/ AppendUnsynced \/ AppendDying
  PROVE  LogOK' /\ LogStep
<1>1. CASE AppendRecord
  <2>1. journal' = [journal EXCEPT ![Stored.first] = Put(journal[Stored.first], NextRecord)]
    BY <1>1 DEF AppendRecord
  <2> QED BY <1>1, <2>1, PutIsStep DEF AppendRecord, Appending
<1>2. CASE AppendShort \/ AppendUnsynced
  BY <1>2 DEF AppendShort, AppendUnsynced, Fault, HonestWrites
<1>3. CASE AppendDying
  <2>1. PICK segment \in {PutPart(journal[Stored.first]), Put(journal[Stored.first], NextRecord)} :
          journal' = [journal EXCEPT ![Stored.first] = segment]
    BY <1>3 DEF AppendDying
  <2>2. Appending /\ publication' = None /\ acked' = acked
    BY <1>3 DEF AppendDying, Die
  <2> QED BY <2>1, <2>2, PutIsStep, PutPartIsStep
<1> QED BY <1>1, <1>2, <1>3

-----------------------------------------------------------------------------
(* The beginning of a publication.                                         *)

\* The items of a sequence are those before a place and those after it.
LEMMA CutInTwo ==
  ASSUME NEW T, NEW s \in Seq(T), NEW kept \in 0..Len(s)
  PROVE  /\ ToSet(SubSeq(s, 1, kept)) = {s[i] : i \in 1..kept}
         /\ ToSet(SubSeq(s, kept + 1, Len(s))) = {s[i] : i \in kept + 1..Len(s)}
<1>1. Len(s) \in Nat /\ kept \in Nat /\ kept <= Len(s)
  OBVIOUS
<1>2. ToSet(SubSeq(s, 1, kept)) = {s[i] : i \in 1..kept}
  <2> DEFINE part == SubSeq(s, 1, kept)
  <2>1. DOMAIN part = 1..kept /\ \A i \in 1..kept : part[i] = s[i]
    BY <1>1
  <2> HIDE DEF part
  <2>2. ToSet(part) = {s[i] : i \in 1..kept}
    BY <2>1 DEF ToSet
  <2> QED BY <2>2 DEF part
<1>3. ToSet(SubSeq(s, kept + 1, Len(s))) = {s[i] : i \in kept + 1..Len(s)}
  <2> DEFINE part == SubSeq(s, kept + 1, Len(s))
  <2>1. DOMAIN part = 1..Len(s) - kept /\ \A i \in 1..Len(s) - kept : part[i] = s[kept + i]
    BY <1>1
  <2> HIDE DEF part
  <2>2. \A i \in 1..Len(s) - kept : kept + i \in kept + 1..Len(s)
    BY <1>1
  <2>3. \A i \in kept + 1..Len(s) : i - kept \in 1..Len(s) - kept /\ kept + (i - kept) = i
    BY <1>1
  <2>4. ASSUME NEW i \in DOMAIN part
        PROVE  part[i] \in {s[j] : j \in kept + 1..Len(s)}
    BY <2>1, <2>2
  <2>5. ASSUME NEW j \in kept + 1..Len(s)
        PROVE  s[j] \in {part[i] : i \in DOMAIN part}
    <3>1. j - kept \in DOMAIN part /\ part[j - kept] = s[j]
      BY <2>1, <2>3
    <3> QED BY <3>1
  <2>6. ToSet(part) = {s[i] : i \in kept + 1..Len(s)}
    BY <2>4, <2>5 DEF ToSet
  <2> QED BY <2>6 DEF part
<1> QED BY <1>2, <1>3

LEMMA PublishIsStep ==
  ASSUME Typed, LogOK, NEW kind, NEW sequence \in Nat, NEW base, NEW dropped, NEW empties \in BOOLEAN,
         Publish(kind, sequence, base, dropped, empties),
         sequence + 1 >= First(current),
         empties => /\ sequence + 1 = First(current) /\ base = Session(current).base
                    /\ dropped = ToSet(Ids(OwnSegment.records)),
         ~empties => /\ \E kept \in 0..Len(StoredLog) :
                          /\ base = SubSeq(StoredLog, 1, kept)
                          /\ dropped = {StoredLog[i] : i \in kept + 1..Len(StoredLog)}
                     /\ sequence + 1 = First(current) => OwnSegment.records = <<>>
  PROVE  LogOK' /\ LogStep
<1>1. /\ UNCHANGED disk /\ acked' = acked
      /\ publication' =
           [ kind |-> kind, stage |-> "segment", sequence |-> sequence,
             generation |-> NextGeneration(sequence), base |-> base,
             dropped |-> dropped, sealed |-> FALSE, empties |-> empties ]
  BY DEF Publish
<1>2. /\ Readable(current)' /\ StoredLog' = StoredLog /\ First(current)' = First(current)
      /\ Session(current)' = Session(current) /\ OwnSegment' = OwnSegment
  BY <1>1, SameFilesSameLoad DEF LogOK, disk, First, OwnSegment
<1>3. RecordedOnce' /\ LogStep
  BY <1>1, <1>2, SameLogIsStep DEF LogOK, SameLog
<1>4. LaterSegmentsEmpty'
  BY <1>1, <1>2 DEF LogOK, LaterSegmentsEmpty, disk
<1>5. /\ publication'.stage = "segment" /\ publication'.sequence = sequence /\ publication'.base = base
      /\ publication'.dropped = dropped /\ publication'.empties = empties
  BY <1>1
<1>6. ToSet(Ids(OwnSegment.records))' = ToSet(Ids(OwnSegment.records))
  BY <1>2 DEF ToSet, Ids
<1>7. ASSUME ~empties
      PROVE  \E kept \in 0..Len(StoredLog') : Keeps(kept)'
  BY <1>2, <1>5, <1>7 DEF Keeps
<1>8. PublishesLog'
  BY <1>2, <1>5, <1>6, <1>7 DEF PublishesLog
<1> QED BY <1>2, <1>3, <1>4, <1>8 DEF LogOK

LEMMA CompactIsStep == ASSUME Typed, CacheIsTrue, LogOK, Compact PROVE LogOK' /\ LogStep
<1>1. /\ Stored = Session(current) /\ Readable(current) /\ Stored.records # <<>>
      /\ Publish("compact", LastSequence(Stored), Log(Stored), {}, FALSE)
  BY StoredIsSession DEF Compact
<1>2. /\ Stored.records = OwnSegment.records /\ Stored.first = First(current) /\ Stored \in Sessions(appended)
      /\ StoredLog \in Seq(1..appended) /\ OwnSegment.records \in Seq(Entries(appended)) /\ First(current) \in Nat \ {0}
  BY <1>1, StoredLogIs DEF LogOK
<1>3. LastSequence(Stored) \in Nat
  BY <1>2, LogTyped DEF Typed
<1>4. LastSequence(Stored) + 1 = First(current) + Len(OwnSegment.records) /\ Len(OwnSegment.records) \in Nat
  BY <1>2 DEF LastSequence
<1>5. Len(OwnSegment.records) # 0
  BY <1>1, <1>2, EmptySeq
<1>6. Log(Stored) = StoredLog
  BY <1>1 DEF StoredLog
<1>7. /\ Len(StoredLog) \in 0..Len(StoredLog)
      /\ Log(Stored) = SubSeq(StoredLog, 1, Len(StoredLog))
      /\ {} = {StoredLog[i] : i \in Len(StoredLog) + 1..Len(StoredLog)}
  BY <1>2, <1>6
<1>8. \E kept \in 0..Len(StoredLog) :
         /\ Log(Stored) = SubSeq(StoredLog, 1, kept)
         /\ {} = {StoredLog[i] : i \in kept + 1..Len(StoredLog)}
  BY <1>7
<1>9. LastSequence(Stored) + 1 >= First(current) /\ LastSequence(Stored) + 1 # First(current)
  BY <1>2, <1>4, <1>5
<1> QED BY <1>1, <1>3, <1>8, <1>9, PublishIsStep

LEMMA ReplaceIsStep == ASSUME Typed, CacheIsTrue, LogOK, Replace PROVE LogOK' /\ LogStep
<1>1. /\ Stored = Session(current) /\ Readable(current) /\ Stored.records = <<>>
  BY StoredIsSession DEF Replace
<1>2. /\ Stored.records = OwnSegment.records /\ Stored.first = First(current) /\ Stored \in Sessions(appended)
      /\ Stored.base \in Seq(1..appended) /\ First(current) \in Nat \ {0}
      /\ StoredLog = Stored.base \o Ids(OwnSegment.records)
  BY <1>1, StoredLogIs DEF LogOK
<1>3. LastSequence(Stored) \in Nat
  BY <1>2, LogTyped DEF Typed
<1>4. LastSequence(Stored) + 1 = First(current)
  BY <1>1, <1>2 DEF LastSequence
<1>5. StoredLog = Stored.base
  <2>1. Ids(<<>>) = <<>>
    BY DEF Ids
  <2>2. StoredLog = Stored.base \o <<>>
    BY <1>1, <1>2, <2>1
  <2>3. Stored.base \o <<>> = Stored.base
    BY <1>2
  <2> QED BY <2>2, <2>3
<1>6. PICK kept \in 0..Len(Stored.base) :
        Publish("replace", LastSequence(Stored), SubSeq(Stored.base, 1, kept),
                ToSet(SubSeq(Stored.base, kept + 1, Len(Stored.base))), FALSE)
  BY DEF Replace
<1>7. ToSet(SubSeq(Stored.base, kept + 1, Len(Stored.base))) = {StoredLog[i] : i \in kept + 1..Len(StoredLog)}
  BY <1>2, <1>5, CutInTwo
<1>8. \E n \in 0..Len(StoredLog) :
         /\ SubSeq(Stored.base, 1, kept) = SubSeq(StoredLog, 1, n)
         /\ ToSet(SubSeq(Stored.base, kept + 1, Len(Stored.base))) = {StoredLog[i] : i \in n + 1..Len(StoredLog)}
  BY <1>5, <1>7
<1>9. LastSequence(Stored) + 1 >= First(current) /\ OwnSegment.records = <<>>
  BY <1>1, <1>2, <1>4
<1> QED BY <1>3, <1>6, <1>8, <1>9, PublishIsStep

LEMMA Joined ==
  ASSUME NEW T, NEW s \in Seq(T), NEW t \in Seq(T)
  PROVE  /\ s \o t \in Seq(T) /\ Len(s \o t) = Len(s) + Len(t)
         /\ \A i \in 1..Len(s) : (s \o t)[i] = s[i]
         /\ \A i \in 1..Len(t) : (s \o t)[Len(s) + i] = t[i]
OBVIOUS

LEMMA CutJoined ==
  ASSUME NEW T, NEW s \in Seq(T), NEW t \in Seq(T), NEW j \in 0..Len(t)
  PROVE  s \o SubSeq(t, 1, j) = SubSeq(s \o t, 1, Len(s) + j)
<1>1. Len(s) \in Nat /\ Len(t) \in Nat /\ j \in Nat
  OBVIOUS
<1> DEFINE cut == SubSeq(t, 1, j)
<1>2. cut \in Seq(T) /\ Len(cut) = j /\ \A i \in 1..j : cut[i] = t[i]
  <2>1. \A i \in 1..j : t[i] \in T
    BY <1>1
  <2>2. cut = [i \in 1..j |-> t[i]]
    BY <1>1
  <2> QED BY <2>1, <2>2, <1>1
<1> HIDE DEF cut
<1> DEFINE all == s \o t
           left == s \o cut
           right == SubSeq(all, 1, Len(s) + j)
<1>3. /\ left \in Seq(T) /\ Len(left) = Len(s) + j
      /\ \A i \in 1..Len(s) : left[i] = s[i]
      /\ \A i \in 1..j : left[Len(s) + i] = cut[i]
  <2>1. /\ left \in Seq(T) /\ Len(left) = Len(s) + Len(cut)
        /\ \A i \in 1..Len(s) : left[i] = s[i]
        /\ \A i \in 1..Len(cut) : left[Len(s) + i] = cut[i]
    <3>1. PICK c : c = cut
      OBVIOUS
    <3>2. c \in Seq(T)
      BY <3>1, <1>2
    <3>3. /\ s \o c \in Seq(T) /\ Len(s \o c) = Len(s) + Len(c)
          /\ \A i \in 1..Len(s) : (s \o c)[i] = s[i]
          /\ \A i \in 1..Len(c) : (s \o c)[Len(s) + i] = c[i]
      BY <3>2, Joined
    <3> QED BY <3>1, <3>3
  <2> HIDE DEF left
  <2> QED BY <2>1, <1>2
<1>4. /\ all \in Seq(T) /\ Len(all) = Len(s) + Len(t)
      /\ \A i \in 1..Len(s) : all[i] = s[i]
      /\ \A i \in 1..Len(t) : all[Len(s) + i] = t[i]
  BY Joined
<1> HIDE DEF all
<1>5. right \in Seq(T) /\ Len(right) = Len(s) + j /\ \A i \in 1..Len(s) + j : right[i] = all[i]
  <2>1. \A i \in 1..Len(s) + j : i \in 1..Len(all) /\ all[i] \in T
    BY <1>1, <1>4
  <2>2. right = [i \in 1..Len(s) + j |-> all[i]]
    BY <1>1, <1>4
  <2> QED BY <2>1, <2>2, <1>1
<1> HIDE DEF left, right
<1>6. ASSUME NEW i \in 1..Len(s) + j PROVE left[i] = right[i]
  <2>1. CASE i \in 1..Len(s)
    BY <2>1, <1>3, <1>4, <1>5
  <2>2. CASE i \notin 1..Len(s)
    <3>1. i - Len(s) \in 1..j /\ i - Len(s) \in 1..Len(t) /\ Len(s) + (i - Len(s)) = i
      BY <2>2, <1>1
    <3>2. left[i] = cut[i - Len(s)]
      BY <3>1, <1>3
    <3>3. all[i] = t[i - Len(s)]
      BY <3>1, <1>4
    <3> QED BY <3>1, <3>2, <3>3, <1>2, <1>5
  <2> QED BY <2>1, <2>2
<1>7. left = right
  BY <1>3, <1>5, <1>6
<1> QED BY <1>7 DEF left, right, cut, all

\* What a repair keeps and drops of the records of the segment.
RepairCuts(base, records, k) ==
  LET log == base \o Ids(records)
      kept == Ids(SubSeq(records, 1, k - 1))
      m == Len(base) + k - 1
  IN /\ m \in 0..Len(log)
     /\ base \o kept = SubSeq(log, 1, m)
     /\ ToSet(Ids(records)) \ ToSet(kept) = {log[i] : i \in m + 1..Len(log)}
     /\ k = 1 => base \o kept = base /\ ToSet(Ids(records)) \ ToSet(kept) = ToSet(Ids(records))

LEMMA RepairParts ==
  ASSUME NEW n \in Nat, NEW base \in Seq(1..n), NEW records \in Seq(Entries(n)), NEW k \in 1..Len(records),
         NoRepeats(base \o Ids(records))
  PROVE  RepairCuts(base, records, k)
<1> SUFFICES ASSUME NEW log, log = base \o Ids(records), NoRepeats(log),
                    NEW kept, kept = Ids(SubSeq(records, 1, k - 1)), NEW m, m = Len(base) + k - 1
             PROVE  /\ m \in 0..Len(log)
                    /\ base \o kept = SubSeq(log, 1, m)
                    /\ ToSet(Ids(records)) \ ToSet(kept) = {log[i] : i \in m + 1..Len(log)}
                    /\ k = 1 => base \o kept = base /\ ToSet(Ids(records)) \ ToSet(kept) = ToSet(Ids(records))
  BY DEF RepairCuts
<1> DEFINE ids == Ids(records)
<1>1. /\ ids \in Seq(1..n) /\ Len(ids) = Len(records) /\ Len(records) \in Nat /\ Len(base) \in Nat
      /\ k \in Nat /\ k - 1 \in 0..Len(records)
  BY IdsTyped
<1>2. SubSeq(records, 1, k - 1) \in Seq(Entries(n)) /\ Len(SubSeq(records, 1, k - 1)) = k - 1
  BY <1>1, CutTyped
<1>3. kept = SubSeq(ids, 1, k - 1)
  <2>1. DOMAIN SubSeq(records, 1, k - 1) = 1..k - 1 /\ \A i \in 1..k - 1 : SubSeq(records, 1, k - 1)[i] = records[i]
    BY <1>1, <1>2
  <2>2. kept = [i \in 1..k - 1 |-> records[i].id]
    BY <2>1 DEF Ids
  <2>3. \A i \in 1..k - 1 : ids[i] = records[i].id
    BY <1>1 DEF Ids
  <2> HIDE DEF ids
  <2>4. SubSeq(ids, 1, k - 1) = [i \in 1..k - 1 |-> ids[i]]
    BY <1>1
  <2> QED BY <2>2, <2>3, <2>4
<1> HIDE DEF ids
<1>4. /\ log = base \o ids /\ Len(log) = Len(base) + Len(ids) /\ log \in Seq(1..n)
      /\ \A i \in 1..Len(base) : log[i] = base[i]
      /\ \A i \in 1..Len(ids) : log[Len(base) + i] = ids[i]
  <2>1. log = base \o ids
    BY DEF ids
  <2>2. base \in Seq(1..n) /\ ids \in Seq(1..n)
    BY <1>1
  <2>3. /\ base \o ids \in Seq(1..n) /\ Len(base \o ids) = Len(base) + Len(ids)
        /\ \A i \in 1..Len(base) : (base \o ids)[i] = base[i]
        /\ \A i \in 1..Len(ids) : (base \o ids)[Len(base) + i] = ids[i]
    BY <2>2, Joined
  <2> QED BY <2>1, <2>3, Zenon
<1>5. m \in 0..Len(log)
  BY <1>1, <1>4
<1>6. base \o kept = SubSeq(log, 1, m)
  <2>1. PICK j : j = k - 1
    OBVIOUS
  <2>2. base \in Seq(1..n) /\ ids \in Seq(1..n) /\ j \in 0..Len(ids) /\ m = Len(base) + j
    BY <1>1, <2>1
  <2>3. base \o SubSeq(ids, 1, j) = SubSeq(base \o ids, 1, Len(base) + j)
    BY <2>2, CutJoined
  <2> QED BY <2>1, <2>2, <2>3, <1>3, <1>4
<1>7. ToSet(ids) = {ids[i] : i \in 1..Len(ids)}
  BY <1>1 DEF ToSet
<1>8. ToSet(kept) = {ids[i] : i \in 1..k - 1}
  BY <1>1, <1>3, CutInTwo
<1>9. ASSUME NEW i \in 1..Len(ids), NEW j \in 1..Len(ids), ids[i] = ids[j]
      PROVE  i = j
  <2>1. /\ Len(base) + i \in DOMAIN log /\ Len(base) + j \in DOMAIN log
        /\ log[Len(base) + i] = log[Len(base) + j]
    BY <1>1, <1>4, <1>9, SMTT(30)
  <2>2. Len(base) + i = Len(base) + j
    BY <2>1 DEF NoRepeats
  <2> QED BY <2>2, <1>1
<1>10. ToSet(ids) \ ToSet(kept) = {ids[i] : i \in k..Len(ids)}
  <2>1. \A i \in 1..Len(ids) : i \in k..Len(ids) \/ i \in 1..k - 1
    BY <1>1
  <2>2. \A i \in k..Len(ids) : i \in 1..Len(ids)
    BY <1>1
  <2>3. \A i \in k..Len(ids), j \in 1..k - 1 : j \in 1..Len(ids) /\ i # j
    BY <1>1
  <2>4. ASSUME NEW i \in k..Len(ids)
        PROVE  ids[i] \in ToSet(ids) \ ToSet(kept)
    <3>1. ids[i] \in ToSet(ids)
      BY <1>7, <2>2
    <3>2. ASSUME NEW j \in 1..k - 1, ids[i] = ids[j]
          PROVE  FALSE
      BY <3>2, <1>9, <2>2, <2>3
    <3> QED BY <3>1, <3>2, <1>8
  <2>5. ASSUME NEW x \in ToSet(ids) \ ToSet(kept)
        PROVE  x \in {ids[i] : i \in k..Len(ids)}
    BY <1>7, <1>8, <2>1
  <2> QED BY <2>4, <2>5
<1>11. {ids[i] : i \in k..Len(ids)} = {log[i] : i \in m + 1..Len(log)}
  <2>1. ASSUME NEW i \in k..Len(ids)
        PROVE  ids[i] \in {log[j] : j \in m + 1..Len(log)}
    <3>1. Len(base) + i \in m + 1..Len(log) /\ i \in 1..Len(ids)
      BY <1>1, <1>4
    <3>2. log[Len(base) + i] = ids[i]
      BY <3>1, <1>4
    <3> QED BY <3>1, <3>2
  <2>2. ASSUME NEW i \in m + 1..Len(log)
        PROVE  log[i] \in {ids[j] : j \in k..Len(ids)}
    <3>1. i - Len(base) \in k..Len(ids) /\ i - Len(base) \in 1..Len(ids) /\ Len(base) + (i - Len(base)) = i
      BY <1>1, <1>4
    <3>2. log[i] = ids[i - Len(base)]
      BY <3>1, <1>4
    <3> QED BY <3>1, <3>2
  <2> DEFINE left == {ids[i] : i \in k..Len(ids)}
             right == {log[i] : i \in m + 1..Len(log)}
  <2>3. left \subseteq right /\ right \subseteq left
    BY <2>1, <2>2
  <2> HIDE DEF left, right
  <2>4. left = right
    BY <2>3
  <2> QED BY <2>4 DEF left, right
<1>12. k = 1 => kept = <<>>
  BY <1>1, <1>3
<1>13. k = 1 => base \o kept = base /\ ToSet(ids) \ ToSet(kept) = ToSet(ids)
  BY <1>12, <1>8
<1> QED BY <1>5, <1>6, <1>10, <1>11, <1>13 DEF ids

LEMMA OpenIsStep == ASSUME Typed, LogOK, Open PROVE LogOK' /\ LogStep
<1>1. CASE cache' = Session(current) /\ UNCHANGED <<disk, publication, acked, counts, reader>>
  <2>1. publication' = None
    BY <1>1 DEF Open, Typed, PublicationOK
  <2> QED BY <1>1, <2>1, SameDisk
<1>2. CASE \E k \in DOMAIN Session(current).records : Repair(Session(current), k)
  <2>1. PICK session : session = Session(current)
    OBVIOUS
  <2>2. PICK k \in DOMAIN session.records : Repair(session, k)
    BY <1>2, <2>1
  <2>3. /\ session.records = OwnSegment.records /\ session.first = First(current) /\ session.base \in Seq(1..appended)
        /\ OwnSegment.records \in Seq(Entries(appended)) /\ First(current) \in Nat \ {0} /\ appended \in Nat
        /\ StoredLog = session.base \o Ids(OwnSegment.records)
    BY <2>1, StoredLogIs DEF LogOK
  <2>4. k \in 1..Len(session.records) /\ Len(session.records) \in Nat /\ session.records \in Seq(Entries(appended))
    BY <2>2, <2>3
  <2>5. PICK kept, m : kept = Ids(SubSeq(session.records, 1, k - 1)) /\ m = Len(session.base) + k - 1
    OBVIOUS
  <2>6. Publish("repair", session.first + k - 2, session.base \o kept,
                ToSet(Ids(session.records)) \ ToSet(kept), k = 1)
    BY <2>2, <2>5 DEF Repair
  <2>7. /\ m \in 0..Len(StoredLog)
        /\ session.base \o kept = SubSeq(StoredLog, 1, m)
        /\ ToSet(Ids(session.records)) \ ToSet(kept) = {StoredLog[i] : i \in m + 1..Len(StoredLog)}
        /\ k = 1 => /\ session.base \o kept = session.base
                    /\ ToSet(Ids(session.records)) \ ToSet(kept) = ToSet(Ids(session.records))
    <3>1. NoRepeats(session.base \o Ids(session.records))
      BY <2>3 DEF LogOK, RecordedOnce
    <3>2. PICK base, records, n : base = session.base /\ records = session.records /\ n = appended
      OBVIOUS
    <3>3. /\ n \in Nat /\ base \in Seq(1..n) /\ records \in Seq(Entries(n)) /\ k \in 1..Len(records)
          /\ NoRepeats(base \o Ids(records))
      BY <2>3, <2>4, <3>1, <3>2
    <3>4. RepairCuts(base, records, k)
      BY <3>3, RepairParts
    <3>5. /\ kept = Ids(SubSeq(records, 1, k - 1)) /\ m = Len(base) + k - 1
          /\ StoredLog = base \o Ids(records)
      BY <2>3, <2>5, <3>2
    <3> QED BY <3>2, <3>4, <3>5, ZenonT(90) DEF RepairCuts
  <2>8. /\ session.first + k - 2 \in Nat /\ session.first + k - 2 + 1 >= First(current)
        /\ (k = 1) \in BOOLEAN
        /\ k = 1 => session.first + k - 2 + 1 = First(current)
        /\ k # 1 => session.first + k - 2 + 1 # First(current)
    BY <2>3, <2>4, SMTT(30)
  <2> QED BY <2>1, <2>3, <2>6, <2>7, <2>8, PublishIsStep
<1> QED BY <1>1, <1>2 DEF Open

-----------------------------------------------------------------------------
(* The stages of a publication.                                            *)

\* What a readable generation has on disk.
LEMMA CurrentOnDisk ==
  ASSUME LogOK
  PROVE  /\ current \in DOMAIN generations /\ First(current) \in DOMAIN journal
         /\ ToSet(generations[current].chunks) \subseteq pool
         /\ \A first \in DOMAIN journal : first > First(current) => journal[first] = NoRecords
BY DEF LogOK, Readable, LaterSegmentsEmpty

LEMMA CreateSegmentIsStep == ASSUME Typed, LogOK, CreateSegment PROVE LogOK' /\ LogStep /\ SameSegment
<1>1. /\ InStage("segment") /\ journal' = AdoptedSegment(publication.sequence + 1)
      /\ GoesOn("chunks") /\ UNCHANGED <<generations, pool, current, acked>>
  BY NextStageGoesOn DEF CreateSegment
<1>2. /\ First(current) \in DOMAIN journal' /\ journal'[First(current)] = journal[First(current)]
      /\ publication.sequence + 1 \in DOMAIN journal'
      /\ \A first \in DOMAIN journal' : first > First(current) => journal'[first] = NoRecords
  BY <1>1, CurrentOnDisk DEF AdoptedSegment, With
<1> QED BY <1>1, <1>2, CurrentOnDisk, StageLog DEF Stages

LEMMA WriteChunkIsStep == ASSUME Typed, LogOK, WriteChunk PROVE LogOK' /\ LogStep /\ SameSegment
<1>1. /\ InStage("chunks") /\ UNCHANGED <<generations, journal, current, acked>> /\ pool \subseteq pool'
      /\ \E chunk : publication' = [publication EXCEPT !.sealed = publication.sealed \/ Sealed(chunk)]
  BY DEF WriteChunk
<1>2. GoesOn("chunks")
  BY <1>1 DEF Typed, PublicationOK, InStage, Publications, GoesOn
<1>3. publication.sequence + 1 \in DOMAIN journal'
  BY <1>1 DEF LogOK, PublishesLog, InStage
<1> QED BY <1>1, <1>2, <1>3, CurrentOnDisk, StageLog DEF Stages

LEMMA InstallIsStep == ASSUME Typed, LogOK, Install PROVE LogOK' /\ LogStep /\ SameSegment
<1>1. /\ InStage("chunks") /\ GoesOn("switch") /\ UNCHANGED <<journal, pool, current, acked>>
      /\ generations' = With(generations, publication.generation,
                             [sequence |-> publication.sequence, chunks |-> Chunks(publication.base), whole |-> TRUE])
  BY NextStageGoesOn DEF Install
<1>2. \A g \in DOMAIN generations : g \in Nat /\ g < publication.generation
  BY <1>1 DEF Typed, GenerationsOK, PublicationOK, InStage
<1>3. current \in DOMAIN generations' /\ generations'[current] = generations[current]
  BY <1>1, <1>2, CurrentOnDisk DEF With
<1>4. generations'[publication.generation] =
        [sequence |-> publication.sequence, chunks |-> Chunks(publication.base), whole |-> TRUE]
  BY <1>1 DEF With
<1>5. publication.sequence + 1 \in DOMAIN journal'
  BY <1>1 DEF LogOK, PublishesLog, InStage
<1> QED BY <1>1, <1>3, <1>4, <1>5, CurrentOnDisk, StageLog DEF Stages

LEMMA DiscardGenerationsIsStep == ASSUME Typed, LogOK, DiscardGenerations PROVE LogOK' /\ LogStep /\ SameSegment
<1>1. /\ InStage("generations") /\ GoesOn("segments") /\ UNCHANGED <<journal, pool, current, acked>>
  BY NextStageGoesOn DEF DiscardGenerations
<1>2. Newest(current)
  BY <1>1 DEF Typed, PublicationOK, InStage
<1>3. current \in DOMAIN generations' /\ generations'[current] = generations[current]
  BY <1>2, CurrentOnDisk, GenerationsAfterDiscard
<1> QED BY <1>1, <1>3, CurrentOnDisk, StageLog DEF Stages

LEMMA DiscardSegmentsIsStep ==
  ASSUME Typed, LogOK, CurrentNamesAJournal', DiscardSegments
  PROVE  LogOK' /\ LogStep /\ SameSegment
<1>1. /\ InStage("segments") /\ GoesOn("collect") /\ UNCHANGED <<generations, pool, current, acked>>
      /\ journal' \in {journal, Kept(journal, DOMAIN journal \ Superseded(DOMAIN journal))}
  BY NextStageGoesOn DEF DiscardSegments
<1>2. First(current) \in DOMAIN journal'
  BY <1>1 DEF CurrentNamesAJournal, First
<1>3. \A first \in DOMAIN journal' : first \in DOMAIN journal /\ journal'[first] = journal[first]
  BY <1>1 DEF Kept
<1> QED BY <1>1, <1>2, <1>3, CurrentOnDisk, StageLog DEF Stages

LEMMA CollectChunksIsStep == ASSUME Typed, LogOK, CollectChunks PROVE LogOK' /\ LogStep /\ SameSegment
<1>1. /\ InStage("collect") /\ GoesOn("prime") /\ UNCHANGED <<generations, journal, current, acked>>
      /\ pool' \in {pool, pool \cap Referenced}
  BY NextStageGoesOn DEF CollectChunks
<1>2. ToSet(generations[current].chunks) \subseteq Referenced
  BY CurrentOnDisk DEF Referenced
<1> QED BY <1>1, <1>2, CurrentOnDisk, StageLog DEF Stages

LEMMA PrimeCacheIsStep == ASSUME Typed, LogOK, PrimeCache PROVE LogOK' /\ LogStep /\ SameSegment
<1>1. InStage("prime") /\ UNCHANGED <<disk, acked>>
  BY DEF PrimeCache
<1>2. CASE publication' = None
  BY <1>1, <1>2, SameDisk
<1>3. CASE publication' = [publication EXCEPT !.stage = "empty"] /\ publication.empties
  <2>1. GoesOn("empty")
    BY <1>1, <1>3, NextStageGoesOn
  <2> QED BY <1>1, <1>3, <2>1, CurrentOnDisk, StageLog DEF Stages, disk
<1> QED BY <1>2, <1>3 DEF PrimeCache

LEMMA SwitchIsStep == ASSUME Typed, LogOK, Switch PROVE LogOK' /\ LogStep
<1>1. /\ InStage("switch") /\ GoesOn("generations") /\ UNCHANGED <<generations, journal, pool>>
      /\ current' = publication.generation
      /\ acked' = IF publication.empties THEN acked ELSE acked \ publication.dropped
  BY NextStageGoesOn DEF Switch
<1>2. PICK c, first, base : c = publication.generation /\ first = publication.sequence + 1 /\ base = publication.base
  OBVIOUS
<1>3. /\ c \in DOMAIN generations
      /\ generations[c] = [sequence |-> publication.sequence, chunks |-> Chunks(base), whole |-> TRUE]
      /\ first \in DOMAIN journal /\ first >= First(current) /\ base \in Seq(1..appended)
      /\ ToSet(Chunks(base)) \subseteq pool
  <2>1. c \in DOMAIN generations /\ base \in Seq(1..appended)
    BY <1>1, <1>2 DEF Typed, PublicationOK, InStage, Newest, Publications
  <2>2. /\ generations[c] = [sequence |-> publication.sequence, chunks |-> Chunks(base), whole |-> TRUE]
        /\ first \in DOMAIN journal /\ first >= First(current)
    BY <1>1, <1>2 DEF LogOK, PublishesLog, InStage
  <2>3. ToSet(Chunks(base)) \subseteq pool
    BY <2>1, <2>2 DEF Typed, ChunksOutliveManifests
  <2> QED BY <2>1, <2>2, <2>3
<1>4. First(c) = first /\ First(c)' = first
  BY <1>1, <1>2, <1>3 DEF First
<1>5. first = First(current) \/ journal[first] = NoRecords
  <2>1. first \in Nat /\ First(current) \in Nat
    BY <1>3, StoredLogIs DEF LogOK, Typed, JournalOK
  <2> QED BY <2>1, <1>3 DEF LogOK, LaterSegmentsEmpty
<1>6. Reads(journal[first].records, first)
  <2>1. CASE first = First(current)
    BY <2>1 DEF LogOK, Readable
  <2>2. CASE journal[first] = NoRecords
    BY <2>2 DEF Reads, NoRecords
  <2> QED BY <1>5, <2>1, <2>2
<1>7. Readable(c) /\ Readable(current)'
  BY <1>1, <1>2, <1>3, <1>4, <1>6 DEF Readable, First
<1>8. Session(c).base = base /\ Session(c).records = journal[first].records
  <2>1. Session(c).base = base
    BY <1>3, <1>7, SessionTyped DEF Typed
  <2> QED BY <2>1, <1>4 DEF Session
<1>9. StoredLog' = base \o Ids(journal[first].records)
  <2>1. Session(current)' = Session(c)
    BY <1>1, <1>2 DEF Session, First, Size
  <2>2. StoredLog' = Log(Session(c))
    BY <2>1, <1>7 DEF StoredLog, Log, Ids
  <2> QED BY <2>2, <1>8 DEF Log
<1>10. LaterSegmentsEmpty'
  <2>1. \A other \in DOMAIN journal : other \in Nat
    BY DEF Typed, JournalOK
  <2>2. First(current) \in Nat /\ First(current)' = first
    BY <1>1, <1>2, <1>4, StoredLogIs DEF LogOK, First
  <2> QED BY <2>1, <2>2, <1>1, <1>3 DEF LogOK, LaterSegmentsEmpty
<1>11. CASE publication.empties
  <2>1. first = First(current) /\ base = Session(current).base
    BY <1>1, <1>2, <1>11 DEF LogOK, PublishesLog, InStage
  <2>2. StoredLog' = StoredLog
    BY <2>1, <1>9, StoredLogIs DEF LogOK, OwnSegment
  <2>3. RecordedOnce' /\ LogStep
    BY <1>1, <1>11, <2>2, SameLogIsStep DEF LogOK, SameLog
  <2>4. publication'.dropped = ToSet(Ids(OwnSegment.records))'
    <3>1. OwnSegment' = OwnSegment
      BY <1>1, <1>2, <1>4, <2>1 DEF OwnSegment, First
    <3> QED BY <3>1, <1>1, <1>11 DEF LogOK, PublishesLog, GoesOn, ToSet, Ids
  <2>5. PublishesLog'
    BY <2>4, <1>1, <1>11 DEF PublishesLog, GoesOn
  <2> QED BY <1>7, <1>10, <2>3, <2>5 DEF LogOK
<1>12. CASE ~publication.empties
  <2>1. PICK kept \in 0..Len(StoredLog) : Keeps(kept)
    BY <1>1, <1>12 DEF LogOK, PublishesLog, InStage
  <2>2. journal[first].records = <<>>
    <3>1. CASE first = First(current)
      BY <1>1, <1>2, <1>12, <3>1 DEF LogOK, PublishesLog, InStage, OwnSegment
    <3>2. CASE journal[first] = NoRecords
      BY <3>2 DEF NoRecords
    <3> QED BY <1>5, <3>1, <3>2
  <2>3. StoredLog' = base
    <3>1. Ids(journal[first].records) = <<>>
      BY <2>2 DEF Ids
    <3>2. base \o <<>> = base
      BY <1>3
    <3> QED BY <1>9, <3>1, <3>2
  <2>4. CutTo(kept)
    BY <1>1, <1>2, <1>12, <2>1, <2>3 DEF Keeps, CutTo
  <2>5. RecordedOnce' /\ LogStep
    BY <2>4, CutIsStep DEF LogOK
  <2>6. PublishesLog'
    BY <1>1, <1>12 DEF PublishesLog, GoesOn
  <2> QED BY <1>7, <1>10, <2>5, <2>6 DEF LogOK
<1> QED BY <1>11, <1>12

LEMMA EmptySegmentIsStep == ASSUME Typed, LogOK, EmptySegment PROVE LogOK' /\ LogStep
<1>1. /\ InStage("empty") /\ publication' = None /\ UNCHANGED <<generations, pool, current>>
      /\ journal' = [journal EXCEPT ![First(current)] = NoRecords]
      /\ acked' = acked \ publication.dropped
  BY DEF EmptySegment
<1>2. publication.dropped = ToSet(Ids(OwnSegment.records))
  BY <1>1 DEF LogOK, PublishesLog, InStage
<1>3. PICK g, base, ids : g = current /\ base = Session(current).base /\ ids = Ids(OwnSegment.records)
  OBVIOUS
<1>4. /\ base \in Seq(1..appended) /\ ids \in Seq(1..appended) /\ StoredLog = base \o ids
      /\ First(g) \in Nat /\ First(g) \in DOMAIN journal /\ Readable(g)
  BY <1>3, StoredLogIs, CurrentOnDisk, IdsTyped DEF LogOK
<1>5. First(g)' = First(g) /\ journal'[First(g)] = NoRecords /\ DOMAIN journal' = DOMAIN journal
  BY <1>1, <1>3, <1>4 DEF First
<1>6. Reads(journal'[First(g)].records, First(g)')
  BY <1>5 DEF Reads, NoRecords
<1>7. Readable(g)' /\ Readable(current)'
  BY <1>1, <1>3, <1>4, <1>5, <1>6 DEF Readable
<1>8. StoredLog' = base
  <2>1. Session(current)'.base = base /\ Session(current)'.records = <<>>
    BY <1>1, <1>3, <1>5 DEF Session, NoRecords
  <2>2. StoredLog' = base \o Ids(<<>>)
    BY <1>7, <2>1 DEF StoredLog, Log, Ids
  <2>3. Ids(<<>>) = <<>> /\ base \o <<>> = base
    BY <1>4 DEF Ids
  <2> QED BY <2>2, <2>3
<1>9. PICK kept : kept = Len(base)
  OBVIOUS
<1>10. /\ kept \in Nat /\ Len(ids) \in Nat /\ Len(StoredLog) = kept + Len(ids)
       /\ \A i \in 1..kept : StoredLog[i] = base[i]
       /\ \A i \in 1..Len(ids) : StoredLog[kept + i] = ids[i]
  <2>1. base \in Seq(1..appended) /\ ids \in Seq(1..appended)
    BY <1>4
  <2>2. /\ Len(base \o ids) = Len(base) + Len(ids)
        /\ \A i \in 1..Len(base) : (base \o ids)[i] = base[i]
        /\ \A i \in 1..Len(ids) : (base \o ids)[Len(base) + i] = ids[i]
    BY <2>1, Joined
  <2>3. Len(base) \in Nat /\ Len(ids) \in Nat
    BY <2>1
  <2> QED BY <2>2, <2>3, <1>4, <1>9
<1>11. base = SubSeq(StoredLog, 1, kept)
  <2>1. SubSeq(StoredLog, 1, kept) = [i \in 1..kept |-> StoredLog[i]]
    BY <1>10
  <2>2. base = [i \in 1..kept |-> base[i]]
    BY <1>4, <1>9
  <2> QED BY <2>1, <2>2, <1>10
<1>12. ToSet(ids) = {StoredLog[i] : i \in kept + 1..Len(StoredLog)}
  <2> DEFINE right == {StoredLog[i] : i \in kept + 1..Len(StoredLog)}
  <2>1. DOMAIN ids = 1..Len(ids)
    BY <1>4
  <2>2. ASSUME NEW i \in 1..Len(ids)
        PROVE  ids[i] \in right
    <3>1. kept + i \in kept + 1..Len(StoredLog)
      BY <1>10
    <3> QED BY <3>1, <1>10
  <2>3. ASSUME NEW j \in kept + 1..Len(StoredLog)
        PROVE  StoredLog[j] \in {ids[i] : i \in 1..Len(ids)}
    <3>1. j - kept \in 1..Len(ids) /\ kept + (j - kept) = j
      BY <1>10
    <3> QED BY <3>1, <1>10
  <2>4. {ids[i] : i \in 1..Len(ids)} \subseteq right /\ right \subseteq {ids[i] : i \in 1..Len(ids)}
    BY <2>2, <2>3
  <2> HIDE DEF right
  <2>5. {ids[i] : i \in 1..Len(ids)} = right
    BY <2>4
  <2> QED BY <2>1, <2>5 DEF ToSet, right
<1>13. CutTo(kept)
  <2>1. kept \in 0..Len(StoredLog)
    BY <1>10
  <2> QED BY <2>1, <1>1, <1>2, <1>3, <1>8, <1>11, <1>12 DEF CutTo
<1>14. RecordedOnce' /\ LogStep
  BY <1>13, CutIsStep DEF LogOK
<1>15. LaterSegmentsEmpty'
  BY <1>1, <1>3, <1>4, <1>5 DEF LogOK, LaterSegmentsEmpty
<1> QED BY <1>1, <1>7, <1>14, <1>15, NothingPublished DEF LogOK

\* Steps of the process without a lease, and steps of nobody.
LEMMA NoWriteIsStep ==
  ASSUME LogOK, UNCHANGED <<disk, acked, publication>>
  PROVE  LogOK' /\ LogStep /\ SameSegment
<1>1. /\ Readable(current)' /\ StoredLog' = StoredLog /\ First(current)' = First(current)
      /\ Session(current)' = Session(current) /\ OwnSegment' = OwnSegment
  BY SameFilesSameLoad DEF LogOK, disk, First, OwnSegment
<1>2. RecordedOnce' /\ LogStep
  BY <1>1, SameLogIsStep DEF LogOK, SameLog
<1>3. LaterSegmentsEmpty'
  BY <1>1 DEF LogOK, LaterSegmentsEmpty, disk
<1>4. \A kept : Keeps(kept)' <=> Keeps(kept)
  BY <1>1 DEF Keeps
<1>5. ToSet(Ids(OwnSegment.records))' = ToSet(Ids(OwnSegment.records))
  BY <1>1 DEF ToSet, Ids
<1>6. PublishesLog'
  BY <1>1, <1>4, <1>5 DEF LogOK, PublishesLog, disk
<1> QED BY <1>1, <1>2, <1>3, <1>6 DEF LogOK, SameSegment

-----------------------------------------------------------------------------
(* The store is a log.                                                     *)

LEMMA NextIsStep ==
  ASSUME HonestWrites, Typed, CacheIsTrue, LogOK, DiscardSegments => CurrentNamesAJournal', [Next]_vars
  PROVE  LogOK' /\ LogStep
<1>1. CASE UNCHANGED vars
  BY <1>1, NoWriteIsStep DEF vars, process
<1>2. CASE AppendRecord \/ AppendDying
  BY <1>2, AppendsAreSteps
<1>3. CASE AppendShort \/ AppendUnsynced
  BY <1>3 DEF HonestWrites, AppendShort, AppendUnsynced, Fault
<1>4. CASE Compact
  BY <1>4, CompactIsStep
<1>5. CASE Replace
  BY <1>5, ReplaceIsStep
<1>6. CASE Open
  BY <1>6, OpenIsStep
<1>7. CASE Close \/ Crash \/ PublicationFails
  <2>1. UNCHANGED <<disk, acked>> /\ publication' = None
    BY <1>7 DEF Close, Crash, PublicationFails, Die, Idle
  <2> QED BY <2>1, SameDisk
<1>8. CASE CreateSegment
  BY <1>8, CreateSegmentIsStep
<1>9. CASE WriteChunk
  BY <1>9, WriteChunkIsStep
<1>10. CASE Install
  BY <1>10, InstallIsStep
<1>11. CASE Switch
  BY <1>11, SwitchIsStep
<1>12. CASE DiscardGenerations
  BY <1>12, DiscardGenerationsIsStep
<1>13. CASE DiscardSegments
  BY <1>13, DiscardSegmentsIsStep
<1>14. CASE CollectChunks
  BY <1>14, CollectChunksIsStep
<1>15. CASE PrimeCache
  BY <1>15, PrimeCacheIsStep
<1>16. CASE EmptySegment
  BY <1>16, EmptySegmentIsStep
<1>17. CASE ReaderNext
  <2>1. UNCHANGED <<disk, acked, publication>>
    BY <1>17 DEF ReaderNext, StartLoad, ReadCurrent, ReadManifest, ReadChunks, ReadDocuments,
       ReadJournal, RetryLoad, ReaderStep, process
  <2> QED BY <2>1, NoWriteIsStep
<1> QED BY <1>1, <1>2, <1>3, <1>4, <1>5, <1>6, <1>7, <1>8, <1>9, <1>10, <1>11, <1>12, <1>13,
           <1>14, <1>15, <1>16, <1>17 DEF Next, ReaderNext

LEMMA InitLog == Init => LogOK /\ Promise!Init
<1> SUFFICES ASSUME Init PROVE LogOK /\ Promise!Init
  OBVIOUS
<1>1. /\ current = 0 /\ acked = {} /\ publication = None /\ pool = {}
      /\ DOMAIN generations = {0} /\ generations[0] = [sequence |-> 0, chunks |-> <<>>, whole |-> TRUE]
      /\ DOMAIN journal = {1} /\ journal[1] = NoRecords
  BY DEF Init
<1>2. First(current) = 1
  BY <1>1 DEF First
<1>3. Reads(journal[First(current)].records, First(current))
  BY <1>1, <1>2 DEF Reads, NoRecords
<1>4. ToSet(generations[current].chunks) = {}
  BY <1>1 DEF ToSet
<1>5. Readable(current)
  BY <1>1, <1>2, <1>3, <1>4 DEF Readable
<1>6. StoredLog = <<>>
  <2>1. StoredLog = Session(current).base \o Ids(OwnSegment.records) /\ OwnSegment.records = <<>>
    <3>1. Typed
      BY InitTyped
    <3>2. OwnSegment.records = <<>>
      BY <1>1, <1>2 DEF OwnSegment, NoRecords
    <3> QED BY <3>1, <3>2, <1>5, StoredLogIs
  <2>2. Session(current).base = FlattenSeq(<<>>)
    BY <1>1 DEF Session
  <2>3. FlattenSeq(<<>>) = <<>>
    <3>1. <<>> \in Seq(1..appended) /\ Chunks(<<>>) = <<>>
      <4>1. Chunks(<<>>) \in Seq(Seq(1..appended)) /\ Len(Chunks(<<>>)) = (Len(<<>>) + ChunkSize - 1) \div ChunkSize
        <5>1. <<>> \in Seq(1..appended)
          BY EmptySeq
        <5> QED BY <5>1, ChunksAre
      <4>2. Len(Chunks(<<>>)) = 0
        BY <4>1, ChunkCount
      <4> QED BY <4>1, <4>2, EmptySeq
    <3> QED BY <3>1, FlattenChunks
  <2>4. Ids(<<>>) = <<>>
    BY DEF Ids
  <2>5. StoredLog = <<>> \o <<>>
    BY <2>1, <2>2, <2>3, <2>4
  <2> QED BY <2>5
<1>7. RecordedOnce
  BY <1>1, <1>6 DEF RecordedOnce, NoRepeats
<1>8. LaterSegmentsEmpty
  BY <1>1 DEF LaterSegmentsEmpty
<1>9. PublishesLog
  BY <1>1 DEF PublishesLog
<1> QED BY <1>1, <1>5, <1>6, <1>7, <1>8, <1>9 DEF LogOK, Promise!Init

-----------------------------------------------------------------------------
(* Without repairs, CURRENT always names a generation with a journal.      *)

LEMMA ReachStays ==
  ASSUME SegmentsReached, SameSegment, UNCHANGED repairs, DOMAIN journal' \subseteq DOMAIN journal,
         \/ publication' = None
         \/ publication' = publication
         \/ \E stage : /\ GoesOn(stage)
                       /\ stage \in {"segment", "chunks", "switch"} <=>
                            publication.stage \in {"segment", "chunks", "switch"}
  PROVE  SegmentsReached'
BY DEF SegmentsReached, SameSegment, GoesOn

LEMMA CreateSegmentReaches == ASSUME Typed, LogOK, SegmentsReached, CreateSegment PROVE SegmentsReached'
<1>1. SameSegment /\ UNCHANGED repairs
  BY CreateSegmentIsStep DEF CreateSegment, counts
<1>2. InStage("segment") /\ GoesOn("chunks") /\ journal' = AdoptedSegment(publication.sequence + 1)
  BY NextStageGoesOn DEF CreateSegment
<1>3. \A first \in DOMAIN journal' : first \in DOMAIN journal \/ first = publication.sequence + 1
  BY <1>2 DEF AdoptedSegment, With
<1>4. publication.sequence + 1 = First(current) + Len(OwnSegment.records) /\ ~publication.empties
  BY <1>2 DEF SegmentsReached, InStage
<1>5. First(current) + Len(OwnSegment.records) \in Nat
  BY StoredLogIs DEF LogOK
<1> QED BY <1>1, <1>2, <1>3, <1>4, <1>5 DEF SegmentsReached, SameSegment, GoesOn

LEMMA SwitchReaches == ASSUME Typed, LogOK, SegmentsReached, Switch PROVE SegmentsReached'
<1>1. /\ InStage("switch") /\ GoesOn("generations") /\ UNCHANGED <<generations, journal, pool, repairs>>
      /\ current' = publication.generation
  BY NextStageGoesOn DEF Switch, counts
<1>2. PICK first, n : first = publication.sequence + 1 /\ n = Len(OwnSegment.records)
  OBVIOUS
<1>3. First(current) \in Nat /\ n \in Nat /\ OwnSegment.records \in Seq(Entries(appended))
  BY <1>2, StoredLogIs DEF LogOK
<1>4. first = First(current) + n /\ ~publication.empties /\ repairs = 0
  BY <1>1, <1>2 DEF SegmentsReached, InStage
<1>5. First(current)' = first /\ first \in DOMAIN journal
  BY <1>1, <1>2 DEF LogOK, PublishesLog, InStage, First
<1>6. OwnSegment'.records = <<>>
  <2>1. CASE n = 0
    <3>1. first = First(current)
      BY <1>3, <1>4, <2>1
    <3> QED BY <3>1, <1>1, <1>2, <1>4, <1>5 DEF LogOK, PublishesLog, InStage, OwnSegment
  <2>2. CASE n # 0
    <3>1. first > First(current)
      BY <1>3, <1>4, <2>2
    <3>2. journal[first] = NoRecords
      BY <3>1, <1>5 DEF LogOK, LaterSegmentsEmpty
    <3> QED BY <3>2, <1>1, <1>5 DEF OwnSegment, NoRecords
  <2> QED BY <2>1, <2>2
<1>7. \A other \in DOMAIN journal' : other <= First(current)' + Len(OwnSegment'.records)
  <2>1. \A other \in DOMAIN journal : other <= first
    BY <1>2, <1>4 DEF SegmentsReached
  <2>2. first + Len(OwnSegment'.records) = first
    <3>1. Len(OwnSegment'.records) = 0
      BY <1>6
    <3> QED BY <3>1, <1>3, <1>4
  <2> QED BY <2>1, <2>2, <1>1, <1>5
<1> QED BY <1>1, <1>4, <1>6, <1>7 DEF SegmentsReached, GoesOn

\* A discard keeps the two segments with the greatest numbers.
LEMMA DiscardKeepsOwn ==
  ASSUME Typed, LogOK, SegmentsReached, DiscardSegments
  PROVE  CurrentNamesAJournal'
<1>1. InStage("segments") /\ UNCHANGED <<generations, current>>
      /\ journal' \in {journal, Kept(journal, DOMAIN journal \ Superseded(DOMAIN journal))}
  BY DEF DiscardSegments
<1>2. OwnSegment.records = <<>> /\ First(current) \in Nat /\ First(current) \in DOMAIN journal
  BY <1>1, StoredLogIs, CurrentOnDisk DEF LogOK, SegmentsReached, InStage
<1>3. \A first \in DOMAIN journal : first <= First(current)
  <2>1. First(current) + Len(OwnSegment.records) = First(current)
    BY <1>2
  <2> QED BY <2>1 DEF SegmentsReached
<1>4. First(current) \notin Superseded(DOMAIN journal)
  <2>1. DOMAIN journal \in SUBSET Nat
    BY DEF Typed, JournalOK
  <2> QED BY <2>1, <1>2, <1>3, NewestStays
<1> QED BY <1>1, <1>2, <1>4 DEF CurrentNamesAJournal, First, Kept

LEMMA AppendReaches ==
  ASSUME Typed, CacheIsTrue, LogOK, SegmentsReached, AppendRecord \/ AppendDying
  PROVE  SegmentsReached'
<1>1. /\ Appending /\ publication' = None /\ UNCHANGED repairs
      /\ \E segment \in {PutPart(journal[Stored.first]), Put(journal[Stored.first], NextRecord)} :
           journal' = [journal EXCEPT ![Stored.first] = segment]
  BY DEF AppendRecord, AppendDying, Appending, Die
<1>2. Stored.first = First(current) /\ First(current)' = First(current) /\ First(current) \in DOMAIN journal
  BY <1>1, StoredIsSession, StoredLogIs, CurrentOnDisk DEF Appending, LogOK, First
<1>3. PICK first, segment : /\ first = First(current) /\ journal' = [journal EXCEPT ![first] = segment]
                            /\ segment \in {PutPart(journal[first]), Put(journal[first], NextRecord)}
  BY <1>1, <1>2
<1>4. DOMAIN journal' = DOMAIN journal /\ OwnSegment' = segment /\ OwnSegment = journal[first]
  BY <1>2, <1>3 DEF OwnSegment
<1>5. Len(OwnSegment.records) \in Nat /\ Len(segment.records) \in Nat /\ Len(segment.records) >= Len(OwnSegment.records)
  <2>1. OwnSegment \in Segments(appended) /\ OwnSegment.records \in Seq(Entries(appended))
    BY <1>2, StoredLogIs DEF LogOK, Typed, JournalOK, OwnSegment
  <2>2. CASE segment = PutPart(journal[first])
    <3>1. segment.records = OwnSegment.records
      BY <2>1, <2>2, <1>4 DEF PutPart, Segments
    <3> QED BY <2>1, <3>1
  <2>3. CASE segment = Put(journal[first], NextRecord)
    <3>1. segment.records = Append(OwnSegment.records, NextRecord)
      BY <2>3, <1>4 DEF Put
    <3>2. Len(Append(OwnSegment.records, NextRecord)) = Len(OwnSegment.records) + 1
      BY <2>1
    <3> QED BY <2>1, <3>1, <3>2
  <2> QED BY <1>3, <2>2, <2>3
<1>6. \A other \in DOMAIN journal : other \in Nat
  BY DEF Typed, JournalOK
<1>7. First(current) \in Nat
  BY StoredLogIs DEF LogOK
<1>8. \A other \in DOMAIN journal' : other <= First(current)' + Len(OwnSegment'.records)
  BY <1>2, <1>4, <1>5, <1>6, <1>7 DEF SegmentsReached
<1> QED BY <1>1, <1>8 DEF SegmentsReached

LEMMA PublishReaches ==
  ASSUME Typed, CacheIsTrue, LogOK, SegmentsReached, Compact \/ Replace
  PROVE  SegmentsReached'
<1>1. /\ UNCHANGED <<disk, repairs>> /\ publication'.stage = "segment" /\ ~publication'.empties
      /\ publication'.sequence = LastSequence(Stored) /\ (cache # None \/ Readable(current))
  BY DEF Compact, Replace, Publish
<1>2. /\ LastSequence(Stored) = First(current) + Len(OwnSegment.records) - 1
      /\ First(current) \in Nat /\ Len(OwnSegment.records) \in Nat
  <2>1. Stored = Session(current)
    BY <1>1, StoredIsSession
  <2>2. /\ Session(current).first = First(current) /\ Session(current).records = OwnSegment.records
        /\ First(current) \in Nat /\ OwnSegment.records \in Seq(Entries(appended))
    BY StoredLogIs DEF LogOK
  <2> QED BY <2>1, <2>2 DEF LastSequence
<1>3. SameSegment
  BY <1>1 DEF SameSegment, OwnSegment, First, disk
<1>4. publication'.sequence + 1 = First(current)' + Len(OwnSegment'.records)
  BY <1>1, <1>2, <1>3 DEF SameSegment
<1> QED BY <1>1, <1>3, <1>4 DEF SegmentsReached, SameSegment, disk

LEMMA NextReaches ==
  ASSUME HonestWrites, MaxRepairs = 0, Typed, CacheIsTrue, LogOK, SegmentsReached, [Next]_vars
  PROVE  SegmentsReached'
<1>1. CASE UNCHANGED vars \/ ReaderNext
  <2>1. UNCHANGED <<disk, publication, repairs>>
    BY <1>1 DEF ReaderNext, StartLoad, ReadCurrent, ReadManifest, ReadChunks, ReadDocuments,
       ReadJournal, RetryLoad, ReaderStep, process, counts, vars
  <2>2. SameSegment
    BY <2>1 DEF SameSegment, OwnSegment, First, disk
  <2> QED BY <2>1, <2>2, ReachStays DEF disk
<1>2. CASE AppendRecord \/ AppendDying
  BY <1>2, AppendReaches
<1>3. CASE AppendShort \/ AppendUnsynced
  BY <1>3 DEF HonestWrites, AppendShort, AppendUnsynced, Fault
<1>4. CASE Compact \/ Replace
  BY <1>4, PublishReaches
<1>5. CASE Open
  <2>1. UNCHANGED <<disk, publication, repairs>>
    <3>1. ~(repairs < MaxRepairs)
      BY DEF SegmentsReached
    <3> QED BY <3>1, <1>5 DEF Open, counts
  <2>2. SameSegment
    BY <2>1 DEF SameSegment, OwnSegment, First, disk
  <2> QED BY <2>1, <2>2, ReachStays DEF disk
<1>6. CASE Close \/ Crash \/ PublicationFails
  <2>1. UNCHANGED <<disk, repairs>> /\ publication' = None
    BY <1>6 DEF Close, Crash, PublicationFails, Die, Idle, counts
  <2>2. SameSegment
    BY <2>1 DEF SameSegment, OwnSegment, First, disk
  <2> QED BY <2>1, <2>2, ReachStays DEF disk
<1>7. CASE CreateSegment
  BY <1>7, CreateSegmentReaches
<1>8. CASE WriteChunk
  <2>1. SameSegment /\ UNCHANGED <<journal, repairs>>
    BY <1>8, WriteChunkIsStep DEF WriteChunk, counts
  <2>2. publication.stage = "chunks" /\ GoesOn("chunks")
    BY <1>8 DEF WriteChunk, Typed, PublicationOK, InStage, Publications, GoesOn
  <2> QED BY <2>1, <2>2, ReachStays
<1>9. CASE Install
  <2>1. SameSegment /\ UNCHANGED <<journal, repairs>>
    BY <1>9, InstallIsStep DEF Install, counts
  <2>2. publication.stage = "chunks" /\ GoesOn("switch")
    BY <1>9, NextStageGoesOn DEF Install, InStage
  <2> QED BY <2>1, <2>2, ReachStays
<1>10. CASE Switch
  BY <1>10, SwitchReaches
<1>11. CASE DiscardGenerations
  <2>1. SameSegment /\ UNCHANGED <<journal, repairs>>
    BY <1>11, DiscardGenerationsIsStep DEF DiscardGenerations
  <2>2. publication.stage = "generations" /\ GoesOn("segments")
    BY <1>11, NextStageGoesOn DEF DiscardGenerations, InStage
  <2> QED BY <2>1, <2>2, ReachStays
<1>12. CASE DiscardSegments
  <2>1. SameSegment /\ UNCHANGED repairs /\ DOMAIN journal' \subseteq DOMAIN journal
    BY <1>12, DiscardSegmentsIsStep, DiscardKeepsOwn DEF DiscardSegments, Kept
  <2>2. publication.stage = "segments" /\ GoesOn("collect")
    BY <1>12, NextStageGoesOn DEF DiscardSegments, InStage
  <2> QED BY <2>1, <2>2, ReachStays
<1>13. CASE CollectChunks
  <2>1. SameSegment /\ UNCHANGED <<journal, repairs>>
    BY <1>13, CollectChunksIsStep DEF CollectChunks, counts
  <2>2. publication.stage = "collect" /\ GoesOn("prime")
    BY <1>13, NextStageGoesOn DEF CollectChunks, InStage
  <2> QED BY <2>1, <2>2, ReachStays
<1>14. CASE PrimeCache
  <2>1. UNCHANGED <<disk, repairs>> /\ publication' = None
    BY <1>14 DEF PrimeCache, SegmentsReached, InStage, counts
  <2>2. SameSegment
    BY <2>1 DEF SameSegment, OwnSegment, First, disk
  <2> QED BY <2>1, <2>2, ReachStays DEF disk
<1>15. CASE EmptySegment
  BY <1>15 DEF EmptySegment, InStage, LogOK, PublishesLog, SegmentsReached
<1> QED BY <1>1, <1>2, <1>3, <1>4, <1>5, <1>6, <1>7, <1>8, <1>9, <1>10, <1>11, <1>12, <1>13,
           <1>14, <1>15 DEF Next, ReaderNext

\* As long as CURRENT names a generation with a journal and no write says
\* something else than it has done, the store is the log it promises: every
\* step of the store, of its deaths, its failed publications, its discards and
\* collections, writes one record, cuts the log back on purpose, or leaves the
\* log, and what was acknowledged of it, as they are (write_generation,
\* append_record, repair_diverged_generation, _discard_superseded).
THEOREM StoreIsALog ==
  ASSUME HonestWrites
  PROVE  Spec /\ []CurrentNamesAJournal => LogKept
<1>1. Init => LogOK /\ Promise!Init
  BY InitLog
<1>2. Typed /\ CacheIsTrue /\ LogOK /\ CurrentNamesAJournal' /\ [Next]_vars
        => LogOK' /\ [Promise!Next]_<<StoredLog, acked>>
  BY NextIsStep DEF LogStep
<1>3. "fsync" \notin Faults
  BY DEF HonestWrites
<1>4. Spec => []CacheIsTrue
  BY <1>3, CacheIsTrueHolds
<1> QED BY <1>1, <1>2, <1>4, TypedInvariant, PTL DEF Spec, LogKept, Promise!Spec

\* A store that never has to repair its journal is that log without any
\* proviso: the pointer always names a generation whose journal exists, because
\* the segment that is its own is the one with the greatest number when
\* superseded segments are discarded (_discard_superseded, write_generation).
THEOREM StoreWithoutRepairs ==
  ASSUME HonestWrites, MaxRepairs = 0
  PROVE  Spec => []CurrentNamesAJournal /\ LogKept
<1>1. Init => LogOK /\ SegmentsReached
  <2>1. Init => SegmentsReached
    BY DEF Init, SegmentsReached, OwnSegment, NoRecords, First
  <2> QED BY <2>1, InitLog
<1>2. Typed /\ CacheIsTrue /\ LogOK /\ SegmentsReached /\ [Next]_vars => LogOK' /\ SegmentsReached'
  BY DiscardKeepsOwn, NextIsStep, NextReaches
<1>3. LogOK => CurrentNamesAJournal
  BY DEF LogOK, Readable, CurrentNamesAJournal
<1>4. "fsync" \notin Faults
  BY DEF HonestWrites
<1>5. Spec => []CacheIsTrue
  BY <1>4, CacheIsTrueHolds
<1>6. Spec => []CurrentNamesAJournal
  BY <1>1, <1>2, <1>3, <1>5, TypedInvariant, PTL DEF Spec
<1> QED BY <1>6, StoreIsALog, PTL
=============================================================================
