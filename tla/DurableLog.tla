------------------------------ MODULE DurableLog ------------------------------
(***************************************************************************)
(* What a session's store promises (vibe/_storage.py, UnifiedSessionStore): *)
(* one log of records.  A record that is written stays, in its place, until *)
(* the log is cut back on purpose, by a repair or by a rewind; a record     *)
(* that was answered has been written.                                     *)
(***************************************************************************)
EXTENDS Naturals, Sequences

VARIABLES
  log,    \* the records a reader of the store would find, in order
  acked   \* the records whose writer was told they are durable

Records == {log[i] : i \in DOMAIN log}

Init == log = <<>> /\ acked = {}

\* The writer of a record may die before it is told.
Write(record) ==
  /\ record \in (Nat \ {0}) \ Records
  /\ log' = Append(log, record)
  /\ acked' \in {acked, acked \cup {record}}

CutBack(kept) ==
  /\ log' = SubSeq(log, 1, kept)
  /\ acked' = acked \cap {log[i] : i \in 1..kept}

Next ==
  \/ \E record \in {log'[i] : i \in DOMAIN log'} : Write(record)
  \/ \E kept \in 0..Len(log) : CutBack(kept)

Spec == Init /\ [][Next]_<<log, acked>>
=============================================================================
