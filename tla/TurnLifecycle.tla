---------------------------- MODULE TurnLifecycle -----------------------------
(***************************************************************************)
(* What the harness core promises its Runtime about turns, whatever hooks, *)
(* tools, retries and compactions go on inside one (the Turn a transition  *)
(* reports, and the late-interrupt rule that rests on it):                 *)
(*                                                                         *)
(*   - at most one turn runs, and no compaction runs beside it except the  *)
(*     turn's own;                                                         *)
(*   - turns finish in the order of their identities, each at most once;   *)
(*   - a turn leaves without finishing only while it is being admitted,    *)
(*     and then it is as if it had never begun.                            *)
(***************************************************************************)
EXTENDS Naturals

VARIABLES
    mode,      \* "Idle", "Admitting", "Running" or "Compacting"
    running,   \* the turn being admitted or run, 0 when there is none
    last       \* the last turn to finish, 0 when none has

vars == <<mode, running, last>>

Init == mode = "Idle" /\ running = 0 /\ last = 0

Begin ==
    /\ mode = "Idle"
    /\ mode' \in {"Admitting", "Running"}
    /\ running' > last
    /\ UNCHANGED last

Admit ==
    /\ mode = "Admitting"
    /\ mode' = "Running"
    /\ UNCHANGED <<running, last>>

Withdraw ==
    /\ mode = "Admitting"
    /\ mode' = "Idle"
    /\ running' = 0
    /\ UNCHANGED last

Finish ==
    /\ mode \in {"Admitting", "Running"}
    /\ mode' = "Idle"
    /\ last' = running
    /\ running' = 0

(* The queued follow-up takes over in the step that finishes the turn.     *)
HandOver ==
    /\ mode = "Running"
    /\ mode' \in {"Admitting", "Running"}
    /\ running' > running
    /\ last' = running

(* A turn whose first model input cannot be compacted fails as it begins.  *)
FailAtOnce ==
    /\ mode \in {"Idle", "Running"}
    /\ mode' = "Idle"
    /\ last' > (IF mode = "Running" THEN running ELSE last)
    /\ running' = 0

Compact ==
    /\ mode = "Idle"
    /\ mode' = "Compacting"
    /\ UNCHANGED <<running, last>>

EndCompaction ==
    /\ mode = "Compacting"
    /\ mode' = "Idle"
    /\ UNCHANGED <<running, last>>

Next ==
    \/ Begin \/ Admit \/ Withdraw \/ Finish \/ HandOver \/ FailAtOnce
    \/ Compact \/ EndCompaction

Spec == Init /\ [][Next]_vars
===============================================================================
