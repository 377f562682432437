---------------------------- MODULE CallsAnswered ----------------------------
(***************************************************************************)
(* What the model and the user are promised about the tool calls of one    *)
(* assistant message, whatever hooks, approvals, programs and file writes   *)
(* lie between.  Calls are reported finished to the user in any order, and  *)
(* once.  The model hears about all of them together, in the order in which *)
(* it made them, one message per call: the result of a call that was        *)
(* reported finished, or that the call was interrupted.                     *)
(***************************************************************************)
EXTENDS Sequences, FiniteSets

CONSTANT CallIds

VARIABLES calls, finished, messages

vars == <<calls, finished, messages>>

Ids == {calls[i] : i \in DOMAIN calls}

Init == calls = <<>> /\ finished = {} /\ messages = <<>>

Told(cs, S) == [i \in DOMAIN cs |->
                  [id |-> cs[i], how |-> IF cs[i] \in S THEN "result" ELSE "interrupted"]]

\* The model is told when the last call is reported.
Announced(cs, S) == IF \A i \in DOMAIN cs : cs[i] \in S THEN Told(cs, S) ELSE <<>>

Begin ==
  /\ calls = <<>>
  /\ calls' \in Seq(CallIds) \ {<<>>}
  /\ finished' \subseteq {calls'[i] : i \in DOMAIN calls'}
  /\ messages' = Announced(calls', finished')

Finish ==
  /\ calls # <<>> /\ messages = <<>>
  /\ \E id \in Ids \ finished : finished' = finished \cup {id}
  /\ messages' = Announced(calls, finished')
  /\ UNCHANGED calls

Abandon ==
  /\ calls # <<>> /\ messages = <<>>
  /\ messages' = Told(calls, finished)
  /\ UNCHANGED <<calls, finished>>

Next == Begin \/ Finish \/ Abandon

Spec == Init /\ [][Next]_vars
=============================================================================
