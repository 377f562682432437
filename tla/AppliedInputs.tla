--------------------------- MODULE AppliedInputs ---------------------------
(***************************************************************************)
(* What the Step protocol promises, whatever is lost or sent twice: the    *)
(* Runtime asks for one input at a time, the session applies it at most    *)
(* once and in order, and the Runtime learns which of the two happened     *)
(* (core/session.rs, core/session/delivery.rs).                            *)
(***************************************************************************)
EXTENDS Naturals

CONSTANT NoInput   \* its number is 0; inputs are numbered from 1

VARIABLES
  count,     \* how many inputs took effect
  latest,    \* the last of them
  asked      \* the input the Runtime has no answer for yet, or NoInput

vars == <<count, latest, asked>>

Init == count = 0 /\ latest = NoInput /\ asked = NoInput

TookEffect == asked # NoInput /\ asked.id = count

Ask ==
  /\ asked = NoInput
  /\ asked'.id = count + 1
  /\ UNCHANGED <<count, latest>>

Apply ==
  /\ asked # NoInput /\ asked.id = count + 1
  /\ count' = count + 1
  /\ latest' = asked
  /\ UNCHANGED asked

\* The Runtime is told its input was accepted only if it took effect ...
LearnAccepted ==
  /\ TookEffect /\ latest = asked
  /\ asked' = NoInput
  /\ UNCHANGED <<count, latest>>

\* ... and that it was rejected only if it did not.
LearnRejected ==
  /\ asked # NoInput /\ ~TookEffect
  /\ asked' = NoInput
  /\ UNCHANGED <<count, latest>>

Next == Ask \/ Apply \/ LearnAccepted \/ LearnRejected

Spec == Init /\ [][Next]_vars
=============================================================================
