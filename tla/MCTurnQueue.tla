---------------------------- MODULE MCTurnQueue ----------------------------
(* Small instances of TurnQueue: one turn started directly and two queued   *)
(* prompts, of which the second may hold context.                          *)
EXTENDS TurnQueue

CONSTANTS k1, k2

InputFirst == {k1 :> "user" @@ k2 :> kind : kind \in {"both", "context"}}
InputOnly == {k1 :> "user" @@ k2 :> "user"}
=============================================================================
