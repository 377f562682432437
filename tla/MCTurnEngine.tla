----------------------------- MODULE MCTurnEngine -----------------------------
(***************************************************************************)
(* Finite instances of TurnEngine for TLC.                                 *)
(***************************************************************************)
EXTENDS TurnEngine

CONSTANTS c1, c2, n1, n2

LlmHooks == {{"PreLlmCall", "PostAgentTurn"}}

AllOrNoHooks == {{}, HookPoints}

OneCall == {<<>>, <<c1>>}

TwoCalls == {<<>>, <<c1, c2>>}
===============================================================================
