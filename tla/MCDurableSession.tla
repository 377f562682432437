-------------------------- MODULE MCDurableSession --------------------------
(***************************************************************************)
(* Small instances of DurableSession: an action that must not be repeated   *)
(* and one that may be, a command that is sent again and one that is not.   *)
(***************************************************************************)
EXTENDS DurableSession

CONSTANTS once, again, kept, dropped

MCActions == {once, again}
MCRetryable == {again}
MCCommands == {kept, dropped}
MCMarked == {dropped}
=============================================================================
