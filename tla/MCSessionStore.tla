---------------------------- MODULE MCSessionStore ----------------------------
(***************************************************************************)
(* Finite instances of SessionStore.                                       *)
(***************************************************************************)
EXTENDS SessionStore

\* A process dies, a publication fails, a file is not removed.
OrdinaryFaults == {"crash", "publish", "discard"}
=============================================================================
