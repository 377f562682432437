----------------------------- MODULE MCToolBatch -----------------------------
(***************************************************************************)
(* Finite instances of ToolBatch: three kinds of arguments, one for each    *)
(* decision of the policy, and messages that mix direct calls and programs. *)
(***************************************************************************)
EXTENDS ToolBatch

Call(id, kind, args) == [id |-> id, kind |-> kind, args |-> args]

MCArgs == {"read", "edit", "wipe"}
MCPolicy == [a \in MCArgs |-> CASE a = "read" -> "allow"
                              [] a = "edit" -> "ask"
                              [] a = "wipe" -> "deny"]

Mixed == {<<Call("c1", "search", "read"), Call("c2", "program", "read")>>,
          <<Call("c1", "tool", "edit"), Call("c2", "skill", "wipe"), Call("c3", "search", "read")>>,
          <<Call("c1", "invalid", "read"), Call("c2", "search", "read")>>}
=============================================================================
