--------------------------- MODULE ToolBatchProofs ---------------------------
(***************************************************************************)
(* Theorems about ToolBatch, for every set of messages, every policy and   *)
(* any number of calls, operations and rounds.                             *)
(*                                                                         *)
(* The argument: an operation is new, or was pending before, or is the one *)
(* an answer advanced (Outcome lemmas).  A new one waits for its hook or    *)
(* carries a decision of the policy; the one that was advanced kept its     *)
(* identity, and the hook or the approval that advanced it is on record.    *)
(*                                                                         *)
(* For what is reported, issued and checkpointed there is a second          *)
(* invariant, Books: it relates each execution to the operations committed, *)
(* the calls finished and the action ids ever used.  What an outcome adds   *)
(* to these is new (Moves lemmas): an operation passes its stages in one    *)
(* order, and an evaluation numbers its operations in rounds that nothing   *)
(* on record belongs to, also where the replay left the journal.            *)
(*                                                                         *)
(* The same lemmas say how far an answer moves its execution: an operation *)
(* to a later stage or out of the batch, a program whose last operation    *)
(* ended to a round above all it had.                                      *)
(***************************************************************************)
EXTENDS ToolBatch, FiniteSetTheorems, FunctionTheorems, TLAPS

Entries == [id : Ids, settled : BOOLEAN]
Calls == [id : STRING, kind : Kinds, args : Args]
Steps == [id : Ids, args : Args, stage : Stages \cup Ended]

Fields == {"call", "state", "ops", "journal", "round"}

\* NothingUnpermitted, of one operation.
Fit(op, seen, approved) ==
  LET cleared == config.pre => <<op.id, op.args>> \in seen IN
  /\ op.stage = "approval" => Policy[op.args] = "ask" /\ cleared
  /\ op.stage \in {"tool", "postHook"} =>
       /\ cleared
       /\ \/ Policy[op.args] = "allow"
          \/ Policy[op.args] = "ask" /\ <<op.id, op.args>> \in approved

\* The shape of an execution, whatever its operations are permitted to do.
Shaped(e) ==
  /\ Fields \subseteq DOMAIN e
  /\ IsExecution(e)
  /\ e.state = "program" => IsProgram(e)
  /\ e.state = "program" => \A k \in DOMAIN e.ops : e.ops[k].id.round = e.round

Permitted(e, seen, approved) ==
  \A k \in DOMAIN e.ops : Fit(e.ops[k], seen, approved)

Config == config \in [pre : BOOLEAN, post : BOOLEAN, writes : BOOLEAN]

IInv ==
  /\ Config
  /\ phase \in {"idle", "running", "answered", "stopped"}
  /\ \E n \in Nat : DOMAIN batch = 1 .. n
  /\ \A i \in DOMAIN batch : Shaped(batch[i]) /\ Permitted(batch[i], vetted, granted)
  /\ messages \in Seq([id : STRING, how : {"result", "interrupted"}])
  /\ vetted \subseteq Ids \X Args
  /\ granted \subseteq Ids \X Args

-----------------------------------------------------------------------------
(* Lemmas: operations.                                                     *)

\* The policy decides on the arguments it is given.
LEMMA AdmittedFacts ==
  ASSUME NEW op \in Steps, NEW args \in Args
  PROVE  LET r == Admitted(op, args) IN
         /\ r \in Steps /\ r.id = op.id /\ r.args = args
         /\ r.stage \in {"approval", "tool", "denied"}
         /\ r.stage = "approval" => Policy[args] = "ask"
         /\ r.stage = "tool" => Policy[args] = "allow"
<1> DEFINE decision == CASE Policy[args] = "allow" -> "tool"
                         [] Policy[args] = "ask" -> "approval"
                         [] Policy[args] = "deny" -> "denied"
           r == [op EXCEPT !.args = args, !.stage = decision]
<1>1. Policy[args] \in {"allow", "deny", "ask"}
  BY PolicyAssumption
<1>2. /\ decision \in {"approval", "tool", "denied"}
      /\ decision = "approval" => Policy[args] = "ask"
      /\ decision = "tool" => Policy[args] = "allow"
  BY <1>1
<1>3. Admitted(op, args) = r
  BY DEF Admitted
<1> HIDE DEF decision
<1>4. decision \in Stages \cup Ended
  BY <1>2 DEF Stages, Ended
<1>5. r \in Steps /\ r.id = op.id /\ r.args = args /\ r.stage = decision
  BY <1>4 DEF Steps
<1> QED BY <1>2, <1>3, <1>5

\* A new operation is permitted whatever was answered so far.
LEMMA NewOpFacts ==
  ASSUME Config, NEW id \in Ids, NEW args \in Args
  PROVE  LET r == NewOp(id, args) IN
         /\ r \in Steps /\ r.id = id /\ r.stage # "settled"
         /\ \A seen, approved : Fit(r, seen, approved)
<1> DEFINE op == [id |-> id, args |-> args, stage |-> "preHook"]
           r == NewOp(id, args)
<1>1. CASE config.pre
  <2>1. r = op
    BY <1>1 DEF NewOp
  <2>2. op \in Steps
    BY DEF Steps, Stages
  <2> QED BY <2>1, <2>2 DEF Fit
<1>2. CASE ~config.pre
  <2>0. op \in Steps
    BY DEF Steps, Stages
  <2>1. r = Admitted(op, args)
    BY <1>2 DEF NewOp
  <2>2. /\ r \in Steps /\ r.id = op.id /\ r.args = args
        /\ r.stage \in {"approval", "tool", "denied"}
        /\ r.stage = "approval" => Policy[args] = "ask"
        /\ r.stage = "tool" => Policy[args] = "allow"
    BY <2>1, <2>0, AdmittedFacts
  <2> QED BY <1>2, <2>2 DEF Fit
<1> QED BY <1>1, <1>2

-----------------------------------------------------------------------------
(* Lemmas: the operations of an outcome.                                   *)

\* Every operation of an outcome that may be there without an answer.
Fresher(o) == \A seen, approved : Permitted(o.execution, seen, approved)

\* Nothing is pending in an execution that is left.
LEMMA LeaveFacts ==
  ASSUME NEW e, Shaped(e), NEW state \in {"write", "done"}
  PROVE  LET r == Leave(e, state) IN
         Shaped(r) /\ DOMAIN r.ops = {} /\ r.call = e.call
<1> DEFINE r == Leave(e, state)
<1>1. /\ DOMAIN r = DOMAIN e /\ r.call = e.call /\ r.state = state
      /\ r.ops = <<>> /\ r.journal = <<>> /\ r.round = e.round
  BY DEF Leave, Shaped, Fields
<1>2. DOMAIN r.ops = {}
  BY <1>1
<1>3. <<>> \in Seq(Entries)
  OBVIOUS
<1> HIDE DEF r
<1>4. IsExecution(r)
  BY <1>1, <1>2, <1>3 DEF IsExecution, Shaped, Entries
<1>5. Shaped(r)
  BY <1>1, <1>2, <1>4 DEF Shaped
<1> QED BY <1>1, <1>2, <1>5 DEF r

\* A final result leaves nothing pending.
LEMMA FinalizedFacts ==
  ASSUME NEW e, Shaped(e), NEW commits, NEW o \in Finalized(e, commits)
  PROVE  Shaped(o.execution) /\ Fresher(o) /\ o.execution.call = e.call
<1>1. \/ o.execution = Leave(e, "done")
      \/ o.execution = Leave(e, "write")
  BY DEF Finalized, Completed, Done, Outcome
<1>2. /\ Shaped(o.execution) /\ DOMAIN o.execution.ops = {}
      /\ o.execution.call = e.call
  BY <1>1, LeaveFacts
<1> QED BY <1>2 DEF Fresher, Permitted

\* The new operations of an evaluation that begins after round `round'.
IsNew(e, new, n) ==
  /\ n \in Nat /\ DOMAIN new = 1 .. n /\ new \in [1 .. n -> Steps] /\ Len(new) = n
  /\ \A i \in 1 .. n : /\ new[i].stage # "settled"
                       /\ \A seen, approved : Fit(new[i], seen, approved)

\* Counting the cuts of a finite number of operations gives a round.
LEMMA RoundAtType ==
  ASSUME NEW round \in Nat, NEW n \in Nat, NEW cuts \in SUBSET (2 .. n), NEW i \in Nat
  PROVE  RoundAt(round, cuts, i) \in Nat
<1> DEFINE S == {c \in cuts : c <= i}
<1>1. IsFiniteSet(2 .. n)
  BY FS_Interval
<1>2. S \subseteq 2 .. n
  OBVIOUS
<1>3. Cardinality(S) \in Nat
  BY <1>1, <1>2, FS_Subset, FS_CardinalityType
<1> HIDE DEF S
<1>4. round + Cardinality(S) \in Nat
  BY <1>3
<1> QED BY <1>4 DEF RoundAt, S

\* The operations that an evaluation reaches are new ones.
LEMMA ReachedFacts ==
  ASSUME Config, NEW e, Shaped(e), NEW journal \in Seq(Entries), NEW round \in Nat,
         NEW n \in Nat, NEW args \in [1 .. n -> Args], NEW cuts \in Cuts(round, n)
  PROVE  IsNew(e, Reached(e, journal, round, args, cuts), n)
<1> DEFINE id(i) == OpId(e.call.id, RoundAt(round, cuts, i), Len(journal) + i - 1)
           new == [i \in 1 .. n |-> NewOp(id(i), args[i])]
<1>1. Len(args) = n
  OBVIOUS
<1>2. Reached(e, journal, round, args, cuts) = new
  BY <1>1 DEF Reached
<1>3. \A i \in 1 .. n : id(i) \in Ids
  <2> SUFFICES ASSUME NEW i \in 1 .. n PROVE id(i) \in Ids
    OBVIOUS
  <2>0. cuts \in SUBSET (2 .. n) /\ i \in Nat
    BY DEF Cuts
  <2>1. RoundAt(round, cuts, i) \in Nat
    BY <2>0, RoundAtType
  <2>2. Len(journal) + i - 1 \in Nat
    OBVIOUS
  <2>3. e.call.id \in STRING
    BY DEF Shaped, IsExecution
  <2> HIDE DEF new
  <2> QED BY <2>1, <2>2, <2>3 DEF OpId, Ids
<1> HIDE DEF id
<1>4. \A i \in 1 .. n : /\ NewOp(id(i), args[i]) \in Steps
                        /\ NewOp(id(i), args[i]).stage # "settled"
                        /\ \A seen, approved : Fit(NewOp(id(i), args[i]), seen, approved)
  BY <1>3, NewOpFacts
<1>5. new \in [1 .. n -> Steps] /\ Len(new) = n
  BY <1>4
<1> QED BY <1>2, <1>4, <1>5 DEF IsNew

\* A suspended program holds new operations of one round.
LEMMA SuspendedFacts ==
  ASSUME NEW e, Shaped(e), IsProgram(e), NEW journal \in Seq(Entries),
         NEW new, NEW n, IsNew(e, new, n), IsRun(new), Refused(new) # DOMAIN new
  PROVE  LET r == Suspended(e, journal, new) IN
         Shaped(r) /\ r.call = e.call
           /\ \A seen, approved : Permitted(r, seen, approved)
<1> DEFINE old == Len(journal)
           more == [i \in 1 .. n |-> [id |-> new[i].id, settled |-> i \in Refused(new)]]
           rest == (1 .. n) \ Refused(new)
           ops == [k \in {old + i : i \in rest} |-> new[k - old]]
           r == Suspended(e, journal, new)
<1>1. n \in Nat /\ DOMAIN new = 1 .. n /\ new \in [1 .. n -> Steps] /\ Len(new) = n
  BY DEF IsNew
<1>2. n \in 1 .. n
  BY <1>1 DEF Refused
<1>3. /\ DOMAIN r = DOMAIN e /\ r.call = e.call /\ r.state = "program"
      /\ r.ops = ops /\ r.journal = journal \o more /\ r.round = new[n].id.round
  BY <1>1 DEF Suspended, Shaped, Fields
<1>4. more \in Seq(Entries)
  BY <1>1 DEF Steps, Entries
<1>5. journal \o more \in Seq(Entries)
  BY <1>4
<1>6. \A k \in DOMAIN ops : \E i \in rest : ops[k] = new[i]
  <2> SUFFICES ASSUME NEW i \in rest PROVE ops[old + i] = new[i]
    OBVIOUS
  <2>1. (old + i) - old = i
    BY <1>1
  <2> QED BY <2>1
<1>7. \A i \in rest : /\ new[i] \in Ops /\ new[i].id.round = new[n].id.round
                      /\ \A seen, approved : Fit(new[i], seen, approved)
  <2> SUFFICES ASSUME NEW i \in rest
               PROVE  /\ new[i] \in Ops /\ new[i].id.round = new[n].id.round
                      /\ \A seen, approved : Fit(new[i], seen, approved)
    OBVIOUS
  <2>1. new[i] \in Steps /\ new[i].stage \notin Ended
    BY <1>1 DEF Refused, Ended, IsNew
  <2>2. new[i].id.round = new[n].id.round
    BY <1>1 DEF IsRun
  <2>3. new[i] \in Ops
    BY <2>1 DEF Steps, Ops
  <2> QED BY <2>2, <2>3, <1>1 DEF IsNew
<1>8. new[n].id.round \in Nat
  BY <1>1, <1>2 DEF Steps, Ids
<1> HIDE DEF ops, more, rest, r
<1>9. /\ \A k \in DOMAIN r.ops : r.ops[k] \in Ops /\ r.ops[k].id.round = r.round
      /\ \A seen, approved : Permitted(r, seen, approved)
  BY <1>3, <1>6, <1>7 DEF Permitted
<1>10. IsExecution(r)
  BY <1>3, <1>5, <1>8, <1>9 DEF IsExecution, Shaped, Entries
<1>11. Shaped(r)
  BY <1>3, <1>9, <1>10 DEF Shaped, IsProgram
<1> QED BY <1>3, <1>9, <1>11 DEF r

\* An evaluation ends the program or suspends it with new operations.
LEMMA EvaluatedFacts ==
  ASSUME NEW e, Shaped(e), IsProgram(e), NEW journal \in Seq(Entries), NEW commits,
         NEW new, NEW n, IsNew(e, new, n), IsRun(new),
         NEW o \in Evaluated(e, journal, new, commits)
  PROVE  Shaped(o.execution) /\ Fresher(o) /\ o.execution.call = e.call
<1> DEFINE all == commits \cup {new[i].id : i \in Refused(new)}
<1>1. CASE Refused(new) = DOMAIN new
  <2>1. o \in Finalized(e, all)
    BY <1>1 DEF Evaluated
  <2> QED BY <2>1, FinalizedFacts
<1>2. CASE Refused(new) # DOMAIN new
  <2>1. o.execution = Suspended(e, journal, new)
    BY <1>2 DEF Evaluated, Outcome
  <2> QED BY <2>1, <1>2, SuspendedFacts DEF Fresher
<1> QED BY <1>1, <1>2

\* So does every run of rounds that follow a journal.
LEMMA DrivenFacts ==
  ASSUME Config, NEW e, Shaped(e), IsProgram(e), NEW journal \in Seq(Entries),
         NEW round \in Nat, NEW commits, NEW o \in Driven(e, journal, round, commits)
  PROVE  Shaped(o.execution) /\ Fresher(o) /\ o.execution.call = e.call
<1>1. PICK kept \in Replayed(journal), n \in 0 .. MaxEffects :
        \E args \in [1 .. n -> Args], cuts \in Cuts(round, n) :
          LET new == Reached(e, kept, round, args, cuts) IN
          IsRun(new) /\ o \in Evaluated(e, kept, new, commits)
  BY DEF Driven
<1>2. PICK args \in [1 .. n -> Args], cuts \in Cuts(round, n) :
        LET new == Reached(e, kept, round, args, cuts) IN
        IsRun(new) /\ o \in Evaluated(e, kept, new, commits)
  BY <1>1
<1>3. kept \in Seq(Entries)
  BY <1>1 DEF Replayed
<1>4. n \in Nat
  BY BoundAssumption
<1>5. IsNew(e, Reached(e, kept, round, args, cuts), n)
  BY <1>3, <1>4, ReachedFacts
<1> QED BY <1>2, <1>3, <1>5, EvaluatedFacts

\* What a direct call becomes: the operation it was given, or nothing.
LEMMA DirectNextFacts ==
  ASSUME NEW e, Shaped(e), ~IsProgram(e), NEW op \in Steps,
         NEW o \in DirectNext(e, op)
  PROVE  /\ Shaped(o.execution) /\ o.execution.call = e.call
         /\ \A k \in DOMAIN o.execution.ops : o.execution.ops[k] = op
<1>1. CASE op.stage = "denied"
  <2>1. o.execution = Leave(e, "done")
    BY <1>1 DEF DirectNext, Done, Outcome
  <2> QED BY <2>1, LeaveFacts
<1>2. CASE op.stage = "settled"
  <2>1. o \in Finalized(e, {})
    BY <1>2 DEF DirectNext
  <2>2. Finalized(e, {}) # {} => \A x \in Finalized(e, {}) : DOMAIN x.execution.ops = {}
    <3>1. \A x \in Finalized(e, {}) : \/ x.execution = Leave(e, "done")
                                      \/ x.execution = Leave(e, "write")
      BY DEF Finalized, Completed, Done, Outcome
    <3> QED BY <3>1, LeaveFacts
  <2> QED BY <2>1, <2>2, FinalizedFacts
<1>3. CASE op.stage \notin Ended
  <2> DEFINE r == [e EXCEPT !.ops = <<op>>]
  <2>1. o.execution = r
    BY <1>3 DEF DirectNext, Outcome, Ended
  <2>2. /\ DOMAIN r = DOMAIN e /\ r.call = e.call /\ r.state = e.state
        /\ r.ops = <<op>> /\ r.journal = e.journal /\ r.round = e.round
    BY DEF Shaped, Fields
  <2>3. \A k \in DOMAIN r.ops : r.ops[k] = op
    BY <2>2
  <2>4. op \in Ops
    BY <1>3 DEF Steps, Ops
  <2> HIDE DEF r
  <2>5. IsExecution(r)
    BY <2>2, <2>3, <2>4 DEF IsExecution, Shaped
  <2>6. Shaped(r)
    BY <2>2, <2>5 DEF Shaped, IsProgram
  <2> QED BY <2>1, <2>2, <2>3, <2>6
<1> QED BY <1>1, <1>2, <1>3 DEF Ended

\* The operations of an outcome were pending before, or advanced, or are new.
From(o, e, op) ==
  \A k \in DOMAIN o.execution.ops :
    \/ k \in DOMAIN e.ops /\ o.execution.ops[k] = e.ops[k]
    \/ o.execution.ops[k] = op
    \/ \A seen, approved : Fit(o.execution.ops[k], seen, approved)

\* A program goes on with the operation, without it, or with new ones.
LEMMA ProgramNextFacts ==
  ASSUME Config, NEW e, Shaped(e), IsProgram(e), NEW k \in DOMAIN e.ops,
         NEW op \in Steps, op.id = e.ops[k].id, e.state \in {"direct", "program"},
         NEW o \in ProgramNext(e, k, op)
  PROVE  Shaped(o.execution) /\ o.execution.call = e.call /\ From(o, e, op)
<1> DEFINE journal == [e.journal EXCEPT ![k].settled = TRUE]
           ops == [j \in DOMAIN e.ops \ {k} |-> e.ops[j]]
<1>1. e.journal \in Seq(Entries) /\ e.round \in Nat
  BY DEF Shaped, IsExecution, Entries
<1>2. journal \in Seq(Entries)
  <2>1. CASE k \in DOMAIN e.journal
    <3>1. e.journal[k] \in Entries
      BY <1>1, <2>1
    <3>2. \A x \in Entries : [x EXCEPT !.settled = TRUE] \in Entries
      BY Zenon DEF Entries
    <3>3. [e.journal[k] EXCEPT !.settled = TRUE] \in Entries
      BY <3>1, <3>2
    <3> QED BY <1>1, <2>1, <3>3
  <2>2. CASE k \notin DOMAIN e.journal
    <3>1. journal = e.journal
      BY <1>1, <2>2
    <3> QED BY <1>1, <3>1
  <2> QED BY <2>1, <2>2
<1>3. CASE op.stage \notin Ended
  <2> DEFINE r == [e EXCEPT !.ops[k] = op]
  <2>1. o.execution = r
    BY <1>3 DEF ProgramNext, Outcome
  <2>2. /\ DOMAIN r = DOMAIN e /\ r.call = e.call /\ r.state = e.state
        /\ r.journal = e.journal /\ r.round = e.round
        /\ r.ops = [e.ops EXCEPT ![k] = op]
    BY DEF Shaped, Fields
  <2>3. op \in Ops
    BY <1>3 DEF Steps, Ops
  <2>4. DOMAIN r.ops = DOMAIN e.ops
    BY <2>2
  <2>5. \A j \in DOMAIN r.ops : r.ops[j] = IF j = k THEN op ELSE e.ops[j]
    BY <2>2
  <2> HIDE DEF r
  <2>6. IsExecution(r)
    BY <2>2, <2>3, <2>4, <2>5 DEF IsExecution, Shaped
  <2>7. r.state = "program" => \A j \in DOMAIN r.ops : r.ops[j].id.round = r.round
    BY <2>2, <2>4, <2>5 DEF Shaped
  <2>8. Shaped(r)
    BY <2>2, <2>6, <2>7 DEF Shaped, IsProgram
  <2>9. From(o, e, op)
    BY <2>1, <2>4, <2>5 DEF From
  <2> QED BY <2>1, <2>2, <2>8, <2>9
<1>4. CASE op.stage \in Ended /\ DOMAIN ops # {}
  <2> DEFINE r == [e EXCEPT !.journal = journal, !.ops = ops]
  <2>1. o.execution = r
    BY <1>4 DEF ProgramNext, Outcome
  <2>2. /\ DOMAIN r = DOMAIN e /\ r.call = e.call /\ r.state = e.state
        /\ r.journal = journal /\ r.round = e.round /\ r.ops = ops
    BY DEF Shaped, Fields
  <2>3. \A j \in DOMAIN r.ops : j \in DOMAIN e.ops /\ r.ops[j] = e.ops[j]
    BY <2>2
  <2> HIDE DEF r, journal, ops
  <2>4. IsExecution(r)
    BY <1>2, <2>2, <2>3 DEF IsExecution, Shaped, Entries
  <2>5. Shaped(r)
    BY <2>2, <2>3, <2>4 DEF Shaped, IsProgram
  <2>6. From(o, e, op)
    BY <2>1, <2>3 DEF From
  <2> QED BY <2>1, <2>2, <2>5, <2>6
<1>5. CASE op.stage \in Ended /\ DOMAIN ops = {}
  <2>1. o \in Driven(e, journal, e.round + 1, {op.id})
    BY <1>5 DEF ProgramNext
  <2>0. e.round + 1 \in Nat
    BY <1>1
  <2> HIDE DEF journal
  <2>2. Shaped(o.execution) /\ Fresher(o) /\ o.execution.call = e.call
    BY <1>2, <2>0, <2>1, DrivenFacts
  <2> QED BY <2>2 DEF From, Fresher, Permitted
<1> QED BY <1>3, <1>4, <1>5

\* An answer moves one execution and leaves its shape.
LEMMA OperationNextFacts ==
  ASSUME Config, NEW e, Shaped(e), NEW k \in DOMAIN e.ops,
         NEW op \in Steps, op.id = e.ops[k].id, e.state \in {"direct", "program"},
         NEW o \in OperationNext(e, k, op)
  PROVE  Shaped(o.execution) /\ From(o, e, op)
<1>1. CASE IsProgram(e)
  BY <1>1, ProgramNextFacts DEF OperationNext
<1>2. CASE ~IsProgram(e)
  BY <1>2, DirectNextFacts DEF OperationNext, From
<1> QED BY <1>1, <1>2

\* A call starts with new operations only.
LEMMA StartedFacts ==
  ASSUME Config, NEW call \in Calls, NEW o \in Started(call)
  PROVE  Shaped(o.execution) /\ Fresher(o)
<1> DEFINE e == Fresh(call)
<1>1. /\ Fields \subseteq DOMAIN e /\ e.call = call /\ e.state = "direct"
      /\ e.ops = <<>> /\ e.journal = <<>> /\ e.round = 0
  BY DEF Fresh, Fields
<1>2. DOMAIN e.ops = {} /\ e.journal \in Seq(Entries)
  BY <1>1
<1> HIDE DEF e
<1>3. Shaped(e)
  BY <1>1, <1>2 DEF Shaped, IsExecution, Calls, Entries
<1>4. CASE call.kind \in {"invalid", "search"}
  <2>1. o.execution = Leave(e, "done")
    BY <1>4 DEF Started, Done, Outcome, e
  <2> QED BY <1>3, <2>1, LeaveFacts DEF Fresher, Permitted
<1>5. CASE call.kind = "program"
  <2> DEFINE journal == <<>>
             round == 0
             commits == {}
  <2>1. o \in Driven(e, journal, round, commits)
    BY <1>5 DEF Started, e
  <2>2. IsProgram(e)
    BY <1>1, <1>5 DEF IsProgram
  <2>3. journal \in Seq(Entries) /\ round \in Nat
    OBVIOUS
  <2> HIDE DEF journal, round, commits
  <2> QED BY <1>3, <2>1, <2>2, <2>3, DrivenFacts
<1>6. CASE call.kind \notin {"invalid", "search", "program"}
  <2> DEFINE op == NewOp(OpId(call.id, 0, 0), call.args)
  <2>1. o \in DirectNext(e, op)
    BY <1>6 DEF Started, e
  <2>2. ~IsProgram(e)
    BY <1>1, <1>6 DEF IsProgram
  <2>3. OpId(call.id, 0, 0) \in Ids /\ call.args \in Args
    BY DEF OpId, Ids, Calls
  <2>4. op \in Steps /\ \A seen, approved : Fit(op, seen, approved)
    BY <2>3, NewOpFacts
  <2> HIDE DEF op
  <2> QED BY <1>3, <2>1, <2>2, <2>4, DirectNextFacts DEF Fresher, Permitted
<1> QED BY <1>4, <1>5, <1>6

-----------------------------------------------------------------------------
(* Steps.                                                                  *)

\* A pending operation stays permitted when more is put on record.
LEMMA FitMonotone ==
  ASSUME NEW op, NEW seen, NEW approved, NEW more, NEW others,
         seen \subseteq more, approved \subseteq others, Fit(op, seen, approved)
  PROVE  Fit(op, more, others)
BY DEF Fit

\* The messages of a batch have one entry for each call.
LEMMA MessagesType ==
  ASSUME NEW b, NEW n \in Nat, DOMAIN b = 1 .. n,
         \A i \in DOMAIN b : b[i].call.id \in STRING
  PROVE  Messages(b) \in Seq([id : STRING, how : {"result", "interrupted"}])
<1> DEFINE M == [id : STRING, how : {"result", "interrupted"}]
           m(i) == [id |-> b[i].call.id,
                    how |-> IF b[i].state = "done" THEN "result" ELSE "interrupted"]
<1>1. \A i \in 1 .. n : m(i) \in M
  OBVIOUS
<1>2. Messages(b) = [i \in 1 .. n |-> m(i)]
  BY DEF Messages
<1> HIDE DEF m, M
<1>3. [i \in 1 .. n |-> m(i)] \in Seq(M)
  BY <1>1
<1> QED BY <1>2, <1>3 DEF M

\* A step that changes the batch installs sound executions.
LEMMA ResolveInv ==
  ASSUME IInv, NEW b, NEW commits, NEW done, Resolve(b, commits, done),
         config' = config, NEW n \in Nat, DOMAIN b = 1 .. n,
         \A i \in DOMAIN b : Shaped(b[i]) /\ Permitted(b[i], vetted', granted'),
         vetted' \subseteq Ids \X Args, granted' \subseteq Ids \X Args
  PROVE  IInv'
<1>1. batch' = b
  BY DEF Resolve
<1>2. phase' \in {"answered", "running"}
  BY DEF Resolve
<1>3. \A i \in DOMAIN b : b[i].call.id \in STRING
  BY DEF Shaped, IsExecution
<1>4. Messages(b) \in Seq([id : STRING, how : {"result", "interrupted"}])
  BY <1>3, MessagesType
<1>5. messages' = messages \/ messages' = Messages(b)
  BY DEF Resolve
<1>6. messages' \in Seq([id : STRING, how : {"result", "interrupted"}])
  BY <1>4, <1>5 DEF IInv
<1>7. Config'
  BY DEF IInv, Config
<1>8. \E m \in Nat : DOMAIN batch' = 1 .. m
  BY <1>1
<1>9. \A i \in DOMAIN batch' : Shaped(batch'[i]) /\ Permitted(batch'[i], vetted', granted')
  BY <1>1
<1> QED BY <1>2, <1>6, <1>7, <1>8, <1>9 DEF IInv, Permitted, Fit

\* Once an execution is replaced by a sound one, the batch is sound.
LEMMA SettleInv ==
  ASSUME IInv, NEW i \in DOMAIN batch, NEW o, Settle(i, o), config' = config,
         Shaped(o.execution), Permitted(o.execution, vetted', granted'),
         vetted \subseteq vetted', granted \subseteq granted',
         vetted' \subseteq Ids \X Args, granted' \subseteq Ids \X Args
  PROVE  IInv'
<1> DEFINE b == [batch EXCEPT ![i] = o.execution]
<1>1. Resolve(b, o.commits, o.finished)
  BY DEF Settle
<1>2. PICK n \in Nat : DOMAIN batch = 1 .. n
  BY DEF IInv
<1>3. DOMAIN b = 1 .. n
  BY <1>2
<1>4. \A j \in DOMAIN b : b[j] = IF j = i THEN o.execution ELSE batch[j]
  OBVIOUS
<1> HIDE DEF b
<1>5. \A j \in DOMAIN batch : Permitted(batch[j], vetted', granted')
  <2> SUFFICES ASSUME NEW j \in DOMAIN batch, NEW k \in DOMAIN batch[j].ops
               PROVE  Fit(batch[j].ops[k], vetted', granted')
    BY DEF Permitted
  <2>1. Fit(batch[j].ops[k], vetted, granted)
    BY DEF IInv, Permitted
  <2> QED BY <2>1, FitMonotone
<1>6. \A j \in DOMAIN b : Shaped(b[j]) /\ Permitted(b[j], vetted', granted')
  BY <1>2, <1>3, <1>4, <1>5 DEF IInv
<1> QED BY <1>1, <1>3, <1>6, ResolveInv

\* An answer that advances an operation in a permitted way keeps the invariant.
LEMMA AdvanceInv ==
  ASSUME IInv, NEW i \in DOMAIN batch, NEW k \in DOMAIN batch[i].ops,
         NEW op \in Steps, op.id = batch[i].ops[k].id,
         batch[i].state \in {"direct", "program"}, Advance(i, k, op),
         Fit(op, vetted', granted'), config' = config,
         vetted \subseteq vetted', granted \subseteq granted',
         vetted' \subseteq Ids \X Args, granted' \subseteq Ids \X Args
  PROVE  IInv'
<1>1. PICK o \in OperationNext(batch[i], k, op) : Settle(i, o)
  BY DEF Advance
<1>2. Shaped(batch[i]) /\ Config /\ Permitted(batch[i], vetted, granted)
  BY DEF IInv
<1>3. Shaped(o.execution) /\ From(o, batch[i], op)
  BY <1>2, OperationNextFacts
<1>4. Permitted(o.execution, vetted', granted')
  <2> SUFFICES ASSUME NEW j \in DOMAIN o.execution.ops
               PROVE  Fit(o.execution.ops[j], vetted', granted')
    BY DEF Permitted
  <2>1. CASE j \in DOMAIN batch[i].ops /\ o.execution.ops[j] = batch[i].ops[j]
    <3>1. Fit(batch[i].ops[j], vetted, granted)
      BY <1>2, <2>1 DEF Permitted
    <3>2. Fit(batch[i].ops[j], vetted', granted')
      BY <3>1, FitMonotone
    <3> QED BY <2>1, <3>2
  <2>2. CASE o.execution.ops[j] = op
    BY <2>2
  <2>3. CASE \A seen, approved : Fit(o.execution.ops[j], seen, approved)
    BY <2>3
  <2> QED BY <1>3, <2>1, <2>2, <2>3 DEF From
<1> QED BY <1>1, <1>3, <1>4, SettleInv

\* What is known of an operation that is answered.
LEMMA WaitsFacts ==
  ASSUME IInv, NEW i \in DOMAIN batch, NEW k \in DOMAIN batch[i].ops,
         NEW stage \in Stages, Waits(i, k, stage)
  PROVE  LET op == batch[i].ops[k] IN
         /\ op \in Ops /\ op \in Steps /\ op.id \in Ids /\ op.args \in Args
         /\ op.stage = stage /\ Fit(op, vetted, granted)
         /\ batch[i].state \in {"direct", "program"}
<1>1. batch[i].ops[k] \in Ops
  BY DEF IInv, Shaped, IsExecution
<1>2. Fit(batch[i].ops[k], vetted, granted)
  BY DEF IInv, Permitted
<1> QED BY <1>1, <1>2 DEF Waits, Ops, Steps

-----------------------------------------------------------------------------
(* The inductive invariant, one lemma for each action that is more than an  *)
(* application of the lemmas above.                                         *)

LEMMA InitInv == Init => IInv
<1> SUFFICES ASSUME Init PROVE IInv
  OBVIOUS
<1>1. DOMAIN batch = 1 .. 0
  BY DEF Init
<1>2. messages \in Seq([id : STRING, how : {"result", "interrupted"}])
  BY DEF Init
<1> QED BY <1>1, <1>2 DEF Init, IInv, Config

\* start_tool_batch: every call starts with new operations.
LEMMA StartInv == ASSUME IInv, Start PROVE IInv'
<1>1. PICK calls \in Batches :
        \E s \in [DOMAIN calls -> UNION {Started(calls[i]) : i \in DOMAIN calls}] :
          /\ \A i \in DOMAIN calls : s[i] \in Started(calls[i])
          /\ Resolve([i \in DOMAIN calls |-> s[i].execution],
                     UNION {s[i].commits : i \in DOMAIN calls},
                     UNION {s[i].finished : i \in DOMAIN calls})
  BY DEF Start
<1>2. PICK s \in [DOMAIN calls -> UNION {Started(calls[i]) : i \in DOMAIN calls}] :
        /\ \A i \in DOMAIN calls : s[i] \in Started(calls[i])
        /\ Resolve([i \in DOMAIN calls |-> s[i].execution],
                   UNION {s[i].commits : i \in DOMAIN calls},
                   UNION {s[i].finished : i \in DOMAIN calls})
  BY <1>1
<1>3. calls \in Seq(Calls)
  BY BatchAssumption DEF IsBatch, Calls
<1> DEFINE b == [i \in DOMAIN calls |-> s[i].execution]
           commits == UNION {s[i].commits : i \in DOMAIN calls}
           done == UNION {s[i].finished : i \in DOMAIN calls}
<1>4. Resolve(b, commits, done)
  BY <1>2
<1> HIDE DEF commits, done
<1>5. \A i \in DOMAIN calls : Shaped(s[i].execution) /\ Fresher(s[i])
  <2> SUFFICES ASSUME NEW i \in DOMAIN calls
               PROVE  Shaped(s[i].execution) /\ Fresher(s[i])
    OBVIOUS
  <2>1. calls[i] \in Calls /\ s[i] \in Started(calls[i]) /\ Config
    BY <1>2, <1>3 DEF IInv
  <2> QED BY <2>1, StartedFacts
<1>6. \A i \in DOMAIN b : Shaped(b[i]) /\ Permitted(b[i], vetted', granted')
  BY <1>5 DEF Fresher
<1>7. Len(calls) \in Nat /\ DOMAIN b = 1 .. Len(calls)
  BY <1>3
<1>8. config' = config /\ vetted' = vetted /\ granted' = granted
  BY DEF Start
<1> HIDE DEF b
<1> QED BY <1>4, <1>6, <1>7, <1>8, ResolveInv DEF IInv

\* A pre-tool hook puts the call it let through on record.
LEMMA PreHookInv == ASSUME IInv, PreHookAnswered PROVE IInv'
<1>1. PICK i, k :
        /\ i \in DOMAIN batch /\ k \in DOMAIN batch[i].ops
        /\ Waits(i, k, "preHook")
        /\ \E op \in AfterPreHook(batch[i].ops[k]) :
             /\ Advance(i, k, op)
             /\ vetted' = IF op.stage = "settled" THEN vetted
                          ELSE vetted \cup {<<op.id, op.args>>}
        /\ UNCHANGED <<config, granted>>
  BY DEF PreHookAnswered
<1>2. PICK op \in AfterPreHook(batch[i].ops[k]) :
        /\ Advance(i, k, op)
        /\ vetted' = IF op.stage = "settled" THEN vetted
                     ELSE vetted \cup {<<op.id, op.args>>}
  BY <1>1
<1> DEFINE old == batch[i].ops[k]
<1>3. /\ old \in Ops /\ old \in Steps /\ old.id \in Ids /\ old.args \in Args
      /\ batch[i].state \in {"direct", "program"}
  BY <1>1, WaitsFacts DEF Stages
<1> HIDE DEF old
<1>4. op \in AfterPreHook(old)
  BY <1>2 DEF old
<1>5. CASE op = [old EXCEPT !.stage = "settled"]
  <2>1. op \in Steps /\ op.id = old.id /\ op.stage = "settled"
    BY <1>3, <1>5 DEF Steps, Ended
  <2>2. Fit(op, vetted', granted')
    BY <2>1 DEF Fit
  <2> QED BY <1>1, <1>2, <1>3, <2>1, <2>2, AdvanceInv DEF old, IInv
<1>6. ASSUME NEW args \in Args, op = Admitted(old, args) PROVE IInv'
  <2>1. /\ op \in Steps /\ op.id = old.id /\ op.args = args
        /\ op.stage \in {"approval", "tool", "denied"}
        /\ op.stage = "approval" => Policy[args] = "ask"
        /\ op.stage = "tool" => Policy[args] = "allow"
    BY <1>3, <1>6, AdmittedFacts
  <2>2. vetted' = vetted \cup {<<op.id, op.args>>}
    BY <1>2, <2>1
  <2>3. Fit(op, vetted', granted')
    BY <2>1, <2>2 DEF Fit
  <2>4. vetted' \subseteq Ids \X Args
    BY <1>3, <2>1, <2>2 DEF IInv
  <2> QED BY <1>1, <1>2, <1>3, <2>1, <2>2, <2>3, <2>4, AdvanceInv DEF old, IInv
<1> QED BY <1>4, <1>5, <1>6 DEF AfterPreHook

\* An approval puts the call it approved on record; the policy left it to ask.
LEMMA ApprovalInv == ASSUME IInv, ApprovalAnswered PROVE IInv'
<1>1. PICK i, k :
        /\ i \in DOMAIN batch /\ k \in DOMAIN batch[i].ops
        /\ Waits(i, k, "approval")
        /\ \E op \in AfterApproval(batch[i].ops[k]) :
             /\ Advance(i, k, op)
             /\ granted' = IF op.stage = "denied" THEN granted
                           ELSE granted \cup {<<op.id, op.args>>}
        /\ UNCHANGED <<config, vetted>>
  BY DEF ApprovalAnswered
<1>2. PICK op \in AfterApproval(batch[i].ops[k]) :
        /\ Advance(i, k, op)
        /\ granted' = IF op.stage = "denied" THEN granted
                      ELSE granted \cup {<<op.id, op.args>>}
  BY <1>1
<1> DEFINE old == batch[i].ops[k]
<1>3. /\ old \in Ops /\ old \in Steps /\ old.id \in Ids /\ old.args \in Args
      /\ old.stage = "approval" /\ Fit(old, vetted, granted)
      /\ batch[i].state \in {"direct", "program"}
  BY <1>1, WaitsFacts DEF Stages
<1> HIDE DEF old
<1>4. op \in AfterApproval(old)
  BY <1>2 DEF old
<1>5. op \in Steps /\ op.id = old.id /\ op.args = old.args /\ op.stage \in {"tool", "denied"}
  BY <1>3, <1>4 DEF AfterApproval, Steps, Ended, Stages
<1>6. granted \subseteq granted' /\ granted' \subseteq Ids \X Args
  BY <1>2, <1>3, <1>5 DEF IInv
<1>7. op.stage = "tool" => <<op.id, op.args>> \in granted'
  BY <1>2, <1>5
<1>8. Fit(op, vetted', granted')
  BY <1>1, <1>3, <1>5, <1>7 DEF Fit
<1> QED BY <1>1, <1>2, <1>3, <1>5, <1>6, <1>8, AdvanceInv DEF old, IInv

\* The result of a tool goes to the post-tool hook of the same call, or is final.
LEMMA ToolInv == ASSUME IInv, ToolAnswered PROVE IInv'
<1>1. PICK i, k :
        /\ i \in DOMAIN batch /\ k \in DOMAIN batch[i].ops
        /\ Waits(i, k, "tool")
        /\ \E op \in AfterTool(batch[i].ops[k]) : Advance(i, k, op)
        /\ UNCHANGED <<config, vetted, granted>>
  BY DEF ToolAnswered
<1>2. PICK op \in AfterTool(batch[i].ops[k]) : Advance(i, k, op)
  BY <1>1
<1> DEFINE old == batch[i].ops[k]
<1>3. /\ old \in Ops /\ old \in Steps /\ old.id \in Ids /\ old.args \in Args
      /\ old.stage = "tool" /\ Fit(old, vetted, granted)
      /\ batch[i].state \in {"direct", "program"}
  BY <1>1, WaitsFacts DEF Stages
<1> HIDE DEF old
<1>4. op \in AfterTool(old)
  BY <1>2 DEF old
<1>5. op \in Steps /\ op.id = old.id /\ op.args = old.args /\ op.stage \in {"postHook", "settled"}
  BY <1>3, <1>4 DEF AfterTool, Steps, Ended, Stages
<1>6. Fit(op, vetted', granted')
  BY <1>1, <1>3, <1>5 DEF Fit
<1> QED BY <1>1, <1>2, <1>3, <1>5, <1>6, AdvanceInv DEF old, IInv

LEMMA PostHookInv == ASSUME IInv, PostHookAnswered PROVE IInv'
<1>1. PICK i, k :
        /\ i \in DOMAIN batch /\ k \in DOMAIN batch[i].ops
        /\ Waits(i, k, "postHook")
        /\ \E op \in AfterPostHook(batch[i].ops[k]) : Advance(i, k, op)
        /\ UNCHANGED <<config, vetted, granted>>
  BY DEF PostHookAnswered
<1>2. PICK op \in AfterPostHook(batch[i].ops[k]) : Advance(i, k, op)
  BY <1>1
<1> DEFINE old == batch[i].ops[k]
<1>3. old \in Steps /\ batch[i].state \in {"direct", "program"}
  BY <1>1, WaitsFacts DEF Stages
<1> HIDE DEF old
<1>4. op \in AfterPostHook(old)
  BY <1>2 DEF old
<1>5. op \in Steps /\ op.id = old.id /\ op.stage = "settled"
  BY <1>3, <1>4 DEF AfterPostHook, Steps, Ended
<1>6. Fit(op, vetted', granted')
  BY <1>5 DEF Fit
<1> QED BY <1>1, <1>2, <1>3, <1>5, <1>6, AdvanceInv DEF old, IInv

LEMMA WriteInv == ASSUME IInv, WriteAnswered PROVE IInv'
<1>1. PICK i \in DOMAIN batch : /\ Settle(i, Completed(batch[i], {}))
                                /\ UNCHANGED <<config, vetted, granted>>
  BY DEF WriteAnswered
<1>2. Completed(batch[i], {}).execution = Leave(batch[i], "done")
  BY DEF Completed, Done, Outcome
<1>3. Shaped(batch[i])
  BY DEF IInv
<1>4. /\ Shaped(Completed(batch[i], {}).execution)
      /\ Permitted(Completed(batch[i], {}).execution, vetted', granted')
  BY <1>2, <1>3, LeaveFacts DEF Permitted
<1> QED BY <1>1, <1>4, SettleInv DEF IInv

LEMMA StopInv == ASSUME IInv, Stop PROVE IInv'
<1>1. PICK n \in Nat : DOMAIN batch = 1 .. n
  BY DEF IInv
<1>2. \A i \in DOMAIN batch : batch[i].call.id \in STRING
  BY DEF IInv, Shaped, IsExecution
<1>3. messages' \in Seq([id : STRING, how : {"result", "interrupted"}])
  BY <1>1, <1>2, MessagesType DEF Stop
<1>4. phase' = "stopped" /\ config' = config /\ batch' = batch
      /\ vetted' = vetted /\ granted' = granted
  BY DEF Stop
<1>5. \A i \in DOMAIN batch : Shaped(batch[i]) /\ Permitted(batch[i], vetted, granted)'
  BY <1>4 DEF IInv, Permitted, Fit
<1> QED BY <1>3, <1>4, <1>5 DEF IInv, Config

LEMMA NextInv == IInv /\ [Next]_vars => IInv'
<1> SUFFICES ASSUME IInv, [Next]_vars PROVE IInv'
  OBVIOUS
<1>1. CASE Start BY <1>1, StartInv
<1>2. CASE PreHookAnswered BY <1>2, PreHookInv
<1>3. CASE ApprovalAnswered BY <1>3, ApprovalInv
<1>4. CASE ToolAnswered BY <1>4, ToolInv
<1>5. CASE PostHookAnswered BY <1>5, PostHookInv
<1>6. CASE WriteAnswered BY <1>6, WriteInv
<1>7. CASE Stop BY <1>7, StopInv
<1>8. CASE UNCHANGED vars
  BY <1>8 DEF vars, told, IInv, Config, Permitted, Fit
<1> QED BY <1>1, <1>2, <1>3, <1>4, <1>5, <1>6, <1>7, <1>8 DEF Next, Answer

-----------------------------------------------------------------------------
\* Whatever the batch, the policy and the answers, the invariant holds.
THEOREM BatchSound == Spec => []IInv
BY InitInv, NextInv, PTL DEF Spec

\* Every variable keeps its type (batch.rs, mod.rs 20-67).
THEOREM BatchTyped == Spec => []TypeOK
<1>1. IInv => TypeOK
  <2> SUFFICES ASSUME IInv PROVE TypeOK
    OBVIOUS
  <2>1. DOMAIN batch \subseteq Nat
    BY DEF IInv
  <2> QED BY <2>1 DEF IInv, TypeOK, Config, Shaped
<1> QED BY <1>1, BatchSound, PTL

\* No tool runs with arguments that the policy denies, that the user did not
\* approve where he is to be asked, or that the pre-tool hooks did not see
\* (batch.rs 130-186, 743-800; execution.rs 226-255, 540-570).
THEOREM NothingUnpermittedHolds == Spec => []NothingUnpermitted
<1>1. IInv => NothingUnpermitted
  BY DEF IInv, NothingUnpermitted, Permitted, Fit, Cleared
<1> QED BY <1>1, BatchSound, PTL

\* The pending operations of a program are those of its last evaluation
\* (state.rs 538-547, execution.rs 179-315).
THEOREM OneRoundHolds == Spec => []OneRoundAtATime
<1>1. IInv => OneRoundAtATime
  BY DEF IInv, OneRoundAtATime, Shaped
<1> QED BY <1>1, BatchSound, PTL

-----------------------------------------------------------------------------
(* The books of a batch: what is observed and what was ever pending, next   *)
(* to what its executions wait for.                                         *)

\* The kinds of actions an operation may have had when it is at this stage.
Upto(stage) ==
  {"preHook"} \cup (IF stage = "preHook" THEN {} ELSE {"approval"})
    \cup (IF stage \in {"preHook", "approval"} THEN {} ELSE {"tool"})
    \cup (IF stage = "postHook" THEN {"postHook"} ELSE {})

DirectBooked(e, commits, ids) ==
  /\ ~IsProgram(e)
  /\ DOMAIN e.ops = {1} /\ e.ops[1].id = OpId(e.call.id, 0, 0)
  /\ \A id \in commits : id.call # e.call.id
  /\ \A a \in ids : a.op.call = e.call.id => a.kind \in Upto(e.ops[1].stage)

\* The journal of a program holds its operations of this round and of those
\* before it, the settled ones are committed, the others are pending.
JournalBooked(journal, call, round, commits) ==
  /\ \A k \in DOMAIN journal : journal[k].id.call = call /\ journal[k].id.round <= round
  /\ \A k, l \in DOMAIN journal : journal[k].id = journal[l].id => k = l
  /\ \A k \in DOMAIN journal : journal[k].settled => journal[k].id \in commits

RoundsUpto(call, round, commits, ids) ==
  /\ \A id \in commits : id.call = call => id.round \in Nat /\ id.round <= round
  /\ \A a \in ids : a.op.call = call => a.kind # "write" /\ a.op.round \in Nat /\ a.op.round <= round

ProgramBooked(e, commits, ids) ==
  /\ DOMAIN e.ops # {}
  /\ DOMAIN e.ops = {k \in DOMAIN e.journal : ~e.journal[k].settled}
  /\ \A k \in DOMAIN e.ops : e.ops[k].id = e.journal[k].id /\ e.ops[k].id \notin commits
  /\ JournalBooked(e.journal, e.call.id, e.round, commits)
  /\ RoundsUpto(e.call.id, e.round, commits, ids)
  /\ \A a \in ids, k \in DOMAIN e.ops : a.op = e.ops[k].id => a.kind \in Upto(e.ops[k].stage)

Booked(e, commits, done, ids) ==
  /\ e.state = "done" <=> e.call.id \in done
  /\ e.state = "direct" => DirectBooked(e, commits, ids)
  /\ e.state = "program" => ProgramBooked(e, commits, ids)
  /\ e.state \in {"direct", "write", "done"} => e.journal = <<>>
  /\ e.state \in {"write", "done"} => e.ops = <<>>
  /\ e.state = "write" /\ ~IsProgram(e) => \A id \in commits : id.call # e.call.id

OnlyOnce(bag) == \A x \in DOMAIN bag : bag[x] = 1

Books ==
  /\ \A i, j \in DOMAIN batch : batch[i].call.id = batch[j].call.id => i = j
  /\ OnlyOnce(committed) /\ OnlyOnce(finished)
  /\ \A i \in DOMAIN batch : Booked(batch[i], DOMAIN committed, DOMAIN finished, issued)
  /\ Pending(batch) \subseteq issued
  /\ phase = "idle" => issued = {} /\ DOMAIN committed = {} /\ DOMAIN finished = {}
  /\ phase = "running" => ~AllDone(batch)

\* What an outcome adds to the books is new, about its call, and true.
Moves(o, e, commits, done, ids) ==
  /\ o.execution.call = e.call
  /\ Booked(o.execution, commits \cup o.commits, done \cup o.finished, ids \cup PendingOf(o.execution))
  /\ o.commits \cap commits = {} /\ o.finished \cap done = {}
  /\ (PendingOf(o.execution) \ PendingOf(e)) \cap ids = {}
  /\ \A id \in o.commits : id.call = e.call.id
  /\ o.finished \subseteq {e.call.id}
  /\ \A a \in PendingOf(o.execution) : a.op.call = e.call.id

LEMMA AddedOnce ==
  ASSUME NEW bag, NEW more, OnlyOnce(bag), DOMAIN bag \cap more = {}
  PROVE  LET sum == bag (+) SetToBag(more) IN
         OnlyOnce(sum) /\ DOMAIN sum = DOMAIN bag \cup more
BY DEF OnlyOnce, SetToBag, (+)

\* The books about one call are left alone by another.
LEMMA BookedElsewhere ==
  ASSUME NEW e, NEW commits, NEW done, NEW ids, Booked(e, commits, done, ids),
         NEW moreCommits, NEW moreDone, NEW moreIds,
         \A id \in moreCommits : id.call # e.call.id,
         e.call.id \notin moreDone,
         \A a \in moreIds : a.op.call # e.call.id,
         e.state = "program" => \A k \in DOMAIN e.ops : e.ops[k].id.call = e.call.id
  PROVE  Booked(e, commits \cup moreCommits, done \cup moreDone, ids \cup moreIds)
<1>1. CASE e.state = "program"
  <2>1. ProgramBooked(e, commits, ids)
    BY <1>1 DEF Booked
  <2>2. JournalBooked(e.journal, e.call.id, e.round, commits \cup moreCommits)
    BY <2>1 DEF ProgramBooked, JournalBooked
  <2>3. RoundsUpto(e.call.id, e.round, commits \cup moreCommits, ids \cup moreIds)
    BY <2>1 DEF ProgramBooked, RoundsUpto
  <2>4. \A k \in DOMAIN e.ops : e.ops[k].id = e.journal[k].id /\ e.ops[k].id \notin commits \cup moreCommits
    BY <2>1, <1>1 DEF ProgramBooked
  <2>5. \A a \in ids \cup moreIds, k \in DOMAIN e.ops : a.op = e.ops[k].id => a.kind \in Upto(e.ops[k].stage)
    BY <2>1, <1>1 DEF ProgramBooked
  <2>6. ProgramBooked(e, commits \cup moreCommits, ids \cup moreIds)
    BY <2>1, <2>2, <2>3, <2>4, <2>5 DEF ProgramBooked
  <2> QED BY <2>6, <1>1 DEF Booked
<1>2. CASE e.state # "program"
  BY <1>2 DEF Booked, DirectBooked
<1> QED BY <1>1, <1>2

-----------------------------------------------------------------------------
(* The rounds of an evaluation.                                            *)

LEMMA RoundAtGrows ==
  ASSUME NEW round \in Nat, NEW n \in Nat, NEW cuts \in SUBSET (2 .. n), NEW i \in 1 .. n
  PROVE  /\ RoundAt(round, cuts, i) \in Nat
         /\ round <= RoundAt(round, cuts, i)
         /\ RoundAt(round, cuts, i) <= RoundAt(round, cuts, n)
<1> DEFINE S == {c \in cuts : c <= i}
           T == {c \in cuts : c <= n}
<1>0. \A c \in cuts : c \in 2 .. n
  OBVIOUS
<1>1. S \subseteq T /\ T \subseteq 2 .. n
  <2>1. \A c \in cuts : c \in Int /\ c <= n
    BY <1>0
  <2> QED BY <1>0, <2>1
<1>2. IsFiniteSet(2 .. n)
  BY FS_Interval
<1>3. IsFiniteSet(T) /\ IsFiniteSet(S)
  BY <1>1, <1>2, FS_Subset
<1>4. Cardinality(S) \in Nat /\ Cardinality(T) \in Nat /\ Cardinality(S) <= Cardinality(T)
  BY <1>1, <1>3, FS_Subset, FS_CardinalityType
<1> HIDE DEF S, T
<1>5. /\ round + Cardinality(S) \in Nat /\ round <= round + Cardinality(S)
      /\ round + Cardinality(S) <= round + Cardinality(T)
  BY <1>4
<1> QED BY <1>5 DEF RoundAt, S, T

\* The operations an evaluation reaches have names of their own, in rounds
\* that are not over.
Named(e, journal, round, new, n) ==
  /\ \A i \in 1 .. n : /\ new[i].id \in Ids /\ new[i].id.call = e.call.id
                       /\ new[i].id.index = Len(journal) + i - 1
                       /\ round <= new[i].id.round /\ new[i].id.round <= new[n].id.round

LEMMA ReachedNamed ==
  ASSUME Config, NEW e, Shaped(e), NEW journal \in Seq(Entries), NEW round \in Nat,
         NEW n \in Nat, NEW args \in [1 .. n -> Args], NEW cuts \in Cuts(round, n)
  PROVE  Named(e, journal, round, Reached(e, journal, round, args, cuts), n)
<1> DEFINE id(i) == OpId(e.call.id, RoundAt(round, cuts, i), Len(journal) + i - 1)
           new == [i \in 1 .. n |-> NewOp(id(i), args[i])]
<1>1. Len(args) = n
  OBVIOUS
<1>2. Reached(e, journal, round, args, cuts) = new
  BY <1>1 DEF Reached
<1>3. cuts \in SUBSET (2 .. n)
  BY DEF Cuts
<1>4. \A i \in 1 .. n : /\ RoundAt(round, cuts, i) \in Nat
                        /\ round <= RoundAt(round, cuts, i)
                        /\ RoundAt(round, cuts, i) <= RoundAt(round, cuts, n)
  BY <1>3, RoundAtGrows
<1>5. \A i \in 1 .. n : Len(journal) + i - 1 \in Nat
  OBVIOUS
<1>6. e.call.id \in STRING
  BY DEF Shaped, IsExecution
<1>7. \A i \in 1 .. n : /\ id(i) \in Ids /\ id(i).call = e.call.id
                        /\ id(i).index = Len(journal) + i - 1 /\ id(i).round = RoundAt(round, cuts, i)
  BY <1>4, <1>5, <1>6 DEF OpId, Ids
<1> HIDE DEF id
<1>8. \A i \in 1 .. n : new[i].id = id(i)
  BY <1>7, NewOpFacts
<1>9. \A i \in 1 .. n : n \in 1 .. n
  OBVIOUS
<1> HIDE DEF new
<1>10. Named(e, journal, round, new, n)
  BY <1>4, <1>7, <1>8, <1>9 DEF Named
<1> QED BY <1>2, <1>10

-----------------------------------------------------------------------------
(* What an evaluation does to the books.                                   *)

\* Before an execution is left: it is not finished, nothing was written, and
\* what it commits now is new.
Leaving(e, fresh, commits, done, ids) ==
  /\ e.call.id \notin done
  /\ \A id \in fresh : id.call = e.call.id
  /\ fresh \cap commits = {}
  /\ \A a \in ids : a.op.call = e.call.id => a.kind # "write"
  /\ ~IsProgram(e) => fresh = {} /\ \A id \in commits : id.call # e.call.id

LEMMA LeaveIs ==
  ASSUME NEW e, Shaped(e), NEW state
  PROVE  LET r == Leave(e, state) IN
         /\ r.call = e.call /\ r.state = state /\ r.ops = <<>> /\ r.journal = <<>>
         /\ IsProgram(r) = IsProgram(e)
BY DEF Leave, Shaped, Fields, IsProgram

LEMMA FinalizedMoves ==
  ASSUME NEW e, Shaped(e), NEW fresh, NEW commits, NEW done, NEW ids,
         Leaving(e, fresh, commits, done, ids), NEW o \in Finalized(e, fresh)
  PROVE  Moves(o, e, commits, done, ids)
<1>1. CASE o = Completed(e, fresh)
  <2>1. /\ o.execution = Leave(e, "done") /\ o.finished = {e.call.id}
        /\ o.commits = fresh \cup IF IsProgram(e) THEN {} ELSE {OpId(e.call.id, 0, 0)}
    BY <1>1, LeaveIs DEF Completed, Done, Outcome
  <2>2. PendingOf(o.execution) = {}
    BY <2>1, LeaveIs DEF PendingOf
  <2>3. \A id \in o.commits : id.call = e.call.id /\ id \notin commits
    <3>1. OpId(e.call.id, 0, 0).call = e.call.id
      BY DEF OpId
    <3> QED BY <2>1, <3>1 DEF Leaving
  <2>4. o.finished \cap done = {}
    BY <2>1 DEF Leaving
  <2>5. Booked(o.execution, commits \cup o.commits, done \cup o.finished, ids \cup PendingOf(o.execution))
    BY <2>1, LeaveIs DEF Booked
  <2> QED BY <2>1, <2>2, <2>3, <2>4, <2>5, LeaveIs DEF Moves
<1>2. CASE o = Outcome(Leave(e, "write"), fresh, FALSE)
  <2>1. o.execution = Leave(e, "write") /\ o.finished = {} /\ o.commits = fresh
    BY <1>2 DEF Outcome
  <2>2. PendingOf(o.execution) = {ActionId(o.execution, "write", OpId(e.call.id, 0, 0))}
    BY <2>1, LeaveIs DEF PendingOf
  <2>3. \A a \in PendingOf(o.execution) : a.kind = "write" /\ a.op.call = e.call.id
    BY <2>2 DEF ActionId, OpId
  <2>4. PendingOf(o.execution) \cap ids = {}
    BY <2>3 DEF Leaving
  <2>5. Booked(o.execution, commits \cup o.commits, done \cup o.finished, ids \cup PendingOf(o.execution))
    BY <2>1, LeaveIs DEF Booked, Leaving
  <2> QED BY <2>1, <2>3, <2>4, <2>5, LeaveIs DEF Moves, Leaving
<1> QED BY <1>1, <1>2 DEF Finalized

\* Before a program is evaluated: what it replays is settled and committed,
\* and belongs to rounds that are over.
Evaluating(e, journal, round, fresh, commits, done, ids) ==
  /\ Leaving(e, fresh, commits, done, ids)
  /\ \A k \in DOMAIN journal : journal[k].settled
  /\ JournalBooked(journal, e.call.id, round - 1, commits \cup fresh)
  /\ RoundsUpto(e.call.id, round - 1, commits \cup fresh, ids)

LEMMA SuspendedMoves ==
  ASSUME NEW e, Shaped(e), IsProgram(e), NEW journal \in Seq(Entries), NEW round \in Nat, NEW fresh,
         NEW commits, NEW done, NEW ids, Evaluating(e, journal, round, fresh, commits, done, ids),
         NEW new, NEW n, IsNew(e, new, n), Named(e, journal, round, new, n),
         Refused(new) # DOMAIN new, NEW o,
         o = Outcome(Suspended(e, journal, new), fresh \cup {new[i].id : i \in Refused(new)}, FALSE)
  PROVE  Moves(o, e, commits, done, ids)
<1> DEFINE old == Len(journal)
           more == [i \in 1 .. n |-> [id |-> new[i].id, settled |-> i \in Refused(new)]]
           rest == (1 .. n) \ Refused(new)
           ops == [k \in {old + i : i \in rest} |-> new[k - old]]
           all == journal \o more
           r == Suspended(e, journal, new)
           last == new[n].id.round
           refused == {new[i].id : i \in Refused(new)}
           now == commits \cup (fresh \cup refused)
<1>1. n \in Nat /\ DOMAIN new = 1 .. n /\ new \in [1 .. n -> Steps] /\ Len(new) = n
  BY DEF IsNew
<1>2. n \in 1 .. n
  BY <1>1 DEF Refused
<1>3. /\ r.call = e.call /\ r.state = "program"
      /\ r.ops = ops /\ r.journal = all /\ r.round = last
  BY <1>1 DEF Suspended, Shaped, Fields
<1>4. /\ old \in Nat /\ DOMAIN journal = 1 .. old
      /\ DOMAIN all = 1 .. old + n
      /\ \A k \in 1 .. old : all[k] = journal[k]
      /\ \A i \in 1 .. n : all[old + i] = more[i]
  <2>1. more \in Seq(Entries) /\ Len(more) = n
    BY <1>1 DEF Steps, Entries
  <2> HIDE DEF more
  <2>2. /\ all \in Seq(Entries) /\ Len(all) = Len(journal) + Len(more)
        /\ \A k \in 1 .. Len(journal) : all[k] = journal[k]
        /\ \A i \in 1 .. Len(more) : all[Len(journal) + i] = more[i]
    BY <2>1
  <2> HIDE DEF all
  <2>3. old \in Nat /\ DOMAIN journal = 1 .. old
    OBVIOUS
  <2> QED BY <2>1, <2>2, <2>3
<1>5. \A i \in 1 .. n : more[i].id = new[i].id /\ more[i].settled = (i \in Refused(new))
  OBVIOUS
<1>6. \A i \in 1 .. n : /\ new[i].id \in Ids /\ new[i].id.call = e.call.id
                        /\ new[i].id.index = old + i - 1
                        /\ round <= new[i].id.round /\ new[i].id.round <= last /\ new[i].id.round \in Nat
                        /\ new[i].stage # "settled"
  BY DEF Named, Ids, IsNew
<1>7. /\ DOMAIN ops = {old + i : i \in rest}
      /\ \A i \in rest : ops[old + i] = new[i] /\ old + i \in DOMAIN ops
  <2>1. \A i \in rest : (old + i) - old = i
    BY <1>1, <1>4
  <2> QED BY <2>1
<1>8. /\ \A k \in 1 .. old : /\ journal[k].settled /\ journal[k].id.call = e.call.id /\ journal[k].id.round <= round - 1
                             /\ journal[k].id.round \in Nat /\ journal[k].id \in commits \cup fresh
      /\ \A k, l \in 1 .. old : journal[k].id = journal[l].id => k = l
  <2>1. \A k \in 1 .. old : journal[k] \in Entries
    BY <1>4
  <2> QED BY <2>1, <1>4 DEF Evaluating, JournalBooked, Entries, Ids
<1>9. \A k \in 1 .. old + n : k \in 1 .. old \/ \E i \in 1 .. n : k = old + i
  <2> SUFFICES ASSUME NEW k \in 1 .. old + n, k \notin 1 .. old
               PROVE  k - old \in 1 .. n /\ k = old + (k - old)
    OBVIOUS
  <2> QED BY <1>1, <1>4
<1>10. \A i \in 1 .. n : new[i].id \notin commits /\ new[i].id \notin fresh
  <2>1. \A id \in commits \cup fresh : id.call = e.call.id => id.round \in Nat /\ id.round <= round - 1
    BY DEF Evaluating, RoundsUpto
  <2> QED BY <2>1, <1>6
<1>11. \A a \in ids : a.op.call = e.call.id => a.kind # "write" /\ a.op.round \in Nat /\ a.op.round <= round - 1
  BY DEF Evaluating, RoundsUpto
<1> HIDE DEF all, more, ops, r, refused
<1>21. \A i \in 1 .. n : old + i \in 1 .. old + n /\ old + i \notin 1 .. old
  BY <1>1, <1>4
<1>22. \A i \in 1 .. n : all[old + i].id = new[i].id
  BY <1>4, <1>5
<1>23. \A i \in 1 .. n : all[old + i].settled <=> i \in Refused(new)
  <2> SUFFICES ASSUME NEW i \in 1 .. n PROVE all[old + i].settled <=> i \in Refused(new)
    OBVIOUS
  <2>1. all[old + i] = more[i] /\ more[i].settled = (i \in Refused(new))
    BY <1>4, <1>5
  <2> QED BY Zenon, <2>1
<1>24. \A i \in Refused(new) : i \in 1 .. n
  BY <1>1 DEF Refused
<1>12. JournalBooked(all, e.call.id, last, now)
  <2>1. ASSUME NEW k \in 1 .. old + n
        PROVE  /\ all[k].id.call = e.call.id /\ all[k].id.round <= last
               /\ all[k].settled => all[k].id \in now
    <3>1. CASE k \in 1 .. old
      <4>1. last \in Nat /\ round <= last
        BY <1>2, <1>6
      <4> QED BY <3>1, <4>1, <1>4, <1>8
    <3>2. ASSUME NEW i \in 1 .. n, k = old + i
          PROVE  /\ all[k].id.call = e.call.id /\ all[k].id.round <= last
                 /\ all[k].settled => all[k].id \in now
      <4>1. all[k].id = new[i].id /\ (all[k].settled <=> i \in Refused(new))
        BY <3>2, <1>22, <1>23
      <4>2. i \in Refused(new) => new[i].id \in now
        BY DEF refused
      <4>3. new[i].id.call = e.call.id /\ new[i].id.round <= last
        BY <1>6
      <4> QED BY Zenon, <4>1, <4>2, <4>3
    <3> QED BY <1>9, <3>1, <3>2
  <2>2. ASSUME NEW k \in 1 .. old + n, NEW l \in 1 .. old + n, all[k].id = all[l].id
        PROVE  k = l
    <3>1. CASE k \in 1 .. old /\ l \in 1 .. old
      BY <2>2, <3>1, <1>4, <1>8
    <3>2. ASSUME NEW i \in 1 .. n, NEW j \in 1 .. n, k = old + i, l = old + j
          PROVE  k = l
      <4>1. new[i].id = new[j].id
        BY <2>2, <3>2, <1>4, <1>5
      <4>2. old + i - 1 = old + j - 1
        BY <4>1, <1>6
      <4> QED BY <3>2, <4>2, <1>1, <1>4
    <3>3. ASSUME NEW i \in 1 .. n, NEW h \in 1 .. old
          PROVE  all[h].id # all[old + i].id
      <4>1. all[h].id = journal[h].id /\ all[old + i].id = new[i].id
        BY <1>4, <1>22
      <4>2. journal[h].id.round <= round - 1 /\ journal[h].id.round \in Nat
        BY <1>8
      <4>3. round <= new[i].id.round /\ new[i].id.round \in Nat
        BY <1>6
      <4>4. journal[h].id.round # new[i].id.round
        BY <4>2, <4>3
      <4> QED BY <4>1, <4>4
    <3> QED BY <2>2, <1>9, <3>1, <3>2, <3>3
  <2> QED BY <2>1, <2>2, <1>4 DEF JournalBooked
<1>13. DOMAIN ops = {k \in DOMAIN all : ~all[k].settled}
  <2>1. ASSUME NEW k \in 1 .. old + n, ~all[k].settled
        PROVE  k \in DOMAIN ops
    <3>1. k \notin 1 .. old
      BY <2>1, <1>4, <1>8
    <3>2. PICK i \in 1 .. n : k = old + i
      BY <3>1, <1>9
    <3>3. i \notin Refused(new)
      BY <2>1, <3>2, <1>4, <1>5
    <3> QED BY <3>2, <3>3, <1>7
  <2>2. ASSUME NEW i \in rest
        PROVE  old + i \in 1 .. old + n /\ ~all[old + i].settled
    BY <1>21, <1>23
  <2>3. \A k \in DOMAIN ops : \E i \in rest : k = old + i
    BY <1>7
  <2>4. \A k \in DOMAIN ops : k \in DOMAIN all /\ ~all[k].settled
    BY <2>2, <2>3, <1>4
  <2>5. \A k \in DOMAIN all : ~all[k].settled => k \in DOMAIN ops
    BY <2>1, <1>4
  <2> QED BY <2>4, <2>5
<1>14. ASSUME NEW k \in DOMAIN ops
       PROVE  /\ ops[k].id = all[k].id /\ ops[k].id \notin now
              /\ \E i \in rest : ops[k] = new[i]
  <2>1. PICK i \in rest : k = old + i
    BY <1>7
  <2>2. ops[k] = new[i] /\ all[k].id = new[i].id
    BY <2>1, <1>4, <1>5, <1>7
  <2>3. new[i].id \notin refused
    <3>1. ASSUME NEW j \in Refused(new), new[j].id = new[i].id
          PROVE  FALSE
      <4>1. j \in 1 .. n /\ j # i
        BY <1>1 DEF Refused
      <4>2. old + i - 1 = old + j - 1
        BY <3>1, <4>1, <1>6
      <4> QED BY <4>1, <4>2, <1>1, <1>4
    <3> QED BY <3>1 DEF refused
  <2> QED BY <2>1, <2>2, <2>3, <1>10
<1>15. PendingOf(r) = {ActionId(r, ops[k].stage, ops[k].id) : k \in DOMAIN ops}
  BY <1>3 DEF PendingOf
<1>16. ASSUME NEW a \in PendingOf(r)
       PROVE  /\ \E i \in rest : a.kind = new[i].stage /\ a.op = new[i].id
              /\ a.op.call = e.call.id /\ a.kind # "write" /\ a.op.round \in Nat /\ a.op.round <= last
              /\ a \notin ids
  <2>1. PICK k \in DOMAIN ops : a = ActionId(r, ops[k].stage, ops[k].id)
    BY <1>15
  <2>2. PICK i \in rest : ops[k] = new[i]
    BY <1>14
  <2>3. a.kind = new[i].stage /\ a.op = new[i].id
    BY <2>1, <2>2 DEF ActionId
  <2>4. new[i] \in Steps /\ i \in 1 .. n
    BY <1>1
  <2>5. new[i].stage # "write"
    BY <2>4 DEF Steps, Stages, Ended
  <2>6. a.op.round >= round
    BY <2>3, <1>6
  <2>7. a \notin ids
    BY <2>3, <2>4, <2>6, <1>6, <1>11
  <2> QED BY <2>3, <2>4, <2>5, <2>7, <1>6
<1>17. ProgramBooked(r, now, ids \cup PendingOf(r))
  <2>1. RoundsUpto(e.call.id, last, now, ids \cup PendingOf(r))
    <3>1. last \in Nat /\ round <= last
      BY <1>2, <1>6
    <3>2. \A id \in commits \cup fresh : id.call = e.call.id => id.round \in Nat /\ id.round <= round - 1
      BY DEF Evaluating, RoundsUpto
    <3>3. \A id \in refused : id.round \in Nat /\ id.round <= last
      BY <1>1, <1>6 DEF refused, Refused
    <3>4. \A id \in now : id.call = e.call.id => id.round \in Nat /\ id.round <= last
      BY <3>1, <3>2, <3>3
    <3>5. \A a \in ids \cup PendingOf(r) : a.op.call = e.call.id =>
             a.kind # "write" /\ a.op.round \in Nat /\ a.op.round <= last
      BY <3>1, <1>11, <1>16
    <3> QED BY <3>4, <3>5 DEF RoundsUpto
  <2>2. ASSUME NEW a \in ids \cup PendingOf(r), NEW k \in DOMAIN ops, a.op = ops[k].id
        PROVE  a.kind \in Upto(ops[k].stage)
    <3>1. PICK i \in rest : ops[k] = new[i]
      BY <1>14
    <3>2. i \in 1 .. n /\ new[i] \in Steps /\ new[i].stage \notin Ended
      BY <1>1 DEF Refused, Ended, IsNew
    <3>3. a \notin ids
      BY <2>2, <3>1, <3>2, <1>6, <1>11
    <3>4. PICK j \in rest : a.kind = new[j].stage /\ a.op = new[j].id
      BY <2>2, <3>3, <1>16
    <3>5. i = j
      <4>1. old + i - 1 = old + j - 1
        BY <2>2, <3>1, <3>4, <1>6
      <4> QED BY <4>1, <1>1, <1>4
    <3>6. new[i].stage \in Stages
      BY <3>2 DEF Steps
    <3> QED BY <3>1, <3>4, <3>5, <3>6 DEF Upto, Stages
  <2>3. DOMAIN ops # {}
    <3>1. PICK i \in 1 .. n : i \notin Refused(new)
      BY <1>1 DEF Refused
    <3> QED BY <3>1, <1>7
  <2> QED BY <2>1, <2>2, <2>3, <1>3, <1>12, <1>13, <1>14 DEF ProgramBooked
<1>18. Booked(r, now, done, ids \cup PendingOf(r))
  BY <1>3, <1>17 DEF Booked, Evaluating, Leaving
<1>19. o.execution = r /\ o.finished = {} /\ o.commits = fresh \cup refused
  BY DEF Outcome, r, refused
<1>20. ASSUME NEW id \in o.commits
       PROVE  id.call = e.call.id /\ id \notin commits
  <2>1. CASE id \in fresh
    BY <2>1 DEF Evaluating, Leaving
  <2>2. CASE id \in refused
    BY <2>2, <1>1, <1>6, <1>10 DEF refused, Refused
  <2> QED BY <1>19, <2>1, <2>2
<1>25. Booked(o.execution, commits \cup o.commits, done \cup o.finished, ids \cup PendingOf(o.execution))
  <2>1. done \cup o.finished = done /\ commits \cup o.commits = now
    BY <1>19
  <2> QED BY <2>1, <1>18, <1>19
<1> QED BY <1>3, <1>16, <1>19, <1>20, <1>25 DEF Moves

LEMMA EvaluatedMoves ==
  ASSUME NEW e, Shaped(e), IsProgram(e), NEW journal \in Seq(Entries), NEW round \in Nat, NEW fresh,
         NEW commits, NEW done, NEW ids, Evaluating(e, journal, round, fresh, commits, done, ids),
         NEW new, NEW n, IsNew(e, new, n), Named(e, journal, round, new, n),
         NEW o \in Evaluated(e, journal, new, fresh)
  PROVE  Moves(o, e, commits, done, ids)
<1> DEFINE all == fresh \cup {new[i].id : i \in Refused(new)}
<1>1. CASE Refused(new) = DOMAIN new
  <2>1. o \in Finalized(e, all)
    BY <1>1 DEF Evaluated
  <2>2. \A i \in Refused(new) : /\ new[i].id.call = e.call.id
                                /\ new[i].id.round \in Nat /\ round <= new[i].id.round
    BY DEF Refused, IsNew, Named, Ids
  <2>3. \A id \in commits : id.call = e.call.id => id.round \in Nat /\ id.round <= round - 1
    BY DEF Evaluating, RoundsUpto
  <2>4. \A i \in Refused(new) : new[i].id \notin commits
    BY <2>2, <2>3
  <2>5. Leaving(e, all, commits, done, ids)
    BY <2>2, <2>4 DEF Evaluating, Leaving
  <2> HIDE DEF all
  <2> QED BY <2>1, <2>5, FinalizedMoves
<1>2. CASE Refused(new) # DOMAIN new
  <2>1. o = Outcome(Suspended(e, journal, new), all, FALSE)
    BY <1>2 DEF Evaluated
  <2> QED BY <2>1, <1>2, SuspendedMoves
<1> QED BY <1>1, <1>2

\* A replay that leaves its journal keeps a part of it.
LEMMA ReplayedEvaluating ==
  ASSUME NEW e, NEW journal \in Seq(Entries), NEW round, NEW fresh, NEW commits, NEW done, NEW ids,
         Evaluating(e, journal, round, fresh, commits, done, ids), NEW kept \in Replayed(journal)
  PROVE  kept \in Seq(Entries) /\ Evaluating(e, kept, round, fresh, commits, done, ids)
<1>1. CASE kept = journal
  BY <1>1
<1>2. ASSUME NEW n \in 0 .. Len(journal), kept = SubSeq(journal, 1, n)
      PROVE  kept \in Seq(Entries) /\ Evaluating(e, kept, round, fresh, commits, done, ids)
  <2>1. kept \in Seq(Entries) /\ DOMAIN kept = 1 .. n /\ \A k \in 1 .. n : kept[k] = journal[k]
    BY <1>2
  <2>2. \A k \in DOMAIN kept : k \in DOMAIN journal /\ kept[k] = journal[k]
    BY <2>1
  <2>3. \A k \in DOMAIN kept : kept[k].settled
    BY <2>2 DEF Evaluating
  <2>4. JournalBooked(kept, e.call.id, round - 1, commits \cup fresh)
    BY <2>2 DEF Evaluating, JournalBooked
  <2> QED BY <2>1, <2>3, <2>4 DEF Evaluating
<1> QED BY <1>1, <1>2 DEF Replayed

\* Every run of rounds that follow a journal.
LEMMA DrivenMoves ==
  ASSUME Config, NEW e, Shaped(e), IsProgram(e), NEW journal \in Seq(Entries), NEW round \in Nat,
         NEW fresh, NEW commits, NEW done, NEW ids,
         Evaluating(e, journal, round, fresh, commits, done, ids),
         NEW o \in Driven(e, journal, round, fresh)
  PROVE  Moves(o, e, commits, done, ids)
<1>1. PICK kept \in Replayed(journal), n \in 0 .. MaxEffects :
        \E args \in [1 .. n -> Args], cuts \in Cuts(round, n) :
          LET new == Reached(e, kept, round, args, cuts) IN
          IsRun(new) /\ o \in Evaluated(e, kept, new, fresh)
  BY DEF Driven
<1>2. PICK args \in [1 .. n -> Args], cuts \in Cuts(round, n) :
        LET new == Reached(e, kept, round, args, cuts) IN
        IsRun(new) /\ o \in Evaluated(e, kept, new, fresh)
  BY <1>1
<1>3. kept \in Seq(Entries) /\ Evaluating(e, kept, round, fresh, commits, done, ids)
  BY <1>1, ReplayedEvaluating
<1>4. n \in Nat
  BY BoundAssumption
<1>5. IsNew(e, Reached(e, kept, round, args, cuts), n)
  BY <1>3, <1>4, ReachedFacts
<1>6. Named(e, kept, round, Reached(e, kept, round, args, cuts), n)
  BY <1>3, <1>4, ReachedNamed
<1> DEFINE new == Reached(e, kept, round, args, cuts)
<1>7. IsNew(e, new, n) /\ Named(e, kept, round, new, n) /\ o \in Evaluated(e, kept, new, fresh)
  BY <1>2, <1>5, <1>6
<1> HIDE DEF new
<1> QED BY <1>3, <1>7, EvaluatedMoves

-----------------------------------------------------------------------------
(* What an answer does to the books of its execution.                      *)

\* The stages follow each other: the actions of an operation never come back.
LEMMA StagesGrow ==
  ASSUME NEW from \in Stages, NEW to \in Stages,
         \/ from = "preHook" /\ to \in {"approval", "tool"}
         \/ from = "approval" /\ to = "tool"
         \/ from = "tool" /\ to = "postHook"
  PROVE  /\ to \notin Upto(from) /\ Upto(from) \cup {to} \subseteq Upto(to)
         /\ Order[to] > Order[from]
BY DEF Upto, Stages, Order

\* An operation advances: what waits next was never asked for before.
Advanced(old, op) ==
  /\ op \in Steps /\ op.id = old.id
  /\ op.stage \in Stages => /\ op.stage \notin Upto(old.stage)
                            /\ Upto(old.stage) \cup {op.stage} \subseteq Upto(op.stage)
                            /\ Order[op.stage] > Order[old.stage]

LEMMA DirectMoves ==
  ASSUME NEW e, Shaped(e), ~IsProgram(e), e.state = "direct",
         NEW commits, NEW done, NEW ids, Booked(e, commits, done, ids),
         NEW k \in DOMAIN e.ops, NEW op, Advanced(e.ops[k], op), NEW o \in DirectNext(e, op)
  PROVE  Moves(o, e, commits, done, ids)
<1>1. DirectBooked(e, commits, ids) /\ e.call.id \notin done /\ e.journal = <<>>
  BY DEF Booked
<1>2. DOMAIN e.ops = {1} /\ k = 1 /\ e.ops[1].id = OpId(e.call.id, 0, 0)
  BY <1>1 DEF DirectBooked
<1>3. OpId(e.call.id, 0, 0).call = e.call.id
  BY DEF OpId
<1>4. CASE op.stage = "denied"
  <2>1. o.execution = Leave(e, "done") /\ o.commits = {} /\ o.finished = {e.call.id}
    BY <1>4, LeaveIs DEF DirectNext, Done, Outcome
  <2>2. PendingOf(o.execution) = {}
    BY <2>1, LeaveIs DEF PendingOf
  <2>3. Booked(o.execution, commits \cup o.commits, done \cup o.finished, ids \cup PendingOf(o.execution))
    BY <2>1, LeaveIs DEF Booked
  <2> QED BY <2>1, <2>2, <2>3, <1>1, LeaveIs DEF Moves
<1>5. CASE op.stage = "settled"
  <2>1. o \in Finalized(e, {})
    BY <1>5 DEF DirectNext
  <2>2. \A a \in ids : a.op.call = e.call.id => a.kind # "write"
    <3>1. e.ops[1].stage \in Stages
      BY <1>2 DEF Shaped, IsExecution, Ops
    <3>2. "write" \notin Upto(e.ops[1].stage)
      BY <3>1 DEF Upto, Stages
    <3> QED BY <3>2, <1>1 DEF DirectBooked
  <2>3. Leaving(e, {}, commits, done, ids)
    BY <2>2, <1>1 DEF Leaving, DirectBooked
  <2> QED BY <2>1, <2>3, FinalizedMoves
<1>6. CASE op.stage \notin Ended
  <2> DEFINE r == [e EXCEPT !.ops = <<op>>]
             a == ActionId(r, op.stage, op.id)
  <2>0. op.stage \in Stages
    BY <1>6 DEF Advanced, Steps
  <2>1. o.execution = r /\ o.commits = {} /\ o.finished = {}
    BY <1>6 DEF DirectNext, Outcome, Ended
  <2>2. /\ r.call = e.call /\ r.state = "direct" /\ DOMAIN r.ops = {1} /\ r.ops[1] = op
        /\ r.journal = <<>> /\ IsProgram(r) = IsProgram(e)
    BY <1>1 DEF Shaped, Fields, IsProgram
  <2> HIDE DEF r
  <2>3. PendingOf(r) = {a}
    BY <2>2 DEF PendingOf
  <2>4. a.kind = op.stage /\ a.op = OpId(e.call.id, 0, 0)
    BY <1>2 DEF ActionId, Advanced
  <2> HIDE DEF a
  <2>5. a \notin ids
    BY <2>4, <2>0, <1>1, <1>2, <1>3 DEF DirectBooked, Advanced
  <2>6. \A b \in ids \cup {a} : b.op.call = e.call.id => b.kind \in Upto(op.stage)
    BY <2>0, <2>4, <1>1, <1>2 DEF DirectBooked, Advanced
  <2>7. DirectBooked(r, commits, ids \cup {a})
    BY <2>2, <2>6, <1>1, <1>2 DEF DirectBooked, Advanced
  <2>8. Booked(r, commits, done, ids \cup {a})
    BY <2>2, <2>7, <1>1 DEF Booked
  <2> QED BY <2>1, <2>2, <2>3, <2>4, <2>5, <2>8, <1>3 DEF Moves
<1> QED BY <1>4, <1>5, <1>6 DEF Ended

LEMMA ProgramMoves ==
  ASSUME Config, NEW e, Shaped(e), IsProgram(e), e.state = "program",
         NEW commits, NEW done, NEW ids, Booked(e, commits, done, ids),
         NEW k \in DOMAIN e.ops, NEW op, Advanced(e.ops[k], op), NEW o \in ProgramNext(e, k, op)
  PROVE  Moves(o, e, commits, done, ids)
<1> DEFINE journal == [e.journal EXCEPT ![k].settled = TRUE]
           ops == [j \in DOMAIN e.ops \ {k} |-> e.ops[j]]
           now == commits \cup {op.id}
<1>1. ProgramBooked(e, commits, ids) /\ e.call.id \notin done
  BY DEF Booked
<1>2. /\ JournalBooked(e.journal, e.call.id, e.round, commits)
      /\ RoundsUpto(e.call.id, e.round, commits, ids)
  BY <1>1 DEF ProgramBooked
<1>3. e.journal \in Seq(Entries) /\ e.round \in Nat
  BY DEF Shaped, IsExecution, Entries
<1>4. \A j \in DOMAIN e.ops : /\ j \in DOMAIN e.journal /\ e.ops[j].id = e.journal[j].id
                              /\ e.ops[j].id \notin commits /\ e.ops[j] \in Ops
                              /\ e.ops[j].id.call = e.call.id
                              /\ e.ops[j].id.round \in Nat /\ e.ops[j].id.round <= e.round
  <2>1. \A j \in DOMAIN e.ops : e.ops[j] \in Ops
    BY DEF Shaped, IsExecution
  <2>2. \A j \in DOMAIN e.ops : j \in DOMAIN e.journal /\ e.ops[j].id = e.journal[j].id
                                /\ e.ops[j].id \notin commits
    BY <1>1 DEF ProgramBooked
  <2>3. \A j \in DOMAIN e.ops : e.ops[j].id.round \in Nat
    BY <2>1 DEF Ops, Ids
  <2> QED BY <2>1, <2>2, <2>3, <1>2 DEF JournalBooked
<1>5. \A i, j \in DOMAIN e.ops : e.ops[i].id = e.ops[j].id => i = j
  BY <1>2, <1>4 DEF JournalBooked
<1>6. /\ DOMAIN journal = DOMAIN e.journal
      /\ \A j \in DOMAIN journal : journal[j].id = e.journal[j].id
      /\ \A j \in DOMAIN journal \ {k} : journal[j].settled = e.journal[j].settled
      /\ journal[k].settled
      /\ journal \in Seq(Entries)
  <2>1. /\ DOMAIN journal = DOMAIN e.journal
        /\ \A j \in DOMAIN journal : journal[j] = IF j = k THEN [e.journal[k] EXCEPT !.settled = TRUE]
                                                  ELSE e.journal[j]
    OBVIOUS
  <2>2. e.journal[k] \in Entries
    BY <1>3, <1>4
  <2>3. \A x \in Entries : LET y == [x EXCEPT !.settled = TRUE] IN
                           y \in Entries /\ y.id = x.id /\ y.settled
    BY DEF Entries
  <2>4. [e.journal[k] EXCEPT !.settled = TRUE] \in Entries
    BY <2>2, <2>3
  <2>5. journal \in Seq(Entries)
    BY <1>3, <1>4, <2>4
  <2> HIDE DEF journal
  <2> QED BY <1>4, <2>1, <2>2, <2>3, <2>5
<1> HIDE DEF journal
<1>7. op.id = e.ops[k].id
  BY DEF Advanced
<1>8. JournalBooked(journal, e.call.id, e.round, now)
  <2>1. \A j \in DOMAIN journal : journal[j].settled => journal[j].id \in now
    BY <1>2, <1>4, <1>6, <1>7 DEF JournalBooked
  <2> QED BY <1>2, <1>6, <2>1 DEF JournalBooked
<1>9. RoundsUpto(e.call.id, e.round, now, ids)
  BY <1>2, <1>4, <1>7 DEF RoundsUpto
<1>10. CASE op.stage \notin Ended
  <2> DEFINE r == [e EXCEPT !.ops[k] = op]
             a == ActionId(r, op.stage, op.id)
  <2>0. op.stage \in Stages
    BY <1>10 DEF Advanced, Steps
  <2>1. o.execution = r /\ o.commits = {} /\ o.finished = {}
    BY <1>10 DEF ProgramNext, Outcome
  <2>2. /\ r.call = e.call /\ r.state = "program" /\ r.journal = e.journal /\ r.round = e.round
        /\ DOMAIN r.ops = DOMAIN e.ops /\ r.ops[k] = op
        /\ \A j \in DOMAIN e.ops \ {k} : r.ops[j] = e.ops[j]
        /\ IsProgram(r) = IsProgram(e)
    BY DEF Shaped, Fields, IsProgram
  <2> HIDE DEF r
  <2>3. PendingOf(r) = {ActionId(r, r.ops[j].stage, r.ops[j].id) : j \in DOMAIN e.ops}
    BY <2>2 DEF PendingOf
  <2>4. \A j \in DOMAIN e.ops : r.ops[j].id = e.ops[j].id /\ r.ops[j].stage \in Stages
    BY <2>0, <2>2, <1>4, <1>7 DEF Ops
  <2>5. ASSUME NEW b \in PendingOf(r)
        PROVE  /\ \E j \in DOMAIN e.ops : b.kind = r.ops[j].stage /\ b.op = e.ops[j].id
               /\ b.op.call = e.call.id /\ b.kind # "write"
               /\ b.op.round \in Nat /\ b.op.round <= e.round
               /\ b \in PendingOf(e) \/ (b.kind = op.stage /\ b.op = e.ops[k].id)
    <3>1. PICK j \in DOMAIN e.ops : b = ActionId(r, r.ops[j].stage, r.ops[j].id)
      BY <2>3
    <3>2. b.kind = r.ops[j].stage /\ b.op = e.ops[j].id
      BY <3>1, <2>4 DEF ActionId
    <3>3. b.kind # "write"
      BY <3>2, <2>4 DEF Stages
    <3>4. j # k => b = ActionId(e, e.ops[j].stage, e.ops[j].id)
      BY <3>1, <2>2 DEF ActionId
    <3>5. j # k => b \in PendingOf(e)
      BY <3>4 DEF PendingOf
    <3>6. j = k => b.kind = op.stage
      BY <3>2, <2>2
    <3> QED BY <3>2, <3>3, <3>5, <3>6, <1>4
  <2>6. (PendingOf(r) \ PendingOf(e)) \cap ids = {}
    <3>1. ASSUME NEW b \in ids, b.kind = op.stage, b.op = e.ops[k].id
          PROVE  FALSE
      <4>1. b.kind \in Upto(e.ops[k].stage)
        BY <3>1, <1>1 DEF ProgramBooked
      <4> QED BY <4>1, <3>1, <2>0 DEF Advanced
    <3> QED BY <3>1, <2>5
  <2>7. RoundsUpto(e.call.id, e.round, commits, ids \cup PendingOf(r))
    BY <1>2, <2>5 DEF RoundsUpto
  <2>8. ASSUME NEW b \in ids \cup PendingOf(r), NEW j \in DOMAIN e.ops, b.op = e.ops[j].id
        PROVE  b.kind \in Upto(r.ops[j].stage)
    <3>1. CASE b \in ids
      <4>1. b.kind \in Upto(e.ops[j].stage)
        BY <3>1, <2>8, <1>1 DEF ProgramBooked
      <4>2. CASE j = k
        BY <4>1, <4>2, <2>0, <2>2 DEF Advanced
      <4>3. CASE j # k
        BY <4>1, <4>3, <2>2
      <4> QED BY <4>2, <4>3
    <3>2. CASE b \in PendingOf(r)
      <4>1. PICK i \in DOMAIN e.ops : b.kind = r.ops[i].stage /\ b.op = e.ops[i].id
        BY <3>2, <2>5
      <4>2. i = j
        BY <4>1, <2>8, <1>5
      <4>3. r.ops[j].stage \in Stages
        BY <2>4
      <4> QED BY <4>1, <4>2, <4>3 DEF Upto, Stages
    <3> QED BY <3>1, <3>2
  <2>9. ProgramBooked(r, commits, ids \cup PendingOf(r))
    BY <1>1, <2>2, <2>4, <2>7, <2>8 DEF ProgramBooked
  <2>10. Booked(r, commits, done, ids \cup PendingOf(r))
    BY <2>2, <2>9, <1>1 DEF Booked
  <2> QED BY <2>1, <2>2, <2>5, <2>6, <2>10 DEF Moves
<1>11. CASE op.stage \in Ended /\ DOMAIN ops # {}
  <2> DEFINE r == [e EXCEPT !.journal = journal, !.ops = ops]
  <2>1. o.execution = r /\ o.commits = {op.id} /\ o.finished = {}
    BY <1>11 DEF ProgramNext, Outcome, journal
  <2>2. /\ r.call = e.call /\ r.state = "program" /\ r.journal = journal /\ r.round = e.round
        /\ r.ops = ops /\ IsProgram(r) = IsProgram(e)
    BY DEF Shaped, Fields, IsProgram
  <2>3. DOMAIN ops = DOMAIN e.ops \ {k} /\ \A j \in DOMAIN ops : ops[j] = e.ops[j]
    OBVIOUS
  <2> HIDE DEF r, ops
  <2>4. ASSUME NEW b \in PendingOf(r)
        PROVE  /\ b \in PendingOf(e) /\ b.op.call = e.call.id /\ b.kind # "write"
               /\ b.op.round \in Nat /\ b.op.round <= e.round
               /\ \E j \in DOMAIN ops : b.kind = e.ops[j].stage /\ b.op = e.ops[j].id
    <3>1. PICK j \in DOMAIN ops : b = ActionId(r, ops[j].stage, ops[j].id)
      BY <2>2 DEF PendingOf
    <3>2. j \in DOMAIN e.ops /\ b = ActionId(e, e.ops[j].stage, e.ops[j].id)
      BY <3>1, <2>2, <2>3 DEF ActionId
    <3>3. b \in PendingOf(e)
      BY <3>2 DEF PendingOf
    <3>4. b.kind = e.ops[j].stage /\ b.op = e.ops[j].id
      BY <3>2 DEF ActionId
    <3>5. b.kind # "write"
      BY <3>2, <3>4, <1>4 DEF Ops, Stages
    <3> QED BY <3>1, <3>2, <3>3, <3>4, <3>5, <1>4
  <2>5. RoundsUpto(e.call.id, e.round, now, ids \cup PendingOf(r))
    BY <1>9, <2>4 DEF RoundsUpto
  <2>6. \A j \in DOMAIN ops : ops[j].id = journal[j].id /\ ops[j].id \notin now
    BY <2>3, <1>4, <1>5, <1>6, <1>7
  <2>7. DOMAIN ops = {j \in DOMAIN journal : ~journal[j].settled}
    <3>1. \A j \in DOMAIN e.journal : j \in DOMAIN e.ops <=> ~e.journal[j].settled
      BY <1>1 DEF ProgramBooked
    <3>2. \A j : j \in DOMAIN ops => j \in DOMAIN journal /\ ~journal[j].settled
      BY <3>1, <2>3, <1>4, <1>6
    <3>3. \A j \in DOMAIN journal : ~journal[j].settled => j \in DOMAIN ops
      BY <3>1, <2>3, <1>6
    <3> QED BY <3>2, <3>3
  <2>8. ASSUME NEW b \in ids \cup PendingOf(r), NEW j \in DOMAIN ops, b.op = ops[j].id
        PROVE  b.kind \in Upto(ops[j].stage)
    <3>1. CASE b \in ids
      BY <3>1, <2>3, <2>8, <1>1 DEF ProgramBooked
    <3>2. CASE b \in PendingOf(r)
      <4>1. PICK i \in DOMAIN ops : b.kind = e.ops[i].stage /\ b.op = e.ops[i].id
        BY <3>2, <2>4
      <4>2. i = j
        BY <4>1, <2>3, <2>8, <1>5
      <4>3. ops[j].stage \in Stages /\ ops[j] = e.ops[j]
        BY <2>3, <1>4 DEF Ops
      <4> QED BY <4>1, <4>2, <4>3 DEF Upto, Stages
    <3> QED BY <3>1, <3>2
  <2>9. ProgramBooked(r, now, ids \cup PendingOf(r))
    BY <1>8, <1>11, <2>2, <2>5, <2>6, <2>7, <2>8 DEF ProgramBooked
  <2>10. Booked(r, now, done, ids \cup PendingOf(r))
    BY <2>2, <2>9, <1>1 DEF Booked
  <2>11. op.id.call = e.call.id /\ op.id \notin commits
    BY <1>4, <1>7
  <2> QED BY <2>1, <2>2, <2>4, <2>10, <2>11 DEF Moves
<1>12. CASE op.stage \in Ended /\ DOMAIN ops = {}
  <2>1. o \in Driven(e, journal, e.round + 1, {op.id})
    BY <1>12 DEF ProgramNext, journal
  <2>2. \A j \in DOMAIN journal : journal[j].settled
    <3>1. \A j \in DOMAIN e.journal : j \notin DOMAIN e.ops => e.journal[j].settled
      BY <1>1 DEF ProgramBooked
    <3>2. DOMAIN e.ops \ {k} = {}
      BY <1>12
    <3> QED BY <3>1, <3>2, <1>6
  <2>3. op.id.call = e.call.id /\ op.id \notin commits
    BY <1>4, <1>7
  <2>4. \A b \in ids : b.op.call = e.call.id => b.kind # "write"
    BY <1>2 DEF RoundsUpto
  <2>5. Leaving(e, {op.id}, commits, done, ids)
    BY <2>3, <2>4, <1>1 DEF Leaving
  <2>6. (e.round + 1) - 1 = e.round /\ e.round + 1 \in Nat
    BY <1>3
  <2>7. Evaluating(e, journal, e.round + 1, {op.id}, commits, done, ids)
    BY <2>2, <2>5, <2>6, <1>8, <1>9 DEF Evaluating
  <2> QED BY <2>1, <2>6, <2>7, <1>6, DrivenMoves
<1> QED BY <1>10, <1>11, <1>12

LEMMA OperationMoves ==
  ASSUME Config, NEW e, Shaped(e), e.state \in {"direct", "program"},
         NEW commits, NEW done, NEW ids, Booked(e, commits, done, ids),
         NEW k \in DOMAIN e.ops, NEW op, Advanced(e.ops[k], op), NEW o \in OperationNext(e, k, op)
  PROVE  Moves(o, e, commits, done, ids)
<1>1. CASE IsProgram(e)
  <2>1. e.state = "program"
    BY <1>1 DEF Booked, DirectBooked
  <2>2. o \in ProgramNext(e, k, op)
    BY <1>1 DEF OperationNext
  <2> QED BY <1>1, <2>1, <2>2, ProgramMoves
<1>2. CASE ~IsProgram(e)
  <2>1. e.state = "direct"
    BY <1>2 DEF Shaped
  <2>2. o \in DirectNext(e, op)
    BY <1>2 DEF OperationNext
  <2> QED BY <1>2, <2>1, <2>2, DirectMoves
<1> QED BY <1>1, <1>2

\* A call starts with nothing on record.
LEMMA StartedMoves ==
  ASSUME Config, NEW call \in Calls, NEW o \in Started(call)
  PROVE  Moves(o, Fresh(call), {}, {}, {})
<1> DEFINE e == Fresh(call)
           none == {}
<1>1. /\ Fields \subseteq DOMAIN e /\ e.call = call /\ e.state = "direct"
      /\ e.ops = <<>> /\ e.journal = <<>> /\ e.round = 0
  BY DEF Fresh, Fields
<1>2. DOMAIN e.ops = {} /\ e.journal \in Seq(Entries)
  BY <1>1
<1> HIDE DEF e
<1>3. Shaped(e)
  BY <1>1, <1>2 DEF Shaped, IsExecution, Calls, Entries
<1>4. CASE call.kind \in {"invalid", "search"} \/ o = Done(e, {})
  <2>1. o = Done(e, {})
    BY <1>4 DEF Started, e
  <2>2. o.execution = Leave(e, "done") /\ o.commits = {} /\ o.finished = {e.call.id}
    BY <2>1, <1>3, LeaveIs DEF Done, Outcome
  <2>3. PendingOf(o.execution) = {}
    BY <2>2, <1>3, LeaveIs DEF PendingOf
  <2>4. Booked(o.execution, none \cup o.commits, none \cup o.finished, none \cup PendingOf(o.execution))
    BY <2>2, <1>3, LeaveIs DEF Booked
  <2>5. Moves(o, e, none, none, none)
    BY <2>2, <2>3, <2>4, <1>3, LeaveIs DEF Moves
  <2> QED BY <2>5 DEF e
<1>5. CASE call.kind = "program"
  <2> DEFINE journal == <<>>
             round == 0
  <2>1. o \in Driven(e, journal, round, none)
    BY <1>5 DEF Started, e
  <2>2. IsProgram(e)
    BY <1>1, <1>5 DEF IsProgram
  <2>3. journal \in Seq(Entries) /\ round \in Nat /\ DOMAIN journal = {}
    OBVIOUS
  <2>4. Evaluating(e, journal, round, none, none, none, none)
    BY <2>2, <2>3 DEF Evaluating, Leaving, JournalBooked, RoundsUpto
  <2> HIDE DEF journal, round, none
  <2>5. Moves(o, e, none, none, none)
    BY <1>3, <2>1, <2>2, <2>3, <2>4, DrivenMoves
  <2> QED BY <2>5 DEF e, none
<1>6. CASE call.kind \notin {"invalid", "search", "program"} /\ o # Done(e, {})
  <2> DEFINE id == OpId(call.id, 0, 0)
             op == NewOp(id, call.args)
             r == [e EXCEPT !.ops = <<op>>]
             a == ActionId(r, op.stage, op.id)
  <2>1. o \in DirectNext(e, op)
    BY <1>6 DEF Started, e
  <2>2. ~IsProgram(e)
    BY <1>1, <1>6 DEF IsProgram
  <2>3. id \in Ids /\ id.call = call.id /\ call.args \in Args
    BY DEF OpId, Ids, Calls
  <2> HIDE DEF id
  <2>4. op \in Steps /\ op.id = id /\ op.stage # "settled"
    BY <2>3, NewOpFacts
  <2> HIDE DEF op
  <2>5. op.stage \in Stages /\ o.execution = r /\ o.commits = {} /\ o.finished = {}
    BY <1>6, <2>1, <2>4 DEF DirectNext, Outcome, Steps, Ended
  <2>6. /\ r.call = call /\ r.state = "direct" /\ DOMAIN r.ops = {1} /\ r.ops[1] = op
        /\ r.journal = <<>> /\ ~IsProgram(r)
    BY <1>1, <2>2 DEF Fields, IsProgram
  <2> HIDE DEF r
  <2>7. PendingOf(r) = {a}
    BY <2>6 DEF PendingOf
  <2>8. a.kind = op.stage /\ a.op = id
    BY <2>4 DEF ActionId
  <2> HIDE DEF a
  <2>9. op.stage \in Upto(op.stage)
    BY <2>5 DEF Upto, Stages
  <2>10. DirectBooked(r, none, {a})
    BY <2>4, <2>6, <2>8, <2>9 DEF DirectBooked, id
  <2>11. Booked(r, none, none, {a})
    BY <2>6, <2>10 DEF Booked
  <2>12. Moves(o, e, none, none, none)
    <3>1. none \cup o.commits = none /\ none \cup o.finished = none /\ none \cup PendingOf(r) = {a}
      BY <2>5, <2>7
    <3>2. Booked(o.execution, none \cup o.commits, none \cup o.finished, none \cup PendingOf(o.execution))
      BY <3>1, <2>5, <2>11
    <3> QED BY <3>2, <2>3, <2>5, <2>6, <2>7, <2>8, <1>1 DEF Moves
  <2> QED BY <2>12 DEF e
<1> QED BY <1>4, <1>5, <1>6

-----------------------------------------------------------------------------
(* The books, step by step.                                                *)

\* What waits in a program is about its own call.
LEMMA OwnOperations ==
  ASSUME NEW e, NEW commits, NEW done, NEW ids, Booked(e, commits, done, ids)
  PROVE  e.state = "program" => \A k \in DOMAIN e.ops : e.ops[k].id.call = e.call.id
BY DEF Booked, ProgramBooked, JournalBooked

\* An answer about one execution keeps the books of all of them.
LEMMA SettleBooks ==
  ASSUME IInv, Books, NEW i \in DOMAIN batch, NEW o, Settle(i, o),
         Moves(o, batch[i], DOMAIN committed, DOMAIN finished, issued)
  PROVE  Books' /\ (Pending(batch') \ Pending(batch)) \cap issued = {}
<1> DEFINE b == [batch EXCEPT ![i] = o.execution]
           commits == DOMAIN committed
           done == DOMAIN finished
           fresh == PendingOf(o.execution)
<1>1. Resolve(b, o.commits, o.finished)
  BY DEF Settle
<1>2. DOMAIN b = DOMAIN batch /\ b[i] = o.execution /\ \A j \in DOMAIN batch \ {i} : b[j] = batch[j]
  OBVIOUS
<1>3. batch' = b /\ issued' = issued \cup Pending(b)
  BY <1>1 DEF Resolve
<1> HIDE DEF b
<1>4. /\ OnlyOnce(committed') /\ DOMAIN committed' = commits \cup o.commits
      /\ OnlyOnce(finished') /\ DOMAIN finished' = done \cup o.finished
  <2>1. committed' = committed (+) SetToBag(o.commits) /\ finished' = finished (+) SetToBag(o.finished)
    BY <1>1 DEF Resolve
  <2>2. OnlyOnce(committed) /\ DOMAIN committed \cap o.commits = {}
    BY DEF Books, Moves
  <2>3. OnlyOnce(finished) /\ DOMAIN finished \cap o.finished = {}
    BY DEF Books, Moves
  <2>4. OnlyOnce(committed') /\ DOMAIN committed' = commits \cup o.commits
    BY <2>1, <2>2, AddedOnce
  <2>5. OnlyOnce(finished') /\ DOMAIN finished' = done \cup o.finished
    BY <2>1, <2>3, AddedOnce
  <2> QED BY <2>4, <2>5
<1>5. /\ \A j \in DOMAIN batch : j # i => PendingOf(b[j]) \subseteq issued
      /\ Pending(b) \subseteq issued \cup fresh /\ fresh \subseteq Pending(b)
  BY <1>2 DEF Pending, Books
<1>6. issued' = issued \cup fresh
  BY <1>3, <1>5
<1> HIDE DEF commits, done, fresh
<1>7. Booked(batch[i], commits, done, issued)
  BY DEF Books, commits, done
<1>8. Booked(b[i], commits \cup o.commits, done \cup o.finished, issued \cup fresh)
  BY <1>2 DEF Moves, commits, done, fresh
<1>9. ASSUME NEW j \in DOMAIN batch, j # i
      PROVE  Booked(b[j], commits \cup o.commits, done \cup o.finished, issued \cup fresh)
  <2>1. batch[j].call.id # batch[i].call.id
    BY <1>9 DEF Books
  <2>2. Booked(batch[j], commits, done, issued)
    BY DEF Books, commits, done
  <2>3. /\ \A id \in o.commits : id.call # batch[j].call.id
        /\ batch[j].call.id \notin o.finished
        /\ \A a \in fresh : a.op.call # batch[j].call.id
    BY <2>1 DEF Moves, fresh
  <2>4. batch[j].state = "program" => \A k \in DOMAIN batch[j].ops : batch[j].ops[k].id.call = batch[j].call.id
    BY <2>2, OwnOperations
  <2>5. Booked(batch[j], commits \cup o.commits, done \cup o.finished, issued \cup fresh)
    BY <2>2, <2>3, <2>4, BookedElsewhere
  <2> QED BY <1>2, <1>9, <2>5
<1>10. \A j \in DOMAIN b : Booked(b[j], DOMAIN committed', DOMAIN finished', issued')
  BY <1>2, <1>4, <1>6, <1>8, <1>9
<1>11. \A j, k \in DOMAIN b : b[j].call.id = b[k].call.id => j = k
  <2>1. \A j \in DOMAIN batch : b[j].call = batch[j].call
    BY <1>2 DEF Moves
  <2> QED BY <2>1, <1>2 DEF Books
<1>12. /\ phase' # "idle"
       /\ phase' = "running" => ~AllDone(b)
  BY <1>1 DEF Resolve
<1>13. Pending(b) \subseteq issued'
  BY <1>3
<1>14. Books'
  BY <1>3, <1>4, <1>10, <1>11, <1>12, <1>13, SMTT(30) DEF Books, OnlyOnce, AllDone, Pending, PendingOf, Booked,
     DirectBooked, ProgramBooked, JournalBooked, RoundsUpto
<1>15. ASSUME NEW a \in Pending(b), a \notin Pending(batch)
       PROVE  a \notin issued
  <2>1. PICK j \in DOMAIN b : a \in PendingOf(b[j])
    BY DEF Pending
  <2>2. j = i
    BY <2>1, <1>2, <1>15 DEF Pending
  <2>3. a \in PendingOf(o.execution) /\ a \notin PendingOf(batch[i])
    BY <2>1, <2>2, <1>2, <1>15 DEF Pending
  <2> QED BY <2>3 DEF Moves
<1> QED BY <1>3, <1>14, <1>15

\* A batch begins with nothing on record, and its calls have different ids.
LEMMA StartBooks ==
  ASSUME IInv, Books, Start
  PROVE  Books' /\ (Pending(batch') \ Pending(batch)) \cap issued = {}
<1>1. PICK calls \in Batches :
        \E s \in [DOMAIN calls -> UNION {Started(calls[i]) : i \in DOMAIN calls}] :
          /\ \A i \in DOMAIN calls : s[i] \in Started(calls[i])
          /\ Resolve([i \in DOMAIN calls |-> s[i].execution],
                     UNION {s[i].commits : i \in DOMAIN calls},
                     UNION {s[i].finished : i \in DOMAIN calls})
  BY DEF Start
<1>2. PICK s \in [DOMAIN calls -> UNION {Started(calls[i]) : i \in DOMAIN calls}] :
        /\ \A i \in DOMAIN calls : s[i] \in Started(calls[i])
        /\ Resolve([i \in DOMAIN calls |-> s[i].execution],
                   UNION {s[i].commits : i \in DOMAIN calls},
                   UNION {s[i].finished : i \in DOMAIN calls})
  BY <1>1
<1>3. calls \in Seq(Calls) /\ \A i, j \in DOMAIN calls : calls[i].id = calls[j].id => i = j
  BY BatchAssumption DEF IsBatch, Calls
<1>4. issued = {} /\ DOMAIN committed = {} /\ DOMAIN finished = {}
  BY DEF Books, Start
<1> DEFINE b == [i \in DOMAIN calls |-> s[i].execution]
           commits == UNION {s[i].commits : i \in DOMAIN calls}
           done == UNION {s[i].finished : i \in DOMAIN calls}
           fresh == Pending(b)
<1>5. Resolve(b, commits, done)
  BY <1>2
<1>6. DOMAIN b = DOMAIN calls /\ \A i \in DOMAIN calls : b[i] = s[i].execution
  OBVIOUS
<1>7. /\ batch' = b /\ issued' = fresh
      /\ committed' = committed (+) SetToBag(commits) /\ finished' = finished (+) SetToBag(done)
      /\ phase' # "idle"
      /\ phase' = "running" => ~AllDone(b)
  BY <1>4, <1>5 DEF Resolve
<1>8. ASSUME NEW i \in DOMAIN calls
      PROVE  /\ b[i].call = calls[i]
             /\ Booked(b[i], s[i].commits, s[i].finished, PendingOf(b[i]))
             /\ \A id \in s[i].commits : id.call = calls[i].id
             /\ s[i].finished \subseteq {calls[i].id}
             /\ \A a \in PendingOf(b[i]) : a.op.call = calls[i].id
  <2> DEFINE none == {}
             e == Fresh(calls[i])
             o == s[i]
  <2>1. calls[i] \in Calls /\ s[i] \in Started(calls[i]) /\ Config
    BY <1>2, <1>3 DEF IInv
  <2>2. Moves(o, e, none, none, none)
    BY <2>1, StartedMoves
  <2>3. e.call = calls[i]
    BY DEF Fresh
  <2>4. o.execution = b[i]
    BY <1>6
  <2> HIDE DEF b, e, o
  <2>5. Booked(b[i], none \cup o.commits, none \cup o.finished, none \cup PendingOf(b[i]))
    BY <2>2, <2>4 DEF Moves
  <2>6. Booked(b[i], o.commits, o.finished, PendingOf(b[i]))
    <3>1. none \cup o.commits = o.commits /\ none \cup o.finished = o.finished
          /\ none \cup PendingOf(b[i]) = PendingOf(b[i])
      OBVIOUS
    <3> HIDE DEF none
    <3> QED BY <3>1, <2>5
  <2> QED BY <2>2, <2>3, <2>4, <2>6 DEF Moves, o
<1> HIDE DEF b
<1>9. /\ OnlyOnce(committed') /\ DOMAIN committed' = commits
      /\ OnlyOnce(finished') /\ DOMAIN finished' = done
  <2> HIDE DEF commits, done
  <2>1. OnlyOnce(committed) /\ DOMAIN committed \cap commits = {}
    BY <1>4 DEF Books
  <2>2. OnlyOnce(finished) /\ DOMAIN finished \cap done = {}
    BY <1>4 DEF Books
  <2>3. OnlyOnce(committed') /\ DOMAIN committed' = DOMAIN committed \cup commits
    BY <2>1, <1>7, AddedOnce
  <2>4. OnlyOnce(finished') /\ DOMAIN finished' = DOMAIN finished \cup done
    BY <2>2, <1>7, AddedOnce
  <2> QED BY <2>3, <2>4, <1>4
<1>10. ASSUME NEW i \in DOMAIN calls
       PROVE  Booked(b[i], commits, done, fresh)
  <2> DEFINE others == DOMAIN calls \ {i}
             moreCommits == UNION {s[j].commits : j \in others}
             moreDone == UNION {s[j].finished : j \in others}
             moreIds == UNION {PendingOf(b[j]) : j \in others}
  <2>1. \A j \in others : calls[j].id # calls[i].id
    BY <1>3
  <2>2. \A id \in moreCommits : id.call # b[i].call.id
    <3>1. \A j \in others : \A id \in s[j].commits : id.call = calls[j].id
      BY <1>8
    <3>2. \A j \in others : \A id \in s[j].commits : id.call # b[i].call.id
      BY <3>1, <2>1, <1>8
    <3> QED BY <3>2
  <2>3. b[i].call.id \notin moreDone
    <3>1. \A j \in others : s[j].finished \subseteq {calls[j].id}
      BY <1>8
    <3>2. \A j \in others : b[i].call.id \notin s[j].finished
      BY <3>1, <2>1, <1>8
    <3> QED BY <3>2
  <2>4. \A a \in moreIds : a.op.call # b[i].call.id
    <3>1. \A j \in others : \A a \in PendingOf(b[j]) : a.op.call = calls[j].id
      BY <1>8
    <3>2. \A j \in others : \A a \in PendingOf(b[j]) : a.op.call # b[i].call.id
      BY <3>1, <2>1, <1>8
    <3> QED BY <3>2
  <2>5. Booked(b[i], s[i].commits, s[i].finished, PendingOf(b[i]))
    BY <1>8
  <2>6. commits = s[i].commits \cup moreCommits
    OBVIOUS
  <2>7. done = s[i].finished \cup moreDone
    OBVIOUS
  <2>8. fresh = PendingOf(b[i]) \cup moreIds
    BY <1>6 DEF Pending
  <2> HIDE DEF commits, done, fresh, moreCommits, moreDone, moreIds
  <2>9. b[i].state = "program" => \A k \in DOMAIN b[i].ops : b[i].ops[k].id.call = b[i].call.id
    BY <2>5, OwnOperations
  <2>10. Booked(b[i], s[i].commits \cup moreCommits, s[i].finished \cup moreDone, PendingOf(b[i]) \cup moreIds)
    BY <2>2, <2>3, <2>4, <2>5, <2>9, BookedElsewhere
  <2> QED BY <2>6, <2>7, <2>8, <2>10
<1> HIDE DEF commits, done, fresh
<1>11. \A i \in DOMAIN b : Booked(b[i], DOMAIN committed', DOMAIN finished', issued')
  BY <1>6, <1>7, <1>9, <1>10
<1>12. \A i, j \in DOMAIN b : b[i].call.id = b[j].call.id => i = j
  BY <1>3, <1>6, <1>8, SMTT(30)
<1>13. Pending(b) \subseteq issued'
  BY <1>7 DEF fresh
<1>14. Books'
  BY <1>7, <1>9, <1>11, <1>12, <1>13 DEF Books, OnlyOnce, AllDone, Pending, PendingOf, Booked,
     DirectBooked, ProgramBooked, JournalBooked, RoundsUpto
<1> QED BY <1>4, <1>14

\* A result that was written is final.
LEMMA WrittenMoves ==
  ASSUME NEW e, Shaped(e), e.state = "write", NEW commits, NEW done, NEW ids,
         Booked(e, commits, done, ids)
  PROVE  Moves(Completed(e, {}), e, commits, done, ids)
<1> DEFINE o == Completed(e, {})
<1>1. /\ o.execution = Leave(e, "done") /\ o.finished = {e.call.id}
      /\ o.commits = {} \cup IF IsProgram(e) THEN {} ELSE {OpId(e.call.id, 0, 0)}
  BY LeaveIs DEF Completed, Done, Outcome
<1> HIDE DEF o
<1>2. PendingOf(o.execution) = {}
  BY <1>1, LeaveIs DEF PendingOf
<1>3. \A id \in o.commits : id.call = e.call.id /\ id \notin commits
  <2>1. OpId(e.call.id, 0, 0).call = e.call.id
    BY DEF OpId
  <2> QED BY <1>1, <2>1 DEF Booked
<1>4. o.finished \cap done = {}
  BY <1>1 DEF Booked
<1>5. Booked(o.execution, commits \cup o.commits, done \cup o.finished, ids \cup PendingOf(o.execution))
  BY <1>1, LeaveIs DEF Booked
<1>6. Moves(o, e, commits, done, ids)
  BY <1>1, <1>2, <1>3, <1>4, <1>5, LeaveIs DEF Moves
<1> QED BY <1>6 DEF o

-----------------------------------------------------------------------------
(* How far an answer moves its execution.                                  *)

LEMMA FinalizedMovedOn ==
  ASSUME NEW e, Shaped(e), e.state \in {"direct", "program"}, NEW commits,
         NEW o \in Finalized(e, commits)
  PROVE  Moved(e, o.execution)
<1>1. \/ o.execution = Leave(e, "done")
      \/ o.execution = Leave(e, "write")
  BY DEF Finalized, Completed, Done, Outcome
<1> QED BY <1>1, LeaveIs DEF Moved

LEMMA DirectMovedOn ==
  ASSUME NEW e, Shaped(e), e.state = "direct", e.journal = <<>>, DOMAIN e.ops = {1},
         NEW op, Advanced(e.ops[1], op), NEW o \in DirectNext(e, op)
  PROVE  Moved(e, o.execution)
<1>1. CASE op.stage = "denied"
  <2>1. o.execution = Leave(e, "done")
    BY <1>1 DEF DirectNext, Done, Outcome
  <2> QED BY <2>1, LeaveIs DEF Moved
<1>2. CASE op.stage = "settled"
  BY <1>2, FinalizedMovedOn DEF DirectNext
<1>3. CASE op.stage \notin Ended
  <2> DEFINE r == [e EXCEPT !.ops = <<op>>]
  <2>1. o.execution = r /\ op.stage \in Stages
    BY <1>3 DEF DirectNext, Outcome, Ended, Advanced, Steps
  <2>2. /\ r.state = "direct" /\ DOMAIN r.ops = {1} /\ r.ops[1] = op
        /\ r.round = e.round /\ r.journal = e.journal
    BY DEF Shaped, Fields
  <2> HIDE DEF r
  <2>3. OperationMoved(e, r)
    BY <2>1, <2>2 DEF OperationMoved, Advanced
  <2> QED BY <2>1, <2>2, <2>3 DEF Moved
<1> QED BY <1>1, <1>2, <1>3 DEF Ended

\* What an evaluation leaves waiting is of a later round.
LEMMA DrivenMovedOn ==
  ASSUME Config, NEW e, Shaped(e), IsProgram(e), e.state = "program",
         NEW journal \in Seq(Entries), Len(journal) = Len(e.journal),
         NEW fresh, NEW o \in Driven(e, journal, e.round + 1, fresh)
  PROVE  Moved(e, o.execution)
<1> DEFINE round == e.round + 1
<1>0. e.round \in Nat /\ round \in Nat /\ round > e.round
  BY DEF Shaped, IsExecution
<1>1. PICK kept \in Replayed(journal), n \in 0 .. MaxEffects :
        /\ Len(kept) + n <= MaxEffects
        /\ \E args \in [1 .. n -> Args], cuts \in Cuts(round, n) :
             LET new == Reached(e, kept, round, args, cuts) IN
             IsRun(new) /\ o \in Evaluated(e, kept, new, fresh)
  BY DEF Driven
<1>2. PICK args \in [1 .. n -> Args], cuts \in Cuts(round, n) :
        LET new == Reached(e, kept, round, args, cuts) IN
        IsRun(new) /\ o \in Evaluated(e, kept, new, fresh)
  BY <1>1
<1>3. kept \in Seq(Entries) /\ (MayDiverge \/ Len(kept) = Len(e.journal))
  BY <1>1 DEF Replayed
<1>4. n \in Nat
  BY BoundAssumption
<1> DEFINE new == Reached(e, kept, round, args, cuts)
<1>5. IsNew(e, new, n) /\ Named(e, kept, round, new, n) /\ o \in Evaluated(e, kept, new, fresh)
  BY <1>0, <1>2, <1>3, <1>4, ReachedFacts, ReachedNamed
<1> HIDE DEF new, round
<1>6. CASE Refused(new) = DOMAIN new
  <2>1. o \in Finalized(e, fresh \cup {new[i].id : i \in Refused(new)})
    BY <1>5, <1>6 DEF Evaluated
  <2> QED BY <2>1, FinalizedMovedOn
<1>7. CASE Refused(new) # DOMAIN new
  <2> DEFINE more == [i \in DOMAIN new |-> [id |-> new[i].id, settled |-> i \in Refused(new)]]
             r == Suspended(e, kept, new)
  <2>1. o.execution = r
    BY <1>5, <1>7 DEF Evaluated, Outcome
  <2>2. DOMAIN new = 1 .. n /\ Len(new) = n /\ n \in 1 .. n
    BY <1>4, <1>5, <1>7 DEF IsNew, Refused
  <2>3. r.state = "program" /\ r.round = new[n].id.round /\ r.journal = kept \o more
    BY <2>2 DEF Suspended, Shaped, Fields
  <2>4. more \in Seq(Entries) /\ Len(more) = n
    <3>1. \A i \in 1 .. n : [id |-> new[i].id, settled |-> i \in Refused(new)] \in Entries
      BY <1>5 DEF IsNew, Steps, Entries
    <3> QED BY <1>4, <2>2, <3>1
  <2> HIDE DEF r, more
  <2>5. Len(r.journal) = Len(kept) + n /\ Len(kept) \in Nat /\ Len(e.journal) \in Nat
    BY <1>3, <2>3, <2>4 DEF Shaped, IsExecution
  <2>6. r.round \in Nat /\ round <= r.round
    BY <1>5, <2>2, <2>3 DEF Named, Ids
  <2>7. RoundMoved(e, r)
    BY <1>0, <1>1, <1>3, <1>4, <2>2, <2>5, <2>6 DEF RoundMoved
  <2> QED BY <2>1, <2>3, <2>7 DEF Moved
<1> QED BY <1>6, <1>7

LEMMA ProgramMovedOn ==
  ASSUME Config, NEW e, Shaped(e), IsProgram(e), e.state = "program", NEW k \in DOMAIN e.ops,
         k \in DOMAIN e.journal,
         NEW op, Advanced(e.ops[k], op), NEW o \in ProgramNext(e, k, op)
  PROVE  Moved(e, o.execution)
<1> DEFINE journal == [e.journal EXCEPT ![k].settled = TRUE]
           ops == [j \in DOMAIN e.ops \ {k} |-> e.ops[j]]
<1>1. e.journal \in Seq(Entries)
  BY DEF Shaped, IsExecution, Entries
<1>2. journal \in Seq(Entries) /\ Len(journal) = Len(e.journal)
  <2>1. e.journal[k] \in Entries
    BY <1>1
  <2>2. \A x \in Entries : [x EXCEPT !.settled = TRUE] \in Entries
    BY Zenon DEF Entries
  <2>3. [e.journal[k] EXCEPT !.settled = TRUE] \in Entries
    BY <2>1, <2>2
  <2> QED BY <1>1, <2>3
<1>3. CASE op.stage \notin Ended
  <2> DEFINE r == [e EXCEPT !.ops[k] = op]
  <2>1. o.execution = r /\ op.stage \in Stages
    BY <1>3 DEF ProgramNext, Outcome, Ended, Advanced, Steps
  <2>2. /\ r.state = e.state /\ r.journal = e.journal /\ r.round = e.round
        /\ r.ops = [e.ops EXCEPT ![k] = op]
    BY DEF Shaped, Fields
  <2>3. DOMAIN r.ops = DOMAIN e.ops /\ r.ops[k] = op
        /\ \A j \in DOMAIN e.ops \ {k} : r.ops[j] = e.ops[j]
    BY <2>2
  <2> HIDE DEF r
  <2>4. OperationMoved(e, r)
    BY <2>1, <2>2, <2>3 DEF OperationMoved, Advanced
  <2> QED BY <2>1, <2>2, <2>4 DEF Moved
<1>4. CASE op.stage \in Ended /\ DOMAIN ops # {}
  <2> DEFINE r == [e EXCEPT !.journal = journal, !.ops = ops]
  <2>1. o.execution = r
    BY <1>4 DEF ProgramNext, Outcome
  <2>2. r.state = e.state /\ r.journal = journal /\ r.round = e.round /\ r.ops = ops
    BY DEF Shaped, Fields
  <2>3. /\ DOMAIN r.ops = DOMAIN e.ops \ {k}
        /\ \A j \in DOMAIN e.ops \ {k} : r.ops[j] = e.ops[j]
    BY <2>2
  <2> HIDE DEF r, journal
  <2>4. OperationMoved(e, r)
    BY <1>2, <2>2, <2>3 DEF OperationMoved
  <2> QED BY <2>1, <2>2, <2>4 DEF Moved
<1>5. CASE op.stage \in Ended /\ DOMAIN ops = {}
  <2>1. o \in Driven(e, journal, e.round + 1, {op.id})
    BY <1>5 DEF ProgramNext
  <2> HIDE DEF journal
  <2> QED BY <1>2, <2>1, DrivenMovedOn
<1> QED BY <1>3, <1>4, <1>5

LEMMA OperationMovedOn ==
  ASSUME Config, NEW e, Shaped(e), e.state \in {"direct", "program"}, NEW commits, NEW done, NEW ids,
         Booked(e, commits, done, ids), NEW k \in DOMAIN e.ops,
         NEW op, Advanced(e.ops[k], op), NEW o \in OperationNext(e, k, op)
  PROVE  Moved(e, o.execution)
<1>1. CASE e.state = "direct"
  <2>1. ~IsProgram(e) /\ DOMAIN e.ops = {1} /\ k = 1 /\ e.journal = <<>>
    BY <1>1 DEF Booked, DirectBooked
  <2> QED BY <1>1, <2>1, DirectMovedOn DEF OperationNext
<1>2. CASE e.state = "program"
  <2>1. IsProgram(e) /\ k \in DOMAIN e.journal
    BY <1>2 DEF Shaped, Booked, ProgramBooked
  <2> QED BY <1>2, <2>1, ProgramMovedOn DEF OperationNext
<1> QED BY <1>1, <1>2

\* An answer moves one execution that was not done.
Progress ==
  \E i \in DOMAIN batch : \E o :
    /\ phase = "running" /\ batch[i].state # "done" /\ Settle(i, o)
    /\ Moves(o, batch[i], DOMAIN committed, DOMAIN finished, issued)
    /\ Moved(batch[i], o.execution)

LEMMA AdvanceBooks ==
  ASSUME IInv, Books, NEW i \in DOMAIN batch, NEW k \in DOMAIN batch[i].ops, NEW stage \in Stages,
         Waits(i, k, stage), NEW op, Advanced(batch[i].ops[k], op), Advance(i, k, op)
  PROVE  Progress
<1>1. PICK o \in OperationNext(batch[i], k, op) : Settle(i, o)
  BY DEF Advance
<1>2. /\ Shaped(batch[i]) /\ Config
      /\ Booked(batch[i], DOMAIN committed, DOMAIN finished, issued)
      /\ batch[i].state \in {"direct", "program"}
  BY DEF IInv, Books, Waits
<1> DEFINE commits == DOMAIN committed
           done == DOMAIN finished
           e == batch[i]
<1>3. /\ Shaped(e) /\ Booked(e, commits, done, issued) /\ e.state \in {"direct", "program"}
      /\ k \in DOMAIN e.ops /\ Advanced(e.ops[k], op) /\ o \in OperationNext(e, k, op)
  BY <1>1, <1>2
<1> HIDE DEF commits, done, e
<1>4. Moves(o, e, commits, done, issued) /\ Moved(e, o.execution)
  BY <1>2, <1>3, OperationMoves, OperationMovedOn
<1>5. phase = "running" /\ e.state # "done"
  BY <1>3 DEF Waits
<1> QED BY <1>1, <1>4, <1>5 DEF Progress, commits, done, e

LEMMA BooksInit == Init => Books
<1> SUFFICES ASSUME Init PROVE Books
  OBVIOUS
<1>1. DOMAIN EmptyBag = {}
  BY DEF EmptyBag, SetToBag
<1>2. batch = <<>> /\ DOMAIN batch = {}
  BY DEF Init
<1> QED BY <1>1, <1>2 DEF Init, Books, OnlyOnce, Pending

LEMMA PreHookBooks == ASSUME IInv, Books, PreHookAnswered PROVE Progress
<1>1. PICK i, k :
        /\ i \in DOMAIN batch /\ k \in DOMAIN batch[i].ops
        /\ Waits(i, k, "preHook")
        /\ \E op \in AfterPreHook(batch[i].ops[k]) : Advance(i, k, op)
  BY DEF PreHookAnswered
<1>2. PICK op \in AfterPreHook(batch[i].ops[k]) : Advance(i, k, op)
  BY <1>1
<1> DEFINE old == batch[i].ops[k]
<1>3. old \in Steps /\ old.stage = "preHook" /\ "preHook" \in Stages
  BY <1>1, WaitsFacts DEF Stages
<1>4. op \in AfterPreHook(old)
  BY <1>2
<1> HIDE DEF old
<1>5. op \in Steps /\ op.id = old.id /\ op.stage \in {"approval", "tool", "denied", "settled"}
  <2>1. CASE op = [old EXCEPT !.stage = "settled"]
    BY <1>3, <2>1 DEF Steps, Ended
  <2>2. ASSUME NEW args \in Args, op = Admitted(old, args)
        PROVE  op \in Steps /\ op.id = old.id /\ op.stage \in {"approval", "tool", "denied"}
    BY <1>3, <2>2, AdmittedFacts
  <2> QED BY <1>4, <2>1, <2>2 DEF AfterPreHook
<1>6. op.stage \in Stages => op.stage \in {"approval", "tool"}
  BY <1>5 DEF Stages
<1>7. Advanced(old, op)
  BY <1>3, <1>5, <1>6, StagesGrow DEF Advanced
<1> QED BY <1>1, <1>2, <1>3, <1>7, AdvanceBooks DEF old

LEMMA ApprovalBooks == ASSUME IInv, Books, ApprovalAnswered PROVE Progress
<1>1. PICK i, k :
        /\ i \in DOMAIN batch /\ k \in DOMAIN batch[i].ops
        /\ Waits(i, k, "approval")
        /\ \E op \in AfterApproval(batch[i].ops[k]) : Advance(i, k, op)
  BY DEF ApprovalAnswered
<1>2. PICK op \in AfterApproval(batch[i].ops[k]) : Advance(i, k, op)
  BY <1>1
<1> DEFINE old == batch[i].ops[k]
<1>3. old \in Steps /\ old.stage = "approval" /\ "approval" \in Stages
  BY <1>1, WaitsFacts DEF Stages
<1>4. op \in AfterApproval(old)
  BY <1>2
<1> HIDE DEF old
<1>5. op \in Steps /\ op.id = old.id /\ op.stage \in {"tool", "denied"}
  BY <1>3, <1>4 DEF AfterApproval, Steps, Ended, Stages
<1>6. op.stage \in Stages => op.stage = "tool"
  BY <1>5 DEF Stages
<1>7. Advanced(old, op)
  BY <1>3, <1>5, <1>6, StagesGrow DEF Advanced
<1> QED BY <1>1, <1>2, <1>3, <1>7, AdvanceBooks DEF old

LEMMA ToolBooks == ASSUME IInv, Books, ToolAnswered PROVE Progress
<1>1. PICK i, k :
        /\ i \in DOMAIN batch /\ k \in DOMAIN batch[i].ops
        /\ Waits(i, k, "tool")
        /\ \E op \in AfterTool(batch[i].ops[k]) : Advance(i, k, op)
  BY DEF ToolAnswered
<1>2. PICK op \in AfterTool(batch[i].ops[k]) : Advance(i, k, op)
  BY <1>1
<1> DEFINE old == batch[i].ops[k]
<1>3. old \in Steps /\ old.stage = "tool" /\ "tool" \in Stages
  BY <1>1, WaitsFacts DEF Stages
<1>4. op \in AfterTool(old)
  BY <1>2
<1> HIDE DEF old
<1>5. op \in Steps /\ op.id = old.id /\ op.stage \in {"postHook", "settled"}
  BY <1>3, <1>4 DEF AfterTool, Steps, Ended, Stages
<1>6. op.stage \in Stages => op.stage = "postHook"
  BY <1>5 DEF Stages
<1>7. Advanced(old, op)
  BY <1>3, <1>5, <1>6, StagesGrow DEF Advanced
<1> QED BY <1>1, <1>2, <1>3, <1>7, AdvanceBooks DEF old

LEMMA PostHookBooks == ASSUME IInv, Books, PostHookAnswered PROVE Progress
<1>1. PICK i, k :
        /\ i \in DOMAIN batch /\ k \in DOMAIN batch[i].ops
        /\ Waits(i, k, "postHook")
        /\ \E op \in AfterPostHook(batch[i].ops[k]) : Advance(i, k, op)
  BY DEF PostHookAnswered
<1>2. PICK op \in AfterPostHook(batch[i].ops[k]) : Advance(i, k, op)
  BY <1>1
<1> DEFINE old == batch[i].ops[k]
<1>3. old \in Steps /\ "postHook" \in Stages
  BY <1>1, WaitsFacts DEF Stages
<1>4. op \in AfterPostHook(old)
  BY <1>2
<1> HIDE DEF old
<1>5. op \in Steps /\ op.id = old.id /\ op.stage = "settled"
  BY <1>3, <1>4 DEF AfterPostHook, Steps, Ended
<1>6. Advanced(old, op)
  BY <1>5 DEF Advanced, Stages
<1> QED BY <1>1, <1>2, <1>3, <1>6, AdvanceBooks DEF old

LEMMA WriteBooks == ASSUME IInv, Books, WriteAnswered PROVE Progress
<1>1. PICK i \in DOMAIN batch : phase = "running" /\ batch[i].state = "write" /\ Settle(i, Completed(batch[i], {}))
  BY DEF WriteAnswered
<1>2. Shaped(batch[i]) /\ Booked(batch[i], DOMAIN committed, DOMAIN finished, issued)
  BY DEF IInv, Books
<1>3. Moves(Completed(batch[i], {}), batch[i], DOMAIN committed, DOMAIN finished, issued)
  BY <1>1, <1>2, WrittenMoves
<1>4. Moved(batch[i], Completed(batch[i], {}).execution)
  BY <1>1, <1>2, LeaveIs DEF Moved, Completed, Done, Outcome
<1> QED BY <1>1, <1>3, <1>4 DEF Progress

LEMMA AnswerBooks == ASSUME IInv, Books, Answer PROVE Progress
BY PreHookBooks, ApprovalBooks, ToolBooks, PostHookBooks, WriteBooks DEF Answer

\* Every step that may be taken keeps the books and asks for nothing twice.
Booking == Books' /\ (Pending(batch') \ Pending(batch)) \cap issued = {}

\* Where nothing happens to the executions, nothing happens to the books.
LEMMA IdleBooks ==
  ASSUME Books, UNCHANGED <<batch, told, issued>>, phase' = "stopped" \/ phase' = phase
  PROVE  Booking
<1>1. /\ batch' = batch /\ committed' = committed /\ finished' = finished /\ issued' = issued
  BY DEF told
<1>2. Books'
  BY <1>1 DEF Books, OnlyOnce, AllDone, Pending, PendingOf, Booked, DirectBooked, ProgramBooked,
     JournalBooked, RoundsUpto
<1>3. Pending(batch') \ Pending(batch) = {}
  BY <1>1
<1> QED BY <1>2, <1>3 DEF Booking

LEMMA NextBooks == IInv /\ Books /\ [Next]_vars => Booking
<1> SUFFICES ASSUME IInv, Books, [Next]_vars PROVE Booking
  OBVIOUS
<1>1. CASE Start BY <1>1, StartBooks DEF Booking
<1>2. CASE Answer BY <1>2, AnswerBooks, SettleBooks DEF Progress, Booking
<1>3. CASE Stop BY <1>3, IdleBooks DEF Stop
<1>4. CASE UNCHANGED vars BY <1>4, IdleBooks DEF vars
<1> QED BY <1>1, <1>2, <1>3, <1>4 DEF Next

-----------------------------------------------------------------------------
\* Whatever the scripts, their divergences and the answers, the books are
\* right (batch.rs 334-439, execution.rs 179-315, 482-598, action_id.rs 5-35).
THEOREM BatchBooked == Spec => [](IInv /\ Books)
<1>1. Init => IInv /\ Books
  BY InitInv, BooksInit
<1>2. IInv /\ Books /\ [Next]_vars => IInv' /\ Books'
  BY NextInv, NextBooks DEF Booking
<1> QED BY <1>1, <1>2, PTL DEF Spec

\* An action id that was used is never used for another piece of work: not
\* after a hook rewrote the call, not in a later round of a program, not when
\* its replay left the journal (action_id.rs 5-35, execution.rs 854-860).
THEOREM NeverReissuedHolds == Spec => NeverReissued
<1>1. IInv /\ Books /\ [Next]_vars => [(Pending(batch') \ Pending(batch)) \cap issued = {}]_vars
  BY NextBooks DEF Booking
<1> QED BY <1>1, BatchBooked, PTL DEF Spec, NeverReissued

\* Every answer moves one call of the batch forward and no other: an operation
\* to a later stage or its end, a program to a later round, whose number the
\* effect budget bounds unless replays leave their journals, or the call to its
\* file or its end (batch.rs 441-700, execution.rs 560-760).
THEOREM EveryAnswerMovesHolds == Spec => EveryAnswerMoves
<1> DEFINE Step == Answer => \E i \in DOMAIN batch :
                     /\ DOMAIN batch' = DOMAIN batch /\ Moved(batch[i], batch'[i])
                     /\ \A j \in DOMAIN batch \ {i} : batch'[j] = batch[j]
<1>1. IInv /\ Books /\ [Next]_vars => [Step]_vars
  <2> SUFFICES ASSUME IInv, Books, Answer PROVE Step
    OBVIOUS
  <2>1. PICK i, o : i \in DOMAIN batch /\ Settle(i, o) /\ Moved(batch[i], o.execution)
    BY AnswerBooks DEF Progress
  <2>2. batch' = [batch EXCEPT ![i] = o.execution]
    BY <2>1 DEF Settle, Resolve
  <2>3. /\ DOMAIN batch' = DOMAIN batch /\ batch'[i] = o.execution
        /\ \A j \in DOMAIN batch \ {i} : batch'[j] = batch[j]
    BY <2>1, <2>2
  <2> QED BY <2>1, <2>3
<1> QED BY <1>1, BatchBooked, PTL DEF Spec, EveryAnswerMoves

\* Each committed operation and each finished call is reported exactly once,
\* and no operation that still waits (batch.rs 334-418, execution.rs 482-598).
THEOREM ReportedOnceHolds == Spec => []ReportedOnce
<1>1. ASSUME IInv, Books PROVE ReportedOnce
  <2>1. ASSUME NEW i \in DOMAIN batch
        PROVE  LET e == batch[i] IN
               /\ BagIn(e.call.id, finished) <=> e.state = "done"
               /\ \A k \in DOMAIN e.ops : ~BagIn(e.ops[k].id, committed)
               /\ \A k \in DOMAIN e.journal :
                    e.journal[k].settled => BagIn(e.journal[k].id, committed)
    <3> DEFINE e == batch[i]
    <3>1. /\ Booked(e, DOMAIN committed, DOMAIN finished, issued)
          /\ e.state \in {"direct", "program", "write", "done"}
      <4>1. Shaped(batch[i]) /\ Booked(batch[i], DOMAIN committed, DOMAIN finished, issued)
        BY <1>1 DEF Books, IInv
      <4> QED BY <4>1 DEF Shaped, IsExecution
    <3> HIDE DEF e
    <3>2. BagIn(e.call.id, finished) <=> e.state = "done"
      BY <3>1 DEF Booked, BagIn, BagToSet
    <3>3. CASE e.state = "program"
      <4>1. ProgramBooked(e, DOMAIN committed, issued)
        BY <3>1, <3>3 DEF Booked
      <4> QED BY <3>2, <4>1 DEF ProgramBooked, JournalBooked, BagIn, BagToSet, e
    <3>4. CASE e.state = "direct"
      <4>1. DirectBooked(e, DOMAIN committed, issued) /\ DOMAIN e.journal = {}
        BY <3>1, <3>4 DEF Booked
      <4>2. \A k \in DOMAIN e.ops : e.ops[k].id.call = e.call.id
        BY <4>1 DEF DirectBooked, OpId
      <4> QED BY <3>2, <4>1, <4>2 DEF DirectBooked, BagIn, BagToSet, e
    <3>5. CASE e.state \in {"write", "done"}
      <4>1. DOMAIN e.journal = {} /\ DOMAIN e.ops = {}
        BY <3>1, <3>5 DEF Booked
      <4> QED BY <3>2, <4>1 DEF e
    <3> QED BY <3>1, <3>3, <3>4, <3>5
  <2>2. OnlyOnce(committed) /\ OnlyOnce(finished)
    BY <1>1 DEF Books
  <2> QED BY <2>1, <2>2 DEF OnlyOnce, ReportedOnce
<1> QED BY <1>1, BatchBooked, PTL

\* What waits in an execution is about its call, and waits once.
LEMMA PendingFacts ==
  ASSUME NEW e, Shaped(e), NEW commits, NEW done, NEW ids, Booked(e, commits, done, ids)
  PROVE  /\ \A a \in PendingOf(e) : a.op.call = e.call.id
         /\ e.state # "done" => PendingOf(e) # {}
         /\ Cardinality(PendingOf(e)) = IF e.state \in {"direct", "program"}
                                          THEN Cardinality(DOMAIN e.ops)
                                          ELSE IF e.state = "write" THEN 1 ELSE 0
<1>1. CASE e.state = "done"
  <2>1. PendingOf(e) = {}
    BY <1>1 DEF PendingOf
  <2> QED BY <1>1, <2>1, FS_EmptySet
<1>2. CASE e.state = "write"
  <2> DEFINE a == ActionId(e, "write", OpId(e.call.id, 0, 0))
  <2>1. PendingOf(e) = {a}
    BY <1>2 DEF PendingOf
  <2>2. a.op.call = e.call.id
    BY DEF ActionId, OpId
  <2> HIDE DEF a
  <2>3. Cardinality({a}) = 1
    BY FS_Singleton
  <2> QED BY <1>2, <2>1, <2>2, <2>3
<1>3. CASE e.state \in {"direct", "program"}
  <2> DEFINE f == [k \in DOMAIN e.ops |-> ActionId(e, e.ops[k].stage, e.ops[k].id)]
  <2>1. PendingOf(e) = {ActionId(e, e.ops[k].stage, e.ops[k].id) : k \in DOMAIN e.ops}
    BY <1>3 DEF PendingOf
  <2>2. /\ IsFiniteSet(DOMAIN e.ops) /\ DOMAIN e.ops # {}
        /\ \A k \in DOMAIN e.ops : e.ops[k].id.call = e.call.id
        /\ \A k, l \in DOMAIN e.ops : e.ops[k].id = e.ops[l].id => k = l
    <3>1. CASE e.state = "direct"
      <4>1. DOMAIN e.ops = {1} /\ e.ops[1].id = OpId(e.call.id, 0, 0)
        BY <3>1 DEF Booked, DirectBooked
      <4>2. IsFiniteSet({1})
        BY FS_Singleton
      <4> QED BY <4>1, <4>2 DEF OpId
    <3>2. CASE e.state = "program"
      <4>1. ProgramBooked(e, commits, ids)
        BY <3>2 DEF Booked
      <4>2. e.journal \in Seq(Entries)
        BY DEF Shaped, IsExecution, Entries
      <4>3. DOMAIN e.journal = 1 .. Len(e.journal) /\ Len(e.journal) \in Nat
        BY <4>2
      <4>4. IsFiniteSet(DOMAIN e.journal)
        BY <4>3, FS_Interval
      <4>5. DOMAIN e.ops \subseteq DOMAIN e.journal
        BY <4>1 DEF ProgramBooked
      <4>6. IsFiniteSet(DOMAIN e.ops)
        BY <4>4, <4>5, FS_Subset
      <4> QED BY <4>1, <4>6 DEF ProgramBooked, JournalBooked
    <3> QED BY <1>3, <3>1, <3>2
  <2>3. \A k \in DOMAIN e.ops : f[k].op = e.ops[k].id /\ f[k] \in PendingOf(e)
    BY <2>1 DEF ActionId
  <2>4. \A a \in PendingOf(e) : \E k \in DOMAIN e.ops : a = f[k]
    BY <2>1
  <2>5. f \in [DOMAIN e.ops -> PendingOf(e)]
    BY <2>3
  <2> HIDE DEF f
  <2>6. f \in Bijection(DOMAIN e.ops, PendingOf(e))
    <3>1. \A k, l \in DOMAIN e.ops : f[k] = f[l] => k = l
      BY <2>2, <2>3
    <3> QED BY <2>4, <2>5, <3>1 DEF Bijection, Injection, Surjection, IsInjective
  <2>7. ExistsBijection(DOMAIN e.ops, PendingOf(e))
    BY <2>6 DEF ExistsBijection
  <2>8. Cardinality(PendingOf(e)) = Cardinality(DOMAIN e.ops)
    BY <2>2, <2>7, FS_Bijection
  <2>9. \A a \in PendingOf(e) : a.op.call = e.call.id
    BY <2>2, <2>3, <2>4
  <2>10. PendingOf(e) # {}
    BY <2>2, <2>3
  <2> QED BY <1>3, <2>8, <2>9, <2>10
<1> QED BY <1>1, <1>2, <1>3 DEF Shaped, IsExecution

\* Whenever the batch waits a checkpoint can be taken and restored: something
\* is pending, no two actions share an id, and the pending operations of a
\* program are the unsettled ones of its journal, each of them once
\* (checkpoint/v1/mod.rs 142-270, state.rs 563-668).
THEOREM CheckpointableHolds == Spec => []Checkpointable
<1>1. ASSUME IInv, Books, phase = "running"
      PROVE  /\ Pending(batch) # {}
             /\ \A i, j \in DOMAIN batch : i # j => PendingOf(batch[i]) \cap PendingOf(batch[j]) = {}
  <2>1. \A i \in DOMAIN batch : /\ Shaped(batch[i])
                                /\ Booked(batch[i], DOMAIN committed, DOMAIN finished, issued)
    BY <1>1 DEF IInv, Books
  <2>2. \A i \in DOMAIN batch : /\ \A a \in PendingOf(batch[i]) : a.op.call = batch[i].call.id
                                /\ batch[i].state # "done" => PendingOf(batch[i]) # {}
    BY <2>1, PendingFacts
  <2>3. PICK i \in DOMAIN batch : batch[i].state # "done"
    BY <1>1 DEF Books, AllDone
  <2>4. Pending(batch) # {}
    BY <2>2, <2>3 DEF Pending
  <2>5. \A k, l \in DOMAIN batch : k # l => batch[k].call.id # batch[l].call.id
    BY <1>1 DEF Books
  <2> QED BY <2>2, <2>4, <2>5
<1>2. ASSUME IInv, Books, NEW i \in DOMAIN batch
      PROVE  LET e == batch[i] IN
             /\ Cardinality(PendingOf(e)) = IF e.state \in {"direct", "program"}
                                              THEN Cardinality(DOMAIN e.ops)
                                              ELSE IF e.state = "write" THEN 1 ELSE 0
             /\ e.state = "program" =>
                  /\ DOMAIN e.ops # {}
                  /\ DOMAIN e.ops = {k \in DOMAIN e.journal : ~e.journal[k].settled}
                  /\ \A k \in DOMAIN e.ops : e.ops[k].id = e.journal[k].id
                  /\ \A k, l \in DOMAIN e.journal : e.journal[k].id = e.journal[l].id => k = l
  <2> DEFINE e == batch[i]
  <2>1. Shaped(e) /\ Booked(e, DOMAIN committed, DOMAIN finished, issued)
    BY <1>2 DEF IInv, Books
  <2> HIDE DEF e
  <2>2. Cardinality(PendingOf(e)) = IF e.state \in {"direct", "program"}
                                      THEN Cardinality(DOMAIN e.ops)
                                      ELSE IF e.state = "write" THEN 1 ELSE 0
    BY <2>1, PendingFacts
  <2>3. e.state = "program" => ProgramBooked(e, DOMAIN committed, issued)
    BY <2>1 DEF Booked
  <2> QED BY <2>2, <2>3 DEF ProgramBooked, JournalBooked, e
<1>3. IInv /\ Books => Checkpointable
  BY <1>1, <1>2 DEF Checkpointable
<1> QED BY <1>3, BatchBooked, PTL

-----------------------------------------------------------------------------
(* What the model and the user are told.                                   *)

\* Messages come at the end of a batch, which has a call at least.
Course ==
  /\ phase = "idle" => batch = <<>>
  /\ phase # "idle" => DOMAIN batch # {}
  /\ phase \in {"idle", "running"} => messages = <<>>

CallIds == UNION {{calls[i].id : i \in DOMAIN calls} : calls \in Batches}

CallsMade == [i \in DOMAIN batch |-> batch[i].call.id]

\* The messages are true to what was reported.
LEMMA MessagesTold ==
  ASSUME NEW b, NEW S, \A i \in DOMAIN b : b[i].state = "done" <=> b[i].call.id \in S
  PROVE  LET cs == [i \in DOMAIN b |-> b[i].call.id] IN
         /\ Messages(b) = Answers!Told(cs, S)
         /\ Answers!Announced(cs, S) = IF AllDone(b) THEN Messages(b) ELSE <<>>
<1> DEFINE cs == [i \in DOMAIN b |-> b[i].call.id]
           m(i) == [id |-> b[i].call.id, how |-> IF b[i].state = "done" THEN "result" ELSE "interrupted"]
           t(i) == [id |-> cs[i], how |-> IF cs[i] \in S THEN "result" ELSE "interrupted"]
<1>1. \A i \in DOMAIN b : cs[i] = b[i].call.id
  OBVIOUS
<1>2. \A i \in DOMAIN b : m(i) = t(i)
  <2> SUFFICES ASSUME NEW i \in DOMAIN b PROVE m(i) = t(i)
    OBVIOUS
  <2> QED BY <1>1
<1>3. Messages(b) = [i \in DOMAIN b |-> m(i)]
  BY DEF Messages
<1>4. Answers!Told(cs, S) = [i \in DOMAIN b |-> t(i)]
  BY DEF Answers!Told
<1> HIDE DEF m, t
<1>5. Messages(b) = Answers!Told(cs, S)
  BY <1>2, <1>3, <1>4
<1>6. AllDone(b) <=> \A i \in DOMAIN cs : cs[i] \in S
  BY <1>1 DEF AllDone
<1> HIDE DEF cs
<1>7. Answers!Announced(cs, S) = IF AllDone(b) THEN Messages(b) ELSE <<>>
  BY <1>5, <1>6 DEF Answers!Announced
<1> QED BY <1>5, <1>7 DEF cs

\* An answer finishes a call, or changes nothing of what is told.
LEMMA SettleAnswers ==
  ASSUME IInv, Books, Books', Course, Progress
  PROVE  Course' /\ [Answers!Next]_(Answers!vars)
<1>1. PICK i \in DOMAIN batch : \E o :
        /\ phase = "running" /\ batch[i].state # "done" /\ Settle(i, o)
        /\ Moves(o, batch[i], DOMAIN committed, DOMAIN finished, issued)
  BY DEF Progress
<1>2. PICK o : /\ phase = "running" /\ batch[i].state # "done" /\ Settle(i, o)
               /\ Moves(o, batch[i], DOMAIN committed, DOMAIN finished, issued)
  BY <1>1
<1> DEFINE b == [batch EXCEPT ![i] = o.execution]
           id == batch[i].call.id
           cs == [j \in DOMAIN b |-> b[j].call.id]
<1>3. Resolve(b, o.commits, o.finished)
  BY <1>2 DEF Settle
<1>4. DOMAIN b = DOMAIN batch /\ \A j \in DOMAIN batch : b[j].call = batch[j].call
  BY <1>2 DEF Moves
<1>5. cs = CallsMade
  BY <1>4 DEF CallsMade
<1>6. batch' = b
  BY <1>3 DEF Resolve
<1>7. BagToSet(finished') = DOMAIN finished \cup o.finished /\ BagToSet(finished) = DOMAIN finished
  <2>1. OnlyOnce(finished) /\ DOMAIN finished \cap o.finished = {}
    BY <1>2 DEF Books, Moves
  <2>2. finished' = finished (+) SetToBag(o.finished)
    BY <1>3 DEF Resolve
  <2>3. DOMAIN finished' = DOMAIN finished \cup o.finished
    BY <2>1, <2>2, AddedOnce
  <2> QED BY <2>3 DEF BagToSet
<1>8. \A j \in DOMAIN b : b[j].state = "done" <=> b[j].call.id \in BagToSet(finished')
  <2>1. \A j \in DOMAIN batch' : Booked(batch'[j], DOMAIN committed', DOMAIN finished', issued')
    BY DEF Books, Booked, DirectBooked, ProgramBooked, JournalBooked, RoundsUpto
  <2> HIDE DEF b
  <2> QED BY <2>1, <1>6 DEF Booked, BagToSet
<1>9. id \notin DOMAIN finished
  BY <1>2 DEF Books, Booked
<1>10. o.finished = {} \/ o.finished = {id}
  BY <1>2 DEF Moves
<1>11. messages = <<>> /\ DOMAIN batch # {}
  BY <1>2 DEF Course
<1> HIDE DEF b, cs
<1>12. /\ messages' = IF AllDone(b) THEN Messages(b) ELSE <<>>
       /\ phase' \in {"running", "answered"} /\ (phase' = "running" <=> ~AllDone(b))
  BY <1>3, <1>11 DEF Resolve
<1>13. messages' = Answers!Announced(cs, BagToSet(finished'))
  BY <1>8, <1>12, MessagesTold DEF cs
<1>14. Course'
  BY <1>4, <1>6, <1>11, <1>12 DEF Course
<1>15. CallsMade' = CallsMade
  BY <1>5, <1>6 DEF CallsMade, cs
<1>16. CASE o.finished = {}
  <2>1. BagToSet(finished') = BagToSet(finished)
    BY <1>7, <1>16
  <2>2. b[i].call.id = id /\ i \in DOMAIN b
    BY <1>4
  <2>3. ~AllDone(b)
    BY <2>1, <2>2, <1>7, <1>8, <1>9 DEF AllDone
  <2>4. messages' = messages
    BY <2>3, <1>11, <1>12
  <2>5. UNCHANGED Answers!vars
    BY <2>1, <2>4, <1>15 DEF Answers!vars, CallsMade
  <2> QED BY <2>5, <1>14
<1>17. CASE o.finished = {id}
  <2>1. DOMAIN CallsMade # {} /\ CallsMade # <<>> /\ CallsMade[i] = id /\ i \in DOMAIN CallsMade
    BY <1>11 DEF CallsMade
  <2>2. BagToSet(finished') = BagToSet(finished) \cup {id} /\ id \notin BagToSet(finished)
    BY <1>7, <1>9, <1>17
  <2>3. messages' = Answers!Announced(CallsMade, BagToSet(finished'))
    BY <1>5, <1>13
  <2> HIDE DEF id
  <2>4. Answers!Finish
    BY <2>1, <2>2, <2>3, <1>11, <1>15 DEF Answers!Finish, Answers!Ids, CallsMade
  <2> QED BY <2>4, <1>14 DEF Answers!Next
<1> QED BY <1>10, <1>16, <1>17

\* A batch begins with the calls of a message; some may be finished at once.
LEMMA StartAnswers ==
  ASSUME IInv, Books, Books', Course, Start
  PROVE  Course' /\ Answers!Begin
<1>1. PICK calls \in Batches :
        \E s \in [DOMAIN calls -> UNION {Started(calls[i]) : i \in DOMAIN calls}] :
          /\ \A i \in DOMAIN calls : s[i] \in Started(calls[i])
          /\ Resolve([i \in DOMAIN calls |-> s[i].execution],
                     UNION {s[i].commits : i \in DOMAIN calls},
                     UNION {s[i].finished : i \in DOMAIN calls})
  BY DEF Start
<1>2. PICK s \in [DOMAIN calls -> UNION {Started(calls[i]) : i \in DOMAIN calls}] :
        /\ \A i \in DOMAIN calls : s[i] \in Started(calls[i])
        /\ Resolve([i \in DOMAIN calls |-> s[i].execution],
                   UNION {s[i].commits : i \in DOMAIN calls},
                   UNION {s[i].finished : i \in DOMAIN calls})
  BY <1>1
<1> DEFINE b == [i \in DOMAIN calls |-> s[i].execution]
           done == UNION {s[i].finished : i \in DOMAIN calls}
           cs == [i \in DOMAIN b |-> b[i].call.id]
<1>3. calls \in Seq(Calls) /\ calls # <<>>
  BY BatchAssumption DEF IsBatch, Calls
<1>4. PICK n \in Nat : DOMAIN calls = 1 .. n /\ n > 0
  <2>1. DOMAIN calls = 1 .. Len(calls) /\ Len(calls) \in Nat /\ Len(calls) > 0
    BY <1>3
  <2> QED BY <2>1
<1>5. batch = <<>> /\ messages = <<>>
  BY DEF Course, Start
<1>6. /\ batch' = b /\ finished' = finished (+) SetToBag(done)
      /\ messages' = IF AllDone(b) THEN Messages(b) ELSE <<>>
      /\ phase' \in {"running", "answered"} /\ (phase' = "running" <=> ~AllDone(b))
  BY <1>2, <1>5 DEF Resolve
<1>7. \A i \in DOMAIN calls : b[i].call = calls[i] /\ s[i].finished \subseteq {calls[i].id}
  <2> SUFFICES ASSUME NEW i \in DOMAIN calls
               PROVE  b[i].call = calls[i] /\ s[i].finished \subseteq {calls[i].id}
    OBVIOUS
  <2> DEFINE none == {}
             e == Fresh(calls[i])
             o == s[i]
  <2>1. calls[i] \in Calls /\ o \in Started(calls[i]) /\ Config
    BY <1>2, <1>3 DEF IInv
  <2>2. Moves(o, e, none, none, none)
    BY <2>1, StartedMoves
  <2>3. e.call = calls[i]
    BY DEF Fresh
  <2> HIDE DEF none, e
  <2> QED BY <2>2, <2>3 DEF Moves
<1>8. DOMAIN b = DOMAIN calls
  OBVIOUS
<1>9. \A i \in DOMAIN b : b[i].state = "done" <=> b[i].call.id \in BagToSet(finished')
  <2>1. \A j \in DOMAIN batch' : Booked(batch'[j], DOMAIN committed', DOMAIN finished', issued')
    BY DEF Books, Booked, DirectBooked, ProgramBooked, JournalBooked, RoundsUpto
  <2> HIDE DEF b
  <2> QED BY <2>1, <1>6 DEF Booked, BagToSet
<1>10. BagToSet(finished') = done
  <2> HIDE DEF done
  <2>1. DOMAIN finished = {} /\ OnlyOnce(finished)
    BY DEF Books, Start
  <2>2. DOMAIN finished \cap done = {}
    BY <2>1
  <2>3. DOMAIN finished' = DOMAIN finished \cup done
    BY <1>6, <2>1, <2>2, AddedOnce
  <2> QED BY <2>1, <2>3 DEF BagToSet
<1>11. messages' = Answers!Announced(cs, BagToSet(finished'))
  <2> HIDE DEF b
  <2> QED BY <1>6, <1>9, MessagesTold
<1>12. cs = [i \in 1 .. n |-> calls[i].id]
  BY <1>4, <1>7, <1>8
<1> HIDE DEF b, cs
<1>13. cs \in Seq(CallIds) /\ cs # <<>> /\ DOMAIN cs = 1 .. n /\ \A i \in 1 .. n : cs[i] = calls[i].id
  <2>1. \A i \in 1 .. n : calls[i].id \in CallIds
    <3> DEFINE ids == {calls[i].id : i \in DOMAIN calls}
    <3>1. \A i \in 1 .. n : calls[i].id \in ids
      BY <1>4
    <3>2. ids \subseteq CallIds
      BY DEF CallIds
    <3> HIDE DEF ids
    <3> QED BY <3>1, <3>2
  <2>2. 1 \in 1 .. n
    BY <1>4
  <2>3. cs \in Seq(CallIds)
    BY <2>1, <1>4, <1>12
  <2>4. DOMAIN cs = 1 .. n /\ \A i \in 1 .. n : cs[i] = calls[i].id
    BY <1>12
  <2>5. cs # <<>>
    BY <2>2, <2>4
  <2> QED BY <2>3, <2>4, <2>5
<1>14. done \subseteq {cs[i] : i \in DOMAIN cs}
  <2>1. \A i \in DOMAIN calls : \A id \in s[i].finished : id = cs[i] /\ i \in DOMAIN cs
    BY <1>4, <1>7, <1>13
  <2> QED BY <2>1
<1> HIDE DEF done
<1>15. CallsMade = <<>> /\ CallsMade' = cs
  <2>1. CallsMade' = [i \in DOMAIN batch' |-> batch'[i].call.id]
    BY DEF CallsMade
  <2> QED BY <2>1, <1>5, <1>6 DEF CallsMade, cs
<1>16. Answers!Begin
  BY <1>10, <1>11, <1>13, <1>14, <1>15, SMTT(30) DEF Answers!Begin, CallsMade, CallIds
<1>17. DOMAIN b # {}
  <2>1. 1 \in 1 .. n
    BY <1>4
  <2> QED BY <2>1, <1>4, <1>8
<1>18. Course'
  BY <1>6, <1>17 DEF Course
<1> QED BY <1>16, <1>18

\* A turn that stops tells the model what was finished.
LEMMA StopAnswers ==
  ASSUME IInv, Books, Course, Stop
  PROVE  Course' /\ Answers!Abandon
<1>1. /\ batch' = batch /\ finished' = finished /\ messages' = Messages(batch)
      /\ phase' = "stopped" /\ messages = <<>> /\ DOMAIN batch # {}
  BY DEF Stop, told, Course
<1>2. \A i \in DOMAIN batch : batch[i].state = "done" <=> batch[i].call.id \in BagToSet(finished)
  BY DEF Books, Booked, BagToSet
<1>3. messages' = Answers!Told(CallsMade, BagToSet(finished))
  BY <1>1, <1>2, MessagesTold DEF CallsMade
<1>4. CallsMade # <<>> /\ CallsMade' = CallsMade
  <2>1. CallsMade' = [i \in DOMAIN batch' |-> batch'[i].call.id]
    BY DEF CallsMade
  <2>2. DOMAIN CallsMade # {}
    BY <1>1 DEF CallsMade
  <2> QED BY <2>1, <2>2, <1>1 DEF CallsMade
<1>5. Answers!Abandon
  BY <1>1, <1>3, <1>4 DEF Answers!Abandon, CallsMade
<1>6. Course'
  BY <1>1 DEF Course
<1> QED BY <1>5, <1>6

\* What the user was told to be finished is what the model is given a result
\* for, in call order, all at once, also when the turn is interrupted half-way
\* (batch.rs 420-439, mod.rs 132-160, turn.rs 741-774).
THEOREM BatchAnswersCalls == Spec => AnswersRefined
<1>1. Init => Course /\ Answers!Init
  <2> SUFFICES ASSUME Init PROVE Course /\ Answers!Init
    OBVIOUS
  <2>1. batch = <<>> /\ messages = <<>> /\ finished = EmptyBag /\ phase = "idle"
    BY DEF Init
  <2>2. BagToSet(finished) = {}
    BY <2>1 DEF BagToSet, EmptyBag, SetToBag
  <2>3. CallsMade = <<>>
    BY <2>1 DEF CallsMade
  <2> QED BY <2>1, <2>2, <2>3 DEF Course, Answers!Init, CallsMade
<1>2. IInv /\ Books /\ Course /\ [Next]_vars => Course' /\ [Answers!Next]_(Answers!vars)
  <2> SUFFICES ASSUME IInv, Books, Course, [Next]_vars
               PROVE  Course' /\ [Answers!Next]_(Answers!vars)
    OBVIOUS
  <2>1. Books'
    BY NextBooks DEF Booking
  <2>2. CASE Start BY <2>1, <2>2, StartAnswers DEF Answers!Next
  <2>3. CASE Answer BY <2>1, <2>3, AnswerBooks, SettleAnswers
  <2>4. CASE Stop BY <2>4, StopAnswers DEF Answers!Next
  <2>5. CASE UNCHANGED vars
    BY <2>5 DEF vars, told, Course, Answers!vars
  <2> QED BY <2>2, <2>3, <2>4, <2>5 DEF Next
<1>3. Init => IInv /\ Books
  BY InitInv, BooksInit
<1>4. IInv /\ Books /\ [Next]_vars => IInv' /\ Books'
  BY NextInv, NextBooks DEF Booking
<1> QED BY <1>1, <1>2, <1>3, <1>4, PTL DEF Spec, AnswersRefined, Answers!Spec
=============================================================================
