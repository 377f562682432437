------------------------------ MODULE ToolBatch ------------------------------
(***************************************************************************)
(* The tool calls of one assistant message, from the completion that made   *)
(* them to the messages that answer them (tools/execution/batch.rs), with   *)
(* the programs among them (features/programmatic_tool_calling).            *)
(*                                                                         *)
(* A direct call is one operation.  A program is a script that is replayed  *)
(* from its journal: an evaluation replays the settled operations, reaches  *)
(* some new ones and stops until all of them are settled.  An operation     *)
(* waits for a pre-tool hook, for an approval, for its tool or for a        *)
(* post-tool hook; its result, or the program's, may have to be written to  *)
(* a file.  The Runtime answers the pending actions in any order.           *)
(***************************************************************************)
EXTENDS Integers, Sequences, FiniteSets, Bags

CONSTANTS
  Batches,     \* the assistant messages: sequences of calls [id, kind, args]
  Args,        \* the arguments a call, a hook or a script may give a tool
  Policy,      \* the permission policy: [Args -> {"allow", "deny", "ask"}]
  MaxEffects,  \* settings.tools.programmatic.max_effects
  MaxRounds,   \* bound: a script at this round can only end
  MayDiverge   \* whether a replay may leave its journal

Kinds == {"invalid", "search", "tool", "skill", "program"}

\* A completion with two calls of one id is rejected (candidate.rs).
IsBatch(calls) ==
  /\ calls \in Seq([id : STRING, kind : Kinds, args : Args]) \ {<<>>}
  /\ \A i, j \in DOMAIN calls : calls[i].id = calls[j].id => i = j

ASSUME BatchAssumption == \A calls \in Batches : IsBatch(calls)

ASSUME PolicyAssumption == Policy \in [Args -> {"allow", "deny", "ask"}]

ASSUME BoundAssumption ==
  /\ MaxEffects \in Nat \ {0} /\ MaxRounds \in Nat
  /\ MayDiverge \in BOOLEAN

VARIABLES
  config,    \* which hooks are bound, and whether large results are written
  phase,     \* "idle", "running", "answered", "stopped"
  batch,     \* the executions, one for each call
  messages,  \* the tool messages the batch added to the context
  committed, \* bag: the operations of the ToolResultCommitted observations
  finished,  \* bag: the calls of the ToolExecutionFinished observations
  issued,    \* the ids of all actions that were ever pending
  vetted,    \* <<operation, args>> that a pre-tool hook continued
  granted    \* <<operation, args>> that an approval approved

told == <<committed, finished>>
vars == <<config, phase, batch, messages, told, issued, vetted, granted>>

-----------------------------------------------------------------------------
(* Executions and their pending actions.  An execution is in one of the    *)
(* states "direct" (its operation is ops[1]), "program" (ops[k] is the     *)
(* pending operation of journal[k]), "write" and "done".                   *)

\* Seeded fault: the round is left out of the identity.
OpIdWithoutRound(call, round, index) == [call |-> call, round |-> 0, index |-> index]

OpId(call, round, index) == [call |-> call, round |-> round, index |-> index]

Fresh(call) ==
  [call |-> call, state |-> "direct", ops |-> <<>>, journal |-> <<>>, round |-> 0]

IsProgram(e) == e.call.kind = "program"

ActionId(e, kind, op) == [kind |-> kind, program |-> IsProgram(e), op |-> op]

\* action_id.rs: hook, approval and tool ids derive from the operation's id.
PendingOf(e) ==
  CASE e.state = "done" -> {}
    [] e.state = "write" -> {ActionId(e, "write", OpId(e.call.id, 0, 0))}
    [] OTHER -> {ActionId(e, e.ops[k].stage, e.ops[k].id) : k \in DOMAIN e.ops}

Pending(b) == UNION {PendingOf(b[i]) : i \in DOMAIN b}

-----------------------------------------------------------------------------
(* One operation.  "denied" and "settled" end it: refused by the policy or  *)
(* by the user, or with a result.                                          *)

Ended == {"denied", "settled"}

\* The decision is taken on the arguments the tool would be called with.
Admitted(op, args) ==
  [op EXCEPT !.args = args,
             !.stage = CASE Policy[args] = "allow" -> "tool"
                         [] Policy[args] = "ask" -> "approval"
                         [] Policy[args] = "deny" -> "denied"]

NewOp(id, args) ==
  LET op == [id |-> id, args |-> args, stage |-> "preHook"]
  IN  IF config.pre THEN op ELSE Admitted(op, args)

\* Seeded fault: the decision is taken on the arguments of the original call.
AfterPreHookOnOriginal(op) ==
  {[Admitted(op, op.args) EXCEPT !.args = args] : args \in Args}
    \cup {[op EXCEPT !.stage = "settled"]}

\* Seeded fault: arguments that a hook rewrote go through the hooks again.
AfterPreHookAgain(op) ==
  {IF args = op.args THEN Admitted(op, args) ELSE [op EXCEPT !.args = args] : args \in Args}
    \cup {[op EXCEPT !.stage = "settled"]}

AfterPreHook(op) == {Admitted(op, args) : args \in Args}   \* continue
                      \cup {[op EXCEPT !.stage = "settled"]}  \* skip, failure

AfterApproval(op) == {[op EXCEPT !.stage = "tool"],
                      [op EXCEPT !.stage = "denied"]}      \* reject, timeout

AfterTool(op) == {[op EXCEPT !.stage = IF config.post THEN "postHook" ELSE "settled"]}

AfterPostHook(op) == {[op EXCEPT !.stage = "settled"]}

-----------------------------------------------------------------------------
(* What becomes of an execution: its next state and what is observed.      *)

Outcome(e, commits, done) ==
  [execution |-> e, commits |-> commits, finished |-> IF done THEN {e.call.id} ELSE {}]

Leave(e, state) == [e EXCEPT !.state = state, !.ops = <<>>, !.journal = <<>>]

Done(e, commits) == Outcome(Leave(e, "done"), commits, TRUE)

\* A direct result is committed when it is final; a program's operations
\* were committed one by one.
Completed(e, commits) ==
  Done(e, commits \cup IF IsProgram(e) THEN {} ELSE {OpId(e.call.id, 0, 0)})

\* Seeded fault: the result is committed when its write is asked for.
FinalizedEarly(e, commits) ==
  {Completed(e, commits)} \cup
  (IF config.writes /\ e.call.kind # "skill"
     THEN {Outcome(Leave(e, "write"), Completed(e, commits).commits, FALSE)} ELSE {})

\* The result is small enough, or it is written to a file first.
Finalized(e, commits) ==
  {Completed(e, commits)} \cup
  (IF config.writes /\ e.call.kind # "skill"
     THEN {Outcome(Leave(e, "write"), commits, FALSE)} ELSE {})

\* A direct call that is refused is answered without a committed result.
DirectNext(e, op) ==
  CASE op.stage = "denied" -> {Done(e, {})}
    [] op.stage = "settled" -> Finalized(e, {})
    [] OTHER -> {Outcome([e EXCEPT !.ops = <<op>>], {}, FALSE)}

-----------------------------------------------------------------------------
(* Programs.  One Step may run through several rounds in which every new   *)
(* operation is denied at once; `cuts' says where in the new operations a   *)
(* new round begins.                                                       *)

RoundAt(round, cuts, i) == round + Cardinality({c \in cuts : c <= i})

\* The new operations of the rounds that follow a journal.
Reached(e, journal, round, args, cuts) ==
  [i \in 1 .. Len(args) |->
     NewOp(OpId(e.call.id, RoundAt(round, cuts, i), Len(journal) + i - 1), args[i])]

Refused(new) == {i \in DOMAIN new : new[i].stage = "denied"}

\* Only the last round may hold an operation that waits.
IsRun(new) ==
  \A i \in DOMAIN new \ Refused(new) : new[i].id.round = new[Len(new)].id.round

\* Seeded fault: the execution remembers the round the Step began with.
SuspendedInOldRound(e, journal, new) ==
  LET old == Len(journal) IN
  [e EXCEPT !.state = "program",
            !.journal = journal \o [i \in DOMAIN new |->
                          [id |-> new[i].id, settled |-> i \in Refused(new)]],
            !.ops = [k \in {old + i : i \in DOMAIN new \ Refused(new)} |-> new[k - old]]]

\* Seeded fault: a refused operation stays unsettled in the journal.
SuspendedUnsettled(e, journal, new) ==
  LET old == Len(journal) IN
  [e EXCEPT !.state = "program",
            !.round = new[Len(new)].id.round,
            !.journal = journal \o [i \in DOMAIN new |-> [id |-> new[i].id, settled |-> FALSE]],
            !.ops = [k \in {old + i : i \in DOMAIN new \ Refused(new)} |-> new[k - old]]]

Suspended(e, journal, new) ==
  LET old == Len(journal) IN
  [e EXCEPT !.state = "program",
            !.round = new[Len(new)].id.round,
            !.journal = journal \o [i \in DOMAIN new |->
                          [id |-> new[i].id, settled |-> i \in Refused(new)]],
            !.ops = [k \in {old + i : i \in DOMAIN new \ Refused(new)} |-> new[k - old]]]

Evaluated(e, journal, new, commits) ==
  LET all == commits \cup {new[i].id : i \in Refused(new)} IN
  IF Refused(new) = DOMAIN new
    THEN Finalized(e, all)
    ELSE {Outcome(Suspended(e, journal, new), all, FALSE)}

\* The rounds that follow are those the bound allows.
Cuts(round, n) == {cuts \in SUBSET (2 .. n) :
                     n = 0 \/ round + Cardinality(cuts) <= MaxRounds}

\* A replay keeps its journal, or a prefix of it when it diverges.
Replayed(journal) ==
  IF MayDiverge THEN {SubSeq(journal, 1, n) : n \in 0 .. Len(journal)} ELSE {journal}

Driven(e, journal, round, commits) ==
  UNION {UNION {LET new == Reached(e, run[1], round, args, cuts) IN
                IF IsRun(new) THEN Evaluated(e, run[1], new, commits) ELSE {} :
                  args \in [1 .. run[2] -> Args], cuts \in Cuts(round, run[2])} :
         run \in {r \in Replayed(journal) \X (0 .. MaxEffects) :
                    Len(r[1]) + r[2] <= MaxEffects}}

\* Seeded fault: an operation that ends is not settled in the journal.
ProgramNextUnjournalled(e, k, op) ==
  LET ops == [j \in DOMAIN e.ops \ {k} |-> e.ops[j]]
  IN  IF op.stage \notin Ended THEN {Outcome([e EXCEPT !.ops[k] = op], {}, FALSE)}
      ELSE IF DOMAIN ops # {}
      THEN {Outcome([e EXCEPT !.ops = ops], {op.id}, FALSE)}
      ELSE Driven(e, e.journal, e.round + 1, {op.id})

\* Seeded fault: a refusal does not resume the script.
ProgramNextUnresumed(e, k, op) ==
  LET journal == [e.journal EXCEPT ![k].settled = TRUE]
      ops == [j \in DOMAIN e.ops \ {k} |-> e.ops[j]]
  IN  IF op.stage \notin Ended THEN {Outcome([e EXCEPT !.ops[k] = op], {}, FALSE)}
      ELSE IF DOMAIN ops # {} \/ op.stage = "denied"
      THEN {Outcome([e EXCEPT !.journal = journal, !.ops = ops], {op.id}, FALSE)}
      ELSE Driven(e, journal, e.round + 1, {op.id})

\* An operation that ends is committed; the script goes on when it was the
\* last one of its round.
ProgramNext(e, k, op) ==
  LET journal == [e.journal EXCEPT ![k].settled = TRUE]
      ops == [j \in DOMAIN e.ops \ {k} |-> e.ops[j]]
  IN  IF op.stage \notin Ended THEN {Outcome([e EXCEPT !.ops[k] = op], {}, FALSE)}
      ELSE IF DOMAIN ops # {}
      THEN {Outcome([e EXCEPT !.journal = journal, !.ops = ops], {op.id}, FALSE)}
      ELSE Driven(e, journal, e.round + 1, {op.id})

OperationNext(e, k, op) ==
  IF IsProgram(e) THEN ProgramNext(e, k, op) ELSE DirectNext(e, op)

Started(call) ==
  CASE call.kind \in {"invalid", "search"} -> {Done(Fresh(call), {})}
    [] call.kind = "program" -> Driven(Fresh(call), <<>>, 0, {})
    [] OTHER -> DirectNext(Fresh(call), NewOp(OpId(call.id, 0, 0), call.args))

-----------------------------------------------------------------------------
Init ==
  /\ config \in [pre : BOOLEAN, post : BOOLEAN, writes : BOOLEAN]
  /\ phase = "idle"
  /\ batch = <<>>
  /\ messages = <<>>
  /\ committed = EmptyBag /\ finished = EmptyBag
  /\ issued = {} /\ vetted = {} /\ granted = {}

AllDone(b) == \A i \in DOMAIN b : b[i].state = "done"

\* Seeded fault: a result that waits for its file counts as complete.
MessagesEarly(b) ==
  [i \in DOMAIN b |-> [id |-> b[i].call.id,
     how |-> IF b[i].state \in {"done", "write"} THEN "result" ELSE "interrupted"]]

\* Completed calls keep their result, the others were interrupted.
Messages(b) ==
  [i \in DOMAIN b |-> [id |-> b[i].call.id,
                       how |-> IF b[i].state = "done" THEN "result" ELSE "interrupted"]]

\* The batch waits for more answers, or the turn goes on with its messages.
Resolve(b, commits, done) ==
  /\ batch' = b
  /\ committed' = committed (+) SetToBag(commits)
  /\ finished' = finished (+) SetToBag(done)
  /\ issued' = issued \cup Pending(b)
  /\ IF AllDone(b)
       THEN phase' = "answered" /\ messages' = Messages(b)
       ELSE phase' = "running" /\ UNCHANGED messages

Start ==
  /\ phase = "idle"
  /\ \E calls \in Batches :
       \E s \in [DOMAIN calls -> UNION {Started(calls[i]) : i \in DOMAIN calls}] :
         /\ \A i \in DOMAIN calls : s[i] \in Started(calls[i])
         /\ Resolve([i \in DOMAIN calls |-> s[i].execution],
                    UNION {s[i].commits : i \in DOMAIN calls},
                    UNION {s[i].finished : i \in DOMAIN calls})
  /\ UNCHANGED <<config, vetted, granted>>

Settle(i, o) == Resolve([batch EXCEPT ![i] = o.execution], o.commits, o.finished)

\* An operation of execution i waits at `stage'.
Waits(i, k, stage) ==
  /\ phase = "running"
  /\ batch[i].state \in {"direct", "program"}
  /\ batch[i].ops[k].stage = stage

Advance(i, k, op) == \E o \in OperationNext(batch[i], k, op) : Settle(i, o)

PreHookAnswered ==
  \E i \in DOMAIN batch : \E k \in DOMAIN batch[i].ops :
    /\ Waits(i, k, "preHook")
    /\ \E op \in AfterPreHook(batch[i].ops[k]) :
         /\ Advance(i, k, op)
         /\ vetted' = IF op.stage = "settled" THEN vetted
                      ELSE vetted \cup {<<op.id, op.args>>}
    /\ UNCHANGED <<config, granted>>

ApprovalAnswered ==
  \E i \in DOMAIN batch : \E k \in DOMAIN batch[i].ops :
    /\ Waits(i, k, "approval")
    /\ \E op \in AfterApproval(batch[i].ops[k]) :
         /\ Advance(i, k, op)
         /\ granted' = IF op.stage = "denied" THEN granted
                       ELSE granted \cup {<<op.id, op.args>>}
    /\ UNCHANGED <<config, vetted>>

ToolAnswered ==
  \E i \in DOMAIN batch : \E k \in DOMAIN batch[i].ops :
    /\ Waits(i, k, "tool")
    /\ \E op \in AfterTool(batch[i].ops[k]) : Advance(i, k, op)
    /\ UNCHANGED <<config, vetted, granted>>

PostHookAnswered ==
  \E i \in DOMAIN batch : \E k \in DOMAIN batch[i].ops :
    /\ Waits(i, k, "postHook")
    /\ \E op \in AfterPostHook(batch[i].ops[k]) : Advance(i, k, op)
    /\ UNCHANGED <<config, vetted, granted>>

\* Written or not, the result is final.
WriteAnswered ==
  \E i \in DOMAIN batch :
    /\ phase = "running"
    /\ batch[i].state = "write"
    /\ Settle(i, Completed(batch[i], {}))
    /\ UNCHANGED <<config, vetted, granted>>

\* interrupt, and fail_turn after a failure of one of the actions.
Stop ==
  /\ phase = "running"
  /\ phase' = "stopped"
  /\ messages' = Messages(batch)
  /\ UNCHANGED <<config, batch, told, issued, vetted, granted>>

Answer == \/ PreHookAnswered \/ ApprovalAnswered \/ ToolAnswered
          \/ PostHookAnswered \/ WriteAnswered

Next == Start \/ Answer \/ Stop

Spec == Init /\ [][Next]_vars

\* The Runtime answers every action it is given.
LiveSpec == Spec /\ WF_vars(Answer)

-----------------------------------------------------------------------------
(* Properties *)

Stages == {"preHook", "approval", "tool", "postHook"}

Ids == [call : STRING, round : Nat, index : Nat]
Ops == [id : Ids, args : Args, stage : Stages]

IsExecution(e) ==
  /\ e.call \in [id : STRING, kind : Kinds, args : Args]
  /\ e.state \in {"direct", "program", "write", "done"}
  /\ \A k \in DOMAIN e.ops : e.ops[k] \in Ops
  /\ e.journal \in Seq([id : Ids, settled : BOOLEAN])
  /\ e.round \in Nat

\* Every variable has its type.
TypeOK ==
  /\ config \in [pre : BOOLEAN, post : BOOLEAN, writes : BOOLEAN]
  /\ phase \in {"idle", "running", "answered", "stopped"}
  /\ DOMAIN batch \subseteq Nat /\ \A i \in DOMAIN batch : IsExecution(batch[i])
  /\ messages \in Seq([id : STRING, how : {"result", "interrupted"}])
  /\ vetted \subseteq Ids \X Args
  /\ granted \subseteq Ids \X Args

\* A tool runs only with arguments that the policy allows or that the user
\* approved for this very operation, and only after the pre-tool hooks let
\* these arguments through; the user is only asked about what the policy
\* leaves to him (batch.rs 130-186, 589-700, 780-810; execution.rs 226-255,
\* 540-570: permissions are evaluated on the effective call).
Cleared(op) == config.pre => <<op.id, op.args>> \in vetted

NothingUnpermitted ==
  \A i \in DOMAIN batch : \A k \in DOMAIN batch[i].ops :
    LET op == batch[i].ops[k] IN
    /\ op.stage = "approval" => Policy[op.args] = "ask" /\ Cleared(op)
    /\ op.stage \in {"tool", "postHook"} =>
         /\ Cleared(op)
         /\ \/ Policy[op.args] = "allow"
            \/ Policy[op.args] = "ask" /\ <<op.id, op.args>> \in granted

\* A checkpoint can be taken whenever the batch waits: there is pending work,
\* no two pending actions share an id, and the pending operations of a program
\* are the unsettled ones of its journal, none of them twice
\* (checkpoint/v1/mod.rs 142-270, state.rs 563-668).
Checkpointable ==
  phase = "running" =>
    /\ Pending(batch) # {}
    /\ \A i, j \in DOMAIN batch : i # j => PendingOf(batch[i]) \cap PendingOf(batch[j]) = {}
    /\ \A i \in DOMAIN batch :
         LET e == batch[i] IN
         /\ Cardinality(PendingOf(e)) = IF e.state \in {"direct", "program"}
                                          THEN Cardinality(DOMAIN e.ops)
                                          ELSE IF e.state = "write" THEN 1 ELSE 0
         /\ e.state = "program" =>
              /\ DOMAIN e.ops # {}
              /\ DOMAIN e.ops = {k \in DOMAIN e.journal : ~e.journal[k].settled}
              /\ \A k \in DOMAIN e.ops : e.ops[k].id = e.journal[k].id
              /\ \A k, l \in DOMAIN e.journal : e.journal[k].id = e.journal[l].id => k = l

\* The Runtime keeps results by action id, so an id never comes back for
\* another piece of work: not after a hook rewrote the call, not in a later
\* round of a program, not when its replay left the journal
\* (action_id.rs 5-35, execution.rs 854-860).
NeverReissued ==
  [][(Pending(batch') \ Pending(batch)) \cap issued = {}]_vars

\* A program is replayed only when all its operations are settled: what is
\* pending was reached by the last evaluation (state.rs 547-556).
OneRoundAtATime ==
  \A i \in DOMAIN batch : batch[i].state = "program" =>
    \A k \in DOMAIN batch[i].ops : batch[i].ops[k].id.round = batch[i].round

\* The user interface hears of each committed operation and of each finished
\* call exactly once, and of no operation that still waits
\* (batch.rs 334-418, execution.rs 482-598).
ReportedOnce ==
  /\ \A id \in DOMAIN committed : committed[id] = 1
  /\ \A id \in DOMAIN finished : finished[id] = 1
  /\ \A i \in DOMAIN batch :
       LET e == batch[i] IN
       /\ BagIn(e.call.id, finished) <=> e.state = "done"
       /\ \A k \in DOMAIN e.ops : ~BagIn(e.ops[k].id, committed)
       /\ \A k \in DOMAIN e.journal :
            e.journal[k].settled => BagIn(e.journal[k].id, committed)

Answers == INSTANCE CallsAnswered WITH
  CallIds <- UNION {{calls[i].id : i \in DOMAIN calls} : calls \in Batches},
  calls <- [i \in DOMAIN batch |-> batch[i].call.id],
  finished <- BagToSet(finished)

\* The batch keeps the promise of CallsAnswered: what the user was told to be
\* finished is what the model is given a result for, in call order, all at
\* once, also when the turn is interrupted half-way
\* (batch.rs 420-439, mod.rs 132-160, turn.rs 741-774).
AnswersRefined == Answers!Spec

Order == [preHook |-> 1, approval |-> 2, tool |-> 3, postHook |-> 4]

\* One operation of the round has ended or waits at a later stage.
OperationMoved(from, to) ==
  /\ to.round = from.round /\ Len(to.journal) = Len(from.journal)
  /\ \E k \in DOMAIN from.ops :
       /\ \A j \in DOMAIN from.ops \ {k} : j \in DOMAIN to.ops /\ to.ops[j] = from.ops[j]
       /\ \/ DOMAIN to.ops = DOMAIN from.ops \ {k}
          \/ /\ DOMAIN to.ops = DOMAIN from.ops
             /\ Order[to.ops[k].stage] > Order[from.ops[k].stage]

\* The script is in a later round, with more of its effects used up.
RoundMoved(from, to) ==
  /\ to.round > from.round /\ Len(to.journal) <= MaxEffects
  /\ MayDiverge \/ Len(to.journal) > Len(from.journal)

Moved(from, to) ==
  \/ to.state = "done" /\ from.state # "done"
  \/ to.state = "write" /\ from.state \in {"direct", "program"}
  \/ /\ to.state = from.state /\ from.state \in {"direct", "program"}
     /\ OperationMoved(from, to) \/ RoundMoved(from, to)

\* Every answer moves one call of the batch, forward and no other: it ends or
\* waits for its file, an operation of it ends or comes to a later stage, or
\* its program to a later round.  Where replays keep their journals the rounds
\* of a program are no more than the effects it may have, so no script can
\* keep a batch waiting for ever (batch.rs 441-700, execution.rs 560-760).
EveryAnswerMoves ==
  [][ Answer => \E i \in DOMAIN batch :
                  /\ DOMAIN batch' = DOMAIN batch /\ Moved(batch[i], batch'[i])
                  /\ \A j \in DOMAIN batch \ {i} : batch'[j] = batch[j] ]_vars

\* A batch whose actions are answered comes to an end, through every hook,
\* approval, write and round of its programs.
BatchEnds == phase = "running" ~> phase # "running"

=============================================================================
