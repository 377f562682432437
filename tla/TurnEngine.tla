------------------------------ MODULE TurnEngine ------------------------------
(***************************************************************************)
(* The turn lifecycle of the unified harness core                          *)
(* (harness/core/src/core): the deterministic reducer that takes one       *)
(* command at a time, moves the session between Idle, Compacting, Active   *)
(* and Terminal, and tells the Runtime which action it waits for.          *)
(*                                                                         *)
(* The engine state is one record, as HarnessState is one struct, and the  *)
(* functions of the code are operators from states to states.  A command   *)
(* is applied to a clone that is dropped on error, so a rejected command   *)
(* is an action that is not enabled.  An operator that ends in a dispatch  *)
(* returns the set of its possible results: whether the model input        *)
(* reaches the compaction threshold depends on text the model leaves out.  *)
(*                                                                         *)
(* A tool batch is the set of calls still open; the life of one call is    *)
(* the matter of module ToolBatch.                                         *)
(***************************************************************************)
EXTENDS Integers, SequencesExt

CONSTANTS
    MaxIterations,   \* settings.turn.max_iterations
    HookChoices,     \* sets of lifecycle hook points a configuration may bind
    CallLists,       \* tool calls a model answer may carry; <<>> is a plain answer
    Notifications,   \* identities of asynchronous notifications
    MaxTurns,        \* bound: turn identities the Runtime uses
    MaxMessages,     \* bound: messages sent, without those that join a follow-up
    MaxFollowUp,     \* bound: messages of a queued follow-up
    MaxCompactions   \* bound: compactions after which the estimate stays low

Calls == UNION {ToSet(list) : list \in CallLists}

HookPoints == {"PreAgentTurn", "PreLlmCall", "PostLlmCall", "PostAgentTurn"}

ASSUME IterationAssumption == MaxIterations \in Nat \ {0}
ASSUME HookAssumption == HookChoices \subseteq SUBSET HookPoints
(* An answer that names a tool call twice is refused (candidate.rs).       *)
ASSUME CallAssumption ==
    \A list \in CallLists : list \in Seq(Calls) /\ IsInjective(list)
ASSUME BoundAssumption ==
    /\ MaxTurns \in Nat
    /\ MaxMessages \in Nat
    /\ MaxFollowUp \in Nat
    /\ MaxCompactions \in Nat

VARIABLE
    core             \* HarnessState, and the histories the properties speak of

vars == core

-----------------------------------------------------------------------------
(* Messages of the model context: a kind, and the identities it carries.   *)

Message == [kind : {"system", "user", "assistant", "calls", "tool", "feedback",
                    "keyed", "notice", "injected", "preamble", "summary"},
            ids  : SUBSET (Nat \cup Calls \cup Notifications)]

Note(kind) == [kind |-> kind, ids |-> {}]

User(m) == [kind |-> "user", ids |-> {m}]

Users(msgs) == [i \in DOMAIN msgs |-> User(msgs[i])]

ToolResults(list) == [i \in DOMAIN list |-> [kind |-> "tool", ids |-> {list[i]}]]

AssistantMessage(list) ==
    IF list = <<>> THEN Note("assistant")
    ELSE [kind |-> "calls", ids |-> ToSet(list)]

-----------------------------------------------------------------------------
(* The turn: TurnState, ActiveTurn, ActivePhase and QueuedTurn.            *)

NoQueue == [kind |-> "Empty"]

QueuedTurn(t, msgs) == [kind |-> "Pending", id |-> t, msgs |-> msgs]

Idle == [kind |-> "Idle"]

Terminal(t, outcome) == [kind |-> "Terminal", id |-> t, outcome |-> outcome]

Compacting(n, attempt) ==
    [kind |-> "Compacting", compaction |-> n, attempt |-> attempt]

Active(t, phase, ready) ==
    [kind |-> "Active", id |-> t, iterations |-> 0, phase |-> phase,
     steer |-> <<>>, ready |-> ready, queued |-> NoQueue]

AwaitingCompletion(id) == [kind |-> "AwaitingCompletion", completion |-> id]

CompletionHook(point, id, list) ==
    [kind |-> point, completion |-> id, calls |-> list]

PreAgentHook(t, content, suspended) ==
    [kind |-> "PreAgentTurn", id |-> t, content |-> content,
     suspended |-> suspended]

AwaitingCompaction(turn, n, attempt) ==
    [kind |-> "AwaitingCompaction", id |-> turn.id,
     iterations |-> turn.iterations, compaction |-> n, attempt |-> attempt]

AwaitingToolBatch(list, open) ==
    [kind |-> "AwaitingToolBatch", calls |-> list, open |-> open]

IsActive(s) == s.turn.kind = "Active"

Resting(s) == s.turn.kind \in {"Idle", "Terminal"}

InPhase(s, kind) == IsActive(s) /\ s.turn.phase.kind = kind

-----------------------------------------------------------------------------
(* Notifications and model input.                                          *)

MarkNotificationsReady(s) ==
    [s EXCEPT !.notesReady = s.notesReady \/ s.pending # <<>>]

MarkModelInputReady(s) ==
    MarkNotificationsReady([s EXCEPT !.turn.ready = TRUE])

HasPendingModelInput(s) == s.turn.steer # <<>> \/ s.pending # <<>>

ReadyNotice(s) ==
    IF s.notesReady /\ s.pending # <<>>
    THEN <<[kind |-> "notice", ids |-> ToSet(s.pending)]>>
    ELSE <<>>

LateInput(s) ==
    IF s.turn.ready THEN Users(s.turn.steer) \o ReadyNotice(s) ELSE <<>>

(* Seeded fault: the notice is injected and stays pending.                 *)
TakeLateInputKeepingNotice(s) ==
    IF ~s.turn.ready THEN s
    ELSE [s EXCEPT !.context = s.context \o LateInput(s),
                   !.turn.steer = <<>>,
                   !.turn.ready = FALSE]

TakeLateInput(s) ==
    IF ~s.turn.ready THEN s
    ELSE [s EXCEPT !.context = s.context \o LateInput(s),
                   !.turn.steer = <<>>,
                   !.turn.ready = FALSE,
                   !.pending = IF s.notesReady THEN <<>> ELSE s.pending,
                   !.notesReady = FALSE]

-----------------------------------------------------------------------------
(* Ending a turn, and the compaction that stands before a dispatch.        *)

(* Seeded fault: steering that is still pending ends with the turn.        *)
FinishTurnDroppingSteer(s, outcome) ==
    [s EXCEPT !.lastFinished = s.turn.id, !.turn = Terminal(s.turn.id, outcome)]

(* Seeded fault: the finished turn is not recorded for late interrupts.    *)
FinishTurnUnrecorded(s, outcome) ==
    [s EXCEPT !.context = s.context \o Users(s.turn.steer),
              !.turn = Terminal(s.turn.id, outcome)]

FinishTurn(s, outcome) ==
    [s EXCEPT !.context = s.context \o Users(s.turn.steer),
              !.lastFinished = s.turn.id,
              !.turn = Terminal(s.turn.id, outcome)]

CountCompaction(s) == [s EXCEPT !.compactions = s.compactions + 1]

AwaitCompaction(s, attempt) ==
    [s EXCEPT !.turn.phase =
        AwaitingCompaction(s.turn, s.compactions, attempt)]

(* The threshold is reached for certain when the provider reported so; the *)
(* estimate may reach it whenever the context may have grown.              *)
ReachesThreshold(s, grown) ==
    CASE s.reportedOver -> {TRUE}
      [] ~s.reportedOver /\ grown /\ s.compactions < MaxCompactions -> BOOLEAN
      [] OTHER -> {FALSE}

Preflight(s, grown) ==
    {s : reached \in ReachesThreshold(s, grown) \ {TRUE}}
    \cup UNION { {AwaitCompaction(CountCompaction(s), 0),
                  FinishTurn(CountCompaction(s), "Failed")}
                 : reached \in ReachesThreshold(s, grown) \ {FALSE} }

DispatchAgent(s, grown) ==
    IF s.turn.phase.kind # "AwaitingCompletion" THEN {s}
    ELSE Preflight(TakeLateInput(s), grown \/ LateInput(s) # <<>>)

-----------------------------------------------------------------------------
(* Planning the next completion, and starting turns.                       *)

(* Seeded fault: the id forgets the compactions.                           *)
NextCompletionIdByLength(s) == <<0, Len(s.context)>>

NextCompletionId(s) == <<s.compactions, Len(s.context)>>

PlannedPhase(s) ==
    IF "PreLlmCall" \in s.hooks
    THEN CompletionHook("PreLlmCall", NextCompletionId(s), <<>>)
    ELSE AwaitingCompletion(NextCompletionId(s))

Issue(s) == [s EXCEPT !.issued = Append(s.issued, NextCompletionId(s))]

ContinueActiveTurn(s, grown) ==
    DispatchAgent([Issue(s) EXCEPT !.turn.phase = PlannedPhase(s)], grown)

EnsureSystemPrompt(context) ==
    IF context = <<>> THEN <<Note("system")>> ELSE context

AppendTurnMessages(s, messages) ==
    [s EXCEPT !.context = EnsureSystemPrompt(s.context) \o messages]

CommitTurn(s, t, messages) ==
    LET filled == AppendTurnMessages(s, messages)
        started == [Issue(filled) EXCEPT
                      !.turn = Active(t, PlannedPhase(filled), TRUE)]
    IN  DispatchAgent(started, TRUE)

StartTurn(s, t, msgs) ==
    IF "PreAgentTurn" \in s.hooks
    THEN {[s EXCEPT !.turn =
             Active(t, PreAgentHook(t, msgs, s.turn), FALSE)]}
    ELSE CommitTurn(s, t, Users(msgs))

(* Seeded fault: the queue is dropped with the completed turn.             *)
FinishCompletedTurnAlone(s) == {FinishTurn(s, "Completed")}

FinishCompletedTurn(s) ==
    LET queued == s.turn.queued
        finished == FinishTurn(s, "Completed")
    IN  IF queued = NoQueue THEN {finished}
        ELSE StartTurn(finished, queued.id, queued.msgs)

-----------------------------------------------------------------------------
(* Accepting a completion, and the tool batch it may open.                 *)

CompleteOutput(s) ==
    IF HasPendingModelInput(s) /\ s.turn.iterations < MaxIterations
    THEN ContinueActiveTurn(s, TRUE)
    ELSE FinishCompletedTurn(s)

ContinueAfterBatch(s, list) ==
    LET landed == MarkModelInputReady(
                    [s EXCEPT !.context = s.context \o ToolResults(list)])
    IN  IF landed.turn.iterations >= MaxIterations
        THEN FinishCompletedTurn(landed)
        ELSE ContinueActiveTurn(landed, TRUE)

(* Seeded fault: nobody looks whether the last call has finished.          *)
ApplyBatchWaiting(s, list, open) ==
    {[s EXCEPT !.turn.phase = AwaitingToolBatch(list, open)]}

ApplyBatch(s, list, open) ==
    IF open = {} THEN ContinueAfterBatch(s, list)
    ELSE {[s EXCEPT !.turn.phase = AwaitingToolBatch(list, open)]}

(* Provider usage is optional: without it the last report stands.          *)
ReportedSizes(s) ==
    {s.reportedOver, FALSE} \cup (IF s.compactions < MaxCompactions
                                  THEN {TRUE} ELSE {})

Accepted(s, list, reported) ==
    [s EXCEPT !.turn.iterations = s.turn.iterations + 1,
              !.context = Append(s.context, AssistantMessage(list)),
              !.reportedOver = reported]

(* An answer completes the turn; its calls start a batch, of which any may *)
(* be complete at once (a denied call, a synchronous one).                 *)
Proceed(s, list) ==
    IF list = <<>> THEN CompleteOutput(MarkModelInputReady(s))
    ELSE UNION {ApplyBatch(s, list, open) : open \in SUBSET ToSet(list)}

ResolveAccepted(s, list) ==
    IF s.turn.iterations + 1 > MaxIterations THEN {}
    ELSE UNION {Proceed(Accepted(s, list, reported), list)
                : reported \in ReportedSizes(s)}

ResolveAfterPostLlm(s, id, list) ==
    IF list = <<>> /\ "PostAgentTurn" \in s.hooks
    THEN {[s EXCEPT !.turn.phase = CompletionHook("PostAgentTurn", id, list)]}
    ELSE ResolveAccepted(s, list)

-----------------------------------------------------------------------------
(* Compaction results.                                                     *)

(* The messages at the given positions, in context order.                  *)
Arranged(context, positions) ==
    { [k \in DOMAIN at |-> context[at[k]]] :
        at \in { at \in [1..Cardinality(positions) -> positions] :
                    \A j, k \in DOMAIN at : j < k => at[j] < at[k] } }

PositionsOf(context, kinds) == {i \in DOMAIN context : context[i].kind \in kinds}

(* What a compaction may keep: the newest user messages that fit the       *)
(* budget, and at least the latest.                                        *)
KeptPositions(context) ==
    LET users == PositionsOf(context, {"user"})
    IN  { {i \in users : i >= oldest} :
          oldest \in IF users = {} THEN {0} ELSE users }

ReplaceContext(s, kept, removed) ==
    [s EXCEPT !.archived = s.archived \o removed,
              !.context = <<Note("system"), Note("preamble")>> \o kept
                          \o <<Note("summary")>>,
              !.reportedOver = FALSE]

(* Seeded fault: the turn that waited for the compaction is forgotten.     *)
CompactionForgetsTurn(replaced) ==
    {MarkNotificationsReady([replaced EXCEPT !.turn = Idle])}

CompactionResumes(replaced) ==
    IF IsActive(replaced)
    THEN ContinueActiveTurn(MarkModelInputReady(replaced), FALSE)
    ELSE {MarkNotificationsReady([replaced EXCEPT !.turn = Idle])}

CompactionAccepted(s, keep) ==
    LET recorded == PositionsOf(s.context, {"user", "notice"})
    IN  UNION { CompactionResumes(ReplaceContext(s, kept, removed)) :
                kept \in Arranged(s.context, keep),
                removed \in Arranged(s.context, recorded \ keep) }

FailCompaction(s) ==
    IF IsActive(s) THEN FinishTurn(s, "Failed")
    ELSE MarkNotificationsReady([s EXCEPT !.turn = Idle])

PendingCompaction(s) ==
    IF IsActive(s) THEN s.turn.phase ELSE s.turn

IsCompacting(s) ==
    s.turn.kind = "Compacting" \/ InPhase(s, "AwaitingCompaction")

MaxSummaryRetries == 1

(* Seeded fault: after the last retry the attempts start over.             *)
RejectSummaryStartingOver(s) ==
    LET next == (PendingCompaction(s).attempt + 1) % (MaxSummaryRetries + 1)
    IN  IF IsActive(s) THEN [s EXCEPT !.turn.phase.attempt = next]
        ELSE [s EXCEPT !.turn.attempt = next]

RejectSummary(s) ==
    IF PendingCompaction(s).attempt >= MaxSummaryRetries THEN FailCompaction(s)
    ELSE IF IsActive(s)
         THEN [s EXCEPT !.turn.phase.attempt = PendingCompaction(s).attempt + 1]
         ELSE [s EXCEPT !.turn.attempt = PendingCompaction(s).attempt + 1]

-----------------------------------------------------------------------------
(* The state.                                                              *)

Outcomes == {"Completed", "Rejected", "Interrupted", "Failed"}

RestingTurns == {Idle} \cup [kind : {"Terminal"}, id : Nat, outcome : Outcomes]

CompletionIds == Nat \X Nat

CallSeqs == CallLists \cup {<<>>}

Phases ==
    [kind : {"AwaitingCompletion"}, completion : CompletionIds]
    \cup [kind : {"PreLlmCall", "PostLlmCall", "PostAgentTurn"},
          completion : CompletionIds, calls : CallSeqs]
    \cup [kind : {"PreAgentTurn"}, id : Nat, content : Seq(Nat),
          suspended : RestingTurns]
    \cup [kind : {"AwaitingCompaction"}, id : Nat, iterations : Nat,
          compaction : Nat, attempt : Nat]
    \cup [kind : {"AwaitingToolBatch"}, calls : CallSeqs \ {<<>>}, open : SUBSET Calls]

Queues == {NoQueue} \cup [kind : {"Pending"}, id : Nat,
                       msgs : Seq(Nat) \ {<<>>}]

CompactingTurns == [kind : {"Compacting"}, compaction : Nat, attempt : Nat]

ActiveTurns ==
    [kind : {"Active"}, id : Nat, iterations : Nat, phase : Phases,
     steer : Seq(Nat), ready : BOOLEAN, queued : Queues]

Turns == RestingTurns \cup CompactingTurns \cup ActiveTurns

State ==
    [turn         : Turns,
     context      : Seq(Message),
     archived     : Seq(Message),       \* user input that compaction removed
     compactions  : Nat,
     reportedOver : BOOLEAN,            \* last_reported_context_tokens
     lastFinished : Nat,                \* 0 when no turn has finished
     pending      : Seq(Notifications),
     notesReady   : BOOLEAN,
     received     : SUBSET Notifications,
     hooks        : SUBSET HookPoints,
     turns        : Nat,                \* turn identities used so far
     sent         : Nat,                \* messages sent so far
     steered      : Seq(Nat),           \* steering accepted so far
     issued       : Seq(CompletionIds)] \* completions planned so far

Init ==
    \E hooks \in HookChoices :
        core = [turn |-> Idle, context |-> <<>>, archived |-> <<>>,
                compactions |-> 0, reportedOver |-> FALSE, lastFinished |-> 0,
                pending |-> <<>>, notesReady |-> FALSE, received |-> {},
                hooks |-> hooks, turns |-> 0, sent |-> 0, steered |-> <<>>,
                issued |-> <<>>]

-----------------------------------------------------------------------------
(* Commands the Runtime sends of its own accord.                           *)

NewMessage == core.sent + 1

NewTurn == core.turns + 1

Sent(s) == [s EXCEPT !.sent = s.sent + 1]

SentInNewTurn(s) == [Sent(s) EXCEPT !.turns = s.turns + 1]

QueueAtRest ==
    /\ Resting(core)
    /\ core.sent < MaxMessages
    /\ core.turns < MaxTurns
    /\ core' \in StartTurn(SentInNewTurn(core), NewTurn, <<NewMessage>>)

OpenFollowUp ==
    /\ IsActive(core)
    /\ core.turn.queued = NoQueue
    /\ core.sent < MaxMessages
    /\ core.turns < MaxTurns
    /\ core' = [SentInNewTurn(core) EXCEPT
                  !.turn.queued = QueuedTurn(NewTurn, <<NewMessage>>)]

ExtendFollowUp ==
    /\ IsActive(core)
    /\ core.turn.queued # NoQueue
    /\ Len(core.turn.queued.msgs) < MaxFollowUp
    /\ core' = [Sent(core) EXCEPT
                  !.turn.queued.msgs = Append(core.turn.queued.msgs, NewMessage)]

(* Seeded fault: steering goes to the context at once.                     *)
SteerIntoContext ==
    /\ IsActive(core)
    /\ ~InPhase(core, "PreAgentTurn")
    /\ core.sent < MaxMessages
    /\ core' = [Sent(core) EXCEPT
                  !.context = Append(core.context, User(NewMessage)),
                  !.steered = Append(core.steered, NewMessage)]

Steer ==
    /\ IsActive(core)
    /\ ~InPhase(core, "PreAgentTurn")
    /\ core.sent < MaxMessages
    /\ core' = [Sent(core) EXCEPT
                  !.turn.steer = Append(core.turn.steer, NewMessage),
                  !.steered = Append(core.steered, NewMessage)]

ContextMessage ==
    /\ Resting(core)
    /\ core.sent < MaxMessages
    /\ core' = [Sent(AppendTurnMessages(core, <<Note("injected")>>))
                  EXCEPT !.turn = Idle]

(* Seeded fault: a notification is marked ready wherever it arrives.       *)
ArrivesAnywhere(s) == TRUE

ArrivesAtBoundary(s) == IF IsActive(s) THEN s.turn.ready ELSE Resting(s)

ReceiveNotification(n) ==
    /\ n \notin core.received
    /\ core' = [core EXCEPT
                  !.received = core.received \cup {n},
                  !.pending = Append(core.pending, n),
                  !.notesReady = core.notesReady \/ ArrivesAtBoundary(core)]

ManualCompaction ==
    /\ Resting(core)
    /\ core.compactions < MaxCompactions
    /\ LET counted == CountCompaction(core)
       IN  core' \in {[counted EXCEPT !.turn = Compacting(counted.compactions, 0)],
                      FailCompaction(counted)}

Reconfigure ==
    /\ Resting(core)
    /\ \E hooks \in HookChoices \ {core.hooks} :
          core' = [core EXCEPT !.hooks = hooks]

(* Seeded fault: the calls of an abandoned batch get no result.            *)
CloseNoToolCalls(s) == s

CloseToolCalls(s) ==
    IF s.turn.phase.kind = "AwaitingToolBatch"
    THEN [s EXCEPT !.context = s.context \o ToolResults(s.turn.phase.calls)]
    ELSE s

Interrupt ==
    /\ IsActive(core)
    /\ core' = FinishTurn(CloseToolCalls(core), "Interrupted")

LateInterrupt ==
    /\ ~IsActive(core)
    /\ core.lastFinished # 0
    /\ UNCHANGED core

FailTurn ==
    /\ IsActive(core)
    /\ core' = FinishTurn(CloseToolCalls(core), "Failed")

-----------------------------------------------------------------------------
(* Answers to the action the turn waits for.                               *)

CompletionSucceeded ==
    /\ InPhase(core, "AwaitingCompletion")
    /\ \E list \in CallLists :
          LET id == core.turn.phase.completion
          IN  core' \in IF "PostLlmCall" \in core.hooks
                        THEN {[core EXCEPT !.turn.phase =
                                 CompletionHook("PostLlmCall", id, list)]}
                        ELSE ResolveAfterPostLlm(core, id, list)

CompletionFailed ==
    /\ InPhase(core, "AwaitingCompletion")
    /\ core' = FinishTurn(core, "Failed")

FinishToolCall(call) ==
    /\ InPhase(core, "AwaitingToolBatch")
    /\ call \in core.turn.phase.open
    /\ core' \in ApplyBatch(core, core.turn.phase.calls,
                            core.turn.phase.open \ {call})

RestoreSuspendedTurn(s) == [s EXCEPT !.turn = s.turn.phase.suspended]

PreAgentContinue ==
    /\ InPhase(core, "PreAgentTurn")
    /\ core' \in CommitTurn(RestoreSuspendedTurn(core), core.turn.phase.id,
                            <<[kind |-> "user",
                               ids |-> ToSet(core.turn.phase.content)]>>)

PreAgentSkip ==
    /\ InPhase(core, "PreAgentTurn")
    /\ core' = RestoreSuspendedTurn(core)

PreLlmContinue ==
    /\ InPhase(core, "PreLlmCall")
    /\ \E keyed \in {<<>>, <<Note("keyed")>>} :
          core' \in DispatchAgent(
                      [core EXCEPT
                         !.context = core.context \o keyed,
                         !.turn.phase = AwaitingCompletion(core.turn.phase.completion)],
                      TRUE)

PreLlmSkip ==
    /\ InPhase(core, "PreLlmCall")
    /\ core' = FinishTurn(core, "Completed")

InCandidateHook(s) == InPhase(s, "PostLlmCall") \/ InPhase(s, "PostAgentTurn")

PostLlmAccept ==
    /\ InPhase(core, "PostLlmCall")
    /\ core' \in ResolveAfterPostLlm(core, core.turn.phase.completion,
                                     core.turn.phase.calls)

PostAgentAccept ==
    /\ InPhase(core, "PostAgentTurn")
    /\ core' \in ResolveAccepted(core, core.turn.phase.calls)

(* Seeded fault: a retry uses up the last iteration.                       *)
CandidateRetryAtLimit ==
    /\ InCandidateHook(core)
    /\ core.turn.iterations + 1 <= MaxIterations
    /\ core' \in ContinueActiveTurn(
                   [core EXCEPT !.turn.iterations = core.turn.iterations + 1,
                                !.context = Append(core.context, Note("feedback"))],
                   TRUE)

(* Seeded fault: a retry does not count as an iteration.                   *)
CandidateRetryUncounted ==
    /\ InCandidateHook(core)
    /\ core.turn.iterations + 1 < MaxIterations
    /\ core' \in ContinueActiveTurn(
                   [core EXCEPT !.context = Append(core.context, Note("feedback"))],
                   TRUE)

CandidateRetry ==
    /\ InCandidateHook(core)
    /\ core.turn.iterations + 1 < MaxIterations
    /\ core' \in ContinueActiveTurn(
                   [core EXCEPT !.turn.iterations = core.turn.iterations + 1,
                                !.context = Append(core.context, Note("feedback"))],
                   TRUE)

CandidateReject ==
    /\ InCandidateHook(core)
    /\ core' = FinishTurn([core EXCEPT !.turn.iterations = core.turn.iterations + 1],
                          "Rejected")

HookFailed ==
    /\ InPhase(core, "PreLlmCall") \/ InCandidateHook(core)
    /\ core' = FinishTurn(core, "Failed")

SummaryAccepted ==
    /\ IsCompacting(core)
    /\ \E keep \in KeptPositions(core.context) :
          core' \in CompactionAccepted(core, keep)

SummaryRejected ==
    /\ IsCompacting(core)
    /\ core' = RejectSummary(core)

CompactionFailed ==
    /\ IsCompacting(core)
    /\ core' = FailCompaction(core)

-----------------------------------------------------------------------------

Answer ==
    \/ CompletionSucceeded \/ CompletionFailed
    \/ \E call \in Calls : FinishToolCall(call)
    \/ PreAgentContinue \/ PreAgentSkip
    \/ PreLlmContinue \/ PreLlmSkip
    \/ PostLlmAccept \/ PostAgentAccept
    \/ CandidateRetry \/ CandidateReject
    \/ HookFailed
    \/ SummaryAccepted \/ SummaryRejected \/ CompactionFailed

Next ==
    \/ QueueAtRest \/ OpenFollowUp \/ ExtendFollowUp \/ Steer
    \/ ContextMessage
    \/ \E n \in Notifications : ReceiveNotification(n)
    \/ ManualCompaction \/ Reconfigure
    \/ Interrupt \/ LateInterrupt \/ FailTurn
    \/ Answer

Spec == Init /\ [][Next]_vars

(* The Runtime answers every action the core hands out.                    *)
FairSpec == Spec /\ WF_vars(Answer)

-----------------------------------------------------------------------------
(* Properties.                                                             *)

(* Every component of the engine state keeps its shape.                    *)
TypeOK == core \in State

DistinctIds(s) ==
    \A i, j \in DOMAIN s.issued : i # j => s.issued[i] # s.issued[j]

HasBudget(s) ==
    IsActive(s) =>
        IF s.turn.phase.kind = "AwaitingToolBatch"
        THEN s.turn.iterations \in 1..MaxIterations
        ELSE s.turn.iterations < MaxIterations

(* Planning a completion never derives an action id that an earlier        *)
(* completion already used, across turns, interruptions and compactions    *)
(* that shrink the context; so a late answer to an abandoned completion    *)
(* correlates with nothing (action_id::completion, validate_correlation).  *)
CompletionIdsNeverReused == DistinctIds(core)

(* A turn that waits for a completion, or for a step that leads to one or  *)
(* judges one, has an iteration left for it: resolve_accepted can always   *)
(* accept the answer, and the turn is never stuck behind "maximum          *)
(* completion iterations exceeded".                                        *)
IterationBudget == HasBudget(core)

(* User input the transcript ever held: what compaction removed, then the  *)
(* live context.                                                           *)
Transcript == core.archived \o core.context

PendingSteer == IF IsActive(core) THEN core.turn.steer ELSE <<>>

(* Every steering message the core acknowledged is in the transcript or    *)
(* still pending on the turn, once, in the order of arrival, however the   *)
(* turn ends (finish_turn, outcome_for_agent_dispatch).                    *)
SteeringKeptInOrder ==
    LET said == Transcript \o Users(PendingSteer)
        Tells(i, k) == said[i] = User(core.steered[k])
    IN  /\ \A k \in DOMAIN core.steered : \E i \in DOMAIN said : Tells(i, k)
        /\ \A i \in DOMAIN said :
              said[i].kind = "user" /\ said[i].ids \cap ToSet(core.steered) # {} =>
                 \E k \in DOMAIN core.steered : Tells(i, k)
        /\ \A i, j \in DOMAIN said : \A k, l \in DOMAIN core.steered :
              Tells(i, k) /\ Tells(j, l) => (i < j <=> k < l)

(* Each notification received is either pending, once, or was shown to the *)
(* model in one notice message; duplicates and aborted turns change none   *)
(* of this.                                                                *)
NotificationsOnce ==
    \A n \in core.received :
        Cardinality({i \in DOMAIN core.pending : core.pending[i] = n})
        + Cardinality({i \in DOMAIN Transcript :
                          /\ Transcript[i].kind = "notice"
                          /\ n \in Transcript[i].ids})
        = 1

(* Each assistant message with tool calls is followed by one result per    *)
(* call before anything else enters the context; only the batch in         *)
(* progress may still lack them.  Steering and notifications that arrive   *)
(* meanwhile, and interruptions, never come between.                       *)
ToolCallsAnswered ==
    \A i \in DOMAIN core.context :
        core.context[i].kind = "calls" =>
            LET n == Cardinality(core.context[i].ids)
            IN  IF i = Len(core.context)
                THEN InPhase(core, "AwaitingToolBatch")
                ELSE /\ i + n <= Len(core.context)
                     /\ \A k \in i+1 .. i+n : core.context[k].kind = "tool"
                     /\ UNION {core.context[k].ids : k \in i+1 .. i+n}
                          = core.context[i].ids

(* The state passes the validation a checkpoint applies when it is         *)
(* captured and again when it is restored: no reachable state is one that  *)
(* a session could not resume from (validate_restored_state,               *)
(* try_from_parts_with_delivery).                                          *)
Checkpointable ==
    /\ core.turn.kind = "Terminal" => core.lastFinished = core.turn.id
    /\ IsActive(core) /\ core.context = <<>> => InPhase(core, "PreAgentTurn")
    /\ InPhase(core, "AwaitingCompaction") =>
          /\ core.turn.phase.id = core.turn.id
          /\ core.turn.phase.iterations = core.turn.iterations
    /\ InPhase(core, "PreAgentTurn") /\ core.turn.phase.suspended # Idle =>
          core.lastFinished = core.turn.phase.suspended.id
    /\ InPhase(core, "AwaitingToolBatch") =>
          /\ core.turn.phase.open # {}
          /\ Last(core.context) = AssistantMessage(core.turn.phase.calls)
    /\ IsCompacting(core) => PendingCompaction(core).attempt <= MaxSummaryRetries
    /\ core.notesReady => core.pending # <<>>
    /\ ToSet(core.pending) \subseteq core.received

(* While a completion is in flight the context it was built from does not  *)
(* change: whatever arrives waits for a message boundary.                  *)
ContextFrozenInFlight ==
    [][ /\ InPhase(core, "AwaitingCompletion")
        /\ core'.turn.kind = "Active"
        /\ core'.turn.phase = core.turn.phase
        => core'.context = core.context ]_vars

(* A notice marked for delivery is delivered with the next model call: no  *)
(* completion is in flight while the model has not seen a ready notice.    *)
ReadyNoticesNotSkipped ==
    InPhase(core, "AwaitingCompletion") => ~core.notesReady

FollowUpStarted(t, followUp) ==
    /\ t.turn.kind \in {"Active", "Terminal"}
    /\ t.turn.id = followUp.id
    /\ IF InPhase(t, "PreAgentTurn") THEN t.turn.phase.content = followUp.msgs
       ELSE \A m \in ToSet(followUp.msgs) : User(m) \in ToSet(t.context)

(* A follow-up queued on a turn that completes starts in the same step, as *)
(* the next turn and with all its messages.  The turn rests instead when   *)
(* it did not complete, or completed because a pre-LLM hook skipped it     *)
(* (finish_completed_turn, apply_completion_finish).                       *)
FollowUpHandoff ==
    [][ /\ IsActive(core)
        /\ core.turn.queued # NoQueue
        /\ core'.lastFinished \in {core.turn.id, core.turn.queued.id}
        => \/ FollowUpStarted(core', core.turn.queued)
           \/ core'.turn.outcome \in Outcomes \ {"Completed"}
           \/ InPhase(core, "PreLlmCall") ]_vars

(* The turn as its Runtime sees it.                                        *)
Mode ==
    CASE InPhase(core, "PreAgentTurn") -> "Admitting"
      [] IsActive(core) /\ ~InPhase(core, "PreAgentTurn") -> "Running"
      [] Resting(core) -> "Idle"
      [] OTHER -> "Compacting"

RunningTurn == IF IsActive(core) THEN core.turn.id ELSE 0

(* The engine keeps the promise its Runtime relies on: one turn at a time, *)
(* each finished at most once and in order, and none that was admitted     *)
(* disappears unfinished (turn_view, finish_turn).                         *)
Lifecycle ==
    INSTANCE TurnLifecycle WITH
        mode <- Mode, running <- RunningTurn, last <- core.lastFinished

LifecycleRefined == Lifecycle!Spec

(* How far a turn is on the way through one completion.                    *)
Stage == [AwaitingToolBatch |-> 0, AwaitingCompaction |-> 1, PreLlmCall |-> 2,
          AwaitingCompletion |-> 3, PostLlmCall |-> 4, PostAgentTurn |-> 5]

SameTurn(s, t) == IsActive(s) /\ IsActive(t) /\ t.turn.id = s.turn.id

SamePlace(s, t) ==
    /\ t.turn.phase = s.turn.phase
    /\ t.turn.iterations = s.turn.iterations
    /\ t.compactions = s.compactions

(* t is further in its turn than s: admitted, or at a later completion, or  *)
(* past one more compaction, or at a later stage, or nearer to its end.     *)
Further(s, t) ==
    LET from == s.turn.phase
        to == t.turn.phase
    IN  /\ to.kind # "PreAgentTurn"
        /\ \/ from.kind = "PreAgentTurn"
           \/ t.turn.iterations > s.turn.iterations
           \/ /\ t.turn.iterations = s.turn.iterations
              /\ \/ t.compactions > s.compactions
                 \/ /\ t.compactions = s.compactions
                    /\ \/ Stage[to.kind] > Stage[from.kind]
                       \/ /\ to.kind = "AwaitingToolBatch" /\ from.kind = to.kind
                          /\ to.open \subseteq from.open /\ to.open # from.open
                       \/ /\ to.kind = "AwaitingCompaction" /\ from.kind = to.kind
                          /\ to.attempt > from.attempt

(* No answer is in vain: each takes its turn or its compaction further or  *)
(* ends it, and nothing else takes either anywhere but to its end.  With   *)
(* IterationBudget and the limit of summary attempts a turn can only go on *)
(* for ever by compacting for ever (resolve_accepted, retry_completion,    *)
(* reject_summary, finish_tool_call).                                      *)
AnswersAdvance ==
    [][ /\ SameTurn(core, core') =>
              IF Answer THEN Further(core, core') ELSE SamePlace(core, core')
        /\ core.turn.kind = "Compacting" /\ core'.turn.kind = "Compacting" =>
              IF Answer THEN core'.turn.attempt > core.turn.attempt
              ELSE core'.turn = core.turn ]_vars

(* Every turn comes to rest: retries, tool rounds, late input and          *)
(* compactions are all bounded.                                            *)
TurnsEnd ==
    \A t \in 1..MaxTurns :
        (IsActive(core) /\ core.turn.id = t) ~> ~(IsActive(core) /\ core.turn.id = t)

(* Acknowledged steering does not stay pending: it reaches the model       *)
(* context of its turn or, when the turn ends first, of the session.       *)
SteeringDelivered ==
    \A m \in 1..MaxMessages :
        (m \in ToSet(PendingSteer)) ~>
            (\E i \in DOMAIN Transcript : Transcript[i] = User(m))

(* A compaction always ends: the session does not stay Compacting.         *)
CompactionsEnd == IsCompacting(core) ~> ~IsCompacting(core)

=============================================================================
