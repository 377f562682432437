---------------------------- MODULE CoreSession ----------------------------
(***************************************************************************)
(* One resident session of the core as its Runtime sees it: a value that   *)
(* takes numbered inputs and answers each with a transition                *)
(* (core/session.rs, core/session/delivery.rs, core/model_context.rs).     *)
(*                                                                         *)
(* What a command does to a turn is the subject of TurnEngine.  Here a     *)
(* command says only what the session protocol can see of it: the action   *)
(* it answers, the messages it adds to the model context (or replaces it   *)
(* with), and the actions it asks the Runtime to perform next.  TurnEngine *)
(* shows the two facts this abstraction rests on: the context does not     *)
(* change while a completion is in flight, and no completion id is used    *)
(* twice.                                                                  *)
(***************************************************************************)
EXTENDS Naturals, SequencesExt

CONSTANTS
  Messages,    \* what a model message can say
  MaxInputId,  \* MAX_SAFE_JSON_INTEGER
  None         \* Option::None: no cursor, revision or model input

Kinds == {"agent", "compaction", "tool"}
Completions == {"agent", "compaction"}

\* A compaction shows the model its context and asks for a summary of it.
CompactionPrompt == "compaction prompt"

\* ImageDeliveryMode.
OtherView == [native |-> "link", link |-> "native"]

\* Where the Runtime's copy ends, and what brings it up to date
\* (ModelContextCursor, ModelInputUpdate).
Cursors == [length : Nat, revision : Nat]
Entries == [says : Messages \cup {CompactionPrompt},
            as : {"native", "link", "compaction"}]
MessageUpdates == [type : {"append", "replace"}, base : Nat, revision : Nat,
                   messages : Seq(Entries)]
ToolUpdates == [type : {"keep", "replace"}, revision : Nat]
ModelInputs == [messages : MessageUpdates, tools : ToolUpdates]

ASSUME InputIdsAssumption == MaxInputId \in Nat \ {0}
ASSUME NoneAssumption == None \notin Nat \cup Cursors \cup ModelInputs

-----------------------------------------------------------------------------
(* Inputs.                                                                 *)

\* A command says what the session protocol can see of it: the action it is
\* about, the messages it leads to, and the actions it calls for.
Command(type, id, messages, calls) ==
  [type |-> type, id |-> id, messages |-> messages, calls |-> calls]

\* A numbered input.  Its determinism context (time and random seed) is part of
\* the command here: the receipt compares the two together.
Input(id, command) == [id |-> id, command |-> command]

\* Numbers start at one: this one is never sent.
NoInput == Input(0, Command("none", 0, <<>>, <<>>))

-----------------------------------------------------------------------------
(* The state of a session.                                                 *)

\* context, revision and replaced: ModelContext.  catalog: the revision of the
\* tools; view: how the agent model is shown the context.  pending: the actions
\* the turn waits for, in protocol order.  projection: what a pending
\* compaction shows to the model, and projected the revision it was taken at.
\* issued: the action ids used so far.  last, receipt (the last input and the
\* response to it), cursor and known: StepDelivery.
NewSession(history) ==
  [ context |-> history, revision |-> 0, replaced |-> 0, catalog |-> 0,
    view |-> "native", pending |-> <<>>, projection |-> <<>>,
    projected |-> None, issued |-> 0,
    last |-> 0, receipt |-> NoInput, response |-> None,
    cursor |-> None, known |-> None ]

\* A checkpoint keeps the turn and the context, and nothing of the delivery;
\* the Host restores the configuration, here the view.
Checkpoint(core) ==
  [ context |-> core.context, view |-> core.view, pending |-> core.pending,
    projection |-> core.projection, issued |-> core.issued ]

\* The Runtime supplies the number of the last input it knows was accepted.
Restore(checkpoint, resumeInputId) ==
  [ context |-> checkpoint.context, revision |-> 0, replaced |-> 0,
    catalog |-> 0, view |-> checkpoint.view, pending |-> checkpoint.pending,
    projection |-> checkpoint.projection,
    projected |-> IF \E i \in DOMAIN checkpoint.pending :
                       checkpoint.pending[i].kind = "compaction"
                    THEN 0 ELSE None,
    issued |-> checkpoint.issued, last |-> resumeInputId,
    receipt |-> NoInput, response |-> None,
    cursor |-> None, known |-> None ]

PendingIds(core) == {core.pending[i].id : i \in DOMAIN core.pending}

PendingKind(core, id) ==
  CHOOSE kind \in Kinds :
    \E i \in DOMAIN core.pending : core.pending[i] = [id |-> id, kind |-> kind]

-----------------------------------------------------------------------------
(* Commands.                                                               *)

\* A user message, a notification that starts a turn or, without calls, a
\* context message.
Begin(messages, calls) == Command("begin", 0, messages, calls)

\* Steering, a notification or a queued follow-up while the turn is busy.
Inform == Command("inform", 0, <<>>, <<>>)

\* The turn stops; what it leaves open is closed in the context.
Interrupt(messages) == Command("interrupt", 0, messages, <<>>)

\* The result of action id, which may be a failure.
Answer(id, messages, calls) == Command("answer", id, messages, calls)

\* An accepted summary takes the place of the context.
Summary(id, messages, calls) == Command("summary", id, messages, calls)

\* Reconfigure, between turns: the tools of the model, the way it is shown the
\* context (images or links to them), or the system prompt.
ChangeTools == Command("tools", 0, <<>>, <<>>)
ChangeView == Command("view", 0, <<>>, <<>>)
ChangePrompt(messages) == Command("prompt", 0, messages, <<>>)

\* CompletionModelInputResyncRequested.
Resync(id) == Command("resync", id, <<>>, <<>>)

\* What the reducer accepts: new turns and reconfiguration when it is idle, and
\* answers to actions it waits for.
Legal(core, command) ==
  LET idle == core.pending = <<>>
      known == command.id \in PendingIds(core)
  IN CASE command.type \in {"begin", "tools", "view", "prompt"} -> idle
       [] command.type \in {"inform", "interrupt"} -> ~idle
       [] command.type = "answer" -> known
       [] command.type = "summary" ->
            known /\ PendingKind(core, command.id) = "compaction"
       [] command.type = "resync" ->
            known /\ PendingKind(core, command.id) \in Completions

\* What the reducer can make of it.  Only the last answer of a batch goes on;
\* the others change nothing yet.  A compaction that fails ends its turn or
\* starts over, and the next turn says something before the model is asked
\* again.
Possible(core, command) ==
  /\ "agent" \in Range(command.calls) =>
       command.messages # <<>> \/ core.projected # core.revision
  /\ command.type = "answer" /\ Len(core.pending) > 1 =>
       command.messages = <<>> /\ command.calls = <<>>

-----------------------------------------------------------------------------
(* The reducer, as far as the session protocol can tell.                   *)

\* ModelContext::extend and replace_messages.  A new system prompt takes the
\* place of the first message; a session without messages has none to patch.
ContextAfter(core, command) ==
  CASE command.type = "summary" -> command.messages
    [] command.type = "prompt" /\ core.context # <<>> ->
         command.messages \o Tail(core.context)
    [] command.type = "prompt" /\ core.context = <<>> -> <<>>
    [] OTHER -> core.context \o command.messages

\* mark_appended and mark_replaced.  A compaction that starts, or starts over,
\* marks the context as replaced, and so does a new view of it.
ContextChange(core, command) ==
  CASE \/ command.type = "summary"
       \/ "compaction" \in Range(command.calls)
       \/ command.type \in {"view", "prompt"} /\ core.context # <<>> ->
         "replace"
    [] OTHER -> IF ContextAfter(core, command) # core.context
                  THEN "append" ELSE "clean"

\* ModelContext::commit_revision.
CommitRevision(core, change) ==
  LET next == core.revision + 1 IN
  CASE change = "clean" -> core
    [] change = "append" -> [core EXCEPT !.revision = next]
    [] change = "replace" -> [core EXCEPT !.revision = next, !.replaced = next]

NewActions(core, calls) ==
  [i \in DOMAIN calls |-> [id |-> core.issued + i, kind |-> calls[i]]]

Place(core, id) == CHOOSE i \in DOMAIN core.pending : core.pending[i].id = id

\* An action that is answered is waited for no more, and none is by a turn that
\* ends or starts over.
Waits(core, command) ==
  CASE command.type = "inform" -> core.pending
    [] command.type = "answer" ->
         RemoveAt(core.pending, Place(core, command.id))
    [] OTHER -> <<>>

\* advance_in_place: the core after the command, and the actions it emits.
Advance(core, command) ==
  LET context == ContextAfter(core, command)
      emitted == NewActions(core, command.calls)
      reduced == [core EXCEPT
                    !.context = context,
                    !.catalog = IF command.type = "tools" THEN @ + 1 ELSE @,
                    !.view = IF command.type = "view" THEN OtherView[@] ELSE @,
                    !.pending = Waits(core, command) \o emitted,
                    !.issued = @ + Len(command.calls)]
      after == CommitRevision(reduced, ContextChange(core, command))
  IN [ emitted |-> emitted,
       core |-> IF "compaction" \in Range(command.calls)
                  THEN [after EXCEPT
                          !.projection = Append(context, CompactionPrompt),
                          !.projected = after.revision]
                  ELSE after ]

-----------------------------------------------------------------------------
(* Model input: what the Runtime is told about the context.                *)

\* project_model_input_messages.
Shown(view, messages) ==
  [i \in DOMAIN messages |-> [says |-> messages[i], as |-> view]]

\* What the model is to be shown for a completion of either kind: the context,
\* or what the pending compaction asks it to summarise.
Projected(core, kind) ==
  IF kind = "agent" THEN Shown(core.view, core.context)
                    ELSE Shown("compaction", core.projection)

Cursor(core) == [length |-> Len(core.context), revision |-> core.revision]

AppendUpdate(base, revision, messages) ==
  [ type |-> "append", base |-> base, revision |-> revision,
    messages |-> messages ]

ReplaceUpdate(revision, messages) ==
  [ type |-> "replace", base |-> revision, revision |-> revision,
    messages |-> messages ]

\* ModelContext::message_update_since.
MessageUpdateSince(core, cursor) ==
  IF /\ cursor # None
     /\ cursor.revision >= core.replaced
     /\ cursor.length <= Len(core.context)
    THEN AppendUpdate(cursor.revision, core.revision,
                      SubSeq(Projected(core, "agent"), cursor.length + 1,
                             Len(core.context)))
    ELSE ReplaceUpdate(core.revision, Projected(core, "agent"))

KeepTools(revision) == [type |-> "keep", revision |-> revision]
ReplaceTools(revision) == [type |-> "replace", revision |-> revision]

\* synchronize_model_input: the input that goes with a completion the core
\* emits ...
ModelInput(core, kind) ==
  [ messages |-> IF kind = "agent"
                   THEN MessageUpdateSince(core, core.cursor)
                   ELSE ReplaceUpdate(core.revision, Projected(core, kind)),
    tools |-> IF core.known = core.catalog
                THEN KeepTools(core.catalog)
                ELSE ReplaceTools(core.catalog) ]

\* ... and replace_model_input, the one that answers a resync.
FullModelInput(core, kind) ==
  [ messages |-> ReplaceUpdate(core.revision, Projected(core, kind)),
    tools |-> ReplaceTools(core.catalog) ]

(* Seeded fault: a compaction leaves the cursor where its projection was sent. *)
InputSentKeepingCursor(core, kinds) ==
  IF kinds \cap Completions = {} THEN core
  ELSE [core EXCEPT !.cursor = Cursor(core), !.known = core.catalog]

\* What the core then believes the Runtime to hold.  A projection is not the
\* context, so after a compaction it believes nothing.
InputSent(core, kinds) ==
  IF kinds \cap Completions = {} THEN core
  ELSE [core EXCEPT !.cursor = IF "compaction" \in kinds THEN None
                                                         ELSE Cursor(core),
                    !.known = core.catalog]

-----------------------------------------------------------------------------
(* Transitions.                                                            *)

Dispatch(core, action) ==
  [ type |-> "dispatch", action |-> action,
    input |-> IF action.kind \in Completions
                THEN ModelInput(core, action.kind) ELSE None ]

Keep(action) == [type |-> "keep", action |-> action, input |-> None]

(* Seeded fault: every action the turn waits for is handed out again. *)
DirectivesAlwaysDispatched(core, emitted) ==
  [i \in DOMAIN core.pending |-> Dispatch(core, core.pending[i])]

\* next_action: every action the turn waits for, new or kept.
Directives(core, emitted) ==
  [i \in DOMAIN core.pending |->
    IF core.pending[i] \in Range(emitted)
      THEN Dispatch(core, core.pending[i])
      ELSE Keep(core.pending[i])]

\* finish: the transition of an ordinary command.
Finish(core, command) ==
  LET advanced == Advance(core, command)
      after == advanced.core
  IN [ core |-> InputSent(after, {a.kind : a \in Range(advanced.emitted)}),
       directives |-> Directives(after, advanced.emitted) ]

\* finish_resync: the pending completion again, with its whole input.
FinishResync(core, command) ==
  LET kind == PendingKind(core, command.id) IN
  [ core |-> InputSent(core, {kind}),
    directives |-> <<[ type |-> "refresh",
                       action |-> [id |-> command.id, kind |-> kind],
                       input |-> FullModelInput(core, kind) ]>> ]

(* Seeded fault: the receipt is not kept. *)
CommitWithoutReceipt(core, input, transition) == [core EXCEPT !.last = input.id]

\* commit: the number and the receipt of the accepted input.
Commit(core, input, transition) ==
  [core EXCEPT !.last = input.id,
               !.receipt = input, !.response = transition]

-----------------------------------------------------------------------------
(* HarnessSession::apply.                                                  *)

\* StepDelivery::prepare.
Prepared(core, input) ==
  LET repeated == core.receipt # NoInput /\ core.receipt.id = input.id IN
  CASE repeated /\ core.receipt = input -> "replay"
    [] repeated /\ core.receipt # input -> "conflict"
    [] ~repeated /\ input.id <= core.last -> "stale"
    [] ~repeated /\ input.id > core.last /\ core.last = MaxInputId ->
         "exhausted"
    [] ~repeated /\ input.id > core.last + 1 /\ core.last # MaxInputId ->
         "out_of_order"
    [] ~repeated /\ input.id = core.last + 1 /\ core.last # MaxInputId ->
         "fresh"

Accepted(core, transition) ==
  [core |-> core, result |-> "accepted", transition |-> transition]

\* A rejected input leaves no trace: the candidate is thrown away.
Rejected(core, why) == [core |-> core, result |-> why, transition |-> None]

Apply(core, input) ==
  LET prepared == Prepared(core, input) IN
  CASE prepared = "replay" -> Accepted(core, core.response)
    [] prepared = "fresh" /\ Legal(core, input.command) ->
         LET finished == IF input.command.type = "resync"
                           THEN FinishResync(core, input.command)
                           ELSE Finish(core, input.command)
             transition == [id |-> input.id,
                            directives |-> finished.directives]
         IN Accepted(Commit(finished.core, input, transition), transition)
    [] prepared = "fresh" /\ ~Legal(core, input.command) ->
         Rejected(core, "illegal")
    [] OTHER -> Rejected(core, prepared)

-----------------------------------------------------------------------------
(* The Runtime's copy of the model input (LocalRuntimeAdapter).            *)

NoMirror == [messages |-> <<>>, revision |-> None, tools |-> None]

\* _apply_model_input refuses an update that does not start where it stands.
UpdateFits(mirror, input) ==
  /\ input.messages.type = "append" => mirror.revision = input.messages.base
  /\ input.tools.type = "keep" =>
       \/ mirror.tools = input.tools.revision
       \/ mirror.tools = None /\ input.tools.revision = 0

Updated(mirror, input) ==
  [ messages |-> IF input.messages.type = "append"
                   THEN mirror.messages \o input.messages.messages
                   ELSE input.messages.messages,
    revision |-> input.messages.revision,
    tools |-> input.tools.revision ]

\* What the model must be shown for a pending completion.
Owed(core, kind) ==
  [ messages |-> Projected(core, kind),
    revision |-> core.revision,
    tools |-> core.catalog ]

=============================================================================
