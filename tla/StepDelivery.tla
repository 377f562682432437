---------------------------- MODULE StepDelivery ----------------------------
(***************************************************************************)
(* The Step protocol between a Runtime and its resident core session.      *)
(*                                                                         *)
(* The Runtime numbers its inputs, sends one at a time, and follows the    *)
(* directives of the transition it gets back: it starts what is            *)
(* dispatched, keeps what is kept, and drops the rest.  It holds a copy of *)
(* the model input, which the core updates by differences.  Answers may be *)
(* lost, inputs sent again, late copies of old inputs may arrive, the copy *)
(* may be dropped, and the session may be restored from a checkpoint.      *)
(*                                                                         *)
(* The Runtime's side follows the driver of the core's acceptance tests    *)
(* (tests/acceptance_scenarios/runtime_driver.rs).  An input is recorded   *)
(* durably before its transition is acted upon, so a restart happens       *)
(* between two inputs.                                                     *)
(***************************************************************************)
EXTENDS CoreSession

CONSTANTS
  Calls   \* the sequences of kinds of actions that one command may call for

\* A completion is asked for alone.
ASSUME CallsAssumption ==
  /\ Calls \subseteq Seq(Kinds)
  /\ \A calls \in Calls :
       Range(calls) \cap Completions # {} => Len(calls) = 1

VARIABLES
  core,      \* the resident session
  next,      \* the number of the Runtime's next input
  waiting,   \* the input the Runtime has sent and has no answer for, or NoInput
  reply,     \* the answer on its way, or NoReply
  mirror,    \* the Runtime's copy of the model input
  owned,     \* the actions the Runtime is performing
  started,   \* history: the ids of the actions it was ever told to start
  count,     \* history: how many inputs took effect
  latest     \* history: the last input that did

effects == <<count, latest>>
vars == <<core, next, waiting, reply, mirror, owned, started, effects>>

-----------------------------------------------------------------------------

Texts == {<<>>} \cup {<<message>> : message \in Messages}

Commands ==
  [ type : {"begin", "inform", "interrupt", "answer", "summary", "tools",
            "view", "prompt", "resync"},
    id : Nat, messages : Texts, calls : Calls ]

Inputs == [id : Nat, command : Commands]

\* The commands a Runtime can send: messages of the user, and results of
\* actions it performs.  A completion cannot succeed without its input.
UserCommands ==
  { Begin(m, c) : m \in Texts, c \in Calls } \cup
  { Interrupt(m) : m \in Texts } \cup
  { ChangePrompt(m) : m \in Texts \ {<<>>} } \cup
  { Inform, ChangeTools, ChangeView }

Results(action) ==
  { Answer(action.id, <<>>, c) : c \in Calls } \cup
  IF action.kind \in Completions
    THEN { Resync(action.id) } \cup
         ( IF mirror = NoMirror THEN {}
           ELSE { Answer(action.id, m, c) : m \in Texts, c \in Calls } \cup
                { Summary(action.id, m, c) :
                    m \in Texts \ {<<>>}, c \in Calls } )
    ELSE { Answer(action.id, m, c) : m \in Texts, c \in Calls }

NoReply == [result |-> "none", transition |-> None]

Init ==
  /\ \E history \in Texts : core = NewSession(history)
  /\ next = 1
  /\ waiting = NoInput /\ reply = NoReply
  /\ mirror = NoMirror
  /\ owned = {} /\ started = {}
  /\ count = 0 /\ latest = NoInput

-----------------------------------------------------------------------------
(* The Runtime sends an input, and the core applies it.                    *)

\* An illegal command is refused whatever it is; one of them will do.
Send(command) ==
  /\ waiting = NoInput
  /\ (Legal(core, command) /\ Possible(core, command)) \/ command = Inform
  /\ waiting' = Input(next, command)
  /\ UNCHANGED <<core, next, reply, mirror, owned, started, effects>>

Receive(input) ==
  LET applied == Apply(core, input) IN
  /\ core' = applied.core
  /\ IF applied.core # core
       THEN count' = count + 1 /\ latest' = input
       ELSE UNCHANGED effects

Process ==
  /\ waiting # NoInput /\ reply = NoReply
  /\ Receive(waiting)
  /\ LET applied == Apply(core, waiting) IN
     reply' = [result |-> applied.result, transition |-> applied.transition]
  /\ UNCHANGED <<next, waiting, mirror, owned, started>>

\* The answer is lost; the Runtime will send the same input again.
LoseReply ==
  /\ reply # NoReply
  /\ reply' = NoReply
  /\ UNCHANGED <<core, next, waiting, mirror, owned, started, effects>>

-----------------------------------------------------------------------------
(* The Runtime follows the directives.                                     *)

\* The one completion a transition may carry the input of, if any.
InputsIn(directives) ==
  { directives[i].input : i \in DOMAIN directives } \ {None}

MirrorAfter(directives) ==
  LET inputs == InputsIn(directives) IN
  IF inputs = {} THEN mirror
  ELSE LET input == CHOOSE i \in inputs : TRUE
       IN IF UpdateFits(mirror, input) THEN Updated(mirror, input)
                                       ELSE NoMirror

\* reconcile_pending_actions.
Follow(directives) ==
  /\ owned' = {directives[i].action : i \in DOMAIN directives}
  /\ started' = started \cup
       { directives[i].action.id :
           i \in {j \in DOMAIN directives : directives[j].type = "dispatch"} }
  /\ mirror' = MirrorAfter(directives)

TakeAccepted ==
  /\ reply # NoReply /\ reply.result = "accepted"
  /\ Follow(reply.transition.directives)
  /\ next' = next + 1
  /\ waiting' = NoInput /\ reply' = NoReply
  /\ UNCHANGED <<core, effects>>

\* A rejected input does not use up its number.
TakeRejected ==
  /\ reply # NoReply /\ reply.result # "accepted"
  /\ waiting' = NoInput /\ reply' = NoReply
  /\ UNCHANGED <<core, next, mirror, owned, started, effects>>

-----------------------------------------------------------------------------
(* What else may happen.                                                   *)

\* The last input again, another command under its number or an older one, or
\* an input that is ahead of its turn.
Strays ==
  ({latest} \ {NoInput}) \cup
  { Input(id, Inform) : id \in 1..core.last } \cup
  { Input(core.last + 2, Inform) }

Stray(input) ==
  /\ input \in Strays
  /\ Receive(input)
  /\ UNCHANGED <<next, waiting, reply, mirror, owned, started>>

LoseCache ==
  /\ mirror # NoMirror
  /\ mirror' = NoMirror
  /\ UNCHANGED <<core, next, waiting, reply, owned, started, effects>>

Restart ==
  /\ waiting = NoInput
  /\ core' = Restore(Checkpoint(core), core.last)
  /\ mirror' = NoMirror
  /\ UNCHANGED <<next, waiting, reply, owned, started, effects>>

Next ==
  \/ \E command \in UserCommands : Send(command)
  \/ \E action \in owned : \E command \in Results(action) : Send(command)
  \/ Process
  \/ LoseReply
  \/ TakeAccepted
  \/ TakeRejected
  \/ \E input \in Strays : Stray(input)
  \/ LoseCache
  \/ Restart

Spec == Init /\ [][Next]_vars

-----------------------------------------------------------------------------
(* Properties.                                                             *)

Applied == INSTANCE AppliedInputs WITH asked <- waiting

\* However often an input is sent, and whatever old copies of inputs arrive, it
\* takes effect at most once and in order, and what the Runtime is told of it
\* is true (InputReceipt, StepDelivery::prepare, HarnessSession::restore).
AppliedOnce == Applied!Spec

\* A Runtime that kept its copy can apply every update it is sent, and the
\* same revision never stands for two contents, except when it is asked for
\* (apply_model_input_update of the acceptance driver).
UpdatesFit ==
  reply # NoReply /\ reply.result = "accepted" /\ mirror # NoMirror =>
    \A i \in DOMAIN reply.transition.directives :
      LET directive == reply.transition.directives[i] IN
      directive.input # None =>
        /\ UpdateFits(mirror, directive.input)
        /\ \/ directive.type = "refresh"
           \/ directive.input.messages.type = "append"
           \/ directive.input.messages.revision # mirror.revision

\* A Runtime whose copy of the model input was not dropped can apply what it is
\* sent, and between inputs show the model exactly what the core means it to
\* see: the copy, patched by differences through appends, rewrites, compactions
\* and changes of tools and view, is what the pending completion is owed
\* (message_update_since, synchronize_model_input).
MirrorExact ==
  /\ UpdatesFit
  /\ waiting = NoInput /\ mirror # NoMirror =>
       \A action \in owned :
         action.kind \in Completions => mirror = Owed(core, action.kind)

\* Each action is handed out once, is kept or asked for anew only while the
\* Runtime performs it, and between inputs the Runtime performs exactly what
\* the turn waits for (next_action, reconcile_pending_actions).
HandedOutOnce ==
  /\ reply # NoReply /\ reply.result = "accepted" =>
       \A i \in DOMAIN reply.transition.directives :
         LET directive == reply.transition.directives[i] IN
         IF directive.type = "dispatch"
           THEN directive.action.id \notin started
           ELSE directive.action \in owned
  /\ waiting = NoInput => owned = Range(core.pending)

=============================================================================
