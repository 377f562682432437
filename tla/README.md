# Verification of the unified harness

This directory models the unified harness of Mistral Vibe: the deterministic
Rust core under `src/harness/core`, the protocol by which the Python Runtime
under `src/harness/runtimes/python` drives it, the driver and the turn queue of
that Runtime, and the store in which it keeps a session. The models are TLA+
modules; TLC checks them on small instances and TLAPS proves the central
invariants for every instance.

1. Inventory of the system
2. The modules, and how they correspond to the code
3. What the runs check, with which bounds
4. Fairness and liveness
5. What is proved, and how
6. Findings and observations
7. Abstractions, and what is not modelled
8. Plan

To check a module: `tlc -config MCTurnEngine_turns.cfg MCTurnEngine` and so on;
to check the proofs: `tlapm TurnEngineProofs.tla`. `PROJECT.json` relates every
definition to the lines of the source it stands for.

## 1. Inventory

### The core and its Runtime

The *core* is a reducer. Its whole state is one value (`HarnessState`,
`core/state.rs`). A *Step* carries a numbered input from the *Runtime*; the
input holds one command; the core applies the command to a copy of its state,
installs the copy if the command is legal, and answers with a *Transition*:
actions to perform (a model completion, a tool, a hook, an approval question,
a file write), observations to show, and the turn's state. The Runtime performs
actions concurrently, in any order, and reports each result as a later input.
Nothing inside the core runs concurrently; everything around it does.

| Component | State | Operations | Hard behaviour | Correct when |
|---|---|---|---|---|
| Turn engine (`turn.rs`, `state.rs`, `turn/`) | `TurnState`, model context, steering, queued follow-up, iteration count | user message (queue, steer), context message, interrupt, fail, answers of completions, tools and hooks | a message, a notification or an interrupt may arrive between any two answers | one turn at a time; nothing acknowledged is lost; every turn ends; no id is used twice |
| Compaction (`features/compaction`) | pending compaction, attempt, compaction count, last reported size | automatic, manual, summary accepted, rejected, failed | suspends a turn, shrinks the context, may repeat | the turn resumes where it was; the compaction ends |
| Notifications (`features/notifications`) | received ids, pending queue, ready flag | receive, mark ready, take | duplicates; arrival while a completion is in flight | each shown to the model once |
| Lifecycle hooks (`turn/lifecycle_hooks.rs`, `turn/completion`) | pending hook with the suspended turn or the candidate answer | continue, skip, accept, retry, reject, fail | a hook holds a turn that has not started, or an answer not yet committed | a skipped turn never was; retries stop at the iteration limit |
| Tool execution (`tools/execution`) | one execution per call of the batch | hooks, approval, result, large-output write, program | calls finish in any order; each passes up to four external steps | results in call order, exactly one per call |
| Programmatic tool calling (`features/programmatic_tool_calling`) | a suspended program and its operations | resume with a result | replay of a program from its journal | same outcome on replay |
| Step delivery (`session.rs`, `session/delivery.rs`) | last input and its response, actions already emitted, model-input cursor | step, resync, restore | lost responses, retries, duplicates, restart between steps | each input takes effect once; each action is handed out once; the Runtime's copy of the model input is the core's |
| Checkpoints (`checkpoint/v1`) | the serialised state | capture, restore | validation on both sides | every reachable state restores to itself |
| Large outputs, permissions, tool discovery (`features/...`) | none | measure a result, decide on a call, search the catalogue | a result that must be written before it is told | (decisions taken inside tool execution) |
| Prompt, wire formats, contract (`prompt`, `wire`, `contract.rs`) | none | conversion | none | (not modelled: data) |
| Runtime driver (`runtime.py`, `vibe/_runtime.py`) | the core, its last transition, one lock, a task for each action, receipts to answer | command, drive, resolve and record an action, discard an input that was not stored, interrupt, close, restore, recover | asyncio cancellation between any two awaits, with the write going on in its thread; a crash between a stored intent and its result | an effect that must not be repeated is performed once; the core hears what was stored; the journal stays in order; every receipt is answered; nobody waits for nobody |
| Session and host (`vibe/_session.py`, `vibe/_host.py`) | the reserved turn, the active task, the lifecycle lock | start, defer, interrupt, shut down | interruption racing the tasks it cancels; events that are older than the state they are about | a turn that runs has a driver; a reservation ends |
| Turn queue (`vibe/_turn_queue.py`, `vibe/_deferred_turn.py`) | queued prompts, idempotency keys, the pause | enqueue, replace, remove, resume, steer, promote | prompts racing the end of a turn; responses that are not delivered; a steer that is tried again | no prompt forgotten or taken twice; prompts start in order |
| Session storage (`vibe/_storage.py`) | generations, journal segments, a pool of chunks, the pointer `CURRENT`, a lease, a cache | append a record, publish a generation, repair, open, read without a lease | crash or failed write between two writes; a reader in the middle of a publication | a reopened session holds what was acknowledged; the cache is what the disk holds |
| Subagents (`vibe/_subagents`) | child sessions, their runs and mailboxes | spawn, message, wait, cancel, close | parent and children end in any order | every child is settled before its parent |
| Background processes (`vibe/_processes`) | process table, output buffers | start, poll, write, stop | exit racing stop; output limits | each exit is notified once |
| App server (`vibe/app_server`) | sessions, subscriptions, event log, pending requests | requests, events, reconnect | reconnect in the middle of an event stream | a client sees every event once, in order |
| Completion adapters, MCP, connectors, plugins of the Runtime | connections | network calls | retries, pool limits | (not modelled: external services) |
| Harness adapter, ACP bridge, Rust client (`vibe/app_server/_unified_harness_backend_adapter.py`, `vibe/acp`, `vibe/cli-rust`) | none of their own | conversion | none beyond the app server's | (not modelled: conversion) |
| Terminal UI (`vibe/cli`) | widgets, message queue | input, rendering | user input racing events | (not modelled: presentation) |
| Agent loop, legacy (`vibe/core/agent_loop`) | one conversation | turn, tools, middleware | cancellation inside a tool | (superseded by the unified harness) |
| Workspace checkpoints and rewind (`vibe/core/checkpoints`, `vibe/core/rewind`) | file versions per turn | record, rewind | files changed meanwhile | a rewind restores what was there |
| Models, tools, skills, plugins, configuration (`vibe/core/...`) | mostly none | parsing, I/O | network and files | (not modelled: data conversion and I/O) |

### How they interact

A user prompt goes from the UI through the app server and the turn queue to the
Runtime driver, which sends it as a `user_message` command. The core answers
with actions; the driver hands them to completion, tool, process, hook and
subagent handlers; each handler's result is a command. Steering, notifications
and interrupts enter between. The Runtime appends every accepted input, every
action it starts and every result it gets to the journal of the session's
store; from time to time the journal is folded into a new generation. On
restart the Core is restored from the generation and the journal is replayed; a
journal that does not replay as it was recorded is cut back at the first record
that differs.

## 2. Modules

| Module | What it is | Extends / instantiates |
|---|---|---|
| `TurnLifecycle` | abstract: turns begin, finish once and in order | |
| `TurnEngine` | the reducer: turns, lifecycle hooks, compaction, notifications, follow-ups, the tool batch as a set of open calls | refines `TurnLifecycle` |
| `AppliedInputs` | abstract: inputs applied at most once, in order, and reported truly | |
| `CoreSession` | the session around the reducer: numbers, receipts, directives, the revisioned model input, restore | |
| `StepDelivery` | the session composed with its Runtime and a channel that loses and repeats | extends `CoreSession`, refines `AppliedInputs` |
| `CallsAnswered` | abstract: what user and model are told of the calls of a message | |
| `ToolBatch` | the calls of one message through hooks, permission, approval, tool, file write, and programs replayed from their journals | refines `CallsAnswered` |
| `DurableLog` | abstract: one log, and which of its records were answered | |
| `SessionStore` | generations, segments, chunks, pointer, cache, crashes, failed writes and a reader without a lease | refines `DurableLog` |
| `TurnQueue` | the turns and queued prompts of a live session: requests, responses, tasks, the core's turns as the session hears of them | |
| `DurableSession` | the driver of a session: its lock, the core's inputs and their writes, the tasks of actions, receipts, crashes and recovery | |
| `MC...` | finite instances of the six detailed modules | |
| `TurnEngineProofs`, `StepDeliveryProofs`, `ToolBatchProofs`, `TurnQueueProofs`, `SessionStoreProofs`, `DurableSessionProofs` | theorems | extend the module they are about |
| `SessionLogProofs` | `SessionStore` implements `DurableLog` | extends `SessionStoreProofs` |
| `DurableJournalProofs` | more theorems about `DurableSession` | extends `DurableSessionProofs` |

The detailed modules meet at their borders. What `TurnEngine` calls the
set of open calls of a batch is what `ToolBatch` keeps in detail: its `Start`
and its last answer are the reducer's `CompletionSucceeded` and `FinishToolCall`. What
`StepDelivery` takes for a command with a legal effect is a step of
`TurnEngine`. What `DurableSession` applies to its core is an input of
`StepDelivery`, reduced to the actions the core then waits for, and what it
writes is a record of `SessionStore`. The command that `TurnQueue` lets a
turn's task submit is `DurableSession`'s `Reserve`, and the turn runs on for as
long as the driver does. They are checked apart because each alone fills what
TLC can explore.

Some definitions are marked *Seeded fault*. No specification uses them: each
is the form a plausible mistake would give the definition under it (a dropped
guard, a missing reset), kept to show that a property of the module would
notice.

### TurnEngine (`src/harness/core/src/core/turn.rs` and its neighbours)

One variable, `core`, is the `HarnessState` of `state.rs`: the turn (idle,
compacting, active with a phase, terminal with an outcome), the model context,
pending steering, the follow-up, the iteration and compaction counts, pending
notifications and the hooks of the configuration. Histories the properties need
are components of their own: `issued` (completion ids), `steered`, `received`,
`archived` (what compactions removed).

Each action is one command or one answer of the Runtime: `QueueAtRest`,
`OpenFollowUp`, `ExtendFollowUp` and `Steer` are the four ways a user message
is taken; `ContextMessage`, `ReceiveNotification`, `ManualCompaction`,
`Reconfigure`, `Interrupt`, `LateInterrupt` and `FailTurn` are the other
commands; the disjuncts of `Answer` are the completions, tools, hooks and
summaries. An answer performs the whole handler, through to the next action it
dispatches: ending a batch releases pending steering and ready notifications,
may start a compaction, and plans the next completion with its id. A refused
command changes nothing (`apply` works on a clone), so it is an action that is
not enabled. Operators that end in a dispatch return sets, because whether a
context reaches the compaction threshold depends on text.

### CoreSession and StepDelivery (`session.rs`, `session/delivery.rs`, `model_context.rs`)

`CoreSession` has the record of a resident session: the number and receipt of
its last input, the pending actions, the model messages with revision and
replacement mark, and the cursor up to which the Runtime has been sent them.
`Apply` is `HarnessSession::step`: an input is a replay of the last one, a
conflict with it, older, ahead, or the next; the next is prepared, run through
the reducer and finished with directives (dispatch, keep, refresh) and an
incremental or a full model input. The reducer is abstracted to a command
record that carries its effect; `Legal` says what the session and the reducer check of
it, `Possible` what effects the reducer can have.

`StepDelivery` adds the Runtime: one input in flight, its answer, the copy of
the model input, the actions it performs. `LoseReply` and the following
`Process` are a lost answer and a retry; `Stray` is a late or repeated input;
`LoseCache` a dropped copy; `Restart` a restore from a checkpoint between two
inputs.

### ToolBatch (`tools/execution/`, `features/programmatic_tool_calling/`)

`batch` has one execution for each call: a direct call waits in one of the
stages pre-tool hook, approval, tool, post-tool hook; a program holds a journal
and one pending operation for each unsettled entry; both may wait for a file
write before they finish. `Start` is `start_tool_batch`; the five answers are
`resolve_*`; `Stop` is an interruption or a failure of the turn. `Driven`
is `drive_program`: an evaluation replays the journal and reaches new operations,
those refused at once are settled, and if all were, the program is evaluated
again in the same Step. `vetted` and `granted` record what a hook or the user
agreed to, `committed` and `finished` what the observations told the user.

### SessionStore (`vibe/_storage.py`)

`generations`, `journal`, `pool` and `current` are the files of a session;
`mode`, `cache` and `publication` are the process that holds the lease. A
publication (`write_generation`) goes through the writes it makes: create the
segment, write each missing chunk, install the generation, switch the pointer,
discard superseded generations and segments, collect chunks, prime the cache.
Between any two the process may die (`Crash`), the write may fail
(`PublicationFails`), or a removal may fail inside its stage. `AppendRecord`,
`AppendShort`, `AppendUnsynced` and `AppendDying` are an append that succeeds,
is written short, fails its fsync, or is cut off. `Open` restores or finds the
journal diverged and repairs. The reader performs `_load` in the five reads it
makes, with one retry if the pointer moved.

### TurnQueue (`vibe/_session.py`, `vibe/_turn_queue.py`)

`session` is what `UnifiedHarnessSession` and its `SessionTurnQueue` remember;
`tasks` has a task for each turn, `core` the core's turns, `replies` what is to
follow a response, `steered` the receipts of steered prompts. `line` is the order
in which the tasks of turns, and the one request that may hold the lifecycle lock
across an await (a steer, an interruption), wait for the Runtime's lock, which is
first come, first served. `runtime` is what the Runtime remembers of its commands:
whether it has a last transition (`_replayed_transition`), which turns' commands
have an open receipt, and which of those an interruption cancelled. That decides
what a command sent again is answered with: `Applies` is
`_resume_reserved_command`. A fold of the journal drops the last transition when
the core is idle and no receipt is open (`Folded`). A request is one action, since it
holds the lifecycle lock from its first check to its last assignment, and its
`after_response` is another (`Respond`, or `Abandon` if the response cannot be
sent). A turn goes from a reservation to a task, to the head of `line`, to a
turn of the core; `End` is the core's end, `Hear` the event that tells the
session, `Finish` and `Reap` the return of the task and its callback. Between
any two of these an interruption, a failure or an unrelated update (`News`) may
fall: that the session believes the latest event, not the latest state, is what
the properties are about.

### DurableSession (`vibe/_runtime.py`, the tail of `session/delivery.rs`)

`core` and `step` are the core in memory and its last transition, `disk` the
journal: the core a replay of it gives, that replay's transition, intents,
results and receipts. `lock` is the Runtime's lock with the core as it was
before the input that is being written. `driver` is a call of `_drive` with the
command it serves, `task` the task of each action, `desk` the receipts still to
be answered, `stray` the inputs whose write goes on in its thread after the
task that awaited it was cancelled.

An action ends where the code awaits something another task can change.
A command is `Reserve` (the receipt), `Take` (the input applied in memory, or,
for a receipt reserved earlier, the last transition taken over),
`CommandLands`, `Start`, then for each action `Resolve` (a stored result, a
stored intent, or a new one), `Perform` outside of the lock, `Record` or, when it
was cancelled, `RecordCancelled`, whose write may fail as well, then
`Deliver`, `ResultLands` or `InputRefused`, `Abandon`, `Reap`, and `Answer`. A
failure goes through `Settle` and `Raise`. `CancelDriver` cancels the command at
whatever it waits for. `Crash` loses everything but `disk`; `Restore` replays it
and `Recovered` ends the recovery. `Recorded` is what a replay makes of an input
that does not follow from the ones before it: the journal has a gap.

## 3. Runs

| Run | Instance | Shows |
|---|---|---|
| `turns` | 2 turns, with a pre-LLM and a post-turn hook, two calls or none, 2 messages, 1 compaction, answers fair | completion ids are never reused; steering is kept in order and arrives; tool calls are answered in place; turns and compactions end |
| `hooks` | 2 turns, all four hooks or none, one call, 2 messages and one that joins the follow-up, 1 notification, 1 compaction | an iteration is left for each answer; every state can be stored; the context is frozen while a completion is in flight; notices are shown, once; a follow-up is handed over; every answer takes its turn further; `TurnLifecycle` is implemented |
| `loss` | 4 inputs, one message text, every loss, stray and restart | inputs take effect once (`AppliedInputs`); the copy of the model input is exact and every update fits it; actions are handed out once |
| `mixed` | three messages that mix direct calls and a program, 2 operations, 1 further round, every binding of hooks, divergent replays, answers fair | no unpermitted tool; every state can be stored; observations once; ids are not reissued; each answer moves one call forward; a batch ends; `CallsAnswered` is implemented |
| `store_owner` | 4 appends, 2 publications, 1 divergence, 3 faults of crash, failed publication, failed removal | `DurableLog` is implemented; the cache is what is on disk |
| `store_reader` | 2 appends, 3 publications, 1 divergence, 1 fault of any kind, a reader at any moment | a read finds a log there was, or the store moved on twice; chunks outlive manifests; generation numbers are not reused |
| `store_segment` | two failed publications before a repair | violation (section 6) |
| `races` | 1 direct turn, 2 prompts of which one may hold context, 1 interruption, 1 update, 1 failure, responses lost | prompts reach the core once and in turn; a running turn has a driver; a session at rest has forgotten nothing |
| `steer` | 2 prompts without context, 1 failure | violation: a steered prompt is lost (section 6) |
| `promoted` | 2 prompts without context, nothing that disturbs them | violation: a failed turn pauses the queue (section 6) |
| `restarts` | an action that may be repeated and one that may not, a command of each kind, 2 restarts, 1 further input, 1 interruption, 1 failed write | effects happen once; the core hears what is stored; the journal is in order; receipts are answered; lock, driver, tasks and interruption never wait for one another in a circle |
| `retained` | 1 restart, 1 further input | violation: a session that cannot be recovered (section 6) |

Why the bounds are enough to be of use:

* Two turns let a message, a follow-up, an interruption and a late interruption
  of the first meet the second; a third adds only repetition, because nothing of
  a turn but its id and its messages outlives it. Two iterations have a retry
  and a limit reached. One compaction shrinks the context, which is what makes
  ids and positions interesting.
* In `turns` and `hooks`, two messages are a first one and a follow-up, a steering
  or a context message; in `hooks` the
  follow-up may collect one more (`MaxFollowUp`).
* In `loss`, inputs refer to the one before them at most; four allow a begun
  turn, an answer, a change and a restart around each.
* In `mixed`, two operations over two rounds have a round that ends at
  once, one that waits, and one that is refused as a whole. Arguments are three:
  allowed, asked about, denied; a hook may rewrite any into any.
* In `store_owner`, a chunk seals at two records, so four appends fill two
  chunks. Two publications give one generation and one segment to discard and
  leavings of a failed one to be adopted. A third publication in front of a
  repair meets the finding of `store_segment`, which is why the repair is checked
  with two and why `LogKept` is not claimed for more.
* `store_reader` needs three publications to delete what a reader has in hand
  under both of its attempts. Write errors that break the journal (short writes,
  fsync) are allowed there: the properties of generations and readers hold all
  the same.

* In `races`, two prompts are the fewest that have an order, and with the direct
  turn there are three, so one can run, one follow in the core and one wait. One
  interruption, one failure and one update each meet every stage of each turn.
  The run has 2.8 million states. The two violations need no direct turn,
  interruption or update, and `promoted` has no failure but the one the core
  itself reports of a turn.
* In `restarts`, two actions let one be delivered while the other runs, waits for
  the lock or is cancelled. Two restarts have one that finds what another left.
  The failed write may be any write, the interruption or close may fall on any
  await. The run's 2.4 million states are 55 steps deep.

`CHECK_DEADLOCK FALSE` is said because these systems may rest: a session nobody
talks to, a batch that is answered (each behaviour of `ToolBatch` has one), a
store whose bounds are used up. In `DurableSession` and `TurnQueue` the question
is asked by invariants that know who is waiting (`NobodyStuck` and `WaitsEnd`,
`NothingForgotten`).

## 4. Fairness and liveness

The only fairness assumed is `WF_vars(Answer)` in `TurnEngine` and `ToolBatch`:
while the core waits for an action, the Runtime answers some pending action.
The Runtime justifies it by performing every dispatched action in a task of its own, with
a result, a failure or a cancellation reported for each. Nothing is assumed of
users: messages, notifications, interruptions may come or not. Weak
fairness is enough because an answer stays possible until one is given.

Liveness is checked by TLC only. `TurnsEnd` depends on the iteration limit, on
the limit of summary retries and on `MaxCompactions`. Its safety half is
`AnswersAdvance`, which is proved for all constants: in the lexicographic order of
iterations, compactions, stages, and open calls or attempts, each answer takes a
turn up and no command takes it anywhere but to its end. Iterations, stages, calls
and attempts are bounded, so only compactions without end could keep a turn
going, and what bounds those, that a context just compacted is below the
threshold, is no fact of the core: it is `MaxCompactions` in the model.
`BatchEnds` depends on `MaxRounds`, after which a script can only end. Its safety
half is `EveryAnswerMoves`, which is proved too: each answer takes one call
forward and leaves the others alone, an operation to a later stage or its end, a
program to a later round, the call to its file or its end. A program whose replays
keep its journal adds to that journal in every round, so `MaxEffects`, which the code
has, bounds its rounds; only divergent replays need `MaxRounds`, which is the model's.
`StepDelivery` and `SessionStore` claim no liveness: a channel may lose every
answer and a disk may fail every write. `TurnQueue` and `DurableSession` state
the absence of a wait for nobody as invariants: `NothingForgotten` about
sessions at rest, `NobodyStuck`, that some step of the process itself is enabled
whenever a call, an interruption or a holder of the lock is under way, and
`WaitsEnd`, which says whose: the holder of the lock, the driver, or a task it
waits for, never only a write whose caller has left it. That every call ends
under fair scheduling of the tasks is not claimed.

## 5. Proofs

All theorems hold for every value of the constants the named assumptions admit:
any number of turns, messages, inputs, calls, operations and rounds. The bounds
of TLC's runs are parameters of the specifications, so a theorem is about every
bound. The type invariants, which are part of the inductive ones, are proved
(`TypeCorrect`, `BatchTyped`, `SessionTypedHolds`) and listed in no run.

`TurnEngineProofs` (assuming `IterationAssumption`, `HookAssumption`,
`CallAssumption`: an answer names a call at most once, as `candidate.rs:396`
enforces; `BoundAssumption`) makes three passes over the operators. In each, one
lemma for each operator that returns states says what it keeps, and one for each
action combines them.

The first pass ends in `EngineSound`, from which `TypeCorrect`,
`CompletionIdsUnique` and `IterationsBudgeted` follow. That completion ids are
distinct is not inductive: an id is the count of compactions and the length of
the context, and a compaction shortens the context, so one has to know that no
issued id lies beyond the next one (`NoneBeyond`, in lexicographic order), that
all issued ids have an earlier count while a compaction is pending
(`AllBeforeCompaction`), and, because a compaction may be interposed before any
model call, that the state has its shape. The invariant is
`Settled /\ (IsCompacting => AllBeforeCompaction) /\ HasBudget`.

The second pass keeps `Steady` on top of it: turns finish in the order of their
ids, a follow-up has a greater one (`Numbers`); a ready notice is never left
behind by a turn that is not ready itself (`Notices`); a phase belongs to its
turn, to an issued completion and to the last message (`Poised`).
`CheckpointableHolds` and `ReadyNoticesNotSkippedHolds` are consequences. The
same lemmas say where a step leaves the turn (`Moves`: it runs on, rests, or is
at its hook), what became of a request in flight, and what follows from a
follow-up (`Advances`). From these come two action properties,
`ContextFrozenHolds` and `FollowUpHandedOver`, and `LifecycleHolds`: every step
of the reducer, with the compactions, hooks and follow-ups it may interpose, is a
step of `TurnLifecycle` or a stutter.

`AnswersAdvanceHolds` rests on the second pass as well. What an answer leads to
depends only on where it stood and on three outcomes: the turn plans its
next completion or waits for one more compaction (`Plans`), it is at its next
iteration (`Counts`), or it is over (`Over`). That the batch, the retry, the
hooks and the summary each end in one of them is a lemma of its own.

The third pass keeps `Filed` on top of the first: a ledger of what the
transcript must tell. The steering acknowledged so far is told in its order,
first by what compaction removed, then by the context, then by what is pending
on the turn (`Accounted`); each notification is pending or told by one notice of
one of the two sequences (`Reported`); each message with calls has its results
behind it, but for the last one while its batch runs (`Answered`). To be
inductive it also says what has a number but is no steering: the messages a
follow-up or a pre-agent hook holds (`Held`) are reserved, so that they enter the
context as no steering does. A compaction keeps a subsequence of the context and
archives the rest of the user messages and notices, and the lemmas about
`Arranged` say that both halves stay orderly and that the archive stays ahead.
`SteeringKept`, `ToolCallsAnsweredHolds` and `NotificationsOnceHolds` follow.

`StepDeliveryProofs` (assuming `InputIdsAssumption`, `CallsAssumption`,
`NoneAssumption`: the absent value is no number, cursor or model input).
`DeliverySound` is the first inductive invariant, in three parts: the receipt is the
last input that took effect (`ReceiptInv`), the session is at most one input
ahead of the Runtime, and then exactly the one in flight, so that no restart
falls in between (`CountInv`), and an answer on its way says accepted exactly if
its input took effect (`ReplyInv`). `InputsAppliedOnce` shows from it that every
step maps to a step of `AppliedInputs` or a stutter. The lemmas establish that
the reducer, whatever a command does, leaves number and receipt alone.

`HandedOutOnceHolds` and `MirrorExactHolds` need what the Runtime holds compared
with what the core thinks it holds (`Exact`). A Runtime that has heard of every
input is `Level`: it performs what the core waits for, and its copy is the context
up to the core's cursor, unless the context was replaced since. One that has not heard
of the last input is
`Behind`, and the transition kept for that input `Directs` it: it names exactly
the pending actions, dispatches only what was never begun, and each model input
in it `Fits` the copy as it is, or no copy at all, and makes a true one. So
following it leads back to `Level`, whether it arrives at once, by a
repetition, or as the whole set after a restore. `Healthy` is what the core needs for that
of itself: pending ids are unique and issued, and no mark lies in the
future.

`ToolBatchProofs` (assuming `BatchAssumption`, `PolicyAssumption`,
`BoundAssumption`). `BatchSound` is the inductive invariant: the batch is a
sequence of executions, each shaped, and each operation of each is permitted at
its stage and belongs to the execution's round; `NothingUnpermittedHolds`,
`OneRoundHolds` (the pending operations of a program are of its last round) and
`BatchTyped` follow. The argument is that an operation in an
outcome is either new and admitted by the policy on its present arguments, or
was there before, or was advanced by the answer that is recorded in `vetted` or
`granted` under its id. The replay of a program is where the work is: the
operations an evaluation reaches are numbered from the end of the journal and
carry the round they were reached in.

`BatchBooked` is a second invariant over it. `Books` compares each execution with
the operations ever committed, the calls ever reported and the action ids ever
issued, all kept as bags or sets in the history: what has not reached its
commit is not in the books, and ids of a round not begun are not issued. An
outcome `Moves` these together: what it adds was not there. From that follow
`ReportedOnceHolds`, `NeverReissuedHolds` and `CheckpointableHolds`.
`EveryAnswerMovesHolds` follows the same outcomes and says of each how far it moves
its execution; it needs the books because they say which operations a program has
pending (a round begins only when the last has ended).
`BatchAnswersCalls` is the refinement of `CallsAnswered`; it adds only when there are
messages at all (`Course`).

`TurnQueueProofs` (assuming `KindAssumption`, `NoneAssumption`,
`CapacityAssumption`, `BoundAssumption`) builds four invariants, each on those
before it.

- `Secure`, from which `TurnIsDrivenHolds` follows: nothing but a failure or an
  interruption touches the task of a turn that is driven, because a response is
  followed by work only for a turn whose task has not begun, and comes once
  (`Awaiting`), because turns are numbered as they come (`Numbered`), and because
  an interruption that cancels the driver names the core's turn and holds the lock
  until it has ended it.
- `Placed`, for `NoPromptTwiceHolds`, says where each prompt is: items have
  distinct numbers and are queued under the key they were accepted for last
  (`Itemized`), a prompt that waits with a task has left the queue and is with no
  other task (`Drained`), a steered item is in the queue while its receipt is
  written (`Steering`), a prompt that was taken and may still be is one whose
  receipt was left open (`Once`), and what took it was a steer (`Steers`). That a
  steer with an open receipt is not taken again rests on `Running`: while the core
  has a turn there is a last transition to answer with. Each action either moves
  nothing (`StillPlaced`, `MovedPlaced`), accepts a prompt (`AcceptedPlaced`), hands it to a task
  (`DrainPlaced`), or gives it to the core (`TakenPlaced`, `SteeredPlaced`).
- `InOrder`, for `StartedInOrderHolds`: a turn whose command is to come stands in
  the line for the Runtime's lock once (`Lined`), whatever request stands between
  (`Beside`); the queue is behind whatever left it (`Rising`), and whoever is in
  line is behind those in front of it and those taken (`InTurn`). `Late` is the proviso the code forces: a prompt that was
  put back under its key is newer than the turn that has its place.
- `Alive`, for `NothingForgottenHolds`: there is room for every turn that a
  prompt may still need (`Counted`, from which `TypeCorrect` is complete); a turn
  anyone names has begun (`Known`); an active turn has an end that is still to
  be heard (`Scheduling`); a reservation has a task or a response that brings one
  (`Pending`); and a prompt that waits has something that will call for it,
  or the call was missed (`Called`).

`SessionStoreProofs` (assuming `StoreAssumption`). `Typed` is the inductive
invariant: files have their types, a publication under way writes a generation
above all others, and every generation that is whole has its chunks; the last is
`ChunksOutliveTheirManifests`. `GenerationsAreNeverRewritten` needs that numbers
are maxima of the directory plus one, and that the directory keeps the one
CURRENT names. `CacheIsTrueHolds` says that the cache is what a load of the present
generation finds. It assumes that no directory sync fails: with that fault the
code has replaced the pointer, reports a failure and keeps the old cache until it
recovers, which the
model has as well, and the runs of the owner exclude.

The same module proves both properties of the process that reads without a
lease, `ReaderSeesALog` and `ReaderFailsBehind`, with no hypothesis on faults.
The argument follows the store from the reader's side. `CurrentOK`: what CURRENT
names is whole, and the generation that will replace it has a greater number and
starts no earlier. Hence a step of the owner either leaves CURRENT alone
(`Steady`) or moves it to a greater generation (`Moved`), and in the second case
the segment it leaves is written no more and held the log at the time
(`Closed`), unless the new generation shares it (`watch.reused`). `SeenOK` says
that what the reader has in hand is either the present generation, whose log is
watched at every step, or one with a closed segment; so the log it assembles was
the log of some moment. `MissOK` says that an attempt which finds a file missing
is behind: CURRENT moved after the attempt read it (`OwnerMiss`), or the journal
of the present generation cannot be read, for the reader and for anybody
(`ReasonToMiss`). That a manifest and its chunks cannot be what is missing in
the present generation is `ChunksOutliveManifests` and `CurrentOK`.

`SessionLogProofs`: `StoreIsALog` is the refinement of `DurableLog`, with the
log a load would find for the abstract one. `LogOK` has the four facts it
needs: what CURRENT names can be loaded, records are in the log once and the
acknowledged ones are in it, segments after the present one are empty, so that
adopting one adds nothing, and a publication under way holds the log or the
part it keeps on purpose (`PublishesLog`). Two hypotheses are not the model's
own. `HonestWrites` excludes an append that is cut short and is then reported as
done, and the failing directory sync; `[]CurrentNamesAJournal` excludes the
defect of section 6, a pointer to a generation whose journal was discarded.
`StoreWithoutRepairs` shows that the second is not needed as long as no journal
has to be cut back: then no segment is numbered beyond the next record
(`SegmentsReached`), so the greatest one is always the present one's. The run
`store_segment` shows that with a repair it can fail.

`DurableSessionProofs` (assuming `NamesAssumption`, `BoundAssumption`).
`SessionTypedHolds` is type correctness and `EffectOnceHolds` the theorem a user
would ask for. An effect is performed anew only by a task that is not recovering
and found no stored intent, so the argument is about ids: an action with an
intent or a task was issued (`Issued`), in memory and in the journal, hence is
not issued again, whichever of the two the core is rebuilt from; memory and
journal may differ only in ways that keep this true while a driver can start
something (`Agreed`); what a driver still means to start has no intent
(`Startable`, with `GivenUp` for the action whose result is being told); and an
effect is preceded by its intent (`Performed`). `Owned`, `Employed` and `Cored`
say who may hold the lock, when tasks can exist and how a core follows from the
one before it. Each action has a lemma, and the theorems are combined from them.

`DurableJournalProofs` uses those invariants for four more. `JournalInOrderHolds`:
while an input is being written the journal is what the core was before it, and
otherwise it is the core (`InOrder`), which the lock keeps as long as no task
that waits for a write is cancelled. `HeardIsStoredHolds`: everything heard, by
the core in memory, in the journal, in the base of a write or in a stray input,
is a stored result (`Known`), and a stored result stays (`Settled`).

`AnsweredAtCloseHolds` needs the longest of the invariants (`Answerable`), for a
receipt can be owed by a command whose caller is gone, whose input is still on
its way, or whose turn went on without it. `Posts` says who may act in which mode
of the session; `Turns` that a driver works in the turn of its own command, and
that a write never takes the journal from one turn into another; `Strayed` that
an input left on its way by a cancellation stays in its turn, or ends it while
the session closes; `Remembered` that the Runtime knows every command that took
or will take effect, in `owed`, in `cancelled` or as the driver's own. Together
they keep `Covered`: an owed receipt is that of the turn the journal is in, or
its answer is about to be given. A close over an idle core has no such turn and
answers all of `owed`. The property asks for no end of the writes under way: one
that lands after the close leaves it true.

`WaitsEndHolds` is freedom from deadlock stated by guards. The circle that could
close is lock, driver, task: a driver that fails or waits needs the lock, so do
the tasks it waits for, and the lock is held by an input of the driver's. It does
not, because of who may hold the lock in which phase (`Owned`, `GivenUp`), because
no task is cancelled while a driver waits (`Employed`), and because a driver waits
only while it has tasks and settles only tasks it has cancelled (`Manned`).

Only model-checked is what needs fairness or `ENABLED`: `TurnsEnd`,
`SteeringDelivered`, `CompactionsEnd`, `BatchEnds`, and `NobodyStuck`, whose
substance `WaitsEnd` states without it. Every other
property of the passing runs is a theorem, `CacheIsTrue` and the refinement of
`DurableLog` under the hypotheses named above.

`SteeredIsTaken`, `PromptsPromoted`, `CurrentNamesAJournal` and
`RetainedHaveIntent` are false, and what section 6 is about.

## 6. Findings and observations

Each finding is a run TLC ends with a counterexample.

* `store_segment`: `_discard_superseded` (`_storage.py:4492`) keeps the two
  segments with the highest names. Failed publications leave segments behind
  with higher names than a later repair's, which then unlinks the segment it
  has just published. `CURRENT` names a generation without a journal.
* `steer`: a steered prompt is submitted under a receipt. When the store does not
  take its input while a turn runs, the receipt stays reserved; the steer that is
  sent again is answered with the transition of whatever input came last
  (`_runtime.py:1699`) and not applied. The item leaves the queue and the prompt is
  in no turn, against `docs/adr/0009-app-server-boundary.md:259`. The same happens
  to a steer that the core refused because its turn was scheduled and not yet
  taken, and that is sent again once it was: taking the turn sets the last
  transition (`_runtime.py:3474`). While there is none, it is applied again.
* `promoted`: a turn that fails pauses the queue, as if it had been interrupted
  (`_session.py:2281`). The ADR, line 279, says that a completed or failed turn
  promotes the next item, and that an interrupted one pauses. With `MayAbandon`
  TRUE the same property has a shorter counterexample, a prompt that is accepted
  by an idle session and whose response is lost: what calls for the prompt is
  `after_response`, which the server skips when it cannot send the response
  (`server.py:626`); `enqueue_turn` gives no `on_response_abandoned`, and its retry
  is a duplicate without anything to follow (`_session.py:1275`). The prompt waits
  in an idle, unpaused session, where the ADR, line 238, has it promoted.
* `retained`: the intent of an action is stored by the action's own task, after
  the input that started it. When another input is stored in between and the
  process ends, the journal's last transition keeps an action without an intent,
  and every recovery raises (`_runtime.py:1944`), although the code takes this to be
  impossible (`_runtime.py:4277`).

Observations without a run of their own, most of them of behaviour the
repository does not promise otherwise, or only in general terms:

* A follow-up that is queued while the pre-agent hook runs is accepted and, when
  the hook continues, dropped: `commit_turn` (`turn.rs:1035`) installs a turn with
  an empty queue, as `CommitTurn` does here. The turn completes and the follow-up
  never starts, against the comment on `ActiveTurn::queued` (`state.rs:529`).
  `FollowUpHandoff` is about a follow-up the turn still holds when it completes.
* When `os.fsync` fails after the write (`_storage.py:4039`), the record is in
  the file and not in the cache; the next append reuses its sequence number and
  the journal is refused from then on (`AppendUnsynced`, in `store_reader`).
* A short `write` (`_storage.py:4038`) is answered as a whole one; the next load
  drops the torn tail, and with it an answered record. The fault is modelled
  (`AppendShort`) and left out of the runs that check `LogKept`.
* `replace_quiescent_context` publishes with an empty journal, at the sequence
  of the generation it replaces, and so shares its segment. A reader that holds
  the old manifest joins the old transcript and new records.
  `ReaderSeesALogOfItsSegment` says so in its condition.
* A turn whose pre-LLM hook skips it is reported as completed and one whose hook
  rejects it as rejected; in both a queued follow-up is dropped.
* A notification that is deferred in a turn that is interrupted or fails is not
  made ready, so the first completion of the next turn does not show it.
* A candidate that asks for a retry at the iteration limit is refused as a
  command; the turn waits for another answer.
* A manual compaction cannot be interrupted.
* A queued prompt that holds context waits for the Runtime's lock twice, and a
  later prompt can reach the core between the two (`StartedInOrder` excepts it;
  the ADR, line 276, says prompts run in order).
* The queue may wait with nobody to move it, unpaused, also after a turn's task that
  the session had let go failed or only added context, after an interruption that
  found no turn, or when a turn's end is heard twice. `history.silent` names these
  cases in `NothingForgotten`, and `history.unsent` the response that was lost;
  both are forgotten with the next drain, which starts what waits.
* An interruption of a turn that is scheduled and not yet taken by the core
  cancels its task, is refused by the core, and the prompt is gone.
* A write of an input whose caller is cancelled is compensated by nobody, as
  `_persist_plain_core_transition` catches `Exception` only; the write may land
  after other inputs, and leave a gap that the next load cuts the journal back
  to. `history.adrift` marks this in `JournalInOrder`.
* A command cancelled inside `reserve_command`, or whose input the store refused,
  leaves its receipt reserved; `AnsweredAtClose` speaks of commands the core took
  and whose call did not fail. The docstring at `_runtime.py:1080` says that a
  failed write leaves the claim standing, but the `except` clause of `command`
  then forgets it (1054), and `_close_cancelled_command_receipts` empties its set
  before it writes.

## 7. Abstractions

`TurnEngine`: text, sizes and prices are left out; whether the model input is
over the threshold is chosen, at most `MaxCompactions` times. After a pre-LLM
hook has continued, the code may compact once more than it could without; the
model bounds this by the same count, a slight over-approximation. A replacement
made by a compaction fits unless late input follows. The Runtime never reuses a
turn id. `max_iterations = None` is not modelled. A message that a compaction
truncates keeps its identity. Repeated notifications, and answers that correlate
with nothing, are refused or ignored, which is stuttering. Context keyed by a
hook is delivered again by the hook after a compaction.

`StepDelivery`: a restart falls between two inputs because an input is stored
before its transition is acted upon. The Runtime applies the model input when it
takes the transition. The determinism context is part of the command, and the
first message stands for the generated system prompt. An update of tools that
does not fit the Runtime's copy leaves the copy half updated in Python; the model
drops the copy at once.

`ToolBatch`: one batch in each behaviour; call ids are taken to be fresh across
batches. Hooks are bound for all tools or none; the policy depends on arguments
only. What a script does next is a choice. A replay leaves its journal
at most once in a Step, and only when `MayDiverge`. Wrong, late or invalid
answers are refused and so stutter. A large result that cannot be written is
final like a written one. The limit on nested results is data; the overflow of
the round's `u32` is not modelled. An interruption and a failure of the turn do
the same to a batch (`Stop`).

`SessionStore`: a session exists, with its first generation. The owner's appends
and publications are serialised by the Runtime's lock, and the lease admits one
owner; neither lock is modelled. A record is the ordinal of its append, and the
chain of digests is the id of the record before it. A rename with its fsync
happens or does not; an append may leave a torn tail. A generation that is
removed in part is one whose manifest cannot be read. Where a journal diverges
is chosen. The quarantine copy and the recovery mark of a repair, reservations
of capacity, receipts, import of older formats, deletion and byte limits are
left out.

`TurnQueue`: a turn's prompt is its idempotency key. Preparing a workspace
succeeds or fails. Prompts sent to a busy core wait there, one at most, as in
`TurnEngine`. The store's failure is any failure of a command. There is no
restart, since the queue is not stored, and no shutdown. An update (`News`) and
the end of a turn (`End`) take the Runtime's lock when nobody holds it and do not
stand in `line`, so that they come at more moments than in the code. The
journal is folded when a command or an interruption ends or the model is
changed; folds forced by the journal's size are left out. Responses to changes of
the queue that are under way at once are one. `TurnIsDriven` says
nothing after a failure of any command, since a failure of the driver is what
leaves a turn without one.

`DurableSession`: the lock is not first come, first served, which allows more
orders than asyncio does. The core chooses freely what it waits for next, at
most two new actions at a time, and an id is never issued twice; that a model
which repeats a call id breaks this (`tools/execution/action_id.rs`) is left out.
Actions are all of one kind: those that start processes or child sessions have
paths of their own in `_resolve_action`, and they, hooks, projections, compaction
of the journal, capabilities and approvals are not modelled. `recover_action` is
taken to be absent, as it always is outside tests. A journal with a gap is repaired
by the store, and its session is not followed further. A driver that already settles
after an error is not cancelled a second time: in the
code, a cancellation while it waits for the lock there leaves its tasks to
themselves. A result whose write is
cancelled may land; an intent whose write is cancelled is taken to have landed
before the cancellation or not at all.

Not modelled: see the components with status `not_modelled` in `PROJECT.json`,
each with its reason. They are conversions, presentation or external services,
or are planned below.

## 8. Plan

In this order; the most important behaviour that is still open comes first.

1. `ProgramReplay` (`v8.rs`): promise order, recorded steps and their matching by
   name, against the promise of a deterministic replay. It is the one listed
   hazard without a property.
2. `Subagents` (`_subagents/_controller.py`, `features/subagents`): spawn, message,
   wait, close; settled children before parents; liveness of waits. It adds to
   `DurableSession` the actions whose effect is a child session.
3. `Processes` (`_processes/_manager.py`): exit racing stop and poll; one notice
   for each exit.
4. Capacity of the journal (`_storage.py:2484`): a result finds the room its
   intent reserved; and the compaction of the journal under `DurableSession`.
5. `SessionLease`: two processes, a stale lease, taking over.
6. `EventStream` (app server): subscriptions, reconnects, pending requests.
7. `Rewind`: workspace versions per turn.
