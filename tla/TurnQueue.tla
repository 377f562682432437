------------------------------ MODULE TurnQueue ------------------------------
(***************************************************************************)
(* The turns of one live session and the queue of prompts that wait for    *)
(* them (vibe/_session.py, vibe/_turn_queue.py).                           *)
(*                                                                         *)
(* Requests run concurrently on one event loop.  A request that changes    *)
(* the session holds the lifecycle lock; what it leaves for after its      *)
(* response does not.  A turn is reserved by its request, handed to a task *)
(* once the response is sent, and becomes the core's turn when the task's  *)
(* command is applied.  The core ends a turn under the Runtime's lock and  *)
(* the session hears of it when the projection is stored, so an action     *)
(* boundary below is an await of the code.                                 *)
(***************************************************************************)
EXTENDS Integers, SequencesExt

CONSTANTS
  Keys,           \* idempotency keys, one for each prompt a client may submit
  None,           \* no key: a turn that never was in the queue
  KindsOfPrompts, \* what each prompt may hold: user input, context, or both
  MaxItems,       \* capacity of the queue
  MaxStarts,      \* bound: turns started directly
  MaxInterrupts,  \* bound: interruptions
  MaxNews,        \* bound: updates of the projection that concern no turn
  MaxFailures,    \* bound: commands that fail in the store or while driven
  MayAbandon      \* whether the response to a request may be undeliverable

ASSUME KindAssumption ==
  KindsOfPrompts \subseteq [Keys -> {"user", "context", "both"}]
ASSUME NoneAssumption == None \notin Keys
ASSUME CapacityAssumption == MaxItems \in Nat \ {0} /\ IsFiniteSet(Keys)
ASSUME BoundAssumption ==
  {MaxStarts, MaxInterrupts, MaxNews, MaxFailures} \subseteq Nat

Turns == 1..(MaxStarts + Cardinality(Keys))
ItemIds == 1..Cardinality(Keys)

VARIABLES
  session,   \* the queue, the reservation, and the tasks the session knows of
  tasks,     \* each turn's task: how far it is, and the prompt it carries
  core,      \* the core's turns, as the session can see them
  runtime,   \* the last transition, and the turns' commands without an answer
  line,      \* who waits for the Runtime's lock, turns' tasks and a request
  lock,      \* the request that holds the lifecycle lock across an await
  replies,   \* responses on their way, with what is to follow them
  steered,   \* the durable receipt of each attempt to steer a queued prompt
  spent,     \* how much of each bound is used
  history    \* prompts in the order the core took them; calls for a drain missed

vars ==
  <<session, tasks, core, runtime, line, lock, replies, steered, spent, history>>

Item == [id : ItemIds, key : Keys]
Phases == {"none", "reserved", "preparing", "context", "due", "driving",
           "over", "failed", "cancelled", "reaped"}
Outcomes == {"none", "completed", "failed", "interrupted"}
Free == [holder |-> "none", turn |-> 0, item |-> 0]
Request == 0     \* the place in the line of the request that holds the lock
Reply(kind, t) == [kind |-> kind, turn |-> t]

-----------------------------------------------------------------------------
(* What the session believes about the turn in progress.                   *)

Unfinished == {"reserved", "preparing", "context", "due", "driving"}

TaskRuns(s, p) == s.active # 0 /\ p[s.active].phase \in Unfinished

\* The core's turn first: it may outlive the task that started it.
RunningOrScheduled(s, c, p) ==
  IF c.active # 0 THEN c.active
  ELSE IF TaskRuns(s, p) THEN s.reserved ELSE 0

ActiveTurn(s, c, p) ==
  IF RunningOrScheduled(s, c, p) # 0 THEN RunningOrScheduled(s, c, p)
  ELSE IF s.active # 0 THEN 0 ELSE s.reserved

(* _schedule_turn_queue_drain *)
Draining(s, c, p) ==
  IF s.reserved # 0 \/ ActiveTurn(s, c, p) # 0 THEN s
  ELSE [s EXCEPT !.drain = TRUE]

Unpaused(s) == IF s.items = <<>> THEN [s EXCEPT !.paused = FALSE] ELSE s

\* The reservation is dropped when an event says that no turn runs.
Reconciled(s) ==
  IF s.active = 0 THEN s ELSE [s EXCEPT !.reserved = 0, !.active = 0]

(* Seeded fault: the end of a turn does not call for the next.             *)
TerminalQuietly(s, c, p, t, outcome) ==
  IF t = s.lastTerminal THEN s
  ELSE IF outcome = "completed" THEN [s EXCEPT !.lastTerminal = t]
  ELSE [s EXCEPT !.lastTerminal = t, !.paused = s.paused \/ s.items # <<>>]

\* _handle_terminal_turn: each turn ends once, though many events name it.
Terminal(s, c, p, t, outcome) ==
  IF t = s.lastTerminal THEN s
  ELSE LET noted == [s EXCEPT !.lastTerminal = t]
       IN  IF outcome = "completed" THEN Draining(noted, c, p)
           ELSE [noted EXCEPT !.paused = s.paused \/ s.items # <<>>]

\* The Runtime's projection moved on: what it says of the core's turns.
Heard(s, c, p) ==
  IF c.active # 0 THEN s
  ELSE IF c.last = 0 THEN Reconciled(s)
  ELSE Terminal(Reconciled(s), c, p, c.last, c.outcome)

\* The session itself says that a turn failed or was interrupted.
Announced(s, c, p, t, outcome) == Terminal(Reconciled(s), c, p, t, outcome)

Scheduled(s, t) == [s EXCEPT !.reserved = t, !.active = t]

\* A prompt's context entries go to the core before its user input.
FirstPhase(key) ==
  IF key # None /\ session.kind[key] # "user" THEN "context" ELSE "due"

NewTurn == 1 + Cardinality({t \in Turns : tasks[t].phase # "none"})

SetPhase(p, t, phase) == [p EXCEPT ![t].phase = phase]
Joins(t) == line' = Append(line, t)

Places(t) == {n \in DOMAIN line : line[n] = t}
Leaves(t) ==
  line' = IF Places(t) = {} THEN line ELSE RemoveAt(line, CHOOSE n \in Places(t) : TRUE)

Spend(what) == [spent EXCEPT ![what] = @ + 1]
CanSpend(what, most) == spent[what] < most

Waiting == session.items # <<>> /\ ~session.paused
RuntimeFree == ~core.unheard
LockFree == lock = Free
MayEnter(w) == line # <<>> /\ Head(line) = w /\ RuntimeFree

\* A fold of the journal waits for an idle core and for every receipt.
Quiet(c, reserved) ==
  c.active = 0 /\ reserved = {} /\ \A i \in ItemIds : steered[i].state # "open"

\* The fold keeps a transition only for a core that runs.
Folded(rt, c) ==
  [rt EXCEPT !.replayed = @ /\ ~Quiet(c, rt.reserved)]

Init ==
  /\ \E kind \in KindsOfPrompts :
       session = [items |-> <<>>, paused |-> FALSE, kind |-> kind,
                  used |-> [k \in Keys |-> 0], reserved |-> 0, active |-> 0,
                  drain |-> FALSE, lastTerminal |-> 0, promoted |-> FALSE]
  /\ tasks = [t \in Turns |-> [phase |-> "none", key |-> None]]
  /\ core = [active |-> 0, follow |-> 0, driver |-> 0, last |-> 0,
             outcome |-> "none", unheard |-> FALSE]
  /\ runtime = [replayed |-> FALSE, reserved |-> {}, cancelled |-> {}]
  /\ line = <<>> /\ lock = Free /\ replies = {}
  /\ steered = [i \in ItemIds |-> [state |-> "none", turn |-> 0]]
  /\ spent = [starts |-> 0, interrupts |-> 0, news |-> 0, failures |-> 0]
  /\ history = [taken |-> <<>>, silent |-> FALSE, unsent |-> FALSE]

-----------------------------------------------------------------------------
(* Starting a turn.                                                        *)

\* start_turn and start_deferred_turn.  A finished task is reaped first.
Start(kind) ==
  /\ LockFree /\ CanSpend("starts", MaxStarts)
  /\ \A t \in Turns : tasks[t].phase \notin {"over", "failed", "cancelled"}
  /\ session.reserved = 0 /\ session.items = <<>>
  /\ kind = "deferred" => ~session.promoted
  /\ session' = [session EXCEPT !.reserved = NewTurn,
                                !.promoted = @ \/ kind = "start"]
  /\ tasks' = SetPhase(tasks, NewTurn, "reserved")
  /\ replies' = replies \cup {Reply(kind, NewTurn)}
  /\ spent' = Spend("starts")
  /\ UNCHANGED <<core, runtime, line, lock, steered, history>>

\* What follows a response, unless its turn was interrupted meanwhile.
Started(t) ==
  IF session.reserved # t THEN UNCHANGED <<session, tasks, line>>
  ELSE /\ session' = Scheduled(session, t) /\ Joins(t)
       /\ tasks' = SetPhase(tasks, t, FirstPhase(tasks[t].key))

Deferred(t) ==
  /\ UNCHANGED <<session, line>>
  /\ tasks' = IF session.reserved # t THEN tasks
              ELSE SetPhase(tasks, t, "preparing")

\* A reserved turn was interrupted: the session says so and lets the queue on.
Interrupted(t) ==
  LET heard == Announced(session, core, tasks, t, "interrupted")
  IN  /\ session' = Draining([heard EXCEPT !.paused = FALSE], core, tasks)
      /\ UNCHANGED <<tasks, line>>

Respond(r) ==
  /\ r \in replies /\ replies' = replies \ {r}
  /\ \/ r.kind = "start" /\ Started(r.turn)
     \/ r.kind = "deferred" /\ Deferred(r.turn)
     \/ r.kind = "interrupted" /\ Interrupted(r.turn)
     \/ r.kind = "queue" /\ session' = Draining(session, core, tasks)
                         /\ UNCHANGED <<tasks, line>>
  /\ UNCHANGED <<core, runtime, lock, steered, spent, history>>

\* The response cannot be sent.  A change of the queue has no second chance.
Abandon(r) ==
  /\ MayAbandon /\ r \in replies /\ replies' = replies \ {r}
  /\ \/ /\ r.kind \in {"start", "deferred"}
        /\ IF session.reserved # r.turn THEN UNCHANGED <<session, tasks>>
           ELSE /\ session' = Draining([session EXCEPT !.reserved = 0], core, tasks)
                /\ tasks' = SetPhase(tasks, r.turn, "reaped")
     \/ r.kind = "interrupted" /\ Interrupted(r.turn)
     \/ r.kind = "queue" /\ UNCHANGED <<session, tasks>>
  /\ history' = [history EXCEPT !.unsent = @ \/ (r.kind = "queue" /\ Waiting)]
  /\ UNCHANGED <<core, runtime, line, lock, steered, spent>>

\* _finish_deferred_turn: the workspace is ready, or cannot be prepared.
Prepare(t) ==
  /\ tasks[t].phase = "preparing" /\ LockFree
  /\ \/ /\ session' = [Scheduled(session, t) EXCEPT !.promoted = TRUE]
        /\ tasks' = SetPhase(tasks, t, "due") /\ Joins(t)
     \/ /\ session' = Announced([session EXCEPT !.reserved = 0], core, tasks,
                                t, "failed")
        /\ tasks' = SetPhase(tasks, t, "reaped") /\ UNCHANGED line
  /\ UNCHANGED <<core, runtime, lock, replies, steered, spent, history>>

-----------------------------------------------------------------------------
(* Requests that change the queue.                                         *)

Positions(i) == {n \in DOMAIN session.items : session.items[n].id = i}

(* Seeded fault: a key that was accepted before is not looked up.          *)
AcceptsAny(k) == TRUE

Fresh(k) == session.used[k] = 0

NextItem == 1 + Cardinality({k \in Keys : session.used[k] # 0})

Changed == replies' = replies \cup {Reply("queue", 0)}

Enqueue(k) ==
  /\ LockFree /\ Fresh(k) /\ NextItem \in ItemIds
  /\ Len(session.items) < MaxItems
  /\ session' = [session EXCEPT !.items = Append(@, [id |-> NextItem, key |-> k]),
                                !.used[k] = NextItem,
                                !.promoted = @ \/ session.reserved = 0]
  /\ Changed
  /\ UNCHANGED <<tasks, core, runtime, line, lock, steered, spent, history>>

Replaced(s, i, k) ==
  [n \in DOMAIN s.items |-> IF s.items[n].id = i THEN [id |-> i, key |-> k]
                            ELSE s.items[n]]

\* Item, place and receipts of steering stay; only the prompt is another.
Replace(i, k) ==
  /\ LockFree /\ Fresh(k) /\ Positions(i) # {}
  /\ session' = [session EXCEPT !.items = Replaced(session, i, k), !.used[k] = i]
  /\ Changed
  /\ UNCHANGED <<tasks, core, runtime, line, lock, steered, spent, history>>

Without(s, i) ==
  LET n == CHOOSE n \in DOMAIN s.items : s.items[n].id = i
  IN  Unpaused([s EXCEPT !.items = RemoveAt(s.items, n)])

Withdraw(i) ==
  /\ LockFree /\ Positions(i) # {}
  /\ session' = Without(session, i)
  /\ Changed
  /\ UNCHANGED <<tasks, core, runtime, line, lock, steered, spent, history>>

Resume ==
  /\ LockFree /\ session.paused
  /\ session' = [session EXCEPT !.paused = FALSE]
  /\ Changed
  /\ UNCHANGED <<tasks, core, runtime, line, lock, steered, spent, history>>

(* Seeded fault: the newest prompt goes first. *)
PeekNewest(s) == Last(s.items)

PeekNext(s) == Head(s.items)

\* _drain_turn_queue: what called for it may be out of date by now.
Drain ==
  /\ LockFree /\ session.drain
  /\ LET idle == [session EXCEPT !.drain = FALSE] IN
     \/ /\ \/ session.reserved # 0 \/ session.paused \/ session.items = <<>>
           \/ ActiveTurn(session, core, tasks) # 0
        /\ session' = idle /\ UNCHANGED <<tasks, line>>
     \/ /\ session.reserved = 0 /\ ~session.paused /\ session.items # <<>>
        /\ ActiveTurn(session, core, tasks) = 0
        /\ LET item == PeekNext(session) IN
             /\ session' = Scheduled(Without([idle EXCEPT !.promoted = TRUE], item.id),
                                    NewTurn)
             /\ tasks' = [tasks EXCEPT ![NewTurn] =
                            [phase |-> FirstPhase(item.key), key |-> item.key]]
        /\ Joins(NewTurn)
  /\ history' = [history EXCEPT !.silent = FALSE, !.unsent = FALSE]
  /\ UNCHANGED <<core, runtime, lock, replies, steered, spent>>

-----------------------------------------------------------------------------
(* Steering a queued prompt into the running turn.                         *)

Steer(i) ==
  /\ LockFree /\ session.promoted
  /\ ActiveTurn(session, core, tasks) # 0
  /\ \E n \in Positions(i) : session.kind[session.items[n].key] = "user"
  /\ steered[i].state # "done"
  /\ lock' = [holder |-> "steer", item |-> i,
              turn |-> ActiveTurn(session, core, tasks)]
  /\ Joins(Request)
  /\ UNCHANGED <<session, tasks, core, runtime, replies, steered, spent, history>>

KeyOf(i) == session.items[CHOOSE n \in Positions(i) : TRUE].key
Take(key, t) == [history EXCEPT !.taken = Append(@, [key |-> key, turn |-> t])]

\* The receipt is answered: the item leaves the queue in the same step.
Retire(i) ==
  /\ session' = Without(session, i)
  /\ steered' = [steered EXCEPT ![i] = [state |-> "done", turn |-> lock.turn]]

Reserve(i) ==
  steered' = [steered EXCEPT ![i] = [state |-> "open", turn |-> lock.turn]]

(* Seeded fault: a receipt that was reserved is applied, whatever came of it. *)
AppliesReserved(i) ==
  steered[i].state # "open" \/ steered[i].turn = lock.turn

\* _resume_reserved_command: a receipt that was reserved by an earlier attempt
\* is answered with the transition of the last input, if there is one.
Applies(i) ==
  \/ steered[i].state = "none"
  \/ steered[i].state = "open" /\ steered[i].turn = lock.turn /\ ~runtime.replayed

Applied == runtime' = [runtime EXCEPT !.replayed = TRUE]

\* The core refuses a message for a turn that is over; the store may fail
\* before the message is stored, or after it, before the receipt is answered.
Submit ==
  /\ lock.holder = "steer" /\ MayEnter(Request)
  /\ lock' = Free /\ line' = Tail(line)
  /\ LET i == lock.item IN
     \/ /\ Applies(i) /\ core.active = lock.turn
        /\ Retire(i) /\ Applied /\ history' = Take(KeyOf(i), 0) /\ UNCHANGED spent
     \/ /\ Applies(i) /\ core.active # lock.turn
        /\ Reserve(i) /\ UNCHANGED <<session, runtime, history, spent>>
     \/ /\ Applies(i) /\ core.active = lock.turn
        /\ CanSpend("failures", MaxFailures) /\ spent' = Spend("failures")
        /\ Reserve(i) /\ UNCHANGED session
        /\ \/ UNCHANGED <<runtime, history>>
           \/ Applied /\ history' = Take(KeyOf(i), 0)
     \/ /\ steered[i].state = "open" /\ steered[i].turn = lock.turn
        /\ runtime.replayed
        /\ Retire(i) /\ UNCHANGED <<runtime, history, spent>>
     \/ \* sent again for another turn: a conflict
        /\ steered[i].state = "open" /\ steered[i].turn # lock.turn
        /\ UNCHANGED <<session, runtime, steered, history, spent>>
  /\ UNCHANGED <<tasks, core, replies>>

-----------------------------------------------------------------------------
(* The task of a turn, and the core.                                       *)

\* A command that fails leaves the receipt it reserved.
Unanswered(t) == runtime' = [runtime EXCEPT !.reserved = @ \cup {t}]

\* Each context entry is a command of its own, waits for the lock anew, and
\* moves the projection on.  The core refuses one while a turn runs.
Contribute(t) ==
  /\ tasks[t].phase = "context" /\ MayEnter(t)
  /\ \/ /\ core.active # 0 /\ line' = Tail(line)
        /\ tasks' = SetPhase(tasks, t, "failed") /\ Unanswered(t)
        /\ UNCHANGED <<session, history>>
     \/ /\ core.active = 0 /\ session.kind[tasks[t].key] = "context" /\ line' = Tail(line)
        /\ tasks' = SetPhase(tasks, t, "over") /\ Applied
        /\ session' = Heard(session, core, tasks') /\ history' = Take(tasks[t].key, t)
     \/ /\ core.active = 0 /\ session.kind[tasks[t].key] = "both"
        /\ line' = Append(Tail(line), t) /\ tasks' = SetPhase(tasks, t, "due")
        /\ Applied
        /\ session' = Heard(session, core, tasks') /\ UNCHANGED history
  /\ UNCHANGED <<core, lock, replies, steered, spent>>

\* A message for a busy core waits there, one turn at most.
Accept(t) ==
  /\ tasks[t].phase = "due" /\ MayEnter(t) /\ line' = Tail(line)
  /\ LET taken == IF tasks[t].key = None THEN history ELSE Take(tasks[t].key, t) IN
     \/ /\ core.active = 0
        /\ core' = [core EXCEPT !.active = t, !.driver = t]
        /\ tasks' = SetPhase(tasks, t, "driving") /\ history' = taken
        /\ runtime' = [runtime EXCEPT !.replayed = TRUE, !.reserved = @ \cup {t}]
     \/ /\ core.active # 0 /\ core.follow = 0
        /\ core' = [core EXCEPT !.follow = t]
        /\ tasks' = SetPhase(tasks, t, "over") /\ history' = taken /\ Applied
     \/ /\ core.active # 0 /\ core.follow # 0 /\ Unanswered(t)
        /\ tasks' = SetPhase(tasks, t, "failed") /\ UNCHANGED <<core, history>>
  /\ UNCHANGED <<session, lock, replies, steered, spent>>

\* The store fails, or driving the actions does: the core keeps its turn.
Fail(t) ==
  /\ \/ tasks[t].phase = "driving" /\ UNCHANGED runtime
     \/ /\ tasks[t].phase \in {"context", "due"} /\ MayEnter(t)
        /\ UNCHANGED runtime \/ Unanswered(t)
  /\ CanSpend("failures", MaxFailures) /\ spent' = Spend("failures")
  /\ tasks' = SetPhase(tasks, t, "failed") /\ Leaves(t)
  /\ UNCHANGED <<session, core, lock, replies, steered, history>>

Ended(outcome) ==
  [core EXCEPT !.active = IF outcome = "completed" THEN core.follow ELSE 0,
               !.follow = 0, !.last = core.active, !.outcome = outcome,
               !.unheard = TRUE]

End(outcome) ==
  /\ core.active # 0 /\ RuntimeFree
  /\ tasks[core.driver].phase = "driving"
  /\ core' = Ended(outcome)
  /\ UNCHANGED <<session, tasks, runtime, line, lock, replies, steered, spent, history>>

\* The transition is stored, and its event published.
Hear ==
  /\ core.unheard /\ core' = [core EXCEPT !.unheard = FALSE]
  /\ session' = Heard(session, core, tasks)
  /\ lock' = IF lock.holder = "hearing" THEN Free ELSE lock
  /\ history' = [history EXCEPT !.silent =
                   @ \/ (core.active = 0 /\ core.last = session.lastTerminal /\ Waiting)]
  /\ UNCHANGED <<tasks, runtime, line, replies, steered, spent>>

\* A title, an effect of the host, a change of the model: an update between.
\* Only the last is an input of the core, which takes it between turns.
News ==
  /\ session.promoted /\ RuntimeFree
  /\ CanSpend("news", MaxNews) /\ spent' = Spend("news")
  /\ session' = Heard(session, core, tasks)
  /\ \/ UNCHANGED runtime
     \/ /\ core.active = 0
        /\ runtime' = Folded([runtime EXCEPT !.replayed = TRUE], core)
  /\ UNCHANGED <<tasks, core, line, lock, replies, steered, history>>

(* Seeded fault: a task returns when its own turn is over. *)
DrivenByOwnTurn(t) == core.active # t

\* A task drives on when its turn hands over to a follow-up.
DrivenOut(t) == core.active = 0 \/ core.driver # t

\* The command is answered, and the journal folded if nothing is open.
Finish(t) ==
  /\ tasks[t].phase = "driving" /\ RuntimeFree /\ DrivenOut(t)
  /\ tasks' = SetPhase(tasks, t, "over")
  /\ runtime' = Folded([runtime EXCEPT !.reserved = @ \ {t}], core)
  /\ UNCHANGED <<session, core, line, lock, replies, steered, spent, history>>

\* Only the task the session still counts as active gives the turn up.
Reaped(s, c, p, t) ==
  LET cleared == [s EXCEPT !.reserved = 0, !.active = 0]
  IN  IF s.active # t THEN s
      ELSE CASE p[t].phase = "failed"    -> Announced(cleared, c, p, t, "failed")
             [] p[t].phase = "over"      -> Draining(cleared, c, p)
             [] p[t].phase = "cancelled" -> cleared

\* A task that was let go, and whose end no turn of the core will tell.
EndsUnheard(t) ==
  /\ session.active # t
  /\ \/ tasks[t].phase = "failed"
     \/ tasks[t].key # None /\ session.kind[tasks[t].key] = "context"

Reap(t) ==
  /\ tasks[t].phase \in {"over", "failed", "cancelled"}
  /\ session' = Reaped(session, core, tasks, t)
  /\ tasks' = SetPhase(tasks, t, "reaped")
  /\ history' = [history EXCEPT !.silent = @ \/ (EndsUnheard(t) /\ Waiting)]
  /\ UNCHANGED <<core, runtime, line, lock, replies, steered, spent>>

-----------------------------------------------------------------------------
(* Interruption.                                                           *)

InterruptReserved(t) ==
  /\ LockFree /\ CanSpend("interrupts", MaxInterrupts)
  /\ RunningOrScheduled(session, core, tasks) = 0
  /\ session.reserved = t /\ tasks[t].phase \in {"reserved", "preparing"}
  /\ session' = [session EXCEPT !.reserved = 0]
  /\ tasks' = SetPhase(tasks, t, "reaped")
  /\ replies' = replies \cup {Reply("interrupted", t)}
  /\ spent' = Spend("interrupts")
  /\ UNCHANGED <<core, runtime, line, lock, steered, history>>

\* A task whose turn is over in the projection is left to finish.
Settling(c, t) == c.active = 0 /\ c.last = t

\* _cancel_active_work: the task's command has a receipt once it has the lock.
InterruptRunning ==
  LET t == RunningOrScheduled(session, core, tasks)
      a == session.active
  IN  /\ LockFree /\ CanSpend("interrupts", MaxInterrupts) /\ t # 0
      /\ session' = [session EXCEPT !.reserved = 0, !.active = 0]
      /\ IF TaskRuns(session, tasks) /\ ~Settling(core, a)
           THEN /\ tasks' = SetPhase(tasks, a, "cancelled") /\ Leaves(a)
                /\ runtime' = [runtime EXCEPT !.cancelled = @ \cup ({a} \cap runtime.reserved)]
           ELSE UNCHANGED <<tasks, line, runtime>>
      /\ lock' = [holder |-> "interrupt", turn |-> t, item |-> 0]
      /\ spent' = Spend("interrupts")
      /\ UNCHANGED <<core, replies, steered, history>>

\* The task has ended: runtime.interrupt waits for the Runtime's lock.
AwaitRuntime ==
  /\ lock.holder = "interrupt" /\ Places(Request) = {} /\ Joins(Request)
  /\ UNCHANGED <<session, tasks, core, runtime, lock, replies, steered, spent, history>>

\* An interruption answers the commands it cancelled, and folds the journal.
Closed ==
  [replayed |-> TRUE, reserved |-> runtime.reserved \ runtime.cancelled, cancelled |-> {}]

InterruptCore ==
  /\ lock.holder = "interrupt" /\ MayEnter(Request) /\ line' = Tail(line)
  /\ \/ /\ core.active = lock.turn /\ core' = Ended("interrupted")
        /\ runtime' = Folded(Closed, core')
        /\ lock' = [lock EXCEPT !.holder = "hearing"] /\ UNCHANGED history
     \/ /\ core.active # lock.turn /\ lock' = Free /\ UNCHANGED <<core, runtime>>
        /\ history' = [history EXCEPT !.silent =
                         @ \/ (core.last # lock.turn /\ Waiting)]
  /\ UNCHANGED <<session, tasks, replies, steered, spent>>

-----------------------------------------------------------------------------
Requests ==
  \/ \E kind \in {"start", "deferred"} : Start(kind)
  \/ \E k \in Keys : Enqueue(k)
  \/ \E k \in Keys, i \in ItemIds : Replace(i, k)
  \/ \E i \in ItemIds : Withdraw(i) \/ Steer(i)
  \/ Resume \/ InterruptRunning
  \/ \E t \in Turns : InterruptReserved(t)

Disturbances ==
  \/ News
  \/ \E t \in Turns : Fail(t)
  \/ \E r \in replies : Abandon(r)

\* What the event loop runs by itself.
Loop ==
  \/ \E r \in replies : Respond(r)
  \/ Drain \/ Submit \/ AwaitRuntime \/ InterruptCore \/ Hear
  \/ \E t \in Turns :
       Prepare(t) \/ Contribute(t) \/ Accept(t) \/ Finish(t) \/ Reap(t)
  \/ \E outcome \in {"completed", "failed"} : End(outcome)

Next == Requests \/ Disturbances \/ Loop

Spec == Init /\ [][Next]_vars

-----------------------------------------------------------------------------
(* Every part of the state is of its kind, and exactly the turns that wait *)
(* for the Runtime's lock stand in its line, once each.                    *)
TypeOK ==
  /\ session \in [items : Seq(Item), paused : BOOLEAN, kind : KindsOfPrompts,
                  used : [Keys -> Nat], reserved : Nat, active : Nat,
                  drain : BOOLEAN, lastTerminal : Nat, promoted : BOOLEAN]
  /\ tasks \in [Turns -> [phase : Phases, key : Keys \cup {None}]]
  /\ core \in [active : Nat, follow : Nat, driver : Nat, last : Nat,
               outcome : Outcomes, unheard : BOOLEAN]
  /\ runtime \in [replayed : BOOLEAN, reserved : SUBSET Turns, cancelled : SUBSET Turns]
  /\ history \in [taken : Seq([key : Keys, turn : Nat]), silent : BOOLEAN,
                  unsent : BOOLEAN]
  /\ Len(session.items) <= MaxItems
  /\ \A t \in Turns : tasks[t].phase \in {"context", "due"} <=>
       Cardinality({n \in DOMAIN line : line[n] = t}) = 1

(* A prompt enters the core's history once, whether a turn of its own or a *)
(* steered turn took it, and whatever is retried, replaced or interrupted. *)
(* The exception is a prompt the core took as steering while the store     *)
(* failed: its receipt is left open and its item stays, so it can start a  *)
(* turn of its own later.  Steering it again never steers it twice.        *)
NoPromptTwice ==
  \A a, b \in DOMAIN history.taken :
    a < b /\ history.taken[a].key = history.taken[b].key =>
      /\ history.taken[a].turn = 0 /\ history.taken[b].turn # 0
      /\ steered[session.used[history.taken[a].key]].state = "open"

(* Queued prompts start in the order of their places in the queue, though  *)
(* each becomes a task of its own and the session may lose sight of the    *)
(* task before the core has its prompt.  Only a prompt that submits its    *)
(* context first, and so waits for the lock twice, can be overtaken.       *)
ItemOf(entry) == session.used[entry.key]

StartedInOrder ==
  LET turns == {n \in DOMAIN history.taken : history.taken[n].turn # 0} IN
  \A a, b \in turns :
    a < b => \/ ItemOf(history.taken[a]) <= ItemOf(history.taken[b])
             \/ session.kind[history.taken[b].key] = "both"

(* A turn the core runs is driven by the task that started it: none is     *)
(* dropped or cancelled without the turn being ended under the same lock,  *)
(* unless driving it failed.                                               *)
TurnIsDriven ==
  core.active # 0 =>
    \/ tasks[core.driver].phase = "driving"
    \/ lock.holder = "interrupt" /\ lock.turn = core.active
    \/ spent.failures > 0

(* Nothing waits for ever: when no response, task, drain or turn is left   *)
(* to move the session, no turn is reserved, and prompts wait only in a    *)
(* paused queue, or when a call for the next was missed since the queue    *)
(* was last drained: an end the session never heard, or a response that    *)
(* could not be sent.                                                      *)
AtRest ==
  /\ core.active = 0 /\ RuntimeFree /\ LockFree
  /\ replies = {} /\ ~session.drain
  /\ \A t \in Turns : tasks[t].phase \in {"none", "reserved", "reaped"}

NothingForgotten ==
  AtRest =>
    /\ session.reserved = 0
    /\ \/ session.items = <<>> \/ session.paused
       \/ history.silent \/ history.unsent

(* Only an interruption holds prompts up: a turn that completes or fails   *)
(* promotes the next, and so does a prompt accepted by an idle session.    *)
PromptsPromoted == AtRest /\ spent.interrupts = 0 => session.items = <<>>

(* A queued prompt whose steering is answered with success is one the core *)
(* has.                                                                    *)
SteeredIsTaken ==
  \A i \in ItemIds : steered[i].state = "done" =>
    \E n \in DOMAIN history.taken : ItemOf(history.taken[n]) = i
=============================================================================
