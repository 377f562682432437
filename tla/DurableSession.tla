--------------------------- MODULE DurableSession ---------------------------
(***************************************************************************)
(* The driver of one session (vibe/_runtime.py): it gives commands and the *)
(* results of actions to the core, stores what the core took and what each *)
(* action did, and takes up after a restart whatever was left undone.      *)
(*                                                                         *)
(* One lock serialises the inputs of the core and the records of actions,  *)
(* but a write runs in a thread: the process may end, or the task that     *)
(* waits for the write be cancelled, while the write is on its way.  Effects *)
(* are performed outside of the lock.  The journal itself is SessionStore; *)
(* here a record is in it or not.  The core is reduced to the actions it   *)
(* waits for, which it chooses freely; its ids of actions are never reused. *)
(***************************************************************************)
EXTENDS Integers, FiniteSets

CONSTANTS
  Actions,        \* ids of actions
  Retryable,      \* those that may be performed again (idempotent_retry)
  Commands,       \* client command ids, each starting a turn
  Marked,         \* those whose reservation does not outlive a restart
  None,
  MaxRestarts,    \* bound: restarts of the process
  MaxInputs,      \* bound: other inputs of a running turn (steering, notices)
  MaxInterrupts,  \* bound: interruptions
  MaxFaults       \* bound: writes that fail

ASSUME NamesAssumption ==
  /\ Retryable \subseteq Actions /\ Marked \subseteq Commands
  /\ None \notin Commands \cup Actions
ASSUME BoundAssumption ==
  {MaxRestarts, MaxInputs, MaxInterrupts, MaxFaults} \subseteq Nat

VARIABLES
  disk,     \* the journal: the core's inputs, the actions, the receipts
  core,     \* the core in memory
  step,     \* its last transition, as _replayed_transition keeps it
  lock,     \* what the holder of the Runtime's lock does, and the core and
            \* transition as they were before the input it is writing
  stray,    \* inputs whose write goes on after its caller was cancelled
  driver,   \* the call of _drive, if any, and the command it serves
  task,     \* the task of each action
  desk,     \* receipts the Runtime still means to answer
  session,  \* whether the process runs, and an interruption under way
  spent,    \* how much of each bound is used
  history   \* how often each effect was performed; commands taken and failed

memory == <<core, step, stray, desk>>
vars == <<disk, core, step, lock, stray, driver, task, desk, session,
          spent, history>>

Outcomes == {"ok", "failed"}

Fresh == [last |-> 0, turn |-> None, pending |-> {}, used |-> {},
          heard |-> [a \in Actions |-> "none"]]
NoStep == [input |-> 0, start |-> {}, keep |-> {}]
NoDriver == [pc |-> "idle", command |-> None, recovering |-> FALSE,
             step |-> NoStep, action |-> None, why |-> "none"]
Held(by) == [holder |-> by, base |-> [core |-> Fresh, step |-> NoStep]]
Unlocked == Held("nobody")
NoTask == [pc |-> "none", recovering |-> FALSE, outcome |-> "none"]

Init ==
  /\ disk = [core |-> Fresh, step |-> NoStep, gap |-> FALSE, intent |-> {},
             result |-> [a \in Actions |-> "none"],
             receipt |-> [c \in Commands |-> "none"]]
  /\ core = Fresh /\ step = NoStep
  /\ lock = Unlocked /\ stray = {}
  /\ driver = NoDriver /\ task = [a \in Actions |-> NoTask]
  /\ desk = [owed |-> {}, cancelled |-> {}]
  /\ session = [mode |-> "up", interrupt |-> FALSE]
  /\ spent = [restarts |-> 0, inputs |-> 0, interrupts |-> 0, faults |-> 0]
  /\ history = [performed |-> [a \in Actions |-> 0], taken |-> {}, failed |-> {},
                adrift |-> FALSE]

Free == lock = Unlocked
Spend(what, most) == spent[what] < most /\ spent' = [spent EXCEPT ![what] = @ + 1]
Fails == Spend("faults", MaxFaults)

-----------------------------------------------------------------------------
(* The core: what it waits for after an input, and what it tells of it.    *)

After(c, turn, kept, new, heard) ==
  [core |-> [last |-> c.last + 1, pending |-> kept \cup new, heard |-> heard,
             turn |-> IF kept \cup new = {} THEN None ELSE turn,
             used |-> c.used \cup new],
   step |-> [input |-> c.last + 1, start |-> new, keep |-> kept]]

News(c) == {new \in SUBSET (Actions \ c.used) : Cardinality(new) <= 2}

Begun(c, command) == {After(c, command, {}, new, c.heard) : new \in News(c) \ {{}}}

\* A result lets the turn go on, or makes the core give up what it waits for.
Heard(c, a, outcome) ==
  {After(c, c.turn, kept, new, [c.heard EXCEPT ![a] = outcome]) :
     kept \in {{}, c.pending \ {a}}, new \in News(c)}

Noted(c) == After(c, c.turn, c.pending, {}, c.heard)
Interrupted(c) == After(c, None, {}, {}, c.heard)

-----------------------------------------------------------------------------
(* Inputs of the core: applied in memory, then recorded by a thread.       *)

\* _apply, up to the await of the write.
Apply(writer, after) ==
  /\ core' = after.core /\ step' = after.step
  /\ lock' = [holder |-> writer, base |-> [core |-> core, step |-> step]]

\* An input is stored with its number and a digest of its transition: a replay
\* stops at the first that does not follow from the inputs before it.
Recorded(d, base, c, s) ==
  IF base = d.core THEN [d EXCEPT !.core = c, !.step = s]
  ELSE [d EXCEPT !.gap = TRUE]

MayRecord(c) == c.last > disk.core.last

Lands(writer) ==
  /\ lock.holder = writer /\ MayRecord(core)
  /\ disk' = Recorded(disk, lock.base.core, core, step)

\* The write failed, or its number is already that of another input.
Refused == IF MayRecord(core) THEN Fails ELSE UNCHANGED spent

(* Seeded fault: the core keeps an input that was not stored.              *)
KeepUnrecorded == UNCHANGED <<core, step>>

\* _discard_undurable_core_input: the core is built again from the journal.
DiscardUndurable ==
  IF disk.gap THEN UNCHANGED <<core, step>>
  ELSE core' = disk.core /\ step' = lock.base.step

(* Seeded fault: the lock is not released when a write fails.              *)
WriteFailsLocked(writer) ==
  /\ lock.holder = writer /\ Refused
  /\ DiscardUndurable
  /\ UNCHANGED lock

WriteFails(writer) ==
  /\ lock.holder = writer /\ Refused
  /\ DiscardUndurable
  /\ lock' = Unlocked

StrayLands ==
  \E s \in stray :
    /\ stray' = stray \ {s}
    /\ IF MayRecord(s.core)
       THEN /\ disk' = Recorded(disk, s.base, s.core, s.step)
            /\ history' = [history EXCEPT !.taken = @ \cup s.taken]
       ELSE UNCHANGED <<disk, history>>
    /\ UNCHANGED <<core, step, lock, driver, task, desk, session, spent>>

\* The thread never began, or failed with nobody to compensate.
StrayLost ==
  /\ \E s \in stray : stray' = stray \ {s}
  /\ UNCHANGED <<disk, core, step, lock, driver, task, desk, session,
                 spent, history>>

-----------------------------------------------------------------------------
(* The tasks of actions.                                                   *)

InFlight == {a \in Actions : task[a].pc # "none"}

\* Recording of one result; a second one must be the same.
Conflicts(a, outcome) == disk.result[a] \notin {"none", outcome}

Quiet == UNCHANGED <<core, step, lock, stray, driver, desk, session>>

\* _resolve_action up to the release of the lock.
Resolve(a) ==
  /\ task[a].pc = "created" /\ Free
  /\ \/ /\ disk.result[a] # "none"
        /\ task' = [task EXCEPT ![a].pc = "done", ![a].outcome = disk.result[a]]
        /\ UNCHANGED <<disk, spent>>
     \/ /\ disk.result[a] = "none" /\ a \notin disk.intent
        /\ disk' = [disk EXCEPT !.intent = @ \cup {a}]
        /\ task' = [task EXCEPT ![a].pc = "run", ![a].recovering = FALSE]
        /\ UNCHANGED spent
     \/ /\ disk.result[a] = "none" /\ a \notin disk.intent /\ Fails
        /\ task' = [task EXCEPT ![a].pc = "raised"]
        /\ UNCHANGED disk
     \/ /\ disk.result[a] = "none" /\ a \in disk.intent
        /\ task' = [task EXCEPT ![a].pc = "run"]
        /\ UNCHANGED <<disk, spent>>
  /\ Quiet /\ UNCHANGED history

(* Seeded fault: an interrupted effect is always performed again.          *)
ReattemptAlways(a) == TRUE

\* _execute_action, or _recover: is the effect performed (again)?
Attempt(a) == ~task[a].recovering \/ a \in Retryable

Perform(a) ==
  /\ task[a].pc = "run"
  /\ \E outcome \in IF Attempt(a) THEN Outcomes ELSE {"failed"} :
       task' = [task EXCEPT ![a].pc = "record", ![a].outcome = outcome]
  /\ history' = IF Attempt(a) THEN [history EXCEPT !.performed[a] = @ + 1] ELSE history
  /\ Quiet /\ UNCHANGED <<disk, spent>>

\* _record_action_result
Record(a) ==
  /\ task[a].pc = "record" /\ Free
  /\ \/ /\ ~Conflicts(a, task[a].outcome)
        /\ disk' = [disk EXCEPT !.result[a] = task[a].outcome]
        /\ task' = [task EXCEPT ![a].pc = "done"]
        /\ UNCHANGED spent
     \/ /\ IF Conflicts(a, task[a].outcome) THEN UNCHANGED spent ELSE Fails
        /\ task' = [task EXCEPT ![a].pc = "raised"]
        /\ UNCHANGED disk
  /\ Quiet /\ UNCHANGED history

\* A driver cancelled while it waits for cancelled tasks cancels them again.
CancelledAgain == driver.pc = "failing"

\* An action cancelled while it ran is recorded as failed by its own task.  The
\* write may fail, or be given up with the task that is cancelled again.
RecordCancelled(a) ==
  /\ task[a].pc = "cancelled" /\ (Free \/ CancelledAgain)
  /\ \/ /\ ~Conflicts(a, "failed")
        /\ disk' = [disk EXCEPT !.result[a] = "failed"]
        /\ UNCHANGED spent
     \/ /\ IF Conflicts(a, "failed") \/ CancelledAgain THEN UNCHANGED spent ELSE Fails
        /\ UNCHANGED disk
  /\ \E begun \in {FALSE, Attempt(a)} :
       history' = IF begun THEN [history EXCEPT !.performed[a] = @ + 1] ELSE history
  /\ task' = [task EXCEPT ![a] = NoTask]
  /\ Quiet

Cancelled(t) == IF t.pc = "run" THEN [t EXCEPT !.pc = "cancelled"]
                ELSE IF t.pc = "cancelled" THEN t ELSE NoTask

\* A result whose write was under way may be stored all the same.
Cancel(these, d) ==
  /\ task' = [a \in Actions |-> IF a \in these THEN Cancelled(task[a]) ELSE task[a]]
  /\ \E late \in SUBSET {a \in these : task[a].pc = "record"
                                        /\ ~Conflicts(a, task[a].outcome)} :
       disk' = [d EXCEPT !.result = [a \in Actions |->
                   IF a \in late THEN task[a].outcome ELSE d.result[a]]]

-----------------------------------------------------------------------------
(* Commands.                                                               *)

Up == session.mode = "up" /\ ~session.interrupt

\* command, up to the return of reserve_command.  Only the turn's own command
\* is sent again while the core has a turn (TurnQueue).
Reserve(c) ==
  /\ Up /\ driver = NoDriver /\ Free
  /\ core.turn \in {None, c}
  /\ disk.receipt[c] \in {"none", "reserved"}
  /\ News(core) # {{}}
  /\ disk' = [disk EXCEPT !.receipt[c] = "reserved"]
  /\ driver' = [NoDriver EXCEPT !.pc = "reserved", !.command = c,
                  !.recovering = disk.receipt[c] = "reserved"]
  /\ lock' = Held("command")
  /\ UNCHANGED <<memory, task, session, spent, history>>

\* A command that was reserved before takes what the core said last.
Take ==
  /\ driver.pc = "reserved"
  /\ IF driver.recovering /\ step.input # 0
     THEN /\ driver' = [driver EXCEPT !.pc = "drive", !.step = step]
          /\ lock' = Unlocked
          /\ desk' = [desk EXCEPT !.owed = @ \cup {driver.command}]
          /\ history' = [history EXCEPT !.taken = @ \cup {driver.command}]
          /\ UNCHANGED <<core, step>>
     ELSE /\ \E after \in Begun(core, driver.command) :
               /\ Apply("command", after)
               /\ driver' = [driver EXCEPT !.pc = "writing", !.step = after.step]
          /\ UNCHANGED <<desk, history>>
  /\ UNCHANGED <<disk, stray, task, session, spent>>

CommandLands ==
  /\ driver.pc = "writing" /\ Lands("command")
  /\ lock' = Unlocked
  /\ driver' = [driver EXCEPT !.pc = "drive"]
  /\ desk' = [desk EXCEPT !.owed = @ \cup {driver.command}]
  /\ history' = [history EXCEPT !.taken = @ \cup {driver.command}]
  /\ UNCHANGED <<core, step, stray, task, session, spent>>

\* _start_transition_actions
Start ==
  /\ driver.pc = "drive" /\ Free
  /\ LET due == driver.step.start \cup (IF driver.recovering THEN driver.step.keep ELSE {})
         created == (due \cap core.pending) \ InFlight
         idle == created \cup InFlight = {}
     IN  IF driver.recovering
            /\ \/ ~(driver.step.keep \subseteq disk.intent)
               \/ idle /\ core.pending # {}
         THEN /\ driver' = [driver EXCEPT !.pc = "failing", !.why = "error"]
              /\ UNCHANGED task
         ELSE /\ driver' = [driver EXCEPT !.recovering = FALSE,
                              !.pc = IF idle THEN "answer" ELSE "wait"]
              /\ task' = [a \in Actions |->
                            IF a \in created
                            THEN [NoTask EXCEPT !.pc = "created",
                                                !.recovering = driver.recovering]
                            ELSE task[a]]
  /\ UNCHANGED <<disk, memory, lock, session, spent, history>>

(* Seeded fault: the outcome given to the core is not the stored one.      *)
GivenAny(a) == Outcomes

\* What the driver hears of a finished task.
Given(a) == {task[a].outcome}

\* _drive: a task is finished.  Its event is dropped if the core no longer
\* waits for it.
Deliver(a) ==
  /\ driver.pc = "wait" /\ task[a].pc = "done" /\ Free
  /\ IF a \in core.pending
     THEN /\ \E outcome \in Given(a) : \E after \in Heard(core, a, outcome) :
               /\ Apply("result", after)
               /\ driver' = [driver EXCEPT !.pc = "writing", !.step = after.step,
                                           !.action = a]
          /\ UNCHANGED task
     ELSE /\ driver' = [driver EXCEPT !.pc = "drive"]
          /\ task' = [task EXCEPT ![a] = NoTask]
          /\ UNCHANGED <<core, step, lock>>
  /\ UNCHANGED <<disk, stray, desk, session, spent, history>>

DeliverRaised(a) ==
  /\ driver.pc = "wait" /\ task[a].pc = "raised"
  /\ driver' = [driver EXCEPT !.pc = "failing", !.why = "error"]
  /\ UNCHANGED <<disk, memory, lock, task, session, spent, history>>

ResultLands ==
  /\ driver.pc = "writing" /\ Lands("result")
  /\ lock' = Unlocked
  /\ driver' = [driver EXCEPT !.pc = "abandon"]
  /\ UNCHANGED <<memory, task, session, spent, history>>

\* The result is stored: the tasks of what the core gave up are cancelled.
Abandon ==
  /\ driver.pc = "abandon"
  /\ Cancel({driver.action} \cup (InFlight \ core.pending), disk)
  /\ driver' = [driver EXCEPT !.pc = "reap", !.action = None]
  /\ UNCHANGED <<memory, lock, session, spent, history>>

Cancelling == {a \in Actions : task[a].pc = "cancelled"}

Reap ==
  /\ driver.pc = "reap" /\ Cancelling = {}
  /\ driver' = [driver EXCEPT !.pc = "drive"]
  /\ UNCHANGED <<disk, memory, lock, task, session, spent, history>>

InputRefused ==
  /\ driver.pc = "writing" /\ WriteFails(lock.holder)
  /\ driver' = [driver EXCEPT !.pc = "failing", !.why = "error", !.action = None]
  /\ UNCHANGED <<disk, stray, task, desk, session, history>>

(* Seeded fault: the lock is held until the cancelled tasks have ended.    *)
SettleLocked ==
  /\ driver.pc = "failing" /\ Cancelling = {} /\ Free
  /\ Cancel(InFlight, disk)
  /\ driver' = [driver EXCEPT !.pc = "settling"]
  /\ lock' = Held("settling")
  /\ UNCHANGED <<memory, session, spent, history>>

\* _settle_actions_after_drive_failure
Settle ==
  /\ driver.pc = "failing" /\ Cancelling = {} /\ Free
  /\ Cancel(InFlight, disk)
  /\ driver' = [driver EXCEPT !.pc = "settling"]
  /\ UNCHANGED <<memory, lock, session, spent, history>>

\* The process is gone, and with it all that it had in memory.
Gone(mode) ==
  /\ core' = Fresh /\ step' = NoStep /\ lock' = Unlocked
  /\ stray' = {} /\ driver' = NoDriver
  /\ task' = [a \in Actions |-> NoTask]
  /\ desk' = [owed |-> {}, cancelled |-> {}]
  /\ session' = [mode |-> mode, interrupt |-> FALSE]

(* Seeded fault: a cancelled command is forgotten like a failed one.       *)
DeskAfterForgetful(c) == [desk EXCEPT !.owed = @ \ {c}]

\* The last clause of command: what becomes of the receipt.
DeskAfter(c) ==
  IF driver.why = "error" THEN [desk EXCEPT !.owed = @ \ {c}]
  ELSE [desk EXCEPT !.cancelled = @ \cup {c}]

\* The call ends with its error.  A restore whose recovery fails is given up.
Raise ==
  /\ driver.pc = "settling" /\ InFlight = {}
  /\ IF driver.command = None
     THEN Gone("down") /\ UNCHANGED history
     ELSE /\ desk' = DeskAfter(driver.command)
          /\ history' = IF driver.why = "error"
                        THEN [history EXCEPT !.failed = @ \cup {driver.command}]
                        ELSE history
          /\ driver' = NoDriver
          /\ UNCHANGED <<core, step, stray, lock, task, session>>
  /\ UNCHANGED <<disk, spent>>

Receipts(d, these, state) ==
  [d EXCEPT !.receipt = [c \in Commands |->
     IF c \in these /\ d.receipt[c] = "reserved" THEN state ELSE d.receipt[c]]]

\* The answer of a command that is through.
Answer ==
  /\ driver.pc = "answer" /\ driver.command # None /\ Free
  /\ \/ /\ disk' = Receipts(disk, {driver.command}, "succeeded")
        /\ desk' = [desk EXCEPT !.owed = @ \ {driver.command}]
        /\ driver' = NoDriver
        /\ UNCHANGED spent
     \/ /\ Fails
        /\ driver' = [driver EXCEPT !.pc = "failing", !.why = "error"]
        /\ UNCHANGED <<disk, desk>>
  /\ UNCHANGED <<core, step, stray, lock, task, session, history>>

-----------------------------------------------------------------------------
(* Interruption, other inputs, and the end of the session.                 *)

\* The task of the command is cancelled wherever it waits.
CancelDriver ==
  CASE driver.pc \in {"idle", "failing", "settling"} ->
         UNCHANGED <<driver, stray, lock, history>>
    [] driver.pc = "reserved" ->
         driver' = NoDriver /\ lock' = Unlocked /\ UNCHANGED <<stray, history>>
    [] driver.pc = "writing" ->
         /\ driver' = [driver EXCEPT !.pc = "failing", !.why = "cancelled",
                                     !.action = None]
         /\ stray' = stray \cup
              {[base |-> lock.base.core, core |-> core, step |-> step,
                taken |-> IF lock.holder = "command" THEN {driver.command} ELSE {}]}
         /\ lock' = Unlocked
         /\ history' = [history EXCEPT !.adrift = TRUE]
    [] OTHER ->
         /\ driver' = [driver EXCEPT !.pc = "failing", !.why = "cancelled",
                                     !.action = None]
         /\ UNCHANGED <<stray, lock, history>>

\* interrupt_turn: the caller waits for the task to end, see ApplyInterrupt.
AskInterrupt ==
  /\ Up /\ (core.turn # None \/ driver.pc = "reserved")
  /\ Spend("interrupts", MaxInterrupts)
  /\ CancelDriver
  /\ session' = [session EXCEPT !.interrupt = TRUE]
  /\ UNCHANGED <<disk, core, step, task, desk>>

\* interrupt: refused if the turn ended before it was interrupted.
ApplyInterrupt ==
  /\ session.interrupt /\ driver = NoDriver /\ Free
  /\ IF core.turn # None
     THEN Apply("interrupt", Interrupted(core)) /\ UNCHANGED session
     ELSE /\ session' = [session EXCEPT !.interrupt = FALSE]
          /\ UNCHANGED <<core, step, lock>>
  /\ UNCHANGED <<disk, stray, driver, task, desk, spent, history>>

InterruptLands ==
  /\ Lands("interrupt") /\ lock' = Held("receipts")
  /\ UNCHANGED <<memory, driver, task, session, spent, history>>

InterruptRefused ==
  /\ WriteFails("interrupt")
  /\ session' = [session EXCEPT !.interrupt = FALSE]
  /\ UNCHANGED <<disk, stray, driver, task, desk, history>>

\* _close_cancelled_command_receipts: the list is given up before it is answered.
CloseReceipts ==
  /\ lock.holder = "receipts"
  /\ lock' = Unlocked /\ session' = [session EXCEPT !.interrupt = FALSE]
  /\ \/ /\ disk' = Receipts(disk, desk.cancelled, "succeeded")
        /\ desk' = [owed |-> desk.owed \ desk.cancelled, cancelled |-> {}]
        /\ UNCHANGED <<spent, history>>
     \/ /\ Fails
        /\ desk' = [desk EXCEPT !.cancelled = {}]
        /\ history' = [history EXCEPT !.failed = @ \cup desk.cancelled]
        /\ UNCHANGED disk
  /\ UNCHANGED <<core, step, stray, driver, task>>

\* A message or a notice for the running turn: stored, and not driven.
Input ==
  /\ Up /\ Free /\ core.turn # None
  /\ Spend("inputs", MaxInputs)
  /\ Apply("input", Noted(core))
  /\ UNCHANGED <<disk, stray, driver, task, desk, session, history>>

InputLands ==
  /\ Lands("input") /\ lock' = Unlocked
  /\ UNCHANGED <<memory, driver, task, session, spent, history>>

InputFails ==
  /\ WriteFails("input")
  /\ UNCHANGED <<disk, stray, driver, task, desk, session, history>>

AskClose ==
  /\ Up
  /\ CancelDriver
  /\ session' = [session EXCEPT !.mode = "closing"]
  /\ UNCHANGED <<disk, core, step, task, desk, spent>>

\* close: a turn that goes on keeps its receipts.
Shut ==
  /\ session.mode = "closing" /\ driver = NoDriver /\ Free
  /\ session' = [session EXCEPT !.mode = "closed"]
  /\ \/ core.pending # {} /\ UNCHANGED <<disk, desk, spent, history>>
     \/ /\ core.pending = {}
        /\ disk' = Receipts(disk, desk.owed, "succeeded")
        /\ desk' = [desk EXCEPT !.owed = {}]
        /\ UNCHANGED <<spent, history>>
     \/ /\ core.pending = {} /\ Fails
        /\ history' = [history EXCEPT !.failed = @ \cup desk.owed]
        /\ UNCHANGED <<disk, desk>>
  /\ UNCHANGED <<core, step, stray, lock, driver, task>>

-----------------------------------------------------------------------------
(* Restarts.                                                               *)

Crash ==
  /\ session.mode \notin {"down", "closed"}
  /\ Gone("down")
  /\ UNCHANGED <<disk, spent, history>>

\* restore and the first part of recover.  A journal that leaves its order is
\* repaired first (SessionStore); that session is not followed further.
Restore ==
  /\ session.mode \in {"down", "closed"} /\ ~disk.gap
  /\ Spend("restarts", MaxRestarts)
  /\ core' = disk.core /\ step' = disk.step
  /\ lock' = Unlocked /\ stray' = {}
  /\ desk' = [owed |-> {}, cancelled |-> {}]
  /\ driver' = [NoDriver EXCEPT !.pc = "drive", !.recovering = TRUE,
                                !.step = disk.step]
  /\ task' = [a \in Actions |-> NoTask]
  /\ session' = [mode |-> "recovering", interrupt |-> FALSE]
  /\ history' = [history EXCEPT !.taken = {}, !.failed = {},
                                 !.adrift = FALSE]
  /\ UNCHANGED disk

\* _abandon_reservations_marked_for_restart_locked, at the end of recover.
Recovered ==
  /\ session.mode = "recovering" /\ driver.pc = "answer" /\ Free
  /\ disk' = IF core.pending = {} THEN Receipts(disk, Marked, "failed") ELSE disk
  /\ driver' = NoDriver
  /\ session' = [session EXCEPT !.mode = "up"]
  /\ UNCHANGED <<memory, lock, task, spent, history>>

-----------------------------------------------------------------------------
Requests == \/ \E c \in Commands : Reserve(c)
            \/ AskInterrupt \/ Input \/ AskClose
Faults == StrayLost \/ Crash \/ Restore

\* What the process does by itself.
Serve ==
  \/ Take \/ CommandLands \/ Start \/ Abandon \/ Reap \/ ResultLands \/ InputRefused
  \/ Settle \/ Raise \/ Answer
  \/ \E a \in Actions : \/ Resolve(a) \/ Perform(a) \/ Record(a) \/ RecordCancelled(a)
                        \/ Deliver(a) \/ DeliverRaised(a)
  \/ ApplyInterrupt \/ InterruptLands \/ InterruptRefused \/ CloseReceipts
  \/ InputLands \/ InputFails \/ StrayLands \/ Shut \/ Recovered

Next == Requests \/ Faults \/ Serve

Spec == Init /\ [][Next]_vars

-----------------------------------------------------------------------------
(* Properties.                                                             *)

\* An effect that must not be repeated is performed once at most, whatever
\* the crashes, cancellations, failed writes and commands sent again: its
\* intent is stored first, and a stored intent is never acted upon anew
\* (_resolve_action, _recover).
EffectOnce == \A a \in Actions \ Retryable : history.performed[a] <= 1

\* What the core was told of an action, in memory or in the journal, is the
\* result that the journal holds, also when the action was cancelled, finished
\* late or was resolved again after a restart (_record_action_result, _drive).
HeardIsStored ==
  \A a \in Actions : {core.heard[a], disk.core.heard[a]} \subseteq {"none", disk.result[a]}

\* Unless the task that waited for a write was cancelled, a journal is in order
\* and memory agrees with it whenever the lock is free: a write that fails takes
\* its input back out of the core (_persist_plain_core_transition).
JournalInOrder ==
  ~history.adrift =>
    /\ ~disk.gap
    /\ session.mode \in {"recovering", "up"} /\ Free => core = disk.core /\ step = disk.step

\* A session closed over an idle core leaves no receipt open of a command that
\* the core took, wherever its caller was cancelled, except those whose call or
\* answer failed (_answer_abandoned_commands_locked).
AnsweredAtClose ==
  session.mode = "closed" /\ disk.core.pending = {} /\ ~disk.gap
    => \A c \in history.taken \ history.failed : disk.receipt[c] # "reserved"

\* A call, an interruption or a holder of the lock never waits for what nobody
\* will do: the driver, the tasks it cancels and the interruption that waits for
\* the driver all need the one lock (_settle_actions_after_drive_failure).
NobodyStuck ==
  driver # NoDriver \/ session.interrupt \/ ~Free => ENABLED Serve

\* The guards of the steps that the holder of the lock waits to take,
HolderActs ==
  \/ lock.holder \in {"interrupt", "receipts", "input"}
  \/ /\ lock.holder = "command" /\ driver.pc = "reserved"
     /\ (driver.recovering /\ step.input # 0) \/ Begun(core, driver.command) # {}
  \/ lock.holder \in {"command", "result"} /\ driver.pc = "writing"

\* of those a task takes or is taken up by,
TaskActs(a) ==
  \/ task[a].pc = "run"
  \/ task[a].pc \in {"created", "record", "cancelled"} /\ Free
  \/ task[a].pc = "cancelled" /\ CancelledAgain
  \/ task[a].pc = "raised" /\ driver.pc = "wait"
  \/ /\ task[a].pc = "done" /\ driver.pc = "wait" /\ Free
     /\ a \in core.pending => Heard(core, a, task[a].outcome) # {}

\* and of the driver's own.
DriverActs ==
  \/ driver.pc = "drive" /\ Free
  \/ driver.pc = "failing" /\ Cancelling = {} /\ Free
  \/ driver.pc = "abandon"
  \/ driver.pc = "reap" /\ Cancelling = {}
  \/ driver.pc = "settling" /\ InFlight = {}
  \/ driver.pc = "answer" /\ Free
       /\ (driver.command # None \/ session.mode = "recovering")

\* Whoever waits, waits for somebody who can take the next step, and never for
\* a write that its caller has left (StrayLands): the holder of the lock can go
\* on, so can the driver or a task it waits for, and an interruption waits for
\* no driver or for one that can go on (_drive, _cancel_tasks,
\* _settle_actions_after_drive_failure, interrupt).
WaitsEnd ==
  /\ ~Free => HolderActs
  /\ driver # NoDriver => HolderActs \/ DriverActs \/ \E a \in Actions : TaskActs(a)
  /\ session.interrupt =>
       HolderActs \/ DriverActs \/ (\E a \in Actions : TaskActs(a))
         \/ (driver = NoDriver /\ Free)

\* What the code asserts of a recovery (_start_transition_actions): the actions
\* its transition retains have a stored intent.
RetainedHaveIntent ==
  driver.pc = "drive" /\ driver.recovering => driver.step.keep \subseteq disk.intent
=============================================================================
