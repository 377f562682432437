------------------------ MODULE DurableJournalProofs ------------------------
(***************************************************************************)
(* Proofs, for any actions, commands, restarts and writes that fail, that  *)
(* the journal stays in order as long as no task that waits for a write is *)
(* cancelled, that the core is told nothing that is not stored, that a     *)
(* session closed over an idle core has answered the commands it took, and *)
(* that whoever waits waits for somebody who can go on.                    *)
(*                                                                         *)
(* One lock serialises the writes, so while an input is being written the  *)
(* journal is what the core was before that input (InOrder): a write that  *)
(* lands follows from it, and one that fails is taken back to it.  Results *)
(* reach the core only from tasks that stored them, or found them stored   *)
(* (Known).  A receipt that is still owed is that of the turn the journal  *)
(* is in, or the Runtime remembers it and is on the way to answer it       *)
(* (Covered).  A driver waits only while it has tasks, none of which is    *)
(* then cancelled, and settles only tasks it has cancelled (Manned).       *)
(***************************************************************************)
EXTENDS DurableSessionProofs, FiniteSetTheorems

\* The holder of the lock has applied an input that is not recorded yet.
Writing == \/ lock.holder \in {"result", "interrupt", "input"}
           \/ lock.holder = "command" /\ driver.pc = "writing"

InOrder ==
  /\ session.mode = "down" => lock.holder = "nobody" /\ ~session.interrupt
  /\ ~history.adrift =>
       /\ stray = {} /\ ~disk.gap
       /\ session.mode # "down" =>
            IF Writing THEN lock.base.core = disk.core /\ lock.base.step = disk.step
            ELSE core = disk.core /\ step = disk.step

LEMMA Shapes ==
  ASSUME IInv
  PROVE  /\ TypeOK /\ Owned /\ Cored
         /\ disk \in Disks /\ core \in Cores /\ step \in Steps /\ lock \in Locks
         /\ driver \in Drivers /\ task \in [Actions -> Tasks] /\ session \in Sessions
         /\ history \in Histories /\ desk \in Desks
BY DEF IInv, Safe, TypeOK

LEMMA Names ==
  /\ Unlocked.holder = "nobody" /\ NoDriver.pc = "idle"
  /\ \A by : Held(by).holder = by
BY ConstantsTyped DEF NoDriver

\* A step that touches neither the core nor what of it the journal holds.
LEMMA KeptInOrder ==
  ASSUME InOrder, UNCHANGED <<core, step, stray>>,
         UNCHANGED <<disk.core, disk.step, disk.gap, history.adrift>>,
         Writing' <=> Writing, Writing => UNCHANGED lock,
         session.mode = "down" \/ session'.mode = "down" => UNCHANGED <<lock, session>>
  PROVE  InOrder'
BY DEF InOrder

LEMMA LandsInOrder ==
  ASSUME IInv, InOrder, NEW writer \in {"result", "interrupt", "input", "command"}, Lands(writer),
         writer = "command" => driver.pc = "writing",
         UNCHANGED <<core, step, stray, history.adrift, session>>, ~Writing'
  PROVE  InOrder'
<1>1. lock.holder = writer /\ disk' = Recorded(disk, lock.base.core, core, step)
  BY DEF Lands
<1>2. Writing /\ session.mode # "down"
  BY <1>1 DEF Writing, InOrder
<1>3. ASSUME ~history.adrift
      PROVE  core = disk'.core /\ step = disk'.step /\ ~disk'.gap
  BY <1>1, <1>2, <1>3, Shapes DEF InOrder, Recorded, Disks
<1> QED BY <1>2, <1>3 DEF InOrder

LEMMA FailsInOrder ==
  ASSUME IInv, InOrder, NEW writer \in {"result", "interrupt", "input", "command"}, WriteFails(writer),
         writer = "command" => driver.pc = "writing",
         UNCHANGED <<disk, stray, history.adrift, session.mode>>
  PROVE  InOrder'
<1>1. /\ lock.holder = writer /\ lock' = Unlocked
      /\ ~disk.gap => core' = disk.core /\ step' = lock.base.step
  BY DEF WriteFails, DiscardUndurable
<1>2. Writing /\ session.mode # "down" /\ ~Writing'
  BY <1>1, Names DEF Writing, InOrder
<1> QED BY <1>1, <1>2 DEF InOrder

LEMMA AppliesInOrder ==
  ASSUME IInv, InOrder, NEW writer \in {"result", "interrupt", "input", "command"}, NEW after,
         Apply(writer, after), ~Writing, session.mode # "down",
         writer = "command" => driver'.pc = "writing",
         UNCHANGED <<disk, stray, history.adrift, session.mode>>
  PROVE  InOrder'
<1>1. lock' = [holder |-> writer, base |-> [core |-> core, step |-> step]]
  BY DEF Apply
<1>2. Writing'
  BY <1>1 DEF Writing
<1> QED BY <1>1, <1>2 DEF InOrder

LEMMA GoneInOrder ==
  ASSUME InOrder, Gone("down"), UNCHANGED <<disk, history>>
  PROVE  InOrder'
<1>1. lock' = Unlocked /\ stray' = {} /\ session' = [mode |-> "down", interrupt |-> FALSE]
  BY DEF Gone
<1> QED BY <1>1, Names DEF InOrder

\* Receipts and the results of cancelled tasks are no part of the core.
LEMMA ReceiptsInOrder ==
  ASSUME NEW d \in Disks, NEW these, NEW state
  PROVE  LET e == Receipts(d, these, state)
         IN  e.core = d.core /\ e.step = d.step /\ e.gap = d.gap
BY DEF Receipts, Disks

LEMMA CancelInOrder ==
  ASSUME disk \in Disks, NEW these, Cancel(these, disk)
  PROVE  UNCHANGED <<disk.core, disk.step, disk.gap>>
BY DEF Cancel, Disks

LEMMA HistoryInOrder ==
  ASSUME history \in Histories
  PROVE  /\ \A these : [history EXCEPT !.taken = @ \cup these].adrift = history.adrift
         /\ \A these : [history EXCEPT !.failed = @ \cup these].adrift = history.adrift
         /\ \A a : [history EXCEPT !.performed[a] = @ + 1].adrift = history.adrift
BY DEF Histories

-----------------------------------------------------------------------------
(* Every action keeps the order.                                           *)

LEMMA CancelDriverInOrder ==
  ASSUME IInv, InOrder, CancelDriver, UNCHANGED <<disk, core, step>>,
         session.mode # "down", session'.mode # "down"
  PROVE  InOrder'
<1> USE Shapes
<1>1. CASE driver.pc = "writing"
  <2>1. history' = [history EXCEPT !.adrift = TRUE]
    BY <1>1 DEF CancelDriver
  <2>2. history'.adrift
    BY <2>1 DEF Histories
  <2> QED BY <2>2 DEF InOrder
<1>2. CASE driver.pc = "reserved"
  <2>1. driver' = NoDriver /\ lock' = Unlocked /\ UNCHANGED <<stray, history>>
    BY <1>2 DEF CancelDriver
  <2>2. ~Writing /\ ~Writing'
    BY <1>2, <2>1, Names DEF Writing, Owned
  <2> QED BY <2>1, <2>2, KeptInOrder
<1>3. CASE driver.pc \notin {"reserved", "writing"}
  <2>1. UNCHANGED <<stray, lock, history>> /\ driver'.pc \in {driver.pc, "failing"}
    BY <1>3 DEF CancelDriver, Drivers
  <2>2. Writing' <=> Writing
    BY <1>3, <2>1 DEF Writing
  <2> QED BY <2>1, <2>2, KeptInOrder
<1> QED BY <1>1, <1>2, <1>3

LEMMA RequestsInOrder ==
  ASSUME IInv, InOrder, Requests
  PROVE  InOrder'
<1> USE Shapes
<1>1. CASE \E c \in Commands : Reserve(c)
  <2>1. PICK c \in Commands : Reserve(c)
    BY <1>1
  <2>2. /\ UNCHANGED <<core, step, stray, session, history>> /\ session.mode = "up"
        /\ UNCHANGED <<disk.core, disk.step, disk.gap>>
        /\ driver'.pc = "reserved" /\ lock' = Held("command") /\ Free
    BY <2>1 DEF Reserve, Up, memory, Disks, NoDriver
  <2>3. ~Writing /\ ~Writing'
    BY <2>2, Names DEF Writing, Free
  <2> QED BY <2>2, <2>3, KeptInOrder
<1>2. CASE AskInterrupt
  <2>1. session' = [session EXCEPT !.interrupt = TRUE]
        /\ CancelDriver /\ UNCHANGED <<disk, core, step>> /\ session.mode = "up"
    BY <1>2 DEF AskInterrupt, Up
  <2>2. session'.mode = "up"
    BY <2>1 DEF Sessions
  <2> QED BY <2>1, <2>2, CancelDriverInOrder
<1>3. CASE Input
  <2>1. Apply("input", Noted(core)) /\ Free /\ session.mode = "up"
        /\ UNCHANGED <<disk, stray, session, history>>
    BY <1>3 DEF Input, Up
  <2>2. ~Writing
    BY <2>1, Names DEF Writing, Free
  <2> QED BY <2>1, <2>2, AppliesInOrder
<1>4. CASE AskClose
  <2>1. session' = [session EXCEPT !.mode = "closing"]
        /\ CancelDriver /\ UNCHANGED <<disk, core, step>> /\ session.mode = "up"
    BY <1>4 DEF AskClose, Up
  <2>2. session'.mode = "closing"
    BY <2>1 DEF Sessions
  <2> QED BY <2>1, <2>2, CancelDriverInOrder
<1> QED BY <1>1, <1>2, <1>3, <1>4 DEF Requests

LEMMA FaultsInOrder ==
  ASSUME IInv, InOrder, Faults
  PROVE  InOrder'
<1> USE Shapes
<1>1. CASE StrayLost
  <2>1. /\ stray' \subseteq stray /\ UNCHANGED <<disk, core, step, lock, driver, session, history>>
    BY <1>1 DEF StrayLost
  <2> QED BY <2>1 DEF InOrder, Writing
<1>2. CASE Crash
  BY <1>2, GoneInOrder DEF Crash
<1>3. CASE Restore
  <2>1. /\ ~disk.gap /\ core' = disk.core /\ step' = disk.step /\ UNCHANGED disk
        /\ lock' = Unlocked /\ stray' = {}
        /\ session' = [mode |-> "recovering", interrupt |-> FALSE]
    BY <1>3 DEF Restore
  <2> QED BY <2>1, Names DEF InOrder, Writing
<1> QED BY <1>1, <1>2, <1>3 DEF Faults

\* What the driver and the command do.
LEMMA DriverInOrder ==
  ASSUME IInv, InOrder,
         \/ Take \/ CommandLands \/ Start \/ Abandon \/ Reap \/ ResultLands \/ InputRefused
         \/ Settle \/ Raise \/ Answer
  PROVE  InOrder'
<1> USE Shapes
<1>1. CASE Take
  <2>1. /\ driver.pc = "reserved" /\ UNCHANGED <<disk, stray, session>>
        /\ history'.adrift = history.adrift
    BY <1>1, HistoryInOrder DEF Take
  <2>2. ~Writing /\ session.mode # "down"
    BY <2>1 DEF Writing, Owned, Running
  <2>3. CASE driver.recovering /\ step.input # 0
    <3>1. lock' = Unlocked /\ UNCHANGED <<core, step>>
      BY <1>1, <2>3 DEF Take
    <3>2. ~Writing'
      BY <3>1, Names DEF Writing
    <3> QED BY <2>1, <2>2, <3>1, <3>2, KeptInOrder
  <2>4. CASE ~(driver.recovering /\ step.input # 0)
    <3>1. PICK after \in Begun(core, driver.command) :
            Apply("command", after) /\ driver' = [driver EXCEPT !.pc = "writing", !.step = after.step]
      BY <1>1, <2>4 DEF Take
    <3>2. driver'.pc = "writing"
      BY <3>1 DEF Drivers
    <3> QED BY <2>1, <2>2, <3>1, <3>2, AppliesInOrder
  <2> QED BY <2>3, <2>4
<1>2. CASE CommandLands
  <2>1. /\ Lands("command") /\ driver.pc = "writing" /\ lock' = Unlocked
        /\ UNCHANGED <<core, step, stray, session>> /\ history'.adrift = history.adrift
    BY <1>2, HistoryInOrder DEF CommandLands
  <2>2. ~Writing'
    BY <2>1, Names DEF Writing
  <2> QED BY <2>1, <2>2, LandsInOrder
<1>3. CASE Start
  <2>1. /\ driver.pc = "drive" /\ UNCHANGED <<disk, core, step, stray, lock, session, history>>
        /\ driver'.pc \in {"failing", "answer", "wait"}
    BY <1>3 DEF Start, memory, Drivers
  <2>2. Writing' <=> Writing
    BY <2>1 DEF Writing
  <2> QED BY <2>1, <2>2, KeptInOrder
<1>4. CASE Abandon
  <2>1. /\ driver.pc = "abandon" /\ UNCHANGED <<core, step, stray, lock, session, history>>
        /\ driver'.pc = "reap" /\ Cancel({driver.action} \cup (InFlight \ core.pending), disk)
    BY <1>4 DEF Abandon, memory, Drivers
  <2>2. Writing' <=> Writing
    BY <2>1 DEF Writing
  <2> QED BY <2>1, <2>2, CancelInOrder, KeptInOrder
<1>5. CASE Reap
  <2>1. /\ driver.pc = "reap" /\ UNCHANGED <<disk, core, step, stray, lock, session, history>>
        /\ driver'.pc = "drive"
    BY <1>5 DEF Reap, memory, Drivers
  <2>2. Writing' <=> Writing
    BY <2>1 DEF Writing
  <2> QED BY <2>1, <2>2, KeptInOrder
<1>6. CASE ResultLands
  <2>1. /\ Lands("result") /\ lock' = Unlocked /\ UNCHANGED <<core, step, stray, session, history>>
    BY <1>6 DEF ResultLands, memory
  <2>2. ~Writing'
    BY <2>1, Names DEF Writing
  <2> QED BY <2>1, <2>2, LandsInOrder
<1>7. CASE InputRefused
  <2>1. /\ driver.pc = "writing" /\ WriteFails(lock.holder)
        /\ UNCHANGED <<disk, stray, session, history>>
    BY <1>7 DEF InputRefused
  <2>2. lock.holder \in {"command", "result"}
    BY <2>1 DEF Owned
  <2> QED BY <2>1, <2>2, FailsInOrder
<1>8. CASE Settle
  <2>1. /\ driver.pc = "failing" /\ UNCHANGED <<core, step, stray, lock, session, history>>
        /\ driver'.pc = "settling" /\ Cancel(InFlight, disk)
    BY <1>8 DEF Settle, memory, Drivers
  <2>2. Writing' <=> Writing
    BY <2>1 DEF Writing
  <2> QED BY <2>1, <2>2, CancelInOrder, KeptInOrder
<1>9. CASE Raise
  <2>1. CASE driver.command = None
    BY <1>9, <2>1, GoneInOrder DEF Raise
  <2>2. CASE driver.command # None
    <3>1. /\ driver.pc = "settling" /\ UNCHANGED <<disk, core, step, stray, lock, session>>
          /\ driver' = NoDriver /\ history'.adrift = history.adrift
      BY <1>9, <2>2, HistoryInOrder DEF Raise
    <3>2. Writing' <=> Writing
      BY <3>1, Names DEF Writing
    <3> QED BY <3>1, <3>2, KeptInOrder
  <2> QED BY <2>1, <2>2
<1>10. CASE Answer
  <2>1. /\ Free /\ UNCHANGED <<core, step, stray, lock, session, history>>
        /\ disk' \in {disk, Receipts(disk, {driver.command}, "succeeded")}
    BY <1>10 DEF Answer
  <2>2. UNCHANGED <<disk.core, disk.step, disk.gap>>
    BY <2>1, ReceiptsInOrder
  <2>3. ~Writing /\ ~Writing'
    BY <2>1, Names DEF Writing, Free
  <2> QED BY <2>1, <2>2, <2>3, KeptInOrder
<1> QED BY <1>1, <1>2, <1>3, <1>4, <1>5, <1>6, <1>7, <1>8, <1>9, <1>10

\* What the tasks of actions do, and how the driver hears of them.
LEMMA TasksInOrder ==
  ASSUME IInv, InOrder, NEW a \in Actions,
         \/ Resolve(a) \/ Perform(a) \/ Record(a) \/ RecordCancelled(a)
         \/ Deliver(a) \/ DeliverRaised(a)
  PROVE  InOrder'
<1> USE Shapes
<1>1. CASE Resolve(a) \/ Record(a)
  <2>1. /\ UNCHANGED <<core, step, stray, lock, driver, session, history>>
        /\ UNCHANGED <<disk.core, disk.step, disk.gap>>
    BY <1>1 DEF Resolve, Record, Quiet, Disks
  <2> QED BY <2>1, KeptInOrder DEF Writing
<1>2. CASE Perform(a)
  <2>1. /\ UNCHANGED <<disk, core, step, stray, lock, driver, session>>
        /\ history'.adrift = history.adrift
    BY <1>2, HistoryInOrder DEF Perform, Quiet
  <2> QED BY <2>1, KeptInOrder DEF Writing
<1>3. CASE RecordCancelled(a)
  <2>1. /\ UNCHANGED <<core, step, stray, lock, driver, session>>
        /\ UNCHANGED <<disk.core, disk.step, disk.gap>>
    BY <1>3 DEF RecordCancelled, Quiet, Disks
  <2>2. history'.adrift = history.adrift
    BY <1>3, HistoryInOrder DEF RecordCancelled
  <2> QED BY <2>1, <2>2, KeptInOrder DEF Writing
<1>4. CASE Deliver(a)
  <2>1. /\ driver.pc = "wait" /\ Free /\ UNCHANGED <<disk, stray, session, history>>
    BY <1>4 DEF Deliver
  <2>2. ~Writing /\ session.mode # "down"
    BY <2>1, Names DEF Writing, Free, Owned, Running
  <2>3. CASE a \in core.pending
    <3>1. PICK outcome \in Given(a) : \E after \in Heard(core, a, outcome) : Apply("result", after)
      BY <1>4, <2>3 DEF Deliver
    <3>2. PICK after : Apply("result", after)
      BY <3>1
    <3> QED BY <2>1, <2>2, <3>2, AppliesInOrder
  <2>4. CASE a \notin core.pending
    <3>1. UNCHANGED <<core, step, lock>>
      BY <1>4, <2>4 DEF Deliver
    <3>2. ~Writing'
      BY <2>1, <3>1, Names DEF Writing, Free
    <3> QED BY <2>1, <2>2, <3>1, <3>2, KeptInOrder
  <2> QED BY <2>3, <2>4
<1>5. CASE DeliverRaised(a)
  <2>1. /\ driver.pc = "wait" /\ driver'.pc = "failing"
        /\ UNCHANGED <<disk, core, step, stray, lock, session, history>>
    BY <1>5 DEF DeliverRaised, memory, Drivers
  <2>2. Writing' <=> Writing
    BY <2>1 DEF Writing
  <2> QED BY <2>1, <2>2, KeptInOrder
<1> QED BY <1>1, <1>2, <1>3, <1>4, <1>5

\* Interruptions, other inputs, and the end of the session.
LEMMA OthersInOrder ==
  ASSUME IInv, InOrder,
         \/ ApplyInterrupt \/ InterruptLands \/ InterruptRefused \/ CloseReceipts
         \/ InputLands \/ InputFails \/ StrayLands \/ Shut \/ Recovered
  PROVE  InOrder'
<1> USE Shapes
<1>1. CASE ApplyInterrupt
  <2>1. session.interrupt /\ driver = NoDriver /\ Free
        /\ UNCHANGED <<disk, stray, driver, history>>
    BY <1>1 DEF ApplyInterrupt
  <2>2. ~Writing /\ session.mode # "down"
    BY <2>1, Names DEF Writing, Free, InOrder
  <2>3. CASE core.turn # None
    <3>1. Apply("interrupt", Interrupted(core)) /\ UNCHANGED session
      BY <1>1, <2>3 DEF ApplyInterrupt
    <3> QED BY <2>1, <2>2, <3>1, AppliesInOrder
  <2>4. CASE core.turn = None
    <3>1. UNCHANGED <<core, step, lock>> /\ session' = [session EXCEPT !.interrupt = FALSE]
      BY <1>1, <2>4 DEF ApplyInterrupt
    <3>2. session'.mode = session.mode
      BY <3>1 DEF Sessions
    <3>3. Writing' <=> Writing
      BY <2>1, <3>1 DEF Writing
    <3> QED BY <2>1, <2>2, <3>1, <3>2, <3>3, KeptInOrder
  <2> QED BY <2>3, <2>4
<1>2. CASE InterruptLands
  <2>1. /\ Lands("interrupt") /\ lock' = Held("receipts")
        /\ UNCHANGED <<core, step, stray, session, history>>
    BY <1>2 DEF InterruptLands, memory
  <2>2. ~Writing'
    BY <2>1, Names DEF Writing
  <2> QED BY <2>1, <2>2, LandsInOrder
<1>3. CASE InterruptRefused
  <2>1. WriteFails("interrupt") /\ UNCHANGED <<disk, stray, history>>
        /\ session' = [session EXCEPT !.interrupt = FALSE]
    BY <1>3 DEF InterruptRefused
  <2>2. session'.mode = session.mode
    BY <2>1 DEF Sessions
  <2> QED BY <2>1, <2>2, FailsInOrder
<1>4. CASE CloseReceipts
  <2>1. /\ lock.holder = "receipts" /\ lock' = Unlocked /\ UNCHANGED <<core, step, stray, driver>>
        /\ session' = [session EXCEPT !.interrupt = FALSE]
        /\ disk' \in {disk, Receipts(disk, desk.cancelled, "succeeded")}
        /\ history'.adrift = history.adrift
    BY <1>4, HistoryInOrder DEF CloseReceipts
  <2>2. session'.mode = session.mode
    BY <2>1 DEF Sessions
  <2>3. UNCHANGED <<disk.core, disk.step, disk.gap>>
    BY <2>1, ReceiptsInOrder
  <2>4. ~Writing /\ ~Writing' /\ session.mode # "down"
    BY <2>1, Names DEF Writing, InOrder
  <2> QED BY <2>1, <2>2, <2>3, <2>4, KeptInOrder
<1>5. CASE InputLands
  <2>1. /\ Lands("input") /\ lock' = Unlocked /\ UNCHANGED <<core, step, stray, session, history>>
    BY <1>5 DEF InputLands, memory
  <2>2. ~Writing'
    BY <2>1, Names DEF Writing
  <2> QED BY <2>1, <2>2, LandsInOrder
<1>6. CASE InputFails
  <2>1. WriteFails("input") /\ UNCHANGED <<disk, stray, session, history>>
    BY <1>6 DEF InputFails
  <2> QED BY <2>1, FailsInOrder
<1>7. CASE StrayLands
  <2>1. stray # {} /\ UNCHANGED <<core, step, lock, driver, session>>
    BY <1>7 DEF StrayLands
  <2>2. history.adrift
    BY <2>1 DEF InOrder
  <2>3. history'.adrift = history.adrift
    BY <1>7, HistoryInOrder DEF StrayLands
  <2> QED BY <2>1, <2>2, <2>3 DEF InOrder
<1>8. CASE Shut
  <2>1. /\ session.mode = "closing" /\ session' = [session EXCEPT !.mode = "closed"]
        /\ UNCHANGED <<core, step, stray, lock, driver>>
        /\ disk' \in {disk, Receipts(disk, desk.owed, "succeeded")}
        /\ history'.adrift = history.adrift
    BY <1>8, HistoryInOrder DEF Shut
  <2>2. session'.mode = "closed"
    BY <2>1 DEF Sessions
  <2>3. UNCHANGED <<disk.core, disk.step, disk.gap>>
    BY <2>1, ReceiptsInOrder
  <2> QED BY <2>1, <2>2, <2>3, KeptInOrder DEF Writing
<1>9. CASE Recovered
  <2>1. /\ session.mode = "recovering" /\ session' = [session EXCEPT !.mode = "up"]
        /\ Free /\ UNCHANGED <<core, step, stray, lock, history>>
        /\ disk' \in {disk, Receipts(disk, Marked, "failed")}
    BY <1>9 DEF Recovered, memory
  <2>2. session'.mode = "up"
    BY <2>1 DEF Sessions
  <2>3. UNCHANGED <<disk.core, disk.step, disk.gap>>
    BY <2>1, ReceiptsInOrder
  <2>4. ~Writing /\ ~Writing'
    BY <2>1, Names DEF Writing, Free
  <2> QED BY <2>1, <2>2, <2>3, <2>4, KeptInOrder
<1> QED BY <1>1, <1>2, <1>3, <1>4, <1>5, <1>6, <1>7, <1>8, <1>9

LEMMA FirstInOrder == Init => InOrder
<1> SUFFICES ASSUME Init PROVE InOrder
  OBVIOUS
<1>1. /\ lock = Unlocked /\ stray = {} /\ core = Fresh /\ step = NoStep
      /\ disk.core = Fresh /\ disk.step = NoStep /\ disk.gap = FALSE
      /\ session.mode = "up"
  BY DEF Init
<1> QED BY <1>1, Names DEF InOrder, Writing

LEMMA StepInOrder == IInv /\ InOrder /\ [Next]_vars => InOrder'
<1> SUFFICES ASSUME IInv, InOrder, [Next]_vars PROVE InOrder'
  OBVIOUS
<1>1. CASE UNCHANGED vars
  BY <1>1 DEF vars, InOrder, Writing
<1>2. CASE Serve
  BY <1>2, DriverInOrder, TasksInOrder, OthersInOrder DEF Serve
<1> QED BY <1>1, <1>2, RequestsInOrder, FaultsInOrder DEF Next

\* Unless a task that waited for a write was cancelled, the journal is in order
\* and memory agrees with it, whatever the crashes and the writes that fail.
THEOREM JournalInOrderHolds == Spec => []JournalInOrder
<1>1. IInv /\ InOrder => JournalInOrder
  <2> SUFFICES ASSUME IInv, InOrder PROVE JournalInOrder
    OBVIOUS
  <2>1. Free => ~Writing
    BY Names DEF Free, Writing
  <2> QED BY <2>1 DEF JournalInOrder, InOrder
<1> QED BY <1>1, Initially, Stepwise, FirstInOrder, StepInOrder, PTL DEF Spec

-----------------------------------------------------------------------------
(* What the core hears is what is stored.                                  *)

Told(c) == \A a \in Actions : c.heard[a] \in {"none", disk.result[a]}

\* A finished task carries the result that was stored for it.
Known ==
  /\ \A a \in Actions : /\ task[a].pc = "record" => task[a].outcome # "none"
                        /\ task[a].pc = "done" => /\ task[a].outcome # "none"
                                                  /\ task[a].outcome = disk.result[a]
  /\ Told(core) /\ Told(disk.core) /\ \A s \in stray : Told(s.core)

\* A stored result is not replaced by another.
Settled == \A a \in Actions : disk.result[a] # "none" => disk'.result[a] = disk.result[a]

\* A step in which the core hears nothing.
LEMMA KeptKnown ==
  ASSUME Known, Settled,
         \A a \in Actions : task'[a] = task[a] \/ task'[a].pc \notin {"record", "done"},
         core'.heard \in {core.heard, disk.core.heard, Fresh.heard},
         \/ disk'.core.heard \in {disk.core.heard, core.heard}
         \/ \E s \in stray : disk'.core.heard = s.core.heard,
         \A t \in stray' : t \in stray \/ t.core.heard = core.heard
  PROVE  Known'
<1>1. \A a \in Actions : Fresh.heard[a] = "none"
  BY DEF Fresh
<1>2. \A a \in Actions : \A h \in {"none", disk.result[a]} : h \in {"none", disk'.result[a]}
  BY DEF Settled
<1>3. \A a \in Actions : core'.heard[a] \in {"none", disk.result[a]}
  BY <1>1 DEF Known, Told
<1>4. \A a \in Actions : disk'.core.heard[a] \in {"none", disk.result[a]}
  BY DEF Known, Told
<1>5. \A t \in stray' : \A a \in Actions : t.core.heard[a] \in {"none", disk.result[a]}
  BY DEF Known, Told
<1>6. \A a \in Actions : /\ task'[a].pc = "record" => task'[a].outcome # "none"
                         /\ task'[a].pc = "done" => /\ task'[a].outcome # "none"
                                                    /\ task'[a].outcome = disk'.result[a]
  BY DEF Known, Settled
<1> QED BY <1>2, <1>3, <1>4, <1>5, <1>6 DEF Known, Told

LEMMA AfterHeard ==
  ASSUME NEW c \in Cores, NEW turn, NEW kept, NEW new, NEW heard
  PROVE  After(c, turn, kept, new, heard).core.heard = heard
BY DEF After

LEMMA RecordedKnown ==
  ASSUME NEW d \in Disks, NEW base, NEW c, NEW s
  PROVE  LET e == Recorded(d, base, c, s)
         IN  e.result = d.result /\ e.core \in {c, d.core}
BY DEF Recorded, Disks

LEMMA ReceiptsKnown ==
  ASSUME NEW d \in Disks, NEW these, NEW state
  PROVE  LET e == Receipts(d, these, state)
         IN  e.result = d.result /\ e.core = d.core
BY DEF Receipts, Disks

LEMMA LandsKnown ==
  ASSUME disk \in Disks, NEW writer, Lands(writer)
  PROVE  disk'.result = disk.result /\ disk'.core \in {core, disk.core}
BY RecordedKnown DEF Lands

LEMMA FailsKnown ==
  ASSUME NEW writer, WriteFails(writer)
  PROVE  core' \in {core, disk.core}
BY DEF WriteFails, DiscardUndurable

\* A cancelled task forgets what it had, or stores what it was storing.
LEMMA CancelKnown ==
  ASSUME IInv, NEW these, Cancel(these, disk)
  PROVE  /\ Settled /\ disk'.core = disk.core
         /\ \A a \in Actions : task'[a] = task[a] \/ task'[a].pc \notin {"record", "done"}
<1> USE Shapes
<1>1. disk'.core = disk.core
      /\ \A a \in Actions : task'[a] = IF a \in these THEN Cancelled(task[a]) ELSE task[a]
  BY CancelFacts
<1>2. PICK late \in SUBSET {a \in these : task[a].pc = "record" /\ ~Conflicts(a, task[a].outcome)} :
         disk' = [disk EXCEPT !.result = [a \in Actions |->
                   IF a \in late THEN task[a].outcome ELSE disk.result[a]]]
  BY DEF Cancel
<1>3. \A a \in Actions : disk'.result[a] = IF a \in late THEN task[a].outcome ELSE disk.result[a]
  BY <1>2 DEF Disks
<1>4. \A a \in late : disk.result[a] \in {"none", task[a].outcome}
  BY <1>2 DEF Conflicts
<1>5. Settled
  BY <1>3, <1>4 DEF Settled
<1>6. \A a \in Actions : task[a] \in Tasks
  OBVIOUS
<1>7. \A a \in Actions : Cancelled(task[a]).pc \in {"none", "cancelled"}
  BY <1>6, CancelledFacts
<1> QED BY <1>1, <1>5, <1>7

LEMMA CancelDriverKnown ==
  ASSUME IInv, Known, CancelDriver, UNCHANGED <<disk, core, task>>
  PROVE  Known'
<1>1. \A t \in stray' : t \in stray \/ t.core.heard = core.heard
  BY DEF CancelDriver
<1> QED BY <1>1, KeptKnown DEF Settled

LEMMA RequestsKnown ==
  ASSUME IInv, Known, Requests
  PROVE  Known'
<1> USE Shapes
<1>1. CASE \E c \in Commands : Reserve(c)
  <2>1. UNCHANGED <<core, stray, task, disk.core, disk.result>>
    BY <1>1 DEF Reserve, memory, Disks
  <2> QED BY <2>1, KeptKnown DEF Settled
<1>2. CASE AskInterrupt
  BY <1>2, CancelDriverKnown DEF AskInterrupt
<1>3. CASE Input
  <2>1. UNCHANGED <<disk, stray, task>> /\ core' = Noted(core).core
    BY <1>3 DEF Input, Apply
  <2>2. core'.heard = core.heard
    BY <2>1, AfterHeard DEF Noted
  <2> QED BY <2>1, <2>2, KeptKnown DEF Settled
<1>4. CASE AskClose
  BY <1>4, CancelDriverKnown DEF AskClose
<1> QED BY <1>1, <1>2, <1>3, <1>4 DEF Requests

LEMMA GoneKnown ==
  ASSUME Known, Gone("down"), UNCHANGED disk
  PROVE  Known'
<1>1. core' = Fresh /\ stray' = {} /\ \A a \in Actions : task'[a].pc = "none"
  BY GoneFacts
<1> QED BY <1>1, KeptKnown DEF Settled

LEMMA FaultsKnown ==
  ASSUME IInv, Known, Faults
  PROVE  Known'
<1>1. CASE StrayLost
  <2>1. stray' \subseteq stray /\ UNCHANGED <<disk, core, task>>
    BY <1>1 DEF StrayLost
  <2> QED BY <2>1, KeptKnown DEF Settled
<1>2. CASE Crash
  BY <1>2, GoneKnown DEF Crash
<1>3. CASE Restore
  <2>1. UNCHANGED disk /\ core' = disk.core /\ stray' = {} /\ task' = [a \in Actions |-> NoTask]
    BY <1>3 DEF Restore
  <2>2. \A a \in Actions : task'[a].pc = "none"
    BY <2>1 DEF NoTask
  <2> QED BY <2>1, <2>2, KeptKnown DEF Settled
<1> QED BY <1>1, <1>2, <1>3 DEF Faults

LEMMA DriverKnown ==
  ASSUME IInv, Known,
         \/ Take \/ CommandLands \/ Start \/ Abandon \/ Reap \/ ResultLands \/ InputRefused
         \/ Settle \/ Raise \/ Answer
  PROVE  Known'
<1> USE Shapes
<1>1. CASE Take
  <2>1. UNCHANGED <<disk, stray, task>>
    BY <1>1 DEF Take
  <2>2. core'.heard = core.heard
    <3>1. CASE driver.recovering /\ step.input # 0
      BY <1>1, <3>1 DEF Take
    <3>2. CASE ~(driver.recovering /\ step.input # 0)
      <4>1. PICK after \in Begun(core, driver.command) : Apply("command", after)
        BY <1>1, <3>2 DEF Take
      <4> QED BY <4>1, AfterHeard DEF Begun, Apply
    <3> QED BY <3>1, <3>2
  <2> QED BY <2>1, <2>2, KeptKnown DEF Settled
<1>2. CASE CommandLands
  <2>1. Lands("command") /\ UNCHANGED <<core, stray, task>>
    BY <1>2 DEF CommandLands
  <2> QED BY <2>1, LandsKnown, KeptKnown DEF Settled
<1>3. CASE Start
  <2> DEFINE due == driver.step.start \cup (IF driver.recovering THEN driver.step.keep ELSE {})
             created == (due \cap core.pending) \ InFlight
  <2>1. UNCHANGED <<disk, core, stray>>
    BY <1>3 DEF Start, memory
  <2>2. \/ UNCHANGED task
        \/ task' = [a \in Actions |->
                      IF a \in created
                      THEN [NoTask EXCEPT !.pc = "created", !.recovering = driver.recovering]
                      ELSE task[a]]
    BY <1>3 DEF Start
  <2>3. \A a \in Actions : task'[a] = task[a] \/ task'[a].pc = "created"
    BY <2>2 DEF NoTask
  <2> QED BY <2>1, <2>3, KeptKnown DEF Settled
<1>4. CASE Abandon
  <2> DEFINE these == {driver.action} \cup (InFlight \ core.pending)
  <2>1. Cancel(these, disk) /\ UNCHANGED <<core, stray>>
    BY <1>4 DEF Abandon, memory
  <2> HIDE DEF these
  <2> QED BY <2>1, CancelKnown, KeptKnown
<1>5. CASE Reap
  <2>1. UNCHANGED <<disk, core, stray, task>>
    BY <1>5 DEF Reap, memory
  <2> QED BY <2>1, KeptKnown DEF Settled
<1>6. CASE ResultLands
  <2>1. Lands("result") /\ UNCHANGED <<core, stray, task>>
    BY <1>6 DEF ResultLands, memory
  <2> QED BY <2>1, LandsKnown, KeptKnown DEF Settled
<1>7. CASE InputRefused
  <2>1. WriteFails(lock.holder) /\ UNCHANGED <<disk, stray, task>>
    BY <1>7 DEF InputRefused
  <2> QED BY <2>1, FailsKnown, KeptKnown DEF Settled
<1>8. CASE Settle
  <2>1. Cancel(InFlight, disk) /\ UNCHANGED <<core, stray>>
    BY <1>8 DEF Settle, memory
  <2> QED BY <2>1, CancelKnown, KeptKnown
<1>9. CASE Raise
  <2>1. CASE driver.command = None
    BY <1>9, <2>1, GoneKnown DEF Raise
  <2>2. CASE driver.command # None
    <3>1. UNCHANGED <<disk, core, stray, task>>
      BY <1>9, <2>2 DEF Raise
    <3> QED BY <3>1, KeptKnown DEF Settled
  <2> QED BY <2>1, <2>2
<1>10. CASE Answer
  <2>1. /\ UNCHANGED <<core, stray, task>>
        /\ disk' \in {disk, Receipts(disk, {driver.command}, "succeeded")}
    BY <1>10 DEF Answer
  <2>2. UNCHANGED <<disk.core, disk.result>>
    BY <2>1, ReceiptsKnown
  <2> QED BY <2>1, <2>2, KeptKnown DEF Settled
<1> QED BY <1>1, <1>2, <1>3, <1>4, <1>5, <1>6, <1>7, <1>8, <1>9, <1>10

LEMMA TasksKnown ==
  ASSUME IInv, Known, NEW a \in Actions,
         \/ Resolve(a) \/ Perform(a) \/ Record(a) \/ RecordCancelled(a)
         \/ Deliver(a) \/ DeliverRaised(a)
  PROVE  Known'
<1> USE Shapes
<1>1. CASE Resolve(a)
  <2>1. /\ UNCHANGED <<core, stray, disk.core, disk.result>>
        /\ \A b \in Actions : b # a => task'[b] = task[b]
    BY <1>1 DEF Resolve, Quiet, Disks
  <2>2. \/ task'[a].pc \in {"run", "raised"}
        \/ /\ task'[a].pc = "done" /\ task'[a].outcome = disk.result[a]
           /\ disk.result[a] # "none"
    BY <1>1 DEF Resolve, Tasks
  <2> QED BY <2>1, <2>2 DEF Known, Told
<1>2. CASE Perform(a)
  <2>1. /\ UNCHANGED <<core, stray, disk>>
        /\ \A b \in Actions : b # a => task'[b] = task[b]
    BY <1>2 DEF Perform, Quiet
  <2>2. task'[a].pc = "record" /\ task'[a].outcome # "none"
    BY <1>2, ZenonT(60) DEF Perform, Tasks, Outcomes
  <2> QED BY <2>1, <2>2 DEF Known, Told
<1>3. CASE Record(a)
  <2>1. /\ UNCHANGED <<core, stray, disk.core>> /\ task[a].pc = "record"
        /\ \A b \in Actions : b # a => task'[b] = task[b] /\ disk'.result[b] = disk.result[b]
    BY <1>3 DEF Record, Quiet, Disks
  <2>2. \/ task'[a].pc = "raised" /\ UNCHANGED disk
        \/ /\ task'[a].pc = "done" /\ task'[a].outcome = task[a].outcome
           /\ disk'.result[a] = task[a].outcome /\ disk.result[a] \in {"none", task[a].outcome}
    BY <1>3 DEF Record, Tasks, Disks, Conflicts
  <2>3. Settled
    BY <2>1, <2>2 DEF Settled
  <2>4. /\ \A b \in Actions : /\ core.heard[b] \in {"none", disk'.result[b]}
                              /\ disk.core.heard[b] \in {"none", disk'.result[b]}
        /\ \A s \in stray : \A b \in Actions : s.core.heard[b] \in {"none", disk'.result[b]}
    BY <2>3 DEF Known, Told, Settled
  <2> QED BY <2>1, <2>2, <2>4 DEF Known, Told
<1>4. CASE RecordCancelled(a)
  <2>1. /\ UNCHANGED <<core, stray, disk.core>>
        /\ \A b \in Actions : b # a => task'[b] = task[b] /\ disk'.result[b] = disk.result[b]
        /\ task'[a].pc = "none"
    BY <1>4 DEF RecordCancelled, Quiet, Disks, NoTask
  <2>2. \/ disk'.result[a] = disk.result[a]
        \/ disk'.result[a] = "failed" /\ disk.result[a] \in {"none", "failed"}
    BY <1>4 DEF RecordCancelled, Disks, Conflicts
  <2>3. Settled
    BY <2>1, <2>2 DEF Settled
  <2> QED BY <2>1, <2>3, KeptKnown
<1>5. CASE Deliver(a)
  <2>1. task[a].pc = "done" /\ UNCHANGED <<disk, stray>>
    BY <1>5 DEF Deliver
  <2>2. CASE a \in core.pending
    <3>1. PICK outcome \in Given(a) : \E after \in Heard(core, a, outcome) : Apply("result", after)
      BY <1>5, <2>2 DEF Deliver
    <3>2. PICK after \in Heard(core, a, outcome) : Apply("result", after)
      BY <3>1
    <3>3. outcome = disk.result[a]
      BY <2>1 DEF Known, Given
    <3>4. core' = after.core /\ after.core.heard = [core.heard EXCEPT ![a] = outcome]
      BY <3>2, AfterHeard DEF Heard, Apply
    <3>5. core.heard \in [Actions -> {"none"} \cup Outcomes]
      BY DEF Cores
    <3>6. \A b \in Actions : core'.heard[b] \in {"none", disk.result[b]}
      BY <3>3, <3>4, <3>5 DEF Known, Told
    <3>7. UNCHANGED task
      BY <1>5, <2>2 DEF Deliver
    <3> QED BY <2>1, <3>6, <3>7 DEF Known, Told
  <2>3. CASE a \notin core.pending
    <3>1. UNCHANGED core /\ task' = [task EXCEPT ![a] = NoTask]
      BY <1>5, <2>3 DEF Deliver
    <3>2. \A b \in Actions : task'[b] = task[b] \/ task'[b].pc = "none"
      BY <3>1 DEF NoTask
    <3> QED BY <2>1, <3>1, <3>2, KeptKnown DEF Settled
  <2> QED BY <2>2, <2>3
<1>6. CASE DeliverRaised(a)
  <2>1. UNCHANGED <<disk, core, stray, task>>
    BY <1>6 DEF DeliverRaised, memory
  <2> QED BY <2>1, KeptKnown DEF Settled
<1> QED BY <1>1, <1>2, <1>3, <1>4, <1>5, <1>6

LEMMA OthersKnown ==
  ASSUME IInv, Known,
         \/ ApplyInterrupt \/ InterruptLands \/ InterruptRefused \/ CloseReceipts
         \/ InputLands \/ InputFails \/ StrayLands \/ Shut \/ Recovered
  PROVE  Known'
<1> USE Shapes
<1>1. CASE ApplyInterrupt
  <2>1. UNCHANGED <<disk, stray, task>>
    BY <1>1 DEF ApplyInterrupt
  <2>2. core' = core \/ core' = Interrupted(core).core
    BY <1>1 DEF ApplyInterrupt, Apply
  <2>3. core'.heard = core.heard
    BY <2>2, AfterHeard DEF Interrupted
  <2> QED BY <2>1, <2>3, KeptKnown DEF Settled
<1>2. CASE InterruptLands \/ InputLands
  <2>1. Lands("interrupt") \/ Lands("input")
    BY <1>2 DEF InterruptLands, InputLands
  <2>2. UNCHANGED <<core, stray, task>>
    BY <1>2 DEF InterruptLands, InputLands, memory
  <2>3. disk'.result = disk.result /\ disk'.core \in {core, disk.core}
    BY <2>1, LandsKnown
  <2> QED BY <2>2, <2>3, KeptKnown DEF Settled
<1>3. CASE InterruptRefused \/ InputFails
  <2>1. WriteFails("interrupt") \/ WriteFails("input")
    BY <1>3 DEF InterruptRefused, InputFails
  <2>2. UNCHANGED <<disk, stray, task>>
    BY <1>3 DEF InterruptRefused, InputFails
  <2>3. core' \in {core, disk.core}
    BY <2>1, FailsKnown
  <2> QED BY <2>2, <2>3, KeptKnown DEF Settled
<1>4. CASE CloseReceipts
  <2>1. /\ UNCHANGED <<core, stray, task>>
        /\ disk' \in {disk, Receipts(disk, desk.cancelled, "succeeded")}
    BY <1>4 DEF CloseReceipts
  <2>2. UNCHANGED <<disk.core, disk.result>>
    BY <2>1, ReceiptsKnown
  <2> QED BY <2>1, <2>2, KeptKnown DEF Settled
<1>5. CASE StrayLands
  <2>1. PICK s \in stray :
          /\ stray' = stray \ {s}
          /\ disk' \in {disk, Recorded(disk, s.base, s.core, s.step)}
    BY <1>5 DEF StrayLands
  <2>2. disk'.result = disk.result /\ disk'.core \in {s.core, disk.core}
    BY <2>1, RecordedKnown
  <2>3. UNCHANGED <<core, task>>
    BY <1>5 DEF StrayLands
  <2> QED BY <2>1, <2>2, <2>3, KeptKnown DEF Settled
<1>6. CASE Shut
  <2>1. /\ UNCHANGED <<core, stray, task>>
        /\ disk' \in {disk, Receipts(disk, desk.owed, "succeeded")}
    BY <1>6 DEF Shut
  <2>2. UNCHANGED <<disk.core, disk.result>>
    BY <2>1, ReceiptsKnown
  <2> QED BY <2>1, <2>2, KeptKnown DEF Settled
<1>7. CASE Recovered
  <2>1. /\ UNCHANGED <<core, stray, task>>
        /\ disk' \in {disk, Receipts(disk, Marked, "failed")}
    BY <1>7 DEF Recovered, memory
  <2>2. UNCHANGED <<disk.core, disk.result>>
    BY <2>1, ReceiptsKnown
  <2> QED BY <2>1, <2>2, KeptKnown DEF Settled
<1> QED BY <1>1, <1>2, <1>3, <1>4, <1>5, <1>6, <1>7

LEMMA FirstKnown == Init => Known
<1> SUFFICES ASSUME Init PROVE Known
  OBVIOUS
<1>1. /\ stray = {} /\ core = Fresh /\ disk.core = Fresh /\ task = [a \in Actions |-> NoTask]
  BY DEF Init
<1>2. \A a \in Actions : Fresh.heard[a] = "none" /\ task[a].pc = "none"
  BY <1>1 DEF Fresh, NoTask
<1> QED BY <1>1, <1>2 DEF Known, Told

LEMMA StepKnown == IInv /\ Known /\ [Next]_vars => Known'
<1> SUFFICES ASSUME IInv, Known, [Next]_vars PROVE Known'
  OBVIOUS
<1>1. CASE UNCHANGED vars
  BY <1>1 DEF vars, Known, Told
<1>2. CASE Serve
  BY <1>2, DriverKnown, TasksKnown, OthersKnown DEF Serve
<1> QED BY <1>1, <1>2, RequestsKnown, FaultsKnown DEF Next

\* What the core heard of an action, in memory or in the journal, is the stored
\* result, also after a cancellation, a late write or a restart.
THEOREM HeardIsStoredHolds == Spec => []HeardIsStored
<1>1. IInv /\ Known => HeardIsStored
  BY DEF Known, Told, HeardIsStored
<1> QED BY <1>1, Initially, Stepwise, FirstKnown, StepKnown, PTL DEF Spec
-----------------------------------------------------------------------------
(* Receipts.                                                               *)

\* The driver of a command goes on with its turn.
Acting == {"drive", "wait", "abandon", "reap", "answer"}

Whole(c) == c.pending = {} => c.turn = None

\* The command's receipt is still to be answered.
Owes(c) == disk.receipt[c] = "reserved" /\ c \notin history.failed

\* Commands the journal has taken, or will take with an input on its way.
Claimed(c) == c \in history.taken \/ \E s \in stray : c \in s.taken

\* Who may still do something in which mode of the session.
Posts ==
  /\ driver.pc = "idle" => driver.command = None
  /\ driver.pc # "idle" /\ driver.command = None => session.mode = "recovering"
  /\ lock.holder \in {"interrupt", "receipts"} => session.interrupt
  /\ session.interrupt => session.mode = "up"
  /\ session.mode = "recovering" =>
       driver.command = None /\ history.taken = {} /\ stray = {}
  /\ session.mode \in {"closed", "down"} => driver.pc = "idle" /\ lock.holder = "nobody"
  /\ session.mode = "down" => stray = {}

\* The turn that memory, the journal and an input being written are in.
Turns ==
  /\ Whole(core) /\ Whole(disk.core) /\ \A s \in stray : Whole(s.core)
  /\ (driver.pc \notin {"idle", "failing", "settling"}) /\ driver.command # None =>
       core.turn \in {None, driver.command}
  /\ lock.holder = "command" /\ driver.pc = "writing" =>
       core.turn = driver.command /\ lock.base.core.turn \in {None, driver.command}
  /\ lock.holder = "result" /\ driver.command # None => lock.base.core.turn = driver.command
  /\ lock.holder = "input" => core.turn = lock.base.core.turn /\ core.turn # None
  /\ Running /\ ~disk.gap =>
       IF Writing THEN lock.base.core.turn \in {None, disk.core.turn}
       ELSE core.turn \in {None, disk.core.turn}

\* An input on its way takes the journal on within its turn, or, when the session
\* closes, to the end of it.
Strayed ==
  \A s \in stray :
    /\ s.taken \subseteq {s.core.turn}
    /\ s.core.turn # None => s.base.turn \in {None, s.core.turn}
    /\ s.core.turn = None =>
         /\ session.mode \in {"closing", "closed"}
         /\ session.mode = "closing" => core.turn = None
         /\ s.base.turn \in Commands
         /\ Owes(s.base.turn) => session.mode = "closing" /\ s.base.turn \in desk.owed

\* The Runtime knows what it still has to answer.
Remembered ==
  /\ driver.command # None => disk.receipt[driver.command] # "none"
  /\ (driver.pc \in Acting \/ lock.holder = "result") /\ driver.command # None =>
       driver.command \in desk.owed
  /\ \A c \in Commands : Claimed(c) => disk.receipt[c] # "none"
  /\ session.mode \in {"up", "closing"} =>
       \A c \in Commands : Claimed(c) /\ Owes(c) =>
         c \in desk.cancelled \/ (driver.command = c /\ driver.pc # "reserved")

\* The turn of the command is over, and its answer is on its way.
Finished(c) ==
  /\ c \in desk.owed /\ core.turn = None
  /\ \/ session.mode = "closing"
     \/ /\ driver.command = c
        /\ \/ driver.pc \in Acting
           \/ driver.pc \in {"failing", "settling"} /\ driver.why = "error"

\* A command owes its answer only as long as the journal is in its turn.
Covered ==
  session.mode \in {"up", "closing", "closed"} =>
    \A c \in history.taken : Owes(c) =>
      \/ disk.gap \/ disk.core.turn = c
      \/ lock.holder = "receipts"
      \/ session.mode # "closed" /\ Finished(c)

Answerable == Posts /\ Turns /\ Strayed /\ Remembered /\ Covered

LEMMA Parts ==
  ASSUME Answerable
  PROVE  Posts /\ Turns /\ Strayed /\ Remembered /\ Covered
BY DEF Answerable

\* What an input makes of a core's turn.
LEMMA AfterTurn ==
  ASSUME NEW c \in Cores, NEW turn, NEW kept, NEW new, NEW heard
  PROVE  LET d == After(c, turn, kept, new, heard).core
         IN  Whole(d) /\ d.turn = IF kept \cup new = {} THEN None ELSE turn
BY DEF After, Whole

LEMMA BegunTurn ==
  ASSUME NEW c \in Cores, NEW command, NEW after \in Begun(c, command)
  PROVE  Whole(after.core) /\ after.core.turn = command
<1>1. PICK new \in News(c) \ {{}} : after = After(c, command, {}, new, c.heard)
  BY DEF Begun
<1>2. {} \cup new # {}
  BY <1>1
<1> QED BY <1>1, <1>2, AfterTurn

LEMMA HeardTurn ==
  ASSUME NEW c \in Cores, NEW a, NEW outcome, NEW after \in Heard(c, a, outcome)
  PROVE  Whole(after.core) /\ after.core.turn \in {None, c.turn}
<1>1. PICK kept \in {{}, c.pending \ {a}}, new \in News(c) :
         after = After(c, c.turn, kept, new, [c.heard EXCEPT ![a] = outcome])
  BY DEF Heard
<1> QED BY <1>1, AfterTurn

LEMMA NotedTurn ==
  ASSUME NEW c \in Cores, Whole(c), Sound(c)
  PROVE  Whole(Noted(c).core) /\ Noted(c).core.turn = c.turn
<1>1. c.pending \cup {} = {} <=> c.turn = None
  BY DEF Whole, Sound
<1> QED BY <1>1, AfterTurn DEF Noted

LEMMA InterruptedTurn ==
  ASSUME NEW c \in Cores
  PROVE  Whole(Interrupted(c).core) /\ Interrupted(c).core.turn = None
BY AfterTurn DEF Interrupted

LEMMA RecordedTurn ==
  ASSUME NEW d \in Disks, NEW base, NEW c \in Cores, NEW s \in Steps
  PROVE  LET e == Recorded(d, base, c, s)
         IN  /\ e.receipt = d.receipt /\ (d.gap => e.gap) /\ e.core \in {c, d.core}
             /\ ~e.gap => base = d.core /\ e.core = c
BY DEF Recorded, Disks

LEMMA LandsTurn ==
  ASSUME IInv, NEW writer, Lands(writer)
  PROVE  /\ disk'.receipt = disk.receipt /\ (disk.gap => disk'.gap)
         /\ disk'.core \in {core, disk.core} /\ lock.holder = writer
         /\ ~disk'.gap => lock.base.core = disk.core /\ disk'.core = core
<1>1. disk \in Disks /\ core \in Cores /\ step \in Steps
  BY Shapes
<1> QED BY <1>1, RecordedTurn DEF Lands

LEMMA ReceiptsTurn ==
  ASSUME NEW d \in Disks, NEW these, NEW state \in {"succeeded", "failed"}
  PROVE  LET e == Receipts(d, these, state)
         IN  /\ e.core = d.core /\ e.gap = d.gap
             /\ \A c \in Commands : /\ e.receipt[c] = "none" <=> d.receipt[c] = "none"
                                    /\ e.receipt[c] = "reserved" => d.receipt[c] = "reserved"
                                    /\ e.receipt[c] = "reserved" => c \notin these
BY DEF Receipts, Disks

LEMMA CommandsTyped ==
  ASSUME IInv
  PROVE  /\ history.taken \subseteq Commands /\ None \notin Commands
         /\ driver.command # None => driver.command \in Commands
         /\ \A s \in stray : s \in Strays /\ s.taken \subseteq Commands
BY Shapes, NamesAssumption DEF IInv, TypeOK, Histories, Drivers, Strays

\* A driver that goes on, or fails, and leaves the rest as it is.
Onward ==
  /\ driver'.command = driver.command
  /\ \/ driver' = driver
     \/ driver.pc \in Acting /\ driver'.pc \in Acting
     \/ driver.pc \in Acting /\ driver'.pc = "failing" /\ driver'.why = "error"
     \/ driver.pc = "failing" /\ driver'.pc = "settling" /\ driver'.why = driver.why

LEMMA OnwardAnswerable ==
  ASSUME IInv, Answerable, Onward, stray' \subseteq stray,
         UNCHANGED <<core, lock, session, desk>>,
         UNCHANGED <<disk.core, disk.gap, disk.receipt, history.taken, history.failed>>
  PROVE  Answerable'
<1> USE Parts
<1>1. Posts'
  BY DEF Posts, Onward, Acting
<1>2. Writing' <=> Writing
  BY DEF Writing, Onward, Acting
<1>3. Turns'
  BY <1>2 DEF Turns, Whole, Onward, Acting, Running
<1>4. Strayed'
  BY DEF Strayed, Owes
<1>5. Remembered'
  <2>1. (driver'.pc \in Acting \/ lock.holder = "result") /\ driver.command # None =>
          driver.command \in desk.owed
    BY DEF Remembered, Onward, Acting
  <2>2. driver'.pc = "reserved" => driver.pc = "reserved"
    BY DEF Onward, Acting
  <2>3. \A c : Claimed(c)' => Claimed(c)
    BY DEF Claimed
  <2>4. driver'.command = driver.command
    BY DEF Onward
  <2> QED BY <2>1, <2>2, <2>3, <2>4 DEF Remembered, Owes
<1>6. Covered'
  <2>1. \A c : Finished(c) => Finished(c)'
    BY DEF Finished, Onward, Acting
  <2> QED BY <2>1 DEF Covered, Owes
<1> QED BY <1>1, <1>3, <1>4, <1>5, <1>6 DEF Answerable

-----------------------------------------------------------------------------
(* Every action keeps the receipts answerable.                             *)

LEMMA ReserveAnswerable ==
  ASSUME IInv, Answerable, NEW c \in Commands, Reserve(c)
  PROVE  Answerable'
<1> USE Shapes, Parts
<1>1. /\ UNCHANGED <<core, stray, session, desk, history>> /\ session.mode = "up"
      /\ ~session.interrupt /\ driver = NoDriver /\ lock.holder = "nobody"
      /\ lock' = Held("command") /\ core.turn \in {None, c}
      /\ disk.receipt[c] \in {"none", "reserved"}
      /\ disk' = [disk EXCEPT !.receipt[c] = "reserved"]
  BY Names DEF Reserve, Up, memory, Free
<1>2. /\ driver'.pc = "reserved" /\ driver'.command = c /\ lock'.holder = "command"
      /\ UNCHANGED <<disk.core, disk.gap>>
      /\ \A d \in Commands : disk'.receipt[d] = IF d = c THEN "reserved" ELSE disk.receipt[d]
      /\ c # None
  BY <1>1, Names, NamesAssumption DEF Reserve, Disks, NoDriver
<1>3. driver.command = None /\ driver.pc = "idle"
  BY <1>1 DEF NoDriver
<1>4. ~Writing /\ ~Writing'
  BY <1>1, <1>2, <1>3 DEF Writing
<1>5. Posts'
  BY <1>1, <1>2 DEF Posts
<1>6. Turns'
  BY <1>1, <1>2, <1>4 DEF Turns, Whole, Running
<1>7. \A d \in Commands : Claimed(d) /\ Owes(d)' => Owes(d)
  BY <1>1, <1>2 DEF Remembered, Owes
<1>8. Strayed'
  BY <1>1 DEF Strayed, Posts
<1>9. Remembered'
  <2>1. \A d \in Commands : Claimed(d)' <=> Claimed(d)
    BY <1>1 DEF Claimed
  <2>2. \A d \in Commands : Claimed(d) /\ Owes(d) => d \in desk.cancelled
    BY <1>1, <1>3, NamesAssumption DEF Remembered
  <2> QED BY <1>1, <1>2, <1>7, <2>1, <2>2 DEF Remembered, Acting
<1>10. Covered'
  <2>1. \A d \in history.taken : Owes(d)' => disk.gap \/ disk.core.turn = d
    BY <1>1, <1>3, <1>7, CommandsTyped DEF Covered, Finished, Claimed
  <2> QED BY <1>1, <1>2, <2>1 DEF Covered
<1> QED BY <1>5, <1>6, <1>8, <1>9, <1>10 DEF Answerable

LEMMA TakeAnswerable ==
  ASSUME IInv, Answerable, Take
  PROVE  Answerable'
<1> USE Shapes, Parts
<1>0. PICK c : c = driver.command
  OBVIOUS
<1>1. /\ driver.pc = "reserved" /\ UNCHANGED <<disk, stray, session>>
      /\ lock.holder = "command" /\ c \in Commands /\ c # None
      /\ session.mode = "up" /\ ~session.interrupt
  BY <1>0, CommandsTyped DEF Take, Owned, Running, Posts
<1>2. core.turn \in {None, c} /\ ~Writing
  BY <1>0, <1>1 DEF Turns, Writing
<1>3. ~disk.gap => core.turn \in {None, disk.core.turn}
  BY <1>1, <1>2 DEF Turns, Running
<1>4. CASE driver.recovering /\ step.input # 0
  <2>1. /\ driver' = [driver EXCEPT !.pc = "drive", !.step = step]
        /\ lock' = Unlocked /\ UNCHANGED core
        /\ desk' = [desk EXCEPT !.owed = @ \cup {c}]
        /\ history' = [history EXCEPT !.taken = @ \cup {c}]
    BY <1>0, <1>1, <1>4 DEF Take
  <2>2. /\ driver'.pc = "drive" /\ driver'.command = c /\ lock'.holder = "nobody"
        /\ desk'.owed = desk.owed \cup {c} /\ UNCHANGED <<desk.cancelled, history.failed>>
        /\ history'.taken = history.taken \cup {c}
    BY <1>0, <2>1, Names DEF Drivers, Desks, Histories
  <2>3. ~Writing'
    BY <2>2 DEF Writing
  <2>4. Posts'
    BY <1>1, <2>2 DEF Posts
  <2>5. Turns'
    BY <1>1, <1>2, <1>3, <2>1, <2>2, <2>3 DEF Turns, Whole, Running
  <2>6. Strayed'
    BY <1>1, <2>1, <2>2 DEF Strayed, Owes
  <2>7. Remembered'
    <3>1. \A d \in Commands : Claimed(d)' => Claimed(d) \/ d = c
      BY <1>1, <2>2 DEF Claimed
    <3>2. disk.receipt[c] # "none"
      BY <1>0, <1>1 DEF Remembered
    <3>3. \A d \in Commands : d # c /\ Claimed(d) /\ Owes(d) => d \in desk.cancelled
      BY <1>0, <1>1 DEF Remembered
    <3> QED BY <1>1, <2>2, <3>1, <3>2, <3>3 DEF Remembered, Owes
  <2>8. Covered'
    <3>1. \A d \in history.taken : Owes(d) => disk.gap \/ disk.core.turn = d
      BY <1>1 DEF Covered, Finished, Acting
    <3>2. disk.gap \/ disk.core.turn = c \/ Finished(c)'
      BY <1>2, <1>3, <2>1, <2>2 DEF Finished, Acting
    <3> QED BY <1>1, <2>2, <3>1, <3>2 DEF Covered, Owes
  <2> QED BY <2>4, <2>5, <2>6, <2>7, <2>8 DEF Answerable
<1>5. CASE ~(driver.recovering /\ step.input # 0)
  <2>1. PICK after \in Begun(core, c) :
          /\ Apply("command", after) /\ UNCHANGED <<desk, history>>
          /\ driver' = [driver EXCEPT !.pc = "writing", !.step = after.step]
    BY <1>0, <1>1, <1>5 DEF Take
  <2>2. /\ driver'.pc = "writing" /\ driver'.command = c /\ lock'.holder = "command"
        /\ lock'.base.core = core /\ core' = after.core
    BY <1>0, <2>1 DEF Drivers, Apply
  <2>3. Whole(after.core) /\ after.core.turn = c
    BY BegunTurn
  <2>4. Writing'
    BY <2>2 DEF Writing
  <2>5. Posts'
    BY <1>1, <2>1, <2>2 DEF Posts
  <2>6. Turns'
    BY <1>1, <1>2, <1>3, <2>2, <2>3, <2>4 DEF Turns, Whole, Running
  <2>7. Strayed'
    BY <1>1, <2>1 DEF Strayed, Owes
  <2>8. Remembered'
    <3>1. \A d \in Commands : Claimed(d)' => Claimed(d)
      BY <1>1, <2>1 DEF Claimed
    <3>2. disk.receipt[c] # "none"
      BY <1>0, <1>1 DEF Remembered
    <3>3. \A d \in Commands : Claimed(d) /\ Owes(d) => d \in desk.cancelled
      BY <1>0, <1>1 DEF Remembered
    <3> QED BY <1>1, <2>1, <2>2, <3>1, <3>2, <3>3 DEF Remembered, Owes, Acting
  <2>9. Covered'
    <3>1. \A d \in history.taken : Owes(d) => disk.gap \/ disk.core.turn = d
      BY <1>1 DEF Covered, Finished, Acting
    <3> QED BY <1>1, <2>1, <3>1 DEF Covered, Owes
  <2> QED BY <2>5, <2>6, <2>7, <2>8, <2>9 DEF Answerable
<1> QED BY <1>4, <1>5

LEMMA CommandLandsAnswerable ==
  ASSUME IInv, Answerable, CommandLands
  PROVE  Answerable'
<1> USE Shapes, Parts
<1>0. PICK c : c = driver.command
  OBVIOUS
<1>1. /\ driver.pc = "writing" /\ Lands("command") /\ lock' = Unlocked
      /\ driver' = [driver EXCEPT !.pc = "drive"]
      /\ desk' = [desk EXCEPT !.owed = @ \cup {c}]
      /\ history' = [history EXCEPT !.taken = @ \cup {c}]
      /\ UNCHANGED <<core, stray, session>>
  BY <1>0 DEF CommandLands
<1>2. /\ disk'.receipt = disk.receipt /\ (disk.gap => disk'.gap)
      /\ disk'.core \in {core, disk.core} /\ lock.holder = "command"
      /\ ~disk'.gap => lock.base.core = disk.core /\ disk'.core = core
  BY <1>1, LandsTurn
<1>3. /\ driver'.pc = "drive" /\ driver'.command = c /\ lock'.holder = "nobody"
      /\ desk'.owed = desk.owed \cup {c} /\ UNCHANGED <<desk.cancelled, history.failed>>
      /\ history'.taken = history.taken \cup {c}
  BY <1>0, <1>1, Names DEF Drivers, Desks, Histories
<1>4. /\ c # None /\ c \in Commands /\ session.mode = "up" /\ ~session.interrupt
  BY <1>0, <1>1, <1>2, CommandsTyped DEF Owned, Running, Posts
<1>5. core.turn = c /\ lock.base.core.turn \in {None, c} /\ ~Writing'
  BY <1>0, <1>1, <1>2, <1>3 DEF Turns, Writing
<1>6. disk.receipt[c] # "none"
  BY <1>0, <1>4 DEF Remembered
<1>7. Posts'
  BY <1>1, <1>3, <1>4 DEF Posts
<1>8. Turns'
  BY <1>1, <1>2, <1>3, <1>4, <1>5 DEF Turns, Whole, Running
<1>9. Strayed'
  BY <1>1, <1>4 DEF Strayed
<1>10. Remembered'
  <2>1. \A d \in Commands : Claimed(d)' => Claimed(d) \/ d = c
    BY <1>1, <1>3 DEF Claimed
  <2>2. \A d \in Commands : d # c /\ Claimed(d) /\ Owes(d) => d \in desk.cancelled
    BY <1>0, <1>4 DEF Remembered
  <2> QED BY <1>1, <1>2, <1>3, <1>4, <1>6, <2>1, <2>2 DEF Remembered, Owes
<1>11. Covered'
  <2>1. \A d \in history.taken : Owes(d) => disk.gap \/ disk.core.turn = d
    BY <1>1, <1>2, <1>4 DEF Covered, Finished, Acting
  <2>2. \A d \in history.taken : Owes(d) => disk'.gap \/ disk'.core.turn = d
    BY <1>2, <1>4, <1>5, <2>1, CommandsTyped
  <2>3. disk'.gap \/ disk'.core.turn = c
    BY <1>2, <1>5
  <2> QED BY <1>2, <1>3, <2>2, <2>3 DEF Covered, Owes
<1> QED BY <1>7, <1>8, <1>9, <1>10, <1>11 DEF Answerable

LEMMA DeliverAnswerable ==
  ASSUME IInv, Answerable, NEW a \in Actions, Deliver(a)
  PROVE  Answerable'
<1> USE Shapes, Parts
<1>1. /\ driver.pc = "wait" /\ lock.holder = "nobody"
      /\ UNCHANGED <<disk, stray, desk, session, history>>
  BY Names DEF Deliver, Free
<1>2. CASE a \notin core.pending
  <2>1. driver' = [driver EXCEPT !.pc = "drive"] /\ UNCHANGED <<core, lock>>
    BY <1>2 DEF Deliver
  <2>2. driver'.pc = "drive" /\ driver'.command = driver.command
    BY <2>1 DEF Drivers
  <2>3. Onward
    BY <1>1, <2>2 DEF Onward, Acting
  <2> QED BY <1>1, <2>1, <2>3, OnwardAnswerable
<1>3. CASE a \in core.pending
  <2>1. PICK outcome \in Given(a) : \E after \in Heard(core, a, outcome) :
          /\ Apply("result", after)
          /\ driver' = [driver EXCEPT !.pc = "writing", !.step = after.step, !.action = a]
    BY <1>3 DEF Deliver
  <2>2. PICK after \in Heard(core, a, outcome) :
          /\ Apply("result", after)
          /\ driver' = [driver EXCEPT !.pc = "writing", !.step = after.step, !.action = a]
    BY <2>1
  <2>3. /\ driver'.pc = "writing" /\ driver'.command = driver.command
        /\ lock'.holder = "result" /\ lock'.base.core = core /\ core' = after.core
    BY <2>2 DEF Drivers, Apply
  <2>4. Whole(after.core) /\ after.core.turn \in {None, core.turn}
    BY HeardTurn
  <2>5. core.turn # None /\ Running
    BY <1>1, <1>3 DEF Cored, Sound, Owned
  <2>6. driver.command # None => core.turn = driver.command /\ driver.command \in desk.owed
    BY <1>1, <2>5 DEF Turns, Remembered, Acting
  <2>7. ~Writing /\ Writing'
    BY <1>1, <2>3 DEF Writing
  <2>8. Posts'
    BY <1>1, <2>3 DEF Posts
  <2>9. Turns'
    <3>1. ~disk.gap => core.turn \in {None, disk.core.turn}
      BY <2>5, <2>7 DEF Turns
    <3> QED BY <1>1, <2>3, <2>4, <2>6, <2>7, <3>1 DEF Turns, Whole
  <2>10. Strayed'
    BY <1>1, <2>5 DEF Strayed, Owes, Running
  <2>11. Remembered'
    <3>1. \A d \in Commands : Claimed(d)' => Claimed(d)
      BY <1>1 DEF Claimed
    <3> QED BY <1>1, <2>3, <2>6, <3>1 DEF Remembered, Owes, Acting
  <2>12. Covered'
    <3>1. \A d \in history.taken : Owes(d) /\ session.mode = "up" => disk.gap \/ disk.core.turn = d
      BY <1>1, <2>5 DEF Covered, Finished
    <3>2. session.mode \in {"up", "recovering"}
      BY <2>5 DEF Running
    <3> QED BY <1>1, <3>1, <3>2 DEF Covered, Owes
  <2> QED BY <2>8, <2>9, <2>10, <2>11, <2>12 DEF Answerable
<1> QED BY <1>2, <1>3

LEMMA ResultLandsAnswerable ==
  ASSUME IInv, Answerable, ResultLands
  PROVE  Answerable'
<1> USE Shapes, Parts
<1>1. /\ driver.pc = "writing" /\ Lands("result") /\ lock' = Unlocked
      /\ driver' = [driver EXCEPT !.pc = "abandon"]
      /\ UNCHANGED <<core, stray, desk, session, history>>
  BY DEF ResultLands, memory
<1>2. /\ disk'.receipt = disk.receipt /\ (disk.gap => disk'.gap)
      /\ disk'.core \in {core, disk.core} /\ lock.holder = "result"
      /\ ~disk'.gap => lock.base.core = disk.core /\ disk'.core = core
  BY <1>1, LandsTurn
<1>3. driver'.pc = "abandon" /\ driver'.command = driver.command /\ lock'.holder = "nobody"
  BY <1>1, Names DEF Drivers
<1>4. Running /\ ~Writing'
  BY <1>1, <1>3, Names DEF Owned, Writing
<1>5. driver.command # None =>
        /\ lock.base.core.turn = driver.command /\ driver.command \in desk.owed
        /\ core.turn \in {None, driver.command}
  BY <1>1, <1>2 DEF Turns, Remembered
<1>6. Posts'
  BY <1>1, <1>3 DEF Posts
<1>7. Turns'
  BY <1>1, <1>2, <1>3, <1>4 DEF Turns, Whole
<1>8. Strayed'
  BY <1>1, <1>2 DEF Strayed, Owes
<1>9. Remembered'
  <2>1. \A d \in Commands : Claimed(d)' => Claimed(d)
    BY <1>1 DEF Claimed
  <2> QED BY <1>1, <1>2, <1>3, <1>5, <2>1 DEF Remembered, Owes
<1>10. Covered'
  <2>1. session.mode = "recovering" => history.taken = {}
    BY DEF Posts
  <2>2. CASE session.mode # "recovering"
    <3>1. driver.command # None /\ session.mode = "up"
      BY <1>1, <1>4, <2>2 DEF Posts, Running
    <3>2. \A d \in history.taken : Owes(d) => disk.gap \/ disk.core.turn = d
      BY <1>1, <1>2, <3>1 DEF Covered, Finished, Acting
    <3>3. ASSUME NEW d \in history.taken, Owes(d), ~disk'.gap, disk'.core.turn # d
          PROVE  Finished(d)'
      <4>1. d = driver.command /\ d # None
        BY <1>2, <1>5, <3>1, <3>2, <3>3
      <4>2. core.turn = None
        BY <1>2, <1>5, <3>1, <3>3, <4>1
      <4> QED BY <1>1, <1>3, <1>5, <3>1, <4>1, <4>2 DEF Finished, Acting
    <3> QED BY <1>1, <1>2, <3>1, <3>3 DEF Covered, Owes
  <2> QED BY <1>1, <2>1, <2>2 DEF Covered
<1> QED BY <1>6, <1>7, <1>8, <1>9, <1>10 DEF Answerable

\* A write that fails takes memory back to the journal.
LEMMA FailsTurn ==
  ASSUME IInv, NEW writer, WriteFails(writer)
  PROVE  /\ lock.holder = writer /\ lock'.holder = "nobody"
         /\ core' = IF disk.gap THEN core ELSE disk.core
BY Names DEF WriteFails, DiscardUndurable

LEMMA InputRefusedAnswerable ==
  ASSUME IInv, Answerable, InputRefused
  PROVE  Answerable'
<1> USE Shapes, Parts
<1>1. /\ driver.pc = "writing" /\ WriteFails(lock.holder)
      /\ driver' = [driver EXCEPT !.pc = "failing", !.why = "error", !.action = None]
      /\ UNCHANGED <<disk, stray, desk, session, history>>
  BY DEF InputRefused
<1>2. /\ driver'.pc = "failing" /\ driver'.command = driver.command
      /\ lock'.holder = "nobody" /\ core' = IF disk.gap THEN core ELSE disk.core
      /\ lock.holder \in {"command", "result"}
  BY <1>1, FailsTurn DEF Drivers, Owned
<1>3. Running /\ ~Writing'
  BY <1>1, <1>2 DEF Owned, Writing
<1>4. Posts'
  BY <1>1, <1>2 DEF Posts
<1>5. Turns'
  BY <1>1, <1>2, <1>3 DEF Turns, Whole
<1>6. Strayed'
  BY <1>1, <1>3 DEF Strayed, Owes, Running
<1>7. Remembered'
  <2>1. \A d \in Commands : Claimed(d)' => Claimed(d)
    BY <1>1 DEF Claimed
  <2> QED BY <1>1, <1>2, <2>1 DEF Remembered, Owes, Acting
<1>8. Covered'
  <2>1. \A d \in history.taken : Owes(d) /\ session.mode = "up" => disk.gap \/ disk.core.turn = d
    BY <1>1, <1>2 DEF Covered, Finished, Acting
  <2> QED BY <1>1, <1>3, <2>1 DEF Covered, Owes, Running
<1> QED BY <1>4, <1>5, <1>6, <1>7, <1>8 DEF Answerable

\* The process is gone.
LEMMA GoneAnswerable ==
  ASSUME IInv, Gone("down")
  PROVE  /\ driver'.pc = "idle" /\ driver'.command = None /\ lock'.holder = "nobody"
         /\ stray' = {} /\ core' = Fresh /\ session'.mode = "down" /\ ~session'.interrupt
BY Names DEF Gone, NoDriver

LEMMA DownAnswerable ==
  ASSUME IInv, Answerable, Gone("down"), UNCHANGED <<disk, history>>
  PROVE  Answerable'
<1> USE Shapes, Parts
<1>1. /\ driver'.pc = "idle" /\ driver'.command = None /\ lock'.holder = "nobody"
      /\ stray' = {} /\ core' = Fresh /\ session'.mode = "down" /\ ~session'.interrupt
  BY GoneAnswerable
<1>2. Whole(Fresh)
  BY DEF Whole, Fresh
<1>3. Posts'
  BY <1>1 DEF Posts
<1>4. Turns'
  BY <1>1, <1>2 DEF Turns, Whole, Running
<1>5. Strayed'
  BY <1>1 DEF Strayed
<1>6. Remembered'
  <2>1. \A d \in Commands : Claimed(d)' => Claimed(d)
    BY <1>1 DEF Claimed
  <2> QED BY <1>1, <2>1 DEF Remembered, Acting
<1>7. Covered'
  BY <1>1 DEF Covered
<1> QED BY <1>3, <1>4, <1>5, <1>6, <1>7 DEF Answerable

LEMMA RaiseAnswerable ==
  ASSUME IInv, Answerable, Raise
  PROVE  Answerable'
<1> USE Shapes, Parts
<1>1. driver.pc = "settling" /\ UNCHANGED disk
  BY DEF Raise
<1>2. CASE driver.command = None
  BY <1>1, <1>2, DownAnswerable DEF Raise
<1>3. CASE driver.command # None
  <2>1. PICK c : c = driver.command
    OBVIOUS
  <2>2. /\ driver' = NoDriver /\ UNCHANGED <<core, stray, lock, session>> /\ c \in Commands
        /\ desk' = DeskAfter(c)
        /\ history' = IF driver.why = "error"
                      THEN [history EXCEPT !.failed = @ \cup {c}] ELSE history
    BY <1>3, <2>1, CommandsTyped DEF Raise
  <2>3. /\ driver'.pc = "idle" /\ driver'.command = None
        /\ history'.taken = history.taken
        /\ history'.failed = history.failed \cup (IF driver.why = "error" THEN {c} ELSE {})
        /\ desk'.owed = desk.owed \ (IF driver.why = "error" THEN {c} ELSE {})
        /\ desk'.cancelled = desk.cancelled \cup (IF driver.why = "error" THEN {} ELSE {c})
    BY <2>2 DEF NoDriver, DeskAfter, Histories, Desks
  <2>4. ~Writing' <=> ~Writing
    BY <1>1, <2>2, <2>3 DEF Writing
  <2>5. session.mode \notin {"recovering", "closed", "down"}
    BY <1>1, <1>3 DEF Posts
  <2>6. Posts'
    BY <1>1, <2>2, <2>3, <2>5 DEF Posts
  <2>7. Turns'
    BY <1>1, <2>2, <2>3, <2>4 DEF Turns, Whole, Running
  <2>8. \A d : Owes(d)' <=> Owes(d) /\ (driver.why = "error" => d # c)
    BY <1>1, <2>3 DEF Owes
  <2>9. Strayed'
    BY <2>2, <2>3, <2>8 DEF Strayed
  <2>10. Remembered'
    <3>1. \A d \in Commands : Claimed(d)' => Claimed(d)
      BY <2>2, <2>3 DEF Claimed
    <3>2. lock.holder # "result"
      BY <1>1 DEF GivenUp, IInv, Safe
    <3> QED BY <1>1, <2>1, <2>2, <2>3, <2>8, <3>1, <3>2 DEF Remembered, Acting
  <2>11. Covered'
    <3>1. ASSUME NEW d \in history.taken, Owes(d)', Finished(d)
          PROVE  Finished(d)'
      <4>1. d \in desk'.owed /\ core'.turn = None
        BY <2>2, <2>3, <2>8, <3>1 DEF Finished
      <4>2. session.mode = "closing"
        BY <1>1, <2>1, <2>8, <3>1 DEF Finished, Acting
      <4> QED BY <2>2, <4>1, <4>2 DEF Finished
    <3> QED BY <1>1, <2>2, <2>3, <2>8, <3>1 DEF Covered
  <2> QED BY <2>6, <2>7, <2>9, <2>10, <2>11 DEF Answerable
<1> QED BY <1>2, <1>3

LEMMA AnswerAnswerable ==
  ASSUME IInv, Answerable, Answer
  PROVE  Answerable'
<1> USE Shapes, Parts
<1>1. PICK c : c = driver.command
  OBVIOUS
<1>2. /\ driver.pc = "answer" /\ c # None /\ lock.holder = "nobody" /\ c \in Commands
      /\ UNCHANGED <<core, stray, lock, session, history>>
  BY <1>1, Names, CommandsTyped DEF Answer, Free
<1>3. CASE UNCHANGED <<disk, desk>> /\ driver' = [driver EXCEPT !.pc = "failing", !.why = "error"]
  <2>1. driver'.pc = "failing" /\ driver'.why = "error" /\ driver'.command = driver.command
    BY <1>3 DEF Drivers
  <2>2. Onward
    BY <1>2, <2>1 DEF Onward, Acting
  <2> QED BY <1>2, <1>3, <2>2, OnwardAnswerable
<1>4. CASE /\ disk' = Receipts(disk, {c}, "succeeded") /\ driver' = NoDriver
           /\ desk' = [desk EXCEPT !.owed = @ \ {c}]
  <2>1. /\ driver'.pc = "idle" /\ driver'.command = None
        /\ desk'.owed = desk.owed \ {c} /\ desk'.cancelled = desk.cancelled
    BY <1>4 DEF NoDriver, Desks
  <2>2. /\ UNCHANGED <<disk.core, disk.gap>>
        /\ \A d \in Commands : /\ disk'.receipt[d] = "none" <=> disk.receipt[d] = "none"
                               /\ disk'.receipt[d] = "reserved" => disk.receipt[d] = "reserved"
                               /\ disk'.receipt[d] = "reserved" => d # c
    BY <1>4, ReceiptsTurn
  <2>3. ~Writing /\ ~Writing' /\ session.mode \in {"up", "recovering"}
    BY <1>2, <2>1 DEF Writing, Owned, Running
  <2>4. session.mode = "up"
    BY <1>1, <1>2, <2>3 DEF Posts
  <2>5. Posts'
    BY <1>2, <2>1, <2>4 DEF Posts
  <2>6. Turns'
    BY <1>2, <2>1, <2>2, <2>3 DEF Turns, Whole, Running
  <2>7. \A d \in Commands : Owes(d)' => Owes(d) /\ d # c
    BY <1>2, <2>2 DEF Owes
  <2>8. Strayed'
    BY <1>2, <2>4 DEF Strayed
  <2>9. Remembered'
    <3>1. \A d \in Commands : Claimed(d)' => Claimed(d)
      BY <1>2 DEF Claimed
    <3> QED BY <1>1, <1>2, <2>1, <2>2, <2>7, <3>1 DEF Remembered, Acting
  <2>10. Covered'
    <3>1. \A d \in history.taken : d \in Commands
      BY CommandsTyped
    <3>2. \A d \in history.taken : Owes(d)' => disk.gap \/ disk.core.turn = d
      BY <1>1, <1>2, <2>4, <2>7, <3>1 DEF Covered, Finished
    <3> QED BY <1>2, <2>2, <3>2 DEF Covered
  <2> QED BY <2>5, <2>6, <2>8, <2>9, <2>10 DEF Answerable
<1> QED BY <1>1, <1>3, <1>4 DEF Answer

LEMMA ApplyInterruptAnswerable ==
  ASSUME IInv, Answerable, ApplyInterrupt
  PROVE  Answerable'
<1> USE Shapes, Parts
<1>1. /\ session.interrupt /\ driver = NoDriver /\ lock.holder = "nobody"
      /\ UNCHANGED <<disk, stray, driver, desk, history>>
  BY Names DEF ApplyInterrupt, Free
<1>2. driver.pc = "idle" /\ driver.command = None /\ session.mode = "up"
  BY <1>1 DEF NoDriver, Posts
<1>3. \A d \in history.taken : Owes(d) => disk.gap \/ disk.core.turn = d
  BY <1>1, <1>2, CommandsTyped DEF Covered, Finished
<1>4. \A d : Claimed(d)' <=> Claimed(d)
  BY <1>1 DEF Claimed
<1>5. CASE core.turn = None
  <2>1. session' = [session EXCEPT !.interrupt = FALSE] /\ UNCHANGED <<core, lock>>
    BY <1>5 DEF ApplyInterrupt
  <2>2. session'.mode = "up" /\ ~session'.interrupt
    BY <1>2, <2>1 DEF Sessions
  <2>3. ~Writing'
    BY <1>1, <2>1 DEF Writing
  <2>4. Posts'
    BY <1>1, <1>2, <2>1, <2>2 DEF Posts
  <2>5. Turns'
    BY <1>1, <1>2, <1>5, <2>1, <2>3 DEF Turns, Whole
  <2>6. Strayed'
    BY <1>1, <1>2, <2>1 DEF Strayed, Owes
  <2>7. Remembered'
    BY <1>1, <1>2, <1>4, <2>1, <2>2 DEF Remembered, Owes
  <2>8. Covered'
    BY <1>1, <1>3, <2>1, <2>2 DEF Covered, Owes
  <2> QED BY <2>4, <2>5, <2>6, <2>7, <2>8 DEF Answerable
<1>6. CASE core.turn # None
  <2>1. Apply("interrupt", Interrupted(core)) /\ UNCHANGED session
    BY <1>6 DEF ApplyInterrupt
  <2>2. /\ lock'.holder = "interrupt" /\ core' = Interrupted(core).core
        /\ Whole(core') /\ core'.turn = None
    BY <2>1, InterruptedTurn DEF Apply
  <2>3. Posts'
    BY <1>1, <1>2, <2>1, <2>2 DEF Posts
  <2>4. Turns'
    BY <1>1, <1>2, <2>1, <2>2 DEF Turns, Whole, Running
  <2>5. Strayed'
    BY <1>1, <1>2, <2>1 DEF Strayed, Owes
  <2>6. Remembered'
    BY <1>1, <1>2, <1>4, <2>1, <2>2 DEF Remembered, Owes, Acting
  <2>7. Covered'
    BY <1>1, <1>3, <2>1, <2>2 DEF Covered, Owes
  <2> QED BY <2>3, <2>4, <2>5, <2>6, <2>7 DEF Answerable
<1> QED BY <1>5, <1>6

LEMMA InterruptLandsAnswerable ==
  ASSUME IInv, Answerable, InterruptLands
  PROVE  Answerable'
<1> USE Shapes, Parts
<1>1. /\ Lands("interrupt") /\ lock' = Held("receipts")
      /\ UNCHANGED <<core, stray, driver, desk, session, history>>
  BY DEF InterruptLands, memory
<1>2. /\ disk'.receipt = disk.receipt /\ (disk.gap => disk'.gap)
      /\ disk'.core \in {core, disk.core} /\ lock.holder = "interrupt"
      /\ ~disk'.gap => disk'.core = core
  BY <1>1, LandsTurn
<1>3. lock'.holder = "receipts" /\ session.interrupt /\ driver.pc = "idle"
  BY <1>1, <1>2, Names DEF Posts, Owned
<1>4. Posts'
  BY <1>1, <1>3 DEF Posts
<1>5. Turns'
  BY <1>1, <1>2, <1>3 DEF Turns, Whole, Running
<1>6. Strayed'
  BY <1>1, <1>2 DEF Strayed, Owes
<1>7. Remembered'
  <2>1. \A d : Claimed(d)' <=> Claimed(d)
    BY <1>1 DEF Claimed
  <2> QED BY <1>1, <1>2, <1>3, <2>1 DEF Remembered, Owes, Acting
<1>8. Covered'
  BY <1>3 DEF Covered
<1> QED BY <1>4, <1>5, <1>6, <1>7, <1>8 DEF Answerable

LEMMA InterruptRefusedAnswerable ==
  ASSUME IInv, Answerable, InterruptRefused
  PROVE  Answerable'
<1> USE Shapes, Parts
<1>1. /\ WriteFails("interrupt") /\ session' = [session EXCEPT !.interrupt = FALSE]
      /\ UNCHANGED <<disk, stray, driver, desk, history>>
  BY DEF InterruptRefused
<1>2. /\ lock.holder = "interrupt" /\ lock'.holder = "nobody"
      /\ core' = IF disk.gap THEN core ELSE disk.core
  BY <1>1, FailsTurn
<1>3. /\ driver.pc = "idle" /\ driver.command = None /\ session.mode = "up"
      /\ session'.mode = "up" /\ ~session'.interrupt
  BY <1>1, <1>2 DEF Posts, Owned, Sessions
<1>4. ~Writing'
  BY <1>2 DEF Writing
<1>5. Posts'
  BY <1>1, <1>2, <1>3 DEF Posts
<1>6. Turns'
  BY <1>1, <1>2, <1>3, <1>4 DEF Turns, Whole
<1>7. Strayed'
  BY <1>1, <1>3 DEF Strayed, Owes
<1>8. Remembered'
  <2>1. \A d : Claimed(d)' <=> Claimed(d)
    BY <1>1 DEF Claimed
  <2> QED BY <1>1, <1>2, <1>3, <2>1 DEF Remembered, Owes, Acting
<1>9. Covered'
  BY <1>1, <1>2, <1>3, CommandsTyped DEF Covered, Finished, Owes
<1> QED BY <1>5, <1>6, <1>7, <1>8, <1>9 DEF Answerable

LEMMA CloseReceiptsAnswerable ==
  ASSUME IInv, Answerable, CloseReceipts
  PROVE  Answerable'
<1> USE Shapes, Parts
<1>1. /\ lock.holder = "receipts" /\ lock' = Unlocked
      /\ session' = [session EXCEPT !.interrupt = FALSE]
      /\ UNCHANGED <<core, stray, driver>>
  BY DEF CloseReceipts
<1>2. /\ lock'.holder = "nobody" /\ session'.mode = "up" /\ session.mode = "up"
      /\ ~session'.interrupt
      /\ driver.pc = "idle" /\ driver.command = None /\ core.pending = {}
  BY <1>1, Names DEF Posts, Owned, Sessions
<1>3. core.turn = None /\ ~Writing'
  BY <1>1, <1>2 DEF Turns, Whole, Writing
<1>4. \A d \in Commands : Claimed(d) /\ Owes(d) => d \in desk.cancelled
  BY <1>2, NamesAssumption DEF Remembered
<1>5. /\ UNCHANGED <<disk.core, disk.gap, history.taken>>
      /\ \A d \in Commands : /\ disk'.receipt[d] = "none" <=> disk.receipt[d] = "none"
                             /\ Owes(d)' => Owes(d) /\ d \notin desk.cancelled
  <2>1. CASE disk' = Receipts(disk, desk.cancelled, "succeeded") /\ UNCHANGED history
    BY <2>1, ReceiptsTurn DEF Owes
  <2>2. CASE UNCHANGED disk /\ history' = [history EXCEPT !.failed = @ \cup desk.cancelled]
    <3>1. history'.failed = history.failed \cup desk.cancelled /\ UNCHANGED history.taken
      BY <2>2 DEF Histories
    <3> QED BY <2>2, <3>1 DEF Owes
  <2> QED BY <2>1, <2>2 DEF CloseReceipts
<1>6. \A d : Claimed(d)' <=> Claimed(d)
  BY <1>1, <1>5 DEF Claimed
<1>7. \A d \in Commands : Claimed(d) => ~Owes(d)'
  BY <1>4, <1>5
<1>8. Posts'
  BY <1>1, <1>2 DEF Posts
<1>9. Turns'
  BY <1>1, <1>2, <1>3, <1>5 DEF Turns, Whole
<1>10. Strayed'
  BY <1>1, <1>2 DEF Strayed
<1>11. Remembered'
  BY <1>1, <1>2, <1>5, <1>6, <1>7 DEF Remembered, Acting
<1>12. Covered'
  <2>1. \A d \in history.taken : d \in Commands /\ Claimed(d)
    BY CommandsTyped DEF Claimed
  <2> QED BY <1>5, <1>7, <2>1 DEF Covered
<1> QED BY <1>8, <1>9, <1>10, <1>11, <1>12 DEF Answerable

LEMMA InputAnswerable ==
  ASSUME IInv, Answerable, Input
  PROVE  Answerable'
<1> USE Shapes, Parts
<1>1. /\ session.mode = "up" /\ ~session.interrupt /\ lock.holder = "nobody"
      /\ core.turn # None /\ Apply("input", Noted(core))
      /\ UNCHANGED <<disk, stray, driver, desk, session, history>>
  BY Names DEF Input, Up, Free
<1>2. /\ lock'.holder = "input" /\ lock'.base.core = core /\ core' = Noted(core).core
      /\ Whole(core') /\ core'.turn = core.turn
  BY <1>1, NotedTurn DEF Apply, Turns, Cored
<1>3. ~Writing /\ Writing' /\ Running
  BY <1>1, <1>2 DEF Writing, Running
<1>4. Posts'
  BY <1>1, <1>2 DEF Posts
<1>5. Turns'
  BY <1>1, <1>2, <1>3 DEF Turns, Whole, Running
<1>6. Strayed'
  BY <1>1 DEF Strayed, Owes
<1>7. Remembered'
  <2>1. \A d : Claimed(d)' <=> Claimed(d)
    BY <1>1 DEF Claimed
  <2> QED BY <1>1, <1>2, <2>1 DEF Remembered, Owes
<1>8. Covered'
  BY <1>1 DEF Covered, Finished, Owes
<1> QED BY <1>4, <1>5, <1>6, <1>7, <1>8 DEF Answerable

LEMMA InputLandsAnswerable ==
  ASSUME IInv, Answerable, InputLands
  PROVE  Answerable'
<1> USE Shapes, Parts
<1>1. /\ Lands("input") /\ lock' = Unlocked
      /\ UNCHANGED <<core, stray, driver, desk, session, history>>
  BY DEF InputLands, memory
<1>2. /\ disk'.receipt = disk.receipt /\ (disk.gap => disk'.gap)
      /\ disk'.core \in {core, disk.core} /\ lock.holder = "input"
      /\ ~disk'.gap => lock.base.core = disk.core /\ disk'.core = core
  BY <1>1, LandsTurn
<1>3. lock'.holder = "nobody" /\ core.turn = lock.base.core.turn /\ core.turn # None
  BY <1>1, <1>2, Names DEF Turns
<1>4. Posts'
  BY <1>1, <1>3 DEF Posts
<1>5. ~Writing'
  BY <1>3 DEF Writing
<1>6. Turns'
  BY <1>1, <1>2, <1>3, <1>5 DEF Turns, Whole
<1>7. Strayed'
  BY <1>1, <1>2 DEF Strayed, Owes
<1>8. Remembered'
  <2>1. \A d : Claimed(d)' <=> Claimed(d)
    BY <1>1 DEF Claimed
  <2> QED BY <1>1, <1>2, <1>3, <2>1 DEF Remembered, Owes
<1>9. Covered'
  BY <1>1, <1>2, <1>3 DEF Covered, Finished, Owes
<1> QED BY <1>4, <1>6, <1>7, <1>8, <1>9 DEF Answerable

LEMMA InputFailsAnswerable ==
  ASSUME IInv, Answerable, InputFails
  PROVE  Answerable'
<1> USE Shapes, Parts
<1>1. WriteFails("input") /\ UNCHANGED <<disk, stray, driver, desk, session, history>>
  BY DEF InputFails
<1>2. /\ lock.holder = "input" /\ lock'.holder = "nobody"
      /\ core' = IF disk.gap THEN core ELSE disk.core
  BY <1>1, FailsTurn
<1>3. core.turn = lock.base.core.turn /\ core.turn # None /\ Writing /\ ~Writing'
  BY <1>2 DEF Turns, Writing
<1>4. Running => core'.turn = core.turn
  BY <1>2, <1>3 DEF Turns
<1>5. Posts'
  BY <1>1, <1>2 DEF Posts
<1>6. Turns'
  <2>1. driver.pc \notin {"idle", "failing", "settling"} => Running
    BY DEF Owned
  <2>2. (driver.pc \notin {"idle", "failing", "settling"}) /\ driver.command # None =>
          core'.turn \in {None, driver.command}
    BY <1>4, <2>1 DEF Turns
  <2> QED BY <1>1, <1>2, <1>3, <2>2 DEF Turns, Whole, Running
<1>7. Strayed'
  BY <1>1, <1>3 DEF Strayed, Owes
<1>8. Remembered'
  <2>1. \A d : Claimed(d)' <=> Claimed(d)
    BY <1>1 DEF Claimed
  <2> QED BY <1>1, <1>2, <2>1 DEF Remembered, Owes
<1>9. Covered'
  BY <1>1, <1>2, <1>3 DEF Covered, Finished, Owes
<1> QED BY <1>5, <1>6, <1>7, <1>8, <1>9 DEF Answerable

\* A cancelled driver leaves the input it was writing on its way.
Overboard ==
  /\ driver.pc = "writing"
  /\ stray' = stray \cup
       {[base |-> lock.base.core, core |-> core, step |-> step,
         taken |-> IF lock.holder = "command" THEN {driver.command} ELSE {}]}

LEMMA CancelDriverTurn ==
  ASSUME IInv, CancelDriver
  PROVE  /\ stray' = stray \/ Overboard
         /\ UNCHANGED <<history.taken, history.failed>>
         /\ lock' = lock \/ (lock'.holder = "nobody" /\ driver.pc \in {"reserved", "writing"})
         /\ driver.pc \in {"reserved", "writing"} => lock'.holder = "nobody"
         /\ \/ driver' = driver /\ driver.pc \in {"idle", "failing", "settling"}
            \/ driver.pc = "reserved" /\ driver'.pc = "idle" /\ driver'.command = None
            \/ /\ driver.pc \in Acting \cup {"writing"} /\ driver'.pc = "failing"
               /\ driver'.command = driver.command
<1> USE Shapes
<1>1. CASE driver.pc \in {"idle", "failing", "settling"}
  BY <1>1 DEF CancelDriver
<1>2. CASE driver.pc = "reserved"
  <2>1. driver' = NoDriver /\ lock' = Unlocked /\ UNCHANGED <<stray, history>>
    BY <1>2 DEF CancelDriver
  <2> QED BY <1>2, <2>1, Names DEF NoDriver
<1>3. CASE driver.pc = "writing"
  <2>1. /\ driver' = [driver EXCEPT !.pc = "failing", !.why = "cancelled", !.action = None]
        /\ lock' = Unlocked /\ history' = [history EXCEPT !.adrift = TRUE]
        /\ Overboard
    BY <1>3 DEF CancelDriver, Overboard
  <2>2. /\ driver'.pc = "failing" /\ driver'.command = driver.command
        /\ UNCHANGED <<history.taken, history.failed>>
    BY <2>1 DEF Drivers, Histories
  <2> QED BY <1>3, <2>1, <2>2, Names
<1>4. CASE driver.pc \notin {"idle", "failing", "settling", "reserved", "writing"}
  <2>1. /\ driver' = [driver EXCEPT !.pc = "failing", !.why = "cancelled", !.action = None]
        /\ UNCHANGED <<stray, lock, history>>
    BY <1>4 DEF CancelDriver
  <2>2. driver'.pc = "failing" /\ driver'.command = driver.command /\ driver.pc \in Acting
    BY <1>4, <2>1 DEF Drivers, Phases, Acting
  <2> QED BY <1>4, <2>1, <2>2
<1> QED BY <1>1, <1>2, <1>3, <1>4

LEMMA AskAnswerable ==
  ASSUME IInv, Answerable, CancelDriver, session.mode = "up", ~session.interrupt,
         UNCHANGED <<disk, core, desk>>,
         \/ /\ session'.mode = "up" /\ session'.interrupt
            /\ core.turn # None \/ driver.pc = "reserved"
         \/ session'.mode = "closing" /\ ~session'.interrupt
  PROVE  Answerable'
<1> USE Shapes, Parts
<1>1. /\ stray' = stray \/ Overboard
      /\ UNCHANGED <<history.taken, history.failed>>
      /\ lock' = lock \/ (lock'.holder = "nobody" /\ driver.pc \in {"reserved", "writing"})
      /\ driver.pc \in {"reserved", "writing"} => lock'.holder = "nobody"
      /\ \/ driver' = driver /\ driver.pc \in {"idle", "failing", "settling"}
         \/ driver.pc = "reserved" /\ driver'.pc = "idle" /\ driver'.command = None
         \/ /\ driver.pc \in Acting \cup {"writing"} /\ driver'.pc = "failing"
            /\ driver'.command = driver.command
  BY CancelDriverTurn
<1>2. Posts'
  BY <1>1 DEF Posts, Acting
<1>3. lock'.holder \notin {"command", "result"}
  BY <1>1 DEF Owned, GivenUp, IInv, Safe
<1>4. driver.pc # "idle" => driver.command # None
  BY DEF Posts
<1>5. ASSUME Overboard
      PROVE  /\ driver.command # None /\ driver.command \in Commands
             /\ lock.holder = "command" => core.turn = driver.command
             /\ lock.holder \in {"command", "result"}
             /\ lock.base.core.turn \in {None, driver.command}
             /\ core.turn \in {None, driver.command}
             /\ core.turn = None => /\ lock.base.core.turn = driver.command
                                    /\ driver.command \in desk.owed
  BY <1>4, <1>5, CommandsTyped DEF Overboard, Owned, Turns, Remembered
<1>6. ASSUME NEW s \in stray', s \notin stray
      PROVE  /\ Overboard /\ s.base = lock.base.core /\ s.core = core
             /\ s.taken \subseteq {driver.command}
             /\ s.taken # {} => lock.holder = "command"
  BY <1>1, <1>6 DEF Overboard
<1>7. Turns'
  <2>1. \A s \in stray' : Whole(s.core)
    BY <1>6 DEF Turns
  <2>2. driver'.pc \in {"idle", "failing", "settling"} /\ ~Running'
    BY <1>1 DEF Running
  <2>3. lock'.holder = "input" => lock' = lock
    BY <1>1
  <2> QED BY <1>3, <2>1, <2>2, <2>3 DEF Turns, Whole
<1>8. Strayed'
  <2>1. ASSUME NEW s \in stray', s \notin stray
        PROVE  /\ s.taken \subseteq {s.core.turn}
               /\ s.core.turn # None => s.base.turn \in {None, s.core.turn}
               /\ s.core.turn = None =>
                    /\ session'.mode = "closing" /\ core.turn = None
                    /\ s.base.turn \in desk.owed /\ s.base.turn \in Commands
    BY <1>5, <1>6, <2>1 DEF Overboard
  <2>2. \A s \in stray : s.core.turn # None
    BY DEF Strayed
  <2> QED BY <2>1, <2>2 DEF Strayed
<1>9. Remembered'
  <2>1. ASSUME NEW d \in Commands, Claimed(d)', ~Claimed(d)
        PROVE  Overboard /\ d = driver.command
    <3>1. PICK s \in stray' : d \in s.taken /\ s \notin stray
      BY <1>1, <2>1 DEF Claimed
    <3> QED BY <1>6, <3>1
  <2>2. \A d \in Commands : Claimed(d)' => disk.receipt[d] # "none"
    BY <1>5, <2>1 DEF Remembered
  <2>3. ASSUME NEW d \in Commands, Claimed(d)', Owes(d)
        PROVE  d \in desk.cancelled \/ (driver'.command = d /\ driver'.pc # "reserved")
    <3>1. CASE Claimed(d)
      BY <1>1, <2>3, <3>1 DEF Remembered
    <3>2. CASE ~Claimed(d)
      BY <1>1, <2>1, <2>3, <3>2 DEF Overboard
    <3> QED BY <3>1, <3>2
  <2>4. driver'.command # None => driver'.command = driver.command
    BY <1>1
  <2>5. driver'.pc \notin Acting
    BY <1>1 DEF Acting
  <2> QED BY <1>1, <1>3, <2>2, <2>3, <2>4, <2>5 DEF Remembered, Owes
<1>10. Covered'
  <2>1. ASSUME NEW d \in history.taken, Finished(d)
        PROVE  Finished(d)'
    <3>1. CASE session'.mode = "closing"
      BY <2>1, <3>1 DEF Finished
    <3>2. CASE core.turn # None \/ driver.pc = "reserved"
      BY <1>1, <2>1, <3>2 DEF Finished, Acting
    <3>3. CASE driver' = driver
      BY <2>1, <3>3 DEF Finished
    <3> QED BY <3>1, <3>2
  <2>2. lock.holder # "receipts"
    BY DEF Posts
  <2> QED BY <1>1, <2>1, <2>2 DEF Covered, Owes
<1> QED BY <1>2, <1>7, <1>8, <1>9, <1>10 DEF Answerable

LEMMA AskInterruptAnswerable ==
  ASSUME IInv, Answerable, AskInterrupt
  PROVE  Answerable'
<1>1. /\ session.mode = "up" /\ ~session.interrupt /\ CancelDriver
      /\ core.turn # None \/ driver.pc = "reserved"
      /\ session' = [session EXCEPT !.interrupt = TRUE] /\ UNCHANGED <<disk, core, desk>>
  BY DEF AskInterrupt, Up
<1>2. session'.mode = "up" /\ session'.interrupt
  BY <1>1, Shapes DEF Sessions
<1> QED BY <1>1, <1>2, AskAnswerable

LEMMA AskCloseAnswerable ==
  ASSUME IInv, Answerable, AskClose
  PROVE  Answerable'
<1>1. /\ session.mode = "up" /\ ~session.interrupt /\ CancelDriver
      /\ session' = [session EXCEPT !.mode = "closing"] /\ UNCHANGED <<disk, core, desk>>
  BY DEF AskClose, Up
<1>2. session'.mode = "closing" /\ ~session'.interrupt
  BY <1>1, Shapes DEF Sessions
<1> QED BY <1>1, <1>2, AskAnswerable

LEMMA ShutAnswerable ==
  ASSUME IInv, Answerable, Shut
  PROVE  Answerable'
<1> USE Shapes, Parts
<1>1. /\ session.mode = "closing" /\ driver = NoDriver /\ lock.holder = "nobody"
      /\ session' = [session EXCEPT !.mode = "closed"]
      /\ UNCHANGED <<core, stray, lock, driver>>
  BY Names DEF Shut, Free
<1>2. /\ session'.mode = "closed" /\ ~session'.interrupt
      /\ driver.pc = "idle" /\ driver.command = None
  BY <1>1 DEF Sessions, NoDriver, Posts
<1>3. /\ UNCHANGED <<disk.core, disk.gap, history.taken>>
      /\ \A d \in Commands : /\ disk'.receipt[d] = "none" <=> disk.receipt[d] = "none"
                             /\ Owes(d)' => Owes(d)
                             /\ Owes(d)' /\ core.turn = None => d \notin desk.owed
  <2>1. CASE core.pending # {} /\ UNCHANGED <<disk, history>>
    BY <2>1 DEF Owes, Cored, Sound
  <2>2. CASE disk' = Receipts(disk, desk.owed, "succeeded") /\ UNCHANGED history
    BY <2>2, ReceiptsTurn DEF Owes
  <2>3. CASE UNCHANGED disk /\ history' = [history EXCEPT !.failed = @ \cup desk.owed]
    <3>1. history'.failed = history.failed \cup desk.owed /\ UNCHANGED history.taken
      BY <2>3 DEF Histories
    <3> QED BY <2>3, <3>1 DEF Owes
  <2> QED BY <2>1, <2>2, <2>3 DEF Shut
<1>4. \A d : Claimed(d)' <=> Claimed(d)
  BY <1>1, <1>3 DEF Claimed
<1>5. Posts'
  BY <1>1, <1>2 DEF Posts
<1>6. Turns'
  BY <1>1, <1>2, <1>3 DEF Turns, Whole, Running
<1>7. Strayed'
  BY <1>1, <1>2, <1>3 DEF Strayed
<1>8. Remembered'
  BY <1>1, <1>2, <1>3, <1>4 DEF Remembered, Acting
<1>9. Covered'
  <2>1. ASSUME NEW d \in history.taken, Owes(d)'
        PROVE  disk.gap \/ disk.core.turn = d
    <3>1. d \in Commands
      BY CommandsTyped
    <3>2. ~Finished(d)
      BY <1>3, <2>1, <3>1 DEF Finished
    <3> QED BY <1>1, <1>3, <2>1, <3>1, <3>2 DEF Covered
  <2> QED BY <1>3, <2>1 DEF Covered
<1> QED BY <1>5, <1>6, <1>7, <1>8, <1>9 DEF Answerable

LEMMA StrayLandsAnswerable ==
  ASSUME IInv, Answerable, StrayLands
  PROVE  Answerable'
<1> USE Shapes, Parts
<1>1. PICK s \in stray :
         /\ stray' = stray \ {s}
         /\ IF MayRecord(s.core)
            THEN /\ disk' = Recorded(disk, s.base, s.core, s.step)
                 /\ history' = [history EXCEPT !.taken = @ \cup s.taken]
            ELSE UNCHANGED <<disk, history>>
         /\ UNCHANGED <<core, lock, driver, desk, session>>
  BY DEF StrayLands
<1>2. CASE ~MayRecord(s.core)
  <2>1. UNCHANGED <<disk, history>> /\ stray' \subseteq stray /\ Onward
    BY <1>1, <1>2 DEF Onward
  <2> QED BY <1>1, <2>1, OnwardAnswerable
<1>3. CASE MayRecord(s.core)
  <2>1. /\ disk' = Recorded(disk, s.base, s.core, s.step)
        /\ history' = [history EXCEPT !.taken = @ \cup s.taken]
    BY <1>1, <1>3
  <2>2. history'.taken = history.taken \cup s.taken /\ UNCHANGED history.failed
    BY <2>1 DEF Histories
  <2>3. s \in Strays /\ s.core \in Cores /\ s.step \in Steps
    BY CommandsTyped DEF Strays
  <2>4. /\ disk'.receipt = disk.receipt /\ (disk.gap => disk'.gap)
        /\ disk'.core \in {s.core, disk.core}
        /\ ~disk'.gap => s.base = disk.core /\ disk'.core = s.core
    BY <2>1, <2>3, RecordedTurn
  <2>5. session.mode \notin {"recovering", "down"}
    BY <1>1 DEF Posts
  <2>6. \A d : Owes(d)' <=> Owes(d)
    BY <2>2, <2>4 DEF Owes
  <2>7. \A d : Claimed(d)' => Claimed(d)
    BY <1>1, <2>2 DEF Claimed
  <2>8. /\ s.taken \subseteq {s.core.turn}
        /\ s.core.turn # None => s.base.turn \in {None, s.core.turn}
        /\ s.core.turn = None =>
             /\ session.mode \in {"closing", "closed"}
             /\ session.mode = "closing" => core.turn = None
             /\ Owes(s.base.turn) => session.mode = "closing" /\ s.base.turn \in desk.owed
    BY DEF Strayed
  <2>9. Posts'
    BY <1>1, <2>5 DEF Posts
  <2>10. Turns'
    <3>1. Writing' <=> Writing
      BY <1>1 DEF Writing
    <3>2. Running => s.core.turn # None
      BY <2>8 DEF Running
    <3>3. Whole(disk'.core)
      BY <2>4 DEF Turns
    <3>4. Running /\ ~disk'.gap => disk.core.turn \in {None, disk'.core.turn} /\ ~disk.gap
      BY <2>4, <2>8, <3>2
    <3>5. Running' <=> Running
      BY <1>1 DEF Running
    <3> QED BY <1>1, <3>1, <3>3, <3>4, <3>5 DEF Turns, Whole
  <2>11. Strayed'
    BY <1>1, <2>6 DEF Strayed
  <2>12. Remembered'
    BY <1>1, <2>4, <2>6, <2>7 DEF Remembered
  <2>13. Covered'
    <3>1. ASSUME NEW d \in history.taken, Owes(d), ~disk'.gap, disk.core.turn = d
          PROVE  disk'.core.turn = d \/ Finished(d)
      <4>1. d \in Commands /\ d # None
        BY CommandsTyped
      <4> QED BY <2>4, <2>8, <3>1, <4>1 DEF Finished
    <3>2. \A d : Finished(d)' <=> Finished(d)
      BY <1>1 DEF Finished
    <3>3. ASSUME NEW d \in s.taken, ~disk'.gap
          PROVE  disk'.core.turn = d
      BY <2>4, <2>8, <3>3
    <3>4. ASSUME NEW d \in history.taken, Owes(d), session.mode \in {"up", "closing", "closed"},
                 ~disk'.gap
          PROVE  \/ disk'.core.turn = d \/ lock.holder = "receipts"
                 \/ session.mode # "closed" /\ Finished(d)
      <4>1. \/ disk.core.turn = d \/ lock.holder = "receipts"
            \/ session.mode # "closed" /\ Finished(d)
        BY <2>4, <3>4 DEF Covered
      <4>2. CASE disk.core.turn = d
        <5>1. d \in Commands /\ d # None
          BY CommandsTyped
        <5> QED BY <2>4, <2>8, <3>4, <4>2, <5>1 DEF Finished
      <4> QED BY <4>1, <4>2
    <3> QED BY <1>1, <2>2, <2>6, <3>2, <3>3, <3>4 DEF Covered
  <2> QED BY <2>9, <2>10, <2>11, <2>12, <2>13 DEF Answerable
<1> QED BY <1>2, <1>3

LEMMA RestoreAnswerable ==
  ASSUME IInv, Answerable, Restore
  PROVE  Answerable'
<1> USE Shapes, Parts
<1>1. /\ core' = disk.core /\ lock' = Unlocked /\ stray' = {} /\ UNCHANGED disk
      /\ driver' = [NoDriver EXCEPT !.pc = "drive", !.recovering = TRUE, !.step = disk.step]
      /\ session' = [mode |-> "recovering", interrupt |-> FALSE]
      /\ history' = [history EXCEPT !.taken = {}, !.failed = {}, !.adrift = FALSE]
  BY DEF Restore
<1>2. /\ driver'.pc = "drive" /\ driver'.command = None /\ lock'.holder = "nobody"
      /\ history'.taken = {} /\ session'.mode = "recovering" /\ ~session'.interrupt
  BY <1>1, Names DEF NoDriver, Histories
<1>3. Posts'
  BY <1>1, <1>2 DEF Posts
<1>4. Turns'
  <2>1. ~Writing'
    BY <1>2 DEF Writing
  <2> QED BY <1>1, <1>2, <2>1 DEF Turns, Whole
<1>5. Strayed'
  BY <1>1 DEF Strayed
<1>6. Remembered'
  <2>1. \A d : ~Claimed(d)'
    BY <1>1, <1>2 DEF Claimed
  <2> QED BY <1>2, <2>1 DEF Remembered
<1>7. Covered'
  BY <1>2 DEF Covered
<1> QED BY <1>3, <1>4, <1>5, <1>6, <1>7 DEF Answerable

LEMMA RecoveredAnswerable ==
  ASSUME IInv, Answerable, Recovered
  PROVE  Answerable'
<1> USE Shapes, Parts
<1>1. /\ session.mode = "recovering" /\ driver.pc = "answer" /\ lock.holder = "nobody"
      /\ disk' = IF core.pending = {} THEN Receipts(disk, Marked, "failed") ELSE disk
      /\ driver' = NoDriver /\ session' = [session EXCEPT !.mode = "up"]
      /\ UNCHANGED <<core, stray, lock, desk, history>>
  BY Names DEF Recovered, memory, Free
<1>2. /\ driver'.pc = "idle" /\ driver'.command = None
      /\ session'.mode = "up" /\ ~session'.interrupt /\ ~session.interrupt
  BY <1>1 DEF NoDriver, Sessions, Posts
<1>3. history.taken = {} /\ stray = {}
  BY <1>1 DEF Posts
<1>4. UNCHANGED <<disk.core, disk.gap>>
  BY <1>1, ReceiptsTurn
<1>5. Posts'
  BY <1>1, <1>2 DEF Posts
<1>6. Turns'
  <2>1. ~Writing /\ ~Writing' /\ Running
    BY <1>1, <1>2 DEF Writing, Running
  <2> QED BY <1>1, <1>2, <1>3, <1>4, <2>1 DEF Turns, Whole
<1>7. Strayed'
  BY <1>1, <1>3 DEF Strayed
<1>8. Remembered'
  <2>1. \A d : ~Claimed(d)'
    BY <1>1, <1>3 DEF Claimed
  <2> QED BY <1>1, <1>2, <2>1 DEF Remembered, Acting
<1>9. Covered'
  BY <1>1, <1>3 DEF Covered
<1> QED BY <1>5, <1>6, <1>7, <1>8, <1>9 DEF Answerable

\* Results that arrive late touch neither the core nor the receipts.
LEMMA CancelReceipts ==
  ASSUME disk \in Disks, NEW these, Cancel(these, disk)
  PROVE  UNCHANGED <<disk.core, disk.gap, disk.receipt>>
BY DEF Cancel, Disks

LEMMA DriverAnswerable ==
  ASSUME IInv, Answerable, Start \/ Abandon \/ Reap \/ Settle
  PROVE  Answerable'
<1> USE Shapes
<1>1. UNCHANGED <<core, stray, lock, session, desk, history>>
  BY DEF Start, Abandon, Reap, Settle, memory
<1>2. UNCHANGED <<disk.core, disk.gap, disk.receipt>>
  BY CancelReceipts DEF Start, Abandon, Reap, Settle
<1>3. CASE Start
  <2>1. \/ driver' = [driver EXCEPT !.pc = "failing", !.why = "error"]
        \/ driver' = [driver EXCEPT !.recovering = FALSE, !.pc = "answer"]
        \/ driver' = [driver EXCEPT !.recovering = FALSE, !.pc = "wait"]
    BY <1>3 DEF Start
  <2>2. /\ driver.pc = "drive" /\ driver'.command = driver.command
        /\ driver'.pc \in {"answer", "wait"} \/ (driver'.pc = "failing" /\ driver'.why = "error")
    BY <1>3, <2>1 DEF Start, Drivers
  <2>3. Onward
    BY <2>2 DEF Onward, Acting
  <2> QED BY <1>1, <1>2, <2>3, OnwardAnswerable
<1>4. CASE Abandon \/ Reap
  <2>1. /\ driver.pc \in {"abandon", "reap"} /\ driver'.pc \in {"reap", "drive"}
        /\ driver'.command = driver.command
    BY <1>4 DEF Abandon, Reap, Drivers
  <2>2. Onward
    BY <2>1 DEF Onward, Acting
  <2> QED BY <1>1, <1>2, <2>2, OnwardAnswerable
<1>5. CASE Settle
  <2>1. /\ driver.pc = "failing" /\ driver'.pc = "settling" /\ driver'.why = driver.why
        /\ driver'.command = driver.command
    BY <1>5 DEF Settle, Drivers
  <2>2. Onward
    BY <2>1 DEF Onward
  <2> QED BY <1>1, <1>2, <2>2, OnwardAnswerable
<1> QED BY <1>3, <1>4, <1>5

LEMMA TasksAnswerable ==
  ASSUME IInv, Answerable, NEW a \in Actions,
         \/ Resolve(a) \/ Perform(a) \/ Record(a) \/ RecordCancelled(a)
         \/ Deliver(a) \/ DeliverRaised(a)
  PROVE  Answerable'
<1> USE Shapes
<1>1. CASE Deliver(a)
  BY <1>1, DeliverAnswerable
<1>2. CASE DeliverRaised(a)
  <2>1. /\ driver.pc = "wait" /\ driver' = [driver EXCEPT !.pc = "failing", !.why = "error"]
        /\ UNCHANGED <<disk, core, stray, lock, desk, session, history>>
    BY <1>2 DEF DeliverRaised, memory
  <2>2. driver'.pc = "failing" /\ driver'.why = "error" /\ driver'.command = driver.command
    BY <2>1 DEF Drivers
  <2>3. Onward
    BY <2>1, <2>2 DEF Onward, Acting
  <2> QED BY <2>1, <2>3, OnwardAnswerable
<1>3. CASE Resolve(a) \/ Perform(a) \/ Record(a) \/ RecordCancelled(a)
  <2>1. UNCHANGED <<core, stray, lock, driver, desk, session>>
    BY <1>3 DEF Resolve, Perform, Record, RecordCancelled, Quiet
  <2>2. UNCHANGED <<disk.core, disk.gap, disk.receipt>>
    BY <1>3 DEF Resolve, Perform, Record, RecordCancelled, Disks
  <2>3. UNCHANGED <<history.taken, history.failed>>
    <3>1. history' = history \/ history' = [history EXCEPT !.performed[a] = @ + 1]
      BY <1>3 DEF Resolve, Perform, Record, RecordCancelled
    <3> QED BY <3>1 DEF Histories
  <2>4. Onward
    BY <2>1 DEF Onward
  <2> QED BY <2>1, <2>2, <2>3, <2>4, OnwardAnswerable
<1> QED BY <1>1, <1>2, <1>3

LEMMA FaultsAnswerable ==
  ASSUME IInv, Answerable, Faults
  PROVE  Answerable'
<1>1. CASE StrayLost
  <2>1. /\ stray' \subseteq stray /\ UNCHANGED <<disk, core, lock, driver, desk, session, history>>
    BY <1>1 DEF StrayLost
  <2>2. Onward
    BY <2>1 DEF Onward
  <2> QED BY <2>1, <2>2, OnwardAnswerable
<1>2. CASE Crash
  BY <1>2, DownAnswerable DEF Crash
<1> QED BY <1>1, <1>2, RestoreAnswerable DEF Faults

LEMMA FirstAnswerable == Init => Answerable
<1> SUFFICES ASSUME Init PROVE Answerable
  OBVIOUS
<1>1. /\ stray = {} /\ core = Fresh /\ disk.core = Fresh /\ lock.holder = "nobody"
      /\ driver.pc = "idle" /\ driver.command = None
      /\ session.mode = "up" /\ ~session.interrupt /\ history.taken = {}
  BY Names DEF Init, NoDriver
<1>2. Fresh.turn = None /\ Whole(Fresh)
  BY DEF Fresh, Whole
<1>3. \A c : ~Claimed(c)
  BY <1>1 DEF Claimed
<1>4. Posts
  BY <1>1 DEF Posts
<1>5. Turns
  BY <1>1, <1>2 DEF Turns, Writing
<1>6. Strayed
  BY <1>1 DEF Strayed
<1>7. Remembered
  BY <1>1, <1>3 DEF Remembered, Acting
<1>8. Covered
  BY <1>1 DEF Covered
<1> QED BY <1>4, <1>5, <1>6, <1>7, <1>8 DEF Answerable

LEMMA StepAnswerable == IInv /\ Answerable /\ [Next]_vars => Answerable'
<1> SUFFICES ASSUME IInv, Answerable, [Next]_vars PROVE Answerable'
  OBVIOUS
<1>1. CASE UNCHANGED vars
  <2>1. /\ UNCHANGED <<disk, core, lock, stray, driver, desk, session, history>>
    BY <1>1 DEF vars
  <2>2. Onward /\ stray' \subseteq stray
    BY <2>1 DEF Onward
  <2> QED BY <2>1, <2>2, OnwardAnswerable
<1>2. CASE Requests
  BY <1>2, ReserveAnswerable, AskInterruptAnswerable, InputAnswerable, AskCloseAnswerable
     DEF Requests
<1>3. CASE Serve
  <2>1. CASE Take \/ CommandLands \/ ResultLands \/ InputRefused \/ Raise \/ Answer
    BY <2>1, TakeAnswerable, CommandLandsAnswerable, ResultLandsAnswerable,
       InputRefusedAnswerable, RaiseAnswerable, AnswerAnswerable
  <2>2. CASE \/ ApplyInterrupt \/ InterruptLands \/ InterruptRefused \/ CloseReceipts
             \/ InputLands \/ InputFails \/ StrayLands \/ Shut \/ Recovered
    BY <2>2, ApplyInterruptAnswerable, InterruptLandsAnswerable, InterruptRefusedAnswerable,
       CloseReceiptsAnswerable, InputLandsAnswerable, InputFailsAnswerable,
       StrayLandsAnswerable, ShutAnswerable, RecoveredAnswerable
  <2> QED BY <1>3, <2>1, <2>2, DriverAnswerable, TasksAnswerable DEF Serve
<1> QED BY <1>1, <1>2, <1>3, FaultsAnswerable DEF Next

\* A session closed over an idle core has answered every command that the core
\* took, whatever the cancellations, the inputs that land late and the writes
\* that fail, except those whose call or answer failed.
THEOREM AnsweredAtCloseHolds == Spec => []AnsweredAtClose
<1>1. IInv /\ Answerable => AnsweredAtClose
  <2> SUFFICES ASSUME IInv, Answerable, session.mode = "closed", disk.core.pending = {},
                      ~disk.gap, NEW c \in history.taken \ history.failed
               PROVE  disk.receipt[c] # "reserved"
    BY DEF AnsweredAtClose
  <2>1. c \in Commands /\ c # None
    BY CommandsTyped
  <2>2. disk.core.turn # c /\ lock.holder # "receipts"
    BY <2>1, Parts DEF Turns, Whole, Posts
  <2> QED BY <2>2, Parts DEF Covered, Owes
<1> QED BY <1>1, Initially, Stepwise, FirstAnswerable, StepAnswerable, PTL DEF Spec

-----------------------------------------------------------------------------
(* Who can go on.                                                          *)

\* Facts that keep a wait from being in vain: a driver waits for tasks it has,
\* settles only tasks it has cancelled, and reserves when there is work.
Manned ==
  /\ driver.pc = "idle" => driver = NoDriver
  /\ lock.holder = "nobody" => Free
  /\ driver.pc = "reserved" => News(core) # {{}}
  /\ driver.pc = "wait" => InFlight # {}
  /\ driver.pc = "settling" => \A a \in Actions : task[a].pc \in {"none", "cancelled"}

LEMMA MannedParts ==
  ASSUME Manned
  PROVE  /\ driver.pc = "idle" => driver = NoDriver
         /\ lock.holder = "nobody" => Free
         /\ driver.pc = "reserved" => News(core) # {{}}
         /\ driver.pc = "wait" => InFlight # {}
         /\ driver.pc = "settling" => \A a \in Actions : task[a].pc \in {"none", "cancelled"}
BY DEF Manned

LEMMA LockNames ==
  /\ Unlocked = Held("nobody") /\ Unlocked.holder = "nobody"
  /\ \A by : Held(by).holder = by
BY ConstantsTyped

\* A step after which the driver neither waits, nor settles, nor has reserved.
LEMMA BusyManned ==
  ASSUME driver' = NoDriver \/ driver'.pc \in {"writing", "drive", "abandon", "reap", "answer", "failing"},
         lock' = Unlocked \/ lock'.holder # "nobody" \/ (Manned /\ UNCHANGED lock)
  PROVE  Manned'
<1>1. driver' = NoDriver => driver'.pc = "idle"
  BY DEF NoDriver
<1>2. lock'.holder = "nobody" => Free'
  BY DEF Manned, Free
<1> QED BY <1>1, <1>2 DEF Manned

\* A step that leaves the driver, the lock and the tasks alone.
LEMMA IdleManned ==
  ASSUME Manned, UNCHANGED <<driver, task>>, driver.pc = "reserved" => UNCHANGED core,
         lock' = Unlocked \/ lock'.holder # "nobody" \/ UNCHANGED lock
  PROVE  Manned'
<1>1. InFlight' = InFlight
  BY DEF InFlight
<1>2. driver.pc = "reserved" => News(core)' = News(core)
  BY DEF News
<1>3. lock'.holder = "nobody" => Free'
  BY DEF Manned, Free
<1> QED BY <1>1, <1>2, <1>3 DEF Manned

LEMMA CancelManned ==
  ASSUME IInv, Manned, CancelDriver, UNCHANGED <<core, task>>
  PROVE  Manned'
<1>0. driver \in Drivers
  BY Shapes
<1>1. CASE driver.pc \in {"idle", "failing", "settling"}
  <2>1. UNCHANGED <<driver, lock>>
    BY <1>1 DEF CancelDriver
  <2> QED BY <2>1, IdleManned
<1>2. CASE driver.pc = "reserved"
  <2>1. driver' = NoDriver /\ lock' = Unlocked
    BY <1>2 DEF CancelDriver
  <2> QED BY <2>1, BusyManned
<1>3. CASE driver.pc \notin {"idle", "failing", "settling", "reserved"}
  <2>1. /\ driver' = [driver EXCEPT !.pc = "failing", !.why = "cancelled", !.action = None]
        /\ lock' \in {lock, Unlocked}
    BY <1>3 DEF CancelDriver
  <2>2. driver'.pc = "failing"
    BY <1>0, <2>1 DEF Drivers
  <2> QED BY <2>1, <2>2, BusyManned
<1> QED BY <1>1, <1>2, <1>3

LEMMA RequestsManned ==
  ASSUME IInv, Manned, Requests
  PROVE  Manned'
<1>1. CASE \E c \in Commands : Reserve(c)
  <2>1. PICK c \in Commands : Reserve(c)
    BY <1>1
  <2>2. /\ News(core) # {{}} /\ lock' = Held("command") /\ UNCHANGED core
        /\ driver' = [NoDriver EXCEPT !.pc = "reserved", !.command = c,
                        !.recovering = disk.receipt[c] = "reserved"]
    BY <2>1 DEF Reserve, memory
  <2>3. driver'.pc = "reserved" /\ lock'.holder # "nobody"
    BY <2>2, LockNames DEF NoDriver
  <2>4. News(core)' = News(core)
    BY <2>2 DEF News
  <2> QED BY <2>2, <2>3, <2>4 DEF Manned
<1>2. CASE AskInterrupt \/ AskClose
  BY <1>2, CancelManned DEF AskInterrupt, AskClose
<1>3. CASE Input
  <2>1. Free /\ Apply("input", Noted(core)) /\ UNCHANGED <<driver, task>>
    BY <1>3 DEF Input
  <2>2. lock'.holder = "input" /\ driver.pc # "reserved"
    BY <2>1, LockNames, Shapes DEF Apply, Free, Owned
  <2> QED BY <2>1, <2>2, IdleManned
<1> QED BY <1>1, <1>2, <1>3 DEF Requests

LEMMA FaultsManned ==
  ASSUME IInv, Manned, Faults
  PROVE  Manned'
<1>1. CASE StrayLost
  BY <1>1, IdleManned DEF StrayLost
<1>2. CASE Crash
  BY <1>2, BusyManned DEF Crash, Gone
<1>3. CASE Restore
  <2>1. lock' = Unlocked /\ driver' = [NoDriver EXCEPT !.pc = "drive", !.recovering = TRUE,
                                                      !.step = disk.step]
    BY <1>3 DEF Restore
  <2>2. driver'.pc = "drive"
    BY <2>1 DEF NoDriver
  <2> QED BY <2>1, <2>2, BusyManned
<1> QED BY <1>1, <1>2, <1>3 DEF Faults

LEMMA DriverManned ==
  ASSUME IInv, Manned,
         \/ Take \/ CommandLands \/ Start \/ Abandon \/ Reap \/ ResultLands \/ InputRefused
         \/ Settle \/ Raise \/ Answer
  PROVE  Manned'
<1>0. driver \in Drivers /\ lock \in Locks /\ task \in [Actions -> Tasks] /\ disk \in Disks
  BY Shapes
<1>1. CASE Take
  <2>1. \/ driver' = [driver EXCEPT !.pc = "drive", !.step = step] /\ lock' = Unlocked
        \/ \E after : /\ Apply("command", after)
                      /\ driver' = [driver EXCEPT !.pc = "writing", !.step = after.step]
    <3>1. CASE driver.recovering /\ step.input # 0
      BY <1>1, <3>1 DEF Take
    <3>2. CASE ~(driver.recovering /\ step.input # 0)
      <4>1. PICK after \in Begun(core, driver.command) :
              /\ Apply("command", after)
              /\ driver' = [driver EXCEPT !.pc = "writing", !.step = after.step]
        BY <1>1, <3>2, ZenonT(60) DEF Take
      <4> QED BY <4>1
    <3> QED BY <3>1, <3>2
  <2>2. /\ \E pc \in {"drive", "writing"} : \E s : driver' = [driver EXCEPT !.pc = pc, !.step = s]
        /\ lock' = Unlocked \/ lock'.holder # "nobody"
    <3>1. CASE driver' = [driver EXCEPT !.pc = "drive", !.step = step] /\ lock' = Unlocked
      BY <3>1
    <3>2. ASSUME NEW after, Apply("command", after),
                 driver' = [driver EXCEPT !.pc = "writing", !.step = after.step]
          PROVE  /\ \E pc \in {"drive", "writing"} : \E s : driver' = [driver EXCEPT !.pc = pc, !.step = s]
                 /\ lock'.holder # "nobody"
      BY <3>2 DEF Apply
    <3> QED BY <2>1, <3>1, <3>2
  <2>3. driver'.pc \in {"drive", "writing"}
    BY <1>0, <2>2 DEF Drivers
  <2> QED BY <2>2, <2>3, BusyManned
<1>2. CASE CommandLands \/ ResultLands \/ Abandon \/ Reap
  <2>1. /\ lock' \in {lock, Unlocked}
        /\ \E pc \in {"drive", "abandon", "reap"} : \E action \in Actions \cup {None} :
             driver' = [driver EXCEPT !.pc = pc, !.action = action]
    <3>1. driver = [driver EXCEPT !.action = driver.action] /\ driver.action \in Actions \cup {None}
      BY <1>0 DEF Drivers
    <3>2. CASE Abandon
      BY <3>2 DEF Abandon
    <3>3. CASE CommandLands \/ ResultLands \/ Reap
      <4>1. \E pc \in {"drive", "abandon", "reap"} : driver' = [driver EXCEPT !.pc = pc]
        BY <3>3 DEF CommandLands, ResultLands, Reap
      <4>2. \A pc : [driver EXCEPT !.pc = pc] = [driver EXCEPT !.pc = pc, !.action = driver.action]
        BY <1>0 DEF Drivers
      <4>3. lock' \in {lock, Unlocked}
        BY <3>3 DEF CommandLands, ResultLands, Reap
      <4> QED BY <3>1, <4>1, <4>2, <4>3
    <3> QED BY <1>2, <3>2, <3>3
  <2>2. driver'.pc \in {"drive", "abandon", "reap"}
    BY <1>0, <2>1 DEF Drivers
  <2> QED BY <2>1, <2>2, BusyManned
<1>3. CASE Start
  <2> DEFINE due == driver.step.start \cup (IF driver.recovering THEN driver.step.keep ELSE {})
             created == (due \cap core.pending) \ InFlight
  <2>1. /\ driver.pc = "drive" /\ UNCHANGED lock
        /\ \/ driver' = [driver EXCEPT !.pc = "failing", !.why = "error"]
           \/ /\ driver' = [driver EXCEPT !.recovering = FALSE,
                              !.pc = IF created \cup InFlight = {} THEN "answer" ELSE "wait"]
              /\ task' = [a \in Actions |->
                            IF a \in created
                            THEN [NoTask EXCEPT !.pc = "created", !.recovering = driver.recovering]
                            ELSE task[a]]
    BY <1>3 DEF Start
  <2>2. \/ driver'.pc = "failing"
        \/ /\ driver'.pc = IF created \cup InFlight = {} THEN "answer" ELSE "wait"
           /\ \A a \in Actions : task'[a].pc = IF a \in created THEN "created" ELSE task[a].pc
    BY <1>0, <2>1, ZenonT(60) DEF Drivers, NoTask
  <2>3. created \subseteq Actions /\ InFlight \subseteq Actions
    <3>1. core.pending \subseteq Actions
      BY Shapes DEF Cores, Ids
    <3> QED BY <3>1 DEF InFlight
  <2> HIDE DEF created
  <2>4. driver'.pc = "wait" => InFlight' # {}
    <3> SUFFICES ASSUME driver'.pc = "wait" PROVE InFlight' # {}
      OBVIOUS
    <3>1. PICK a \in created \cup InFlight : TRUE
      BY <2>2
    <3>2. a \in Actions /\ task'[a].pc # "none"
      BY <2>2, <2>3, <3>1 DEF InFlight
    <3> QED BY <3>2 DEF InFlight
  <2>5. lock'.holder = "nobody" => Free'
    BY <2>1 DEF Manned, Free
  <2> QED BY <2>2, <2>4, <2>5 DEF Manned
<1>4. CASE InputRefused
  <2>1. lock' = Unlocked /\ driver' = [driver EXCEPT !.pc = "failing", !.why = "error", !.action = None]
    BY <1>4 DEF InputRefused, WriteFails
  <2>2. driver'.pc = "failing"
    BY <1>0, <2>1 DEF Drivers
  <2> QED BY <2>1, <2>2, BusyManned
<1>5. CASE Settle
  <2>1. /\ Cancel(InFlight, disk) /\ driver' = [driver EXCEPT !.pc = "settling"] /\ UNCHANGED lock
    BY <1>5 DEF Settle, memory
  <2>2. driver'.pc = "settling"
    BY <1>0, <2>1 DEF Drivers
  <2>3. \A a \in Actions : task'[a] = IF a \in InFlight THEN Cancelled(task[a]) ELSE task[a]
    BY <1>0, <2>1 DEF Cancel
  <2>4. \A a \in Actions : task'[a].pc \in {"none", "cancelled"}
    BY <1>0, <2>3, CancelledFacts DEF InFlight
  <2>5. lock'.holder = "nobody" => Free'
    BY <2>1 DEF Manned, Free
  <2> QED BY <2>2, <2>4, <2>5 DEF Manned
<1>6. CASE Raise
  BY <1>6, BusyManned DEF Raise, Gone
<1>7. CASE Answer
  <2>1. UNCHANGED lock
        /\ (driver' = NoDriver \/ driver' = [driver EXCEPT !.pc = "failing", !.why = "error"])
    BY <1>7 DEF Answer
  <2>2. driver' = NoDriver \/ driver'.pc = "failing"
    BY <1>0, <2>1 DEF Drivers
  <2> QED BY <2>1, <2>2, BusyManned
<1> QED BY <1>1, <1>2, <1>3, <1>4, <1>5, <1>6, <1>7

LEMMA DeliverManned ==
  ASSUME IInv, Manned, NEW a \in Actions, Deliver(a)
  PROVE  Manned'
<1>0. driver \in Drivers
  BY Shapes
<1>1. CASE a \in core.pending
  <2>1. PICK after :
          /\ Apply("result", after)
          /\ driver' = [driver EXCEPT !.pc = "writing", !.step = after.step, !.action = a]
    BY <1>1 DEF Deliver
  <2>2. \E s : driver' = [driver EXCEPT !.pc = "writing", !.step = s, !.action = a]
    BY <2>1
  <2>3. driver'.pc = "writing"
    BY <1>0, <2>2 DEF Drivers
  <2>4. lock'.holder # "nobody"
    BY <2>1 DEF Apply
  <2> QED BY <2>3, <2>4, BusyManned
<1>2. CASE a \notin core.pending
  <2>1. driver' = [driver EXCEPT !.pc = "drive"] /\ UNCHANGED lock
    BY <1>2 DEF Deliver
  <2>2. driver'.pc = "drive"
    BY <1>0, <2>1 DEF Drivers
  <2> QED BY <2>1, <2>2, BusyManned
<1> QED BY <1>1, <1>2

\* A step of one task, which ends it only if it was cancelled.
LEMMA TaskManned ==
  ASSUME IInv, Manned, NEW a \in Actions, UNCHANGED <<driver, lock, core>>,
         \A b \in Actions \ {a} : task'[b] = task[b],
         \/ task[a].pc \in {"created", "run", "record"} /\ task'[a].pc # "none"
         \/ task[a].pc = "cancelled" /\ task'[a].pc = "none"
  PROVE  Manned'
<1>1. driver.pc = "wait" => InFlight' # {}
  <2> SUFFICES ASSUME driver.pc = "wait" PROVE InFlight' # {}
    OBVIOUS
  <2>1. \A b \in Actions : task[b].pc # "cancelled"
    BY DEF IInv, Safe, Employed
  <2>2. PICK b \in Actions : task[b].pc # "none"
    BY MannedParts DEF InFlight
  <2>3. task'[b].pc # "none"
    BY <2>1, <2>2
  <2> QED BY <2>3 DEF InFlight
<1>2. driver.pc = "settling" => \A b \in Actions : task'[b].pc \in {"none", "cancelled"}
  BY MannedParts
<1>3. News(core)' = News(core)
  BY DEF News
<1>4. lock'.holder = "nobody" => Free'
  BY DEF Manned, Free
<1> QED BY <1>1, <1>2, <1>3, <1>4 DEF Manned

LEMMA TasksManned ==
  ASSUME IInv, Manned, NEW a \in Actions,
         \/ Resolve(a) \/ Perform(a) \/ Record(a) \/ RecordCancelled(a)
         \/ Deliver(a) \/ DeliverRaised(a)
  PROVE  Manned'
<1>0. driver \in Drivers /\ task \in [Actions -> Tasks]
  BY Shapes
<1>1. CASE Deliver(a)
  BY <1>1, DeliverManned
<1>2. CASE DeliverRaised(a)
  <2>1. driver' = [driver EXCEPT !.pc = "failing", !.why = "error"] /\ UNCHANGED lock
    BY <1>2 DEF DeliverRaised
  <2>2. driver'.pc = "failing"
    BY <1>0, <2>1 DEF Drivers
  <2> QED BY <2>1, <2>2, BusyManned
<1>3. CASE RecordCancelled(a)
  <2>1. /\ task[a].pc = "cancelled" /\ task' = [task EXCEPT ![a] = NoTask]
        /\ UNCHANGED <<driver, lock, core>>
    BY <1>3 DEF RecordCancelled, Quiet
  <2>2. task'[a].pc = "none" /\ \A b \in Actions \ {a} : task'[b] = task[b]
    BY <1>0, <2>1 DEF NoTask
  <2> QED BY <2>1, <2>2, TaskManned
<1>4. CASE Resolve(a) \/ Perform(a) \/ Record(a)
  <2>1. /\ task[a].pc \in {"created", "run", "record"} /\ UNCHANGED <<driver, lock, core>>
        /\ \E t \in Tasks : t.pc # "none" /\ task' = [task EXCEPT ![a] = t]
    <3>1. task[a] \in Tasks
      BY <1>0
    <3>2. CASE Resolve(a)
      <4>1. \/ task' = [task EXCEPT ![a].pc = "done", ![a].outcome = disk.result[a]]
               /\ disk.result[a] # "none"
            \/ task' = [task EXCEPT ![a].pc = "run", ![a].recovering = FALSE]
            \/ task' = [task EXCEPT ![a].pc = "raised"]
            \/ task' = [task EXCEPT ![a].pc = "run"]
        BY <3>2 DEF Resolve
      <4>2. disk.result[a] \in Outcomes \cup {"none"}
        BY Shapes DEF Disks
      <4>3. /\ [task[a] EXCEPT !.pc = "done", !.outcome = disk.result[a]] \in Tasks
            /\ [task[a] EXCEPT !.pc = "done", !.outcome = disk.result[a]].pc = "done"
            /\ [task[a] EXCEPT !.pc = "run", !.recovering = FALSE] \in Tasks
            /\ [task[a] EXCEPT !.pc = "run", !.recovering = FALSE].pc = "run"
            /\ [task[a] EXCEPT !.pc = "raised"] \in Tasks
            /\ [task[a] EXCEPT !.pc = "raised"].pc = "raised"
            /\ [task[a] EXCEPT !.pc = "run"] \in Tasks
            /\ [task[a] EXCEPT !.pc = "run"].pc = "run"
        BY <3>1, <4>2 DEF Tasks
      <4> QED BY <1>0, <3>2, <4>1, <4>3 DEF Resolve, Quiet
    <3>3. CASE Perform(a)
      <4>1. PICK outcome \in Outcomes : task' = [task EXCEPT ![a].pc = "record", ![a].outcome = outcome]
        BY <3>3 DEF Perform, Outcomes
      <4>2. /\ [task[a] EXCEPT !.pc = "record", !.outcome = outcome] \in Tasks
            /\ [task[a] EXCEPT !.pc = "record", !.outcome = outcome].pc = "record"
        BY <3>1 DEF Tasks
      <4> QED BY <1>0, <3>3, <4>1, <4>2 DEF Perform, Quiet
    <3>4. CASE Record(a)
      <4>1. \/ task' = [task EXCEPT ![a].pc = "done"]
            \/ task' = [task EXCEPT ![a].pc = "raised"]
        BY <3>4 DEF Record
      <4>2. /\ [task[a] EXCEPT !.pc = "done"] \in Tasks
            /\ [task[a] EXCEPT !.pc = "done"].pc = "done"
            /\ [task[a] EXCEPT !.pc = "raised"] \in Tasks
            /\ [task[a] EXCEPT !.pc = "raised"].pc = "raised"
        BY <3>1 DEF Tasks
      <4> QED BY <1>0, <3>4, <4>1, <4>2 DEF Record, Quiet
    <3> QED BY <1>4, <3>2, <3>3, <3>4
  <2>2. task'[a].pc # "none" /\ \A b \in Actions \ {a} : task'[b] = task[b]
    BY <1>0, <2>1
  <2> QED BY <2>1, <2>2, TaskManned
<1> QED BY <1>1, <1>2, <1>3, <1>4

LEMMA OthersManned ==
  ASSUME IInv, Answerable, Manned,
         \/ ApplyInterrupt \/ InterruptLands \/ InterruptRefused \/ CloseReceipts
         \/ InputLands \/ InputFails \/ StrayLands \/ Shut \/ Recovered
  PROVE  Manned'
<1>1. CASE ApplyInterrupt
  <2>1. /\ driver = NoDriver /\ UNCHANGED <<driver, task>>
        /\ Apply("interrupt", Interrupted(core)) \/ UNCHANGED lock
    BY <1>1 DEF ApplyInterrupt
  <2>2. driver.pc # "reserved" /\ (lock'.holder # "nobody" \/ UNCHANGED lock)
    BY <2>1 DEF NoDriver, Apply
  <2> QED BY <2>1, <2>2, IdleManned
<1>2. CASE InterruptLands \/ CloseReceipts \/ InputLands \/ StrayLands
  <2>1. UNCHANGED <<driver, task, core>>
    BY <1>2 DEF InterruptLands, CloseReceipts, InputLands, StrayLands, memory
  <2>2. lock' = Unlocked \/ lock'.holder # "nobody" \/ UNCHANGED lock
    BY <1>2, LockNames DEF InterruptLands, CloseReceipts, InputLands, StrayLands
  <2> QED BY <2>1, <2>2, IdleManned
<1>3. CASE InterruptRefused \/ InputFails
  <2>1. /\ UNCHANGED <<driver, task>> /\ lock' = Unlocked /\ lock.holder \in {"interrupt", "input"}
    BY <1>3 DEF InterruptRefused, InputFails, WriteFails
  <2>2. driver.pc # "reserved"
    BY <2>1, Shapes DEF Owned
  <2> QED BY <2>1, <2>2, IdleManned
<1>4. CASE Shut
  <2>1. UNCHANGED <<driver, task, core, lock>>
    BY <1>4 DEF Shut
  <2> QED BY <2>1, IdleManned
<1>5. CASE Recovered
  <2>1. driver' = NoDriver /\ UNCHANGED lock
    BY <1>5 DEF Recovered
  <2> QED BY <2>1, BusyManned
<1> QED BY <1>1, <1>2, <1>3, <1>4, <1>5

LEMMA FirstManned == Init => Manned
<1> SUFFICES ASSUME Init PROVE Manned
  OBVIOUS
<1>1. driver = NoDriver /\ driver.pc = "idle" /\ Free
  BY DEF Init, NoDriver, Free
<1> QED BY <1>1 DEF Manned

LEMMA StepManned == IInv /\ Answerable /\ Manned /\ [Next]_vars => Manned'
<1> SUFFICES ASSUME IInv, Answerable, Manned, [Next]_vars PROVE Manned'
  OBVIOUS
<1>1. CASE UNCHANGED vars
  <2>1. UNCHANGED <<driver, task, core, lock>>
    BY <1>1 DEF vars
  <2> QED BY <2>1, IdleManned
<1>2. CASE Serve
  BY <1>2, DriverManned, TasksManned, OthersManned DEF Serve
<1> QED BY <1>1, <1>2, RequestsManned, FaultsManned DEF Next

\* The core may always take up nothing new, and then only nothing is all there is.
LEMMA SomeNews ==
  ASSUME NEW c
  PROVE  {} \in News(c)
BY FS_EmptySet DEF News

\* The holder of the lock is about to take its next step.
LEMMA HolderCanAct ==
  ASSUME IInv, Manned, ~Free
  PROVE  HolderActs
<1>1. lock.holder \in {"command", "result", "interrupt", "receipts", "input"}
  BY MannedParts, Shapes DEF Locks
<1>2. lock.holder = "result" => driver.pc = "writing"
  BY DEF IInv, Safe, GivenUp
<1>3. CASE lock.holder = "command" /\ driver.pc = "reserved"
  <2>1. PICK new \in News(core) \ {{}} : TRUE
    BY <1>3, MannedParts, SomeNews
  <2>2. After(core, driver.command, {}, new, core.heard) \in Begun(core, driver.command)
    BY <2>1 DEF Begun
  <2>3. Begun(core, driver.command) # {}
    BY <2>2
  <2> QED BY <1>3, <2>3 DEF HolderActs
<1>4. lock.holder = "command" => driver.pc \in {"reserved", "writing"}
  BY Shapes DEF Owned
<1> QED BY <1>1, <1>2, <1>3, <1>4 DEF HolderActs

\* A driver can go on, or somebody it waits for can.
LEMMA DriverCanGoOn ==
  ASSUME IInv, Posts, Manned, driver # NoDriver
  PROVE  HolderActs \/ DriverActs \/ \E a \in Actions : TaskActs(a)
<1> SUFFICES ASSUME Free
             PROVE  DriverActs \/ \E a \in Actions : TaskActs(a)
  BY HolderCanAct
<1>0. driver.pc \in Phases \ {"idle", "reserved", "writing"}
  <2>1. Unlocked.holder = "nobody"
    BY LockNames
  <2>2. driver.pc \notin {"reserved", "writing"}
    BY <2>1, Shapes DEF Owned, Free
  <2>3. driver.pc \in Phases
    BY Shapes DEF Drivers
  <2> QED BY <2>2, <2>3, MannedParts
<1>1. \A a \in Actions : task[a].pc \in {"none", "created", "run", "record", "done", "raised", "cancelled"}
  BY Shapes DEF Tasks
<1>2. CASE driver.pc \in {"drive", "abandon"}
  BY <1>2 DEF DriverActs
<1>7. CASE driver.pc = "failing"
  BY <1>7 DEF DriverActs, Cancelling, TaskActs, CancelledAgain
<1>3. CASE driver.pc = "reap"
  BY <1>3 DEF DriverActs, Cancelling, TaskActs
<1>4. CASE driver.pc = "settling"
  BY <1>4, MannedParts DEF DriverActs, InFlight, TaskActs
<1>5. CASE driver.pc = "answer"
  BY <1>5 DEF DriverActs, Posts
<1>6. CASE driver.pc = "wait"
  <2>1. PICK a \in Actions : task[a].pc # "none"
    BY <1>6, MannedParts DEF InFlight
  <2>2. \A outcome : After(core, core.turn, {}, {}, [core.heard EXCEPT ![a] = outcome])
                       \in Heard(core, a, outcome)
    BY SomeNews DEF Heard
  <2>3. Heard(core, a, task[a].outcome) # {}
    BY <2>2
  <2>4. task[a].pc # "cancelled"
    BY <1>6 DEF IInv, Safe, Employed
  <2>5. TaskActs(a)
    BY <1>1, <1>6, <2>1, <2>3, <2>4 DEF TaskActs
  <2> QED BY <2>5
<1> QED BY <1>0, <1>2, <1>3, <1>4, <1>5, <1>6, <1>7 DEF Phases

\* Whoever waits for the lock, for a task or for the driver, waits for somebody
\* who can take the next step, whatever fails, is cancelled or is interrupted.
THEOREM WaitsEndHolds == Spec => []WaitsEnd
<1>1. IInv /\ Answerable /\ Manned => WaitsEnd
  <2> SUFFICES ASSUME IInv, Answerable, Manned PROVE WaitsEnd
    OBVIOUS
  <2>1. Posts
    BY Parts
  <2> QED BY <2>1, HolderCanAct, DriverCanGoOn DEF WaitsEnd
<1> QED BY <1>1, Initially, Stepwise, FirstAnswerable, StepAnswerable, FirstManned, StepManned,
           PTL DEF Spec
=============================================================================
