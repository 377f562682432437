------------------------- MODULE DurableSessionProofs -------------------------
(***************************************************************************)
(* Proof that no effect which must not be repeated is performed twice, for  *)
(* any actions, commands, restarts, interruptions and failed writes.        *)
(*                                                                         *)
(* An action runs anew only under a task that is not recovering and finds   *)
(* no stored intent.  So the argument is about ids: an action with an       *)
(* intent or a task is one the core has issued (Issued), in memory and in   *)
(* the journal, so it is not issued again, whichever of the two the core is *)
(* rebuilt from; and what a driver still means to start has no intent       *)
(* (Startable).                                                             *)
(***************************************************************************)
EXTENDS DurableSession, TLAPS

Ids == SUBSET Actions
Cores == [last : Int, turn : Commands \cup {None}, pending : Ids, used : Ids,
          heard : [Actions -> {"none"} \cup Outcomes]]
Steps == [input : Int, start : Ids, keep : Ids]
Tasks == [pc : {"none", "created", "run", "record", "done", "raised", "cancelled"},
          recovering : BOOLEAN, outcome : {"none"} \cup Outcomes]

Disks == [core : Cores, step : Steps, gap : BOOLEAN, intent : Ids,
          result : [Actions -> {"none"} \cup Outcomes],
          receipt : [Commands -> {"none", "reserved", "succeeded", "failed"}]]
Phases == {"idle", "reserved", "writing", "drive", "wait", "abandon", "reap",
           "answer", "failing", "settling"}
Drivers == [pc : Phases,
            command : Commands \cup {None}, recovering : BOOLEAN, step : Steps,
            action : Actions \cup {None}, why : {"none", "error", "cancelled"}]

Locks == [holder : {"nobody", "command", "result", "interrupt", "receipts", "input"},
          base : [core : Cores, step : Steps]]
Strays == [base : Cores, core : Cores, step : Steps, taken : SUBSET Commands]
Desks == [owed : SUBSET Commands, cancelled : SUBSET Commands]
Sessions == [mode : {"up", "recovering", "closing", "closed", "down"}, interrupt : BOOLEAN]
Spendings == [restarts : Int, inputs : Int, interrupts : Int, faults : Int]
Histories == [performed : [Actions -> Int], taken : SUBSET Commands,
              failed : SUBSET Commands, adrift : BOOLEAN]

TypeOK ==
  /\ disk \in Disks /\ core \in Cores /\ step \in Steps /\ lock \in Locks
  /\ stray \subseteq Strays /\ driver \in Drivers /\ task \in [Actions -> Tasks]
  /\ desk \in Desks /\ session \in Sessions /\ spent \in Spendings
  /\ history \in Histories

-----------------------------------------------------------------------------
(* The inductive invariant.                                                *)

Running == session.mode \in {"up", "recovering"} /\ ~session.interrupt

\* Who may do what: the driver and the lock agree on what is being written.
Owned ==
  /\ driver.pc = "reserved" => lock.holder = "command"
  /\ driver.pc = "writing" => lock.holder \in {"command", "result"}
  /\ lock.holder = "command" => driver.pc \in {"reserved", "writing"} /\ driver.command # None
  /\ driver.pc \notin {"idle", "failing", "settling"} => Running
  /\ lock.holder \in {"interrupt", "receipts"} => driver.pc = "idle" /\ core.pending = {}

\* Tasks belong to a driver that has started them.
Employed ==
  /\ driver.pc \in {"idle", "reserved", "answer"} \/ lock.holder = "command"
       \/ driver.recovering => InFlight = {}
  /\ \A a \in Actions : task[a].pc = "cancelled" => driver.pc \in {"reap", "failing", "settling"}
  /\ session.mode = "down" => InFlight = {}

\* A core waits only for what it issued; without a turn for nothing.
Sound(c) == c.pending \subseteq c.used /\ (c.turn = None => c.pending = {})

\* What a later core may have changed.
Follows(c, base) == base.used \subseteq c.used /\ c.pending \cap base.used \subseteq base.pending

Cored ==
  /\ Sound(core) /\ Sound(disk.core) /\ Follows(core, lock.base.core)
  /\ \A s \in stray : Sound(s.core) /\ Follows(s.core, s.base)

\* Every action with an intent or a task was issued, and is known to have been.
Issued ==
  /\ session.mode # "down" => InFlight \cup disk.intent \subseteq core.used
  /\ ~disk.gap => InFlight \cup disk.intent \subseteq disk.core.used

\* How memory and journal may differ while a driver can start something.
Agreed ==
  ~disk.gap /\ Running /\ driver.pc # "writing" =>
    /\ core.pending \subseteq disk.core.used
    /\ core.pending # {} \/ InFlight # {} =>
         /\ core.used \subseteq disk.core.used
         /\ disk.core.pending \cap core.used \subseteq core.pending

\* What the core waits for, or would if it were rebuilt.
Awaited == core.pending \cup (IF disk.gap THEN {} ELSE disk.core.pending)

\* The result being given to the core is of an action it no longer awaits.
GivenUp ==
  /\ lock.holder = "result" \/ driver.pc = "abandon" =>
       /\ driver.action \in Actions /\ driver.action \notin core.pending
       /\ task[driver.action].pc = "done"
  /\ lock.holder = "result" => driver.pc = "writing"
  /\ driver.pc = "abandon" => driver.action \notin Awaited
  /\ driver.pc = "reap" => \A a \in Actions : task[a].pc = "cancelled" => a \notin Awaited

\* What a driver may still start anew has no intent.
Startable ==
  /\ driver.pc = "writing" => driver.step.start \cap disk.intent = {}
  /\ driver.pc \in {"abandon", "reap", "drive", "wait"} /\ ~driver.recovering =>
       \A a \in driver.step.start \cap Awaited : a \in InFlight \/ a \notin disk.intent

\* Once at most, and never before the intent.
Performed ==
  /\ \A a \in Actions : history.performed[a] > 0 => a \in disk.intent
  /\ \A a \in Actions :
       /\ task[a].pc \in {"run", "cancelled"} => a \in disk.intent
       /\ task[a].pc = "created" /\ ~task[a].recovering => a \notin disk.intent
       /\ a \notin Retryable /\ task[a].pc \in {"run", "cancelled"} /\ ~task[a].recovering
            => history.performed[a] = 0
       /\ history.performed[a] >= 0
  /\ EffectOnce

Safe == /\ Owned /\ Employed /\ Cored /\ Issued /\ Agreed
        /\ GivenUp /\ Startable /\ Performed
IInv == TypeOK /\ Safe

-----------------------------------------------------------------------------
(* Types.                                                                  *)

LEMMA ConstantsTyped ==
  /\ Fresh \in Cores /\ NoStep \in Steps /\ NoDriver \in Drivers /\ NoTask \in Tasks
  /\ \A by : Held(by).holder = by /\ Held(by).base = [core |-> Fresh, step |-> NoStep]
  /\ Unlocked = Held("nobody")
BY DEF Fresh, Cores, NoStep, Steps, NoDriver, Drivers, Phases, NoTask, Tasks, Held, Unlocked,
       Ids, Outcomes

LEMMA AfterTyped ==
  ASSUME NEW c \in Cores, NEW turn \in Commands \cup {None}, NEW kept \in Ids,
         NEW new \in Ids, NEW heard \in [Actions -> {"none"} \cup Outcomes]
  PROVE  LET after == After(c, turn, kept, new, heard)
         IN  /\ after.core \in Cores /\ after.step \in Steps
             /\ after.core.pending = kept \cup new /\ after.core.used = c.used \cup new
             /\ after.core.turn = None => kept \cup new = {} \/ turn = None
             /\ kept \cup new = {} => after.core.turn = None
             /\ after.step.start = new /\ after.step.keep = kept
BY DEF After, Cores, Steps, Ids, Outcomes

\* A driver that goes on.
LEMMA DriverTyped ==
  ASSUME NEW d \in Drivers
  PROVE  /\ [d EXCEPT !.pc = "drive"] \in Drivers
         /\ [d EXCEPT !.pc = "abandon"] \in Drivers
         /\ [d EXCEPT !.pc = "settling"] \in Drivers
         /\ [d EXCEPT !.pc = "reap", !.action = None] \in Drivers
         /\ [d EXCEPT !.pc = "failing", !.why = "error"] \in Drivers
         /\ [d EXCEPT !.pc = "failing", !.why = "error", !.action = None] \in Drivers
         /\ [d EXCEPT !.pc = "failing", !.why = "cancelled", !.action = None] \in Drivers
         /\ [d EXCEPT !.recovering = FALSE, !.pc = "answer"] \in Drivers
         /\ [d EXCEPT !.recovering = FALSE, !.pc = "wait"] \in Drivers
         /\ \A s \in Steps : [d EXCEPT !.pc = "drive", !.step = s] \in Drivers
         /\ \A s \in Steps : [d EXCEPT !.pc = "writing", !.step = s] \in Drivers
         /\ \A s \in Steps, a \in Actions : [d EXCEPT !.pc = "writing", !.step = s, !.action = a] \in Drivers
         /\ \A s \in Steps : [d EXCEPT !.pc = "drive", !.recovering = TRUE, !.step = s] \in Drivers
         /\ \A c \in Commands, r \in BOOLEAN : [d EXCEPT !.pc = "reserved", !.command = c, !.recovering = r] \in Drivers
<1>1. [d EXCEPT !.pc = "drive"] \in Drivers
  BY DEF Drivers, Phases
<1>2. [d EXCEPT !.pc = "abandon"] \in Drivers
  BY DEF Drivers, Phases
<1>3. [d EXCEPT !.pc = "settling"] \in Drivers
  BY DEF Drivers, Phases
<1>4. [d EXCEPT !.pc = "reap", !.action = None] \in Drivers
  BY DEF Drivers, Phases
<1>5. [d EXCEPT !.pc = "failing", !.why = "error"] \in Drivers
  BY DEF Drivers, Phases
<1>6. [d EXCEPT !.pc = "failing", !.why = "error", !.action = None] \in Drivers
  BY DEF Drivers, Phases
<1>7. [d EXCEPT !.pc = "failing", !.why = "cancelled", !.action = None] \in Drivers
  BY DEF Drivers, Phases
<1>8. [d EXCEPT !.recovering = FALSE, !.pc = "answer"] \in Drivers
  BY DEF Drivers, Phases
<1>9. [d EXCEPT !.recovering = FALSE, !.pc = "wait"] \in Drivers
  BY DEF Drivers, Phases
<1>10. \A s \in Steps : [d EXCEPT !.pc = "drive", !.step = s] \in Drivers
  BY DEF Drivers, Phases
<1>11. \A s \in Steps : [d EXCEPT !.pc = "writing", !.step = s] \in Drivers
  BY DEF Drivers, Phases
<1>12. \A s \in Steps, a \in Actions : [d EXCEPT !.pc = "writing", !.step = s, !.action = a] \in Drivers
  BY DEF Drivers, Phases
<1>13. \A s \in Steps : [d EXCEPT !.pc = "drive", !.recovering = TRUE, !.step = s] \in Drivers
  BY DEF Drivers, Phases
<1>14. \A c \in Commands, r \in BOOLEAN : [d EXCEPT !.pc = "reserved", !.command = c, !.recovering = r] \in Drivers
  BY DEF Drivers, Phases
<1> QED BY <1>1, <1>2, <1>3, <1>4, <1>5, <1>6, <1>7, <1>8, <1>9, <1>10, <1>11, <1>12, <1>13, <1>14

\* What an input may do to a core: it issues new ids and gives up old ones.
Grown(after, c) ==
  /\ after.core \in Cores /\ after.step \in Steps
  /\ Sound(after.core) /\ Follows(after.core, c)
  /\ after.step.start \cap c.used = {}

LEMMA BegunGrows ==
  ASSUME NEW c \in Cores, Sound(c), NEW command \in Commands,
         NEW after \in Begun(c, command)
  PROVE  Grown(after, c)
<1>1. PICK new \in News(c) \ {{}} : after = After(c, command, {}, new, c.heard)
  BY DEF Begun
<1>2. new \in Ids /\ new \cap c.used = {} /\ {} \in Ids
  BY DEF News, Ids
<1>3. c.heard \in [Actions -> {"none"} \cup Outcomes] /\ c.used \in Ids
  BY DEF Cores
<1>4. command # None
  BY NamesAssumption
<1> QED BY <1>1, <1>2, <1>3, <1>4, AfterTyped DEF Grown, Sound, Follows

LEMMA HeardGrows ==
  ASSUME NEW c \in Cores, Sound(c), NEW a \in c.pending, NEW outcome \in {"none"} \cup Outcomes,
         NEW after \in Heard(c, a, outcome)
  PROVE  Grown(after, c) /\ a \notin after.core.pending
<1> DEFINE heard == [c.heard EXCEPT ![a] = outcome]
<1>1. PICK kept \in {{}, c.pending \ {a}}, new \in News(c) :
         after = After(c, c.turn, kept, new, heard)
  BY DEF Heard
<1>2. c.used \in Ids /\ c.pending \in Ids /\ c.turn \in Commands \cup {None}
      /\ heard \in [Actions -> {"none"} \cup Outcomes]
  BY DEF Cores, Ids
<1>3. new \in Ids /\ new \cap c.used = {} /\ kept \in Ids /\ kept \subseteq c.pending \ {a}
  BY <1>2 DEF News, Ids
<1>4. c.turn # None /\ a \in c.used
  BY DEF Sound
<1> HIDE DEF heard
<1> QED BY <1>1, <1>2, <1>3, <1>4, AfterTyped, SMTT(30) DEF Grown, Sound, Follows

LEMMA NotedGrows ==
  ASSUME NEW c \in Cores, Sound(c)
  PROVE  Grown(Noted(c), c) /\ Noted(c).core.pending = c.pending
         /\ Noted(c).core.used = c.used
<1> DEFINE no == {}
           after == After(c, c.turn, c.pending, no, c.heard)
<1>1. no = {} /\ Noted(c) = after
  BY DEF Noted
<1>2. c.pending \in Ids /\ no \in Ids /\ c.turn \in Commands \cup {None}
      /\ c.heard \in [Actions -> {"none"} \cup Outcomes]
  BY DEF Cores, Ids
<1> HIDE DEF no
<1>3. /\ after.core \in Cores /\ after.step \in Steps
      /\ after.core.pending = c.pending \cup no /\ after.core.used = c.used \cup no
      /\ after.core.turn = None => c.pending \cup no = {} \/ c.turn = None
      /\ after.step.start = no
  BY <1>2, AfterTyped
<1> HIDE DEF after
<1>4. after.core.pending = c.pending /\ after.core.used = c.used
  BY <1>1, <1>3
<1> QED BY <1>1, <1>3, <1>4 DEF Grown, Sound, Follows

LEMMA InterruptedGrows ==
  ASSUME NEW c \in Cores
  PROVE  Grown(Interrupted(c), c) /\ Interrupted(c).core.pending = {}
<1>1. {} \in Ids /\ None \in Commands \cup {None}
      /\ c.heard \in [Actions -> {"none"} \cup Outcomes]
  BY DEF Cores, Ids
<1> QED BY <1>1, AfterTyped DEF Interrupted, Grown, Sound, Follows

LEMMA RecordedFacts ==
  ASSUME NEW d \in Disks, NEW base, NEW c \in Cores, NEW s \in Steps
  PROVE  LET e == Recorded(d, base, c, s)
         IN  /\ e \in Disks /\ e.intent = d.intent /\ e.core \in {c, d.core}
             /\ ~e.gap => ~d.gap /\ base = d.core /\ e.core = c
BY DEF Recorded, Disks

LEMMA ReceiptsFacts ==
  ASSUME NEW d \in Disks, NEW these, NEW state \in {"succeeded", "failed"}
  PROVE  LET e == Receipts(d, these, state)
         IN  e \in Disks /\ e.intent = d.intent /\ e.core = d.core /\ e.gap = d.gap
BY DEF Receipts, Disks

LEMMA CancelFacts ==
  ASSUME task \in [Actions -> Tasks], NEW these, NEW d \in Disks, Cancel(these, d)
  PROVE  /\ disk' \in Disks /\ disk'.intent = d.intent /\ disk'.core = d.core
         /\ disk'.gap = d.gap
         /\ task' \in [Actions -> Tasks]
         /\ \A a \in Actions : task'[a] = IF a \in these THEN Cancelled(task[a]) ELSE task[a]
<1>1. \A t \in Tasks : Cancelled(t) \in Tasks
  BY ConstantsTyped DEF Cancelled, Tasks
<1>2. /\ task' \in [Actions -> Tasks]
      /\ \A a \in Actions : task'[a] = IF a \in these THEN Cancelled(task[a]) ELSE task[a]
  BY <1>1 DEF Cancel
<1>3. PICK late \in SUBSET {a \in these : task[a].pc = "record" /\ ~Conflicts(a, task[a].outcome)} :
         disk' = [d EXCEPT !.result = [a \in Actions |->
                   IF a \in late THEN task[a].outcome ELSE d.result[a]]]
  BY DEF Cancel
<1>4. [a \in Actions |-> IF a \in late THEN task[a].outcome ELSE d.result[a]]
        \in [Actions -> {"none"} \cup Outcomes]
  BY DEF Tasks, Disks
<1>5. disk' \in Disks /\ disk'.intent = d.intent /\ disk'.core = d.core /\ disk'.gap = d.gap
  BY <1>3, <1>4 DEF Disks
<1> QED BY <1>2, <1>5

\* The two writes that several actions share.
LEMMA LandsFacts ==
  ASSUME TypeOK, NEW writer, Lands(writer)
  PROVE  /\ disk' \in Disks /\ disk'.intent = disk.intent /\ disk'.core \in {core, disk.core}
         /\ ~disk'.gap => ~disk.gap /\ lock.base.core = disk.core /\ disk'.core = core
<1> DEFINE base == lock.base.core
<1>1. disk \in Disks /\ core \in Cores /\ step \in Steps
      /\ disk' = Recorded(disk, base, core, step)
  BY DEF TypeOK, Lands
<1> HIDE DEF base
<1>2. /\ disk' \in Disks /\ disk'.intent = disk.intent /\ disk'.core \in {core, disk.core}
      /\ ~disk'.gap => ~disk.gap /\ base = disk.core /\ disk'.core = core
  BY <1>1, RecordedFacts
<1> QED BY <1>2 DEF base

LEMMA SpendTyped ==
  ASSUME TypeOK, NEW what, NEW most, Spend(what, most)
  PROVE  spent' \in Spendings
BY DEF TypeOK, Spend, Spendings

LEMMA FailsFacts ==
  ASSUME TypeOK, NEW writer, WriteFails(writer)
  PROVE  /\ core' \in Cores /\ step' \in Steps
         /\ lock.holder = writer /\ lock' = Unlocked
         /\ disk.gap => core' = core /\ step' = step
         /\ ~disk.gap => core' = disk.core
         /\ spent' \in Spendings
<1>1. spent' \in Spendings
  BY SpendTyped DEF TypeOK, WriteFails, Refused, Fails
<1>2. disk.core \in Cores /\ lock.base.step \in Steps /\ core \in Cores /\ step \in Steps
  BY DEF TypeOK, Disks, Locks
<1> QED BY <1>1, <1>2 DEF WriteFails, DiscardUndurable

LEMMA LockTyped ==
  ASSUME TypeOK, lock' = Unlocked \/ \E by \in {"command", "receipts"} : lock' = Held(by)
  PROVE  lock' \in Locks
BY ConstantsTyped DEF Unlocked, Held, Locks

LEMMA HistoryTyped ==
  ASSUME NEW h \in Histories
  PROVE  /\ [h EXCEPT !.adrift = TRUE] \in Histories
         /\ [h EXCEPT !.taken = {}, !.failed = {}, !.adrift = FALSE] \in Histories
         /\ \A a \in Actions : [h EXCEPT !.performed[a] = @ + 1] \in Histories
         /\ \A these \in SUBSET Commands :
              /\ [h EXCEPT !.taken = @ \cup these] \in Histories
              /\ [h EXCEPT !.failed = @ \cup these] \in Histories
<1>1. /\ [h EXCEPT !.adrift = TRUE] \in Histories
      /\ [h EXCEPT !.taken = {}, !.failed = {}, !.adrift = FALSE] \in Histories
  BY DEF Histories
<1>2. ASSUME NEW a \in Actions
      PROVE  [h EXCEPT !.performed[a] = @ + 1] \in Histories
  BY DEF Histories
<1>3. ASSUME NEW these \in SUBSET Commands
      PROVE  /\ [h EXCEPT !.taken = @ \cup these] \in Histories
             /\ [h EXCEPT !.failed = @ \cup these] \in Histories
  BY DEF Histories
<1> QED BY <1>1, <1>2, <1>3

LEMMA DeskTyped ==
  ASSUME NEW d \in Desks
  PROVE  /\ [owed |-> {}, cancelled |-> {}] \in Desks
         /\ [owed |-> d.owed \ d.cancelled, cancelled |-> {}] \in Desks
         /\ [d EXCEPT !.cancelled = {}] \in Desks /\ [d EXCEPT !.owed = {}] \in Desks
         /\ \A c \in Commands : /\ [d EXCEPT !.owed = @ \cup {c}] \in Desks
                               /\ [d EXCEPT !.owed = @ \ {c}] \in Desks
                               /\ [d EXCEPT !.cancelled = @ \cup {c}] \in Desks
BY DEF Desks

LEMMA SessionTyped ==
  ASSUME NEW n \in Sessions
  PROVE  /\ [n EXCEPT !.interrupt = TRUE] \in Sessions
         /\ [n EXCEPT !.interrupt = FALSE] \in Sessions
         /\ \A m \in {"up", "recovering", "closing", "closed", "down"} :
              /\ [n EXCEPT !.mode = m] \in Sessions
              /\ [mode |-> m, interrupt |-> FALSE] \in Sessions
BY DEF Sessions

LEMMA ApplyFacts ==
  ASSUME TypeOK, NEW after, Grown(after, core),
         NEW writer \in {"command", "result", "interrupt", "input"}, Apply(writer, after)
  PROVE  /\ core' \in Cores /\ step' \in Steps /\ lock' \in Locks
         /\ lock'.holder = writer /\ lock'.base.core = core
         /\ Sound(core') /\ Follows(core', core) /\ step'.start \cap core.used = {}
         /\ core' = after.core /\ step' = after.step
BY DEF TypeOK, Grown, Apply, Locks

LEMMA GoneTyped ==
  ASSUME TypeOK, Gone("down")
  PROVE  /\ core' \in Cores /\ step' \in Steps /\ lock' \in Locks /\ stray' \subseteq Strays
         /\ driver' \in Drivers /\ task' \in [Actions -> Tasks] /\ desk' \in Desks
         /\ session' \in Sessions
BY ConstantsTyped, LockTyped, DeskTyped, SessionTyped DEF Gone, TypeOK

LEMMA StrayFacts ==
  ASSUME TypeOK, StrayLands
  PROVE  /\ disk' \in Disks /\ disk'.intent = disk.intent /\ stray' \subseteq stray
         /\ history' \in Histories
         /\ history'.performed = history.performed
         /\ disk'.core = disk.core \/ \E s \in stray : disk'.core = s.core
         /\ ~disk'.gap => /\ ~disk.gap
                          /\ \/ disk'.core = disk.core
                             \/ \E s \in stray : disk'.core = s.core /\ s.base = disk.core
<1>1. PICK s \in stray :
        /\ stray' = stray \ {s}
        /\ IF MayRecord(s.core)
           THEN /\ disk' = Recorded(disk, s.base, s.core, s.step)
                /\ history' = [history EXCEPT !.taken = @ \cup s.taken]
           ELSE UNCHANGED <<disk, history>>
  BY DEF StrayLands
<1> DEFINE sb == s.base
           sc == s.core
           ss == s.step
<1>2. sb \in Cores /\ sc \in Cores /\ ss \in Steps /\ s.taken \in SUBSET Commands
      /\ disk \in Disks
  BY DEF TypeOK, Strays
<1>3. CASE ~MayRecord(s.core)
  BY <1>1, <1>3 DEF TypeOK
<1>4. CASE MayRecord(s.core)
  <2>1. disk' = Recorded(disk, sb, sc, ss)
    BY <1>1, <1>4
  <2> HIDE DEF sb, sc, ss
  <2>2. /\ disk' \in Disks /\ disk'.intent = disk.intent /\ disk'.core \in {sc, disk.core}
        /\ ~disk'.gap => ~disk.gap /\ sb = disk.core /\ disk'.core = sc
    BY <1>2, <2>1, RecordedFacts
  <2>3. history' = [history EXCEPT !.taken = @ \cup s.taken]
    BY <1>1, <1>4
  <2>4. /\ history' \in Histories
        /\ history'.performed = history.performed
    BY <1>2, <2>3 DEF TypeOK, Histories
  <2> QED BY <1>1, <2>2, <2>4 DEF sb, sc
<1> QED BY <1>3, <1>4

\* A task that goes on.
LEMMA TaskTyped ==
  ASSUME task \in [Actions -> Tasks], NEW a \in Actions
  PROVE  /\ [task EXCEPT ![a].pc = "run", ![a].recovering = FALSE] \in [Actions -> Tasks]
         /\ [task EXCEPT ![a].pc = "run"] \in [Actions -> Tasks]
         /\ [task EXCEPT ![a].pc = "raised"] \in [Actions -> Tasks]
         /\ [task EXCEPT ![a].pc = "done"] \in [Actions -> Tasks]
         /\ \A o \in {"none"} \cup Outcomes : [task EXCEPT ![a].pc = "record", ![a].outcome = o] \in [Actions -> Tasks]
         /\ \A o \in {"none"} \cup Outcomes : [task EXCEPT ![a].pc = "done", ![a].outcome = o] \in [Actions -> Tasks]
<1>1. [task EXCEPT ![a].pc = "run", ![a].recovering = FALSE] \in [Actions -> Tasks]
  BY DEF Tasks
<1>2. [task EXCEPT ![a].pc = "run"] \in [Actions -> Tasks]
  BY DEF Tasks
<1>3. [task EXCEPT ![a].pc = "raised"] \in [Actions -> Tasks]
  BY DEF Tasks
<1>4. [task EXCEPT ![a].pc = "done"] \in [Actions -> Tasks]
  BY DEF Tasks
<1>5. \A o \in {"none"} \cup Outcomes : [task EXCEPT ![a].pc = "record", ![a].outcome = o] \in [Actions -> Tasks]
  BY DEF Tasks
<1>6. \A o \in {"none"} \cup Outcomes : [task EXCEPT ![a].pc = "done", ![a].outcome = o] \in [Actions -> Tasks]
  BY DEF Tasks
<1> QED BY <1>1, <1>2, <1>3, <1>4, <1>5, <1>6

LEMMA CancelTyped ==
  ASSUME TypeOK, Owned, CancelDriver
  PROVE  /\ driver' \in Drivers /\ lock' \in Locks /\ stray' \subseteq Strays
         /\ history' \in Histories
<1>0. driver \in Drivers /\ lock \in Locks /\ stray \subseteq Strays /\ history \in Histories
  BY DEF TypeOK
<1>1. CASE driver.pc \in {"idle", "failing", "settling"}
  BY <1>0, <1>1 DEF CancelDriver
<1>2. CASE driver.pc = "reserved"
  BY <1>0, <1>2, ConstantsTyped, LockTyped DEF CancelDriver
<1>3. CASE driver.pc = "writing"
  <2> DEFINE taken == IF lock.holder = "command" THEN {driver.command} ELSE {}
             s == [base |-> lock.base.core, core |-> core, step |-> step, taken |-> taken]
  <2>1. driver' = [driver EXCEPT !.pc = "failing", !.why = "cancelled", !.action = None]
        /\ stray' = stray \cup {s}
        /\ lock' = Unlocked /\ history' = [history EXCEPT !.adrift = TRUE]
    BY <1>3, SMTT(30) DEF CancelDriver
  <2>2. driver' \in Drivers
    BY <1>0, <2>1, DriverTyped
  <2>3. taken \in SUBSET Commands
    BY <1>0 DEF Owned, Drivers
  <2>4. lock.base.core \in Cores /\ core \in Cores /\ step \in Steps
    BY DEF TypeOK, Locks
  <2> HIDE DEF taken
  <2>5. s \in Strays
    BY <2>3, <2>4, SMTT(30) DEF Strays
  <2> QED BY <1>0, <2>1, <2>2, <2>5, LockTyped, HistoryTyped
<1>4. CASE driver.pc \in {"drive", "wait", "abandon", "reap", "answer"}
  <2>1. driver' = [driver EXCEPT !.pc = "failing", !.why = "cancelled", !.action = None]
        /\ UNCHANGED <<stray, lock, history>>
    BY <1>4 DEF CancelDriver
  <2> QED BY <1>0, <2>1, DriverTyped
<1> QED BY <1>0, <1>1, <1>2, <1>3, <1>4 DEF Drivers, Phases

LEMMA Typed ==
  ASSUME TypeOK, Cored, Owned, [Next]_vars
  PROVE  TypeOK'
<1> USE DEF memory
<1>0. /\ disk \in Disks /\ core \in Cores /\ step \in Steps /\ lock \in Locks
      /\ stray \subseteq Strays /\ driver \in Drivers /\ task \in [Actions -> Tasks]
      /\ desk \in Desks /\ session \in Sessions /\ spent \in Spendings
      /\ history \in Histories
  BY DEF TypeOK
<1> SUFFICES
      /\ disk' \in Disks /\ core' \in Cores /\ step' \in Steps /\ lock' \in Locks
      /\ stray' \subseteq Strays /\ driver' \in Drivers /\ task' \in [Actions -> Tasks]
      /\ desk' \in Desks /\ session' \in Sessions /\ spent' \in Spendings
      /\ history' \in Histories
  BY DEF TypeOK
<1>1. CASE \E c \in Commands : Reserve(c)
  <2>1. PICK c \in Commands : Reserve(c)
    BY <1>1
  <2>2. disk' \in Disks
    BY <1>0, <2>1, SMTT(30) DEF Reserve, Disks
  <2>3. driver' \in Drivers
    BY <2>1, ConstantsTyped, DriverTyped DEF Reserve
  <2> QED BY <1>0, <2>1, <2>2, <2>3, LockTyped DEF Reserve
<1>2. CASE Take
  <2>1. driver.command \in Commands
    BY <1>0, <1>2 DEF Take, Owned, Drivers
  <2>2. CASE driver.recovering /\ step.input # 0
    <3>1. driver' \in Drivers
      BY <1>0, <1>2, <2>2, DriverTyped, ZenonT(90) DEF Take
    <3>2. desk' \in Desks
      BY <1>0, <1>2, <2>1, <2>2, DeskTyped DEF Take
    <3>3. history' \in Histories
      <4> DEFINE these == {driver.command}
      <4>1. these \in SUBSET Commands /\ history' = [history EXCEPT !.taken = @ \cup these]
        BY <1>2, <2>1, <2>2 DEF Take
      <4> HIDE DEF these
      <4> QED BY <1>0, <4>1, HistoryTyped
    <3> QED BY <1>0, <1>2, <2>2, <3>1, <3>2, <3>3, LockTyped, SMTT(30) DEF Take
  <2>3. CASE ~(driver.recovering /\ step.input # 0)
    <3>1. PICK after \in Begun(core, driver.command) :
            Apply("command", after)
            /\ driver' = [driver EXCEPT !.pc = "writing", !.step = after.step]
      BY <1>2, <2>3 DEF Take
    <3>2. Grown(after, core)
      BY <1>0, <2>1, BegunGrows DEF Cored
    <3>3. core' \in Cores /\ step' \in Steps /\ lock' \in Locks /\ step' = after.step
      BY <3>1, <3>2, ApplyFacts, SMTT(30)
    <3>4. driver' \in Drivers
      BY <1>0, <3>1, <3>3, DriverTyped
    <3> QED BY <1>0, <1>2, <2>3, <3>3, <3>4 DEF Take
  <2> QED BY <2>2, <2>3
<1>3. CASE CommandLands
  <2>1. driver.command \in Commands
    BY <1>0, <1>3, SMTT(30) DEF CommandLands, Owned, Lands, Drivers
  <2>2. driver' \in Drivers
    BY <1>0, <1>3, DriverTyped DEF CommandLands
  <2>3. disk' \in Disks
    BY <1>3, LandsFacts DEF CommandLands
  <2> QED BY <1>0, <1>3, <2>1, <2>2, <2>3, LockTyped, DeskTyped, HistoryTyped, ZenonT(60) DEF CommandLands
<1>4. CASE Start
  <2> DEFINE due == driver.step.start \cup (IF driver.recovering THEN driver.step.keep ELSE {})
             created == (due \cap core.pending) \ InFlight
             new == [NoTask EXCEPT !.pc = "created", !.recovering = driver.recovering]
  <2>1. new \in Tasks
    BY <1>0 DEF NoTask, Tasks, Drivers, Outcomes
  <2>2. task' \in [Actions -> Tasks]
    <3>1. task' = task \/ task' = [a \in Actions |-> IF a \in created THEN new ELSE task[a]]
      BY <1>4 DEF Start
    <3> HIDE DEF created, new
    <3> QED BY <1>0, <2>1, <3>1
  <2>3. driver' \in Drivers
    BY <1>0, <1>4, DriverTyped, ZenonT(90) DEF Start
  <2> QED BY <1>0, <1>4, <2>2, <2>3 DEF Start
<1>5. CASE Abandon
  <2>1. disk' \in Disks /\ task' \in [Actions -> Tasks]
    BY <1>0, <1>5, CancelFacts, SMTT(30) DEF Abandon
  <2> QED BY <1>0, <1>5, <2>1, DriverTyped DEF Abandon
<1>6. CASE Reap
  BY <1>0, <1>6, DriverTyped, ZenonT(90) DEF Reap
<1>7. CASE ResultLands
  <2>1. disk' \in Disks
    BY <1>7, LandsFacts, SMTT(30) DEF ResultLands
  <2> QED BY <1>0, <1>7, <2>1, LockTyped, DriverTyped DEF ResultLands
<1>8. CASE InputRefused
  <2>1. core' \in Cores /\ step' \in Steps /\ spent' \in Spendings /\ lock' = Unlocked
    BY <1>8, FailsFacts, SMTT(30) DEF InputRefused
  <2> QED BY <1>0, <1>8, <2>1, LockTyped, DriverTyped DEF InputRefused
<1>9. CASE Settle
  <2>1. disk' \in Disks /\ task' \in [Actions -> Tasks]
    BY <1>0, <1>9, CancelFacts DEF Settle
  <2> QED BY <1>0, <1>9, <2>1, DriverTyped DEF Settle
<1>10. CASE Raise
  <2>1. CASE driver.command = None
    <3>1. Gone("down") /\ UNCHANGED <<history, disk, spent>>
      BY <1>10, <2>1 DEF Raise
    <3> QED BY <1>0, <3>1, GoneTyped
  <2>2. CASE driver.command # None
    <3>1. driver.command \in Commands
      BY <1>0, <2>2 DEF Drivers
    <3>2. desk' \in Desks
      BY <1>0, <1>10, <2>2, <3>1, DeskTyped DEF Raise, DeskAfter
    <3>3. history' \in Histories
      BY <1>0, <1>10, <2>2, <3>1, HistoryTyped, ZenonT(90) DEF Raise
    <3> QED BY <1>0, <1>10, <2>2, <3>2, <3>3, ConstantsTyped DEF Raise
  <2> QED BY <2>1, <2>2
<1>11. CASE Answer
  <2>0. driver.command \in Commands
    BY <1>0, <1>11 DEF Answer, Drivers
  <2>1. disk' \in Disks
    BY <1>0, <1>11, ReceiptsFacts DEF Answer
  <2>2. driver' \in Drivers
    BY <1>0, <1>11, ConstantsTyped, DriverTyped DEF Answer
  <2>3. spent' \in Spendings
    BY <1>0, <1>11, SpendTyped DEF Answer, Fails
  <2>4. desk' \in Desks
    BY <1>0, <1>11, <2>0, DeskTyped DEF Answer
  <2> QED BY <1>0, <1>11, <2>1, <2>2, <2>3, <2>4 DEF Answer
<1>12. CASE ApplyInterrupt
  <2>1. CASE core.turn # None
    <3>1. Grown(Interrupted(core), core) /\ Apply("interrupt", Interrupted(core))
      BY <1>0, <1>12, <2>1, InterruptedGrows DEF ApplyInterrupt
    <3>2. core' \in Cores /\ step' \in Steps /\ lock' \in Locks
      BY <3>1, ApplyFacts
    <3> QED BY <1>0, <1>12, <2>1, <3>2 DEF ApplyInterrupt
  <2>2. CASE core.turn = None
    BY <1>0, <1>12, <2>2, SessionTyped DEF ApplyInterrupt
  <2> QED BY <2>1, <2>2
<1>13. CASE InterruptLands
  <2>1. disk' \in Disks
    BY <1>13, LandsFacts DEF InterruptLands
  <2> QED BY <1>0, <1>13, <2>1, LockTyped DEF InterruptLands
<1>14. CASE InterruptRefused
  <2>1. core' \in Cores /\ step' \in Steps /\ spent' \in Spendings /\ lock' = Unlocked
    BY <1>14, FailsFacts DEF InterruptRefused
  <2> QED BY <1>0, <1>14, <2>1, LockTyped, SessionTyped DEF InterruptRefused
<1>15. CASE CloseReceipts
  <2>0. desk.cancelled \in SUBSET Commands
    BY <1>0 DEF Desks
  <2>1. disk' \in Disks
    BY <1>0, <1>15, ReceiptsFacts DEF CloseReceipts
  <2>2. spent' \in Spendings
    BY <1>0, <1>15, SpendTyped DEF CloseReceipts, Fails
  <2>3. history' \in Histories
    BY <1>0, <1>15, <2>0, HistoryTyped DEF CloseReceipts
  <2>4. desk' \in Desks
    BY <1>0, <1>15, DeskTyped DEF CloseReceipts
  <2> QED BY <1>0, <1>15, <2>1, <2>2, <2>3, <2>4, LockTyped, SessionTyped DEF CloseReceipts
<1>16. CASE InputLands
  <2>1. disk' \in Disks
    BY <1>16, LandsFacts DEF InputLands
  <2> QED BY <1>0, <1>16, <2>1, LockTyped DEF InputLands
<1>17. CASE InputFails
  <2>1. core' \in Cores /\ step' \in Steps /\ spent' \in Spendings /\ lock' = Unlocked
    BY <1>17, FailsFacts DEF InputFails
  <2> QED BY <1>0, <1>17, <2>1, LockTyped DEF InputFails
<1>18. CASE StrayLands
  <2>1. disk' \in Disks /\ history' \in Histories /\ stray' \subseteq Strays
    BY <1>0, <1>18, StrayFacts
  <2> QED BY <1>0, <1>18, <2>1 DEF StrayLands
<1>19. CASE Shut
  <2>0. desk.owed \in SUBSET Commands
    BY <1>0 DEF Desks
  <2>1. disk' \in Disks
    BY <1>0, <1>19, ReceiptsFacts DEF Shut
  <2>2. spent' \in Spendings
    BY <1>0, <1>19, SpendTyped DEF Shut, Fails
  <2>3. history' \in Histories
    BY <1>0, <1>19, <2>0, HistoryTyped DEF Shut
  <2>4. desk' \in Desks
    BY <1>0, <1>19, DeskTyped DEF Shut
  <2> QED BY <1>0, <1>19, <2>1, <2>2, <2>3, <2>4, SessionTyped DEF Shut
<1>20. CASE Recovered
  <2>1. disk' \in Disks
    BY <1>0, <1>20, ReceiptsFacts DEF Recovered
  <2> QED BY <1>0, <1>20, <2>1, ConstantsTyped, SessionTyped DEF Recovered
<1>21. CASE AskInterrupt
  <2>1. CancelDriver /\ spent' \in Spendings
    BY <1>21, SpendTyped DEF AskInterrupt
  <2> QED BY <1>0, <1>21, <2>1, CancelTyped, SessionTyped DEF AskInterrupt
<1>22. CASE AskClose
  <2>1. CancelDriver
    BY <1>22 DEF AskClose
  <2> QED BY <1>0, <1>22, <2>1, CancelTyped, SessionTyped DEF AskClose
<1>23. CASE Input
  <2>1. Grown(Noted(core), core) /\ Apply("input", Noted(core))
    BY <1>0, <1>23, NotedGrows DEF Input, Cored
  <2>2. core' \in Cores /\ step' \in Steps /\ lock' \in Locks
    BY <2>1, ApplyFacts
  <2>3. spent' \in Spendings
    BY <1>23, SpendTyped DEF Input
  <2> QED BY <1>0, <1>23, <2>2, <2>3 DEF Input
<1>24. CASE StrayLost
  BY <1>0, <1>24 DEF StrayLost
<1>25. CASE Crash
  <2>1. Gone("down") /\ UNCHANGED <<disk, spent, history>>
    BY <1>25 DEF Crash
  <2> QED BY <1>0, <2>1, GoneTyped
<1>26. CASE Restore
  <2>1. core' \in Cores /\ step' \in Steps /\ disk.step \in Steps
    BY <1>0, <1>26, SMTT(30) DEF Restore, Disks
  <2>2. driver' \in Drivers
    BY <1>26, <2>1, ConstantsTyped, DriverTyped DEF Restore
  <2>3. spent' \in Spendings
    BY <1>26, SpendTyped DEF Restore
  <2>4. task' \in [Actions -> Tasks]
    BY <1>26, ConstantsTyped DEF Restore
  <2> QED BY <1>0, <1>26, <2>1, <2>2, <2>3, <2>4, LockTyped, DeskTyped, SessionTyped, HistoryTyped
          DEF Restore
<1>27. CASE \E a \in Actions : Resolve(a)
  <2>1. PICK a \in Actions : Resolve(a)
    BY <1>27
  <2>2. disk.result[a] \in {"none"} \cup Outcomes
    BY <1>0 DEF Disks
  <2>3. task' \in [Actions -> Tasks]
    <3>1. \/ task' = [task EXCEPT ![a].pc = "done", ![a].outcome = disk.result[a]]
          \/ task' = [task EXCEPT ![a].pc = "run", ![a].recovering = FALSE]
          \/ task' = [task EXCEPT ![a].pc = "raised"]
          \/ task' = [task EXCEPT ![a].pc = "run"]
      BY <2>1 DEF Resolve
    <3>2. /\ [task EXCEPT ![a].pc = "done", ![a].outcome = disk.result[a]] \in [Actions -> Tasks]
          /\ [task EXCEPT ![a].pc = "run", ![a].recovering = FALSE] \in [Actions -> Tasks]
          /\ [task EXCEPT ![a].pc = "raised"] \in [Actions -> Tasks]
          /\ [task EXCEPT ![a].pc = "run"] \in [Actions -> Tasks]
      BY <1>0, <2>2, TaskTyped
    <3> QED BY <3>1, <3>2
  <2>4. disk' \in Disks
    BY <1>0, <2>1 DEF Resolve, Disks, Ids
  <2>5. spent' \in Spendings
    BY <1>0, <2>1, SpendTyped DEF Resolve, Fails
  <2> QED BY <1>0, <2>1, <2>3, <2>4, <2>5 DEF Resolve, Quiet
<1>28. CASE \E a \in Actions : Perform(a)
  <2>1. PICK a \in Actions : Perform(a)
    BY <1>28
  <2>2. PICK outcome \in {"none"} \cup Outcomes :
          task' = [task EXCEPT ![a].pc = "record", ![a].outcome = outcome]
    BY <2>1 DEF Perform, Outcomes
  <2>3. task' \in [Actions -> Tasks]
    BY <1>0, <2>2, TaskTyped
  <2>4. history' \in Histories
    BY <1>0, <2>1, HistoryTyped DEF Perform
  <2> QED BY <1>0, <2>1, <2>3, <2>4 DEF Perform, Quiet
<1>29. CASE \E a \in Actions : Record(a)
  <2>1. PICK a \in Actions : Record(a)
    BY <1>29
  <2>2. task' \in [Actions -> Tasks]
    <3>1. \/ task' = [task EXCEPT ![a].pc = "raised"]
          \/ task' = [task EXCEPT ![a].pc = "done"]
      BY <2>1, SMTT(30) DEF Record
    <3>2. /\ [task EXCEPT ![a].pc = "raised"] \in [Actions -> Tasks]
          /\ [task EXCEPT ![a].pc = "done"] \in [Actions -> Tasks]
      BY <1>0, TaskTyped
    <3> QED BY <3>1, <3>2
  <2>3. task[a].outcome \in {"none"} \cup Outcomes
    BY <1>0 DEF Tasks
  <2>4. disk' \in Disks
    BY <1>0, <2>1, <2>3 DEF Record, Disks
  <2>5. spent' \in Spendings
    BY <1>0, <2>1, SpendTyped DEF Record, Fails
  <2> QED BY <1>0, <2>1, <2>2, <2>4, <2>5 DEF Record, Quiet
<1>30. CASE \E a \in Actions : RecordCancelled(a)
  <2>1. PICK a \in Actions : RecordCancelled(a)
    BY <1>30
  <2>2. disk' \in Disks
    BY <1>0, <2>1 DEF RecordCancelled, Disks, Outcomes
  <2>3. history' \in Histories
    BY <1>0, <2>1, HistoryTyped DEF RecordCancelled
  <2>4. task' \in [Actions -> Tasks]
    BY <1>0, <2>1, ConstantsTyped DEF RecordCancelled
  <2>5. spent' \in Spendings
    BY <1>0, <2>1, SpendTyped DEF RecordCancelled, Fails
  <2> QED BY <1>0, <2>1, <2>2, <2>3, <2>4, <2>5 DEF RecordCancelled, Quiet
<1>31. CASE \E a \in Actions : Deliver(a)
  <2>1. PICK a \in Actions : Deliver(a)
    BY <1>31
  <2>2. CASE a \in core.pending
    <3>1. PICK outcome \in Given(a) : \E after \in Heard(core, a, outcome) :
            Apply("result", after)
            /\ driver' = [driver EXCEPT !.pc = "writing", !.step = after.step, !.action = a]
      BY <2>1, <2>2 DEF Deliver
    <3>2. PICK after \in Heard(core, a, outcome) :
            Apply("result", after)
            /\ driver' = [driver EXCEPT !.pc = "writing", !.step = after.step, !.action = a]
      BY <3>1
    <3>3. outcome \in {"none"} \cup Outcomes
      BY <1>0 DEF Given, Tasks
    <3>4. Grown(after, core)
      BY <1>0, <2>2, <3>3, HeardGrows DEF Cored
    <3>5. core' \in Cores /\ step' \in Steps /\ lock' \in Locks /\ step' = after.step
      BY <3>2, <3>4, ApplyFacts, SMTT(30)
    <3>6. driver' \in Drivers
      BY <1>0, <3>2, <3>5, DriverTyped
    <3> QED BY <1>0, <2>1, <2>2, <3>5, <3>6 DEF Deliver
  <2>3. CASE a \notin core.pending
    <3>1. driver' \in Drivers
      BY <1>0, <2>1, <2>3, DriverTyped, ZenonT(90) DEF Deliver
    <3> QED BY <1>0, <2>1, <2>3, <3>1, ConstantsTyped, SMTT(30) DEF Deliver
  <2> QED BY <2>2, <2>3
<1>32. CASE \E a \in Actions : DeliverRaised(a)
  BY <1>0, <1>32, DriverTyped DEF DeliverRaised
<1>33. CASE UNCHANGED vars
  BY <1>0, <1>33 DEF vars
<1> QED BY <1>1, <1>2, <1>3, <1>4, <1>5, <1>6, <1>7, <1>8, <1>9, <1>10, <1>11, <1>12, <1>13, <1>14, <1>15, <1>16, <1>17, <1>18, <1>19, <1>20, <1>21, <1>22, <1>23, <1>24, <1>25, <1>26, <1>27, <1>28, <1>29, <1>30, <1>31, <1>32, <1>33
  DEF Next, Requests, Faults, Serve

-----------------------------------------------------------------------------
(* Every action keeps the invariant.                                       *)

USE DEF IInv, Safe, Owned, Employed, Cored, Issued, Agreed, GivenUp, Startable, Performed,
        Running, InFlight, Awaited, Sound, Follows, EffectOnce

LEMMA TypedFacts ==
  ASSUME IInv
  PROVE  /\ disk \in Disks /\ core \in Cores /\ step \in Steps /\ lock \in Locks
         /\ stray \subseteq Strays /\ driver \in Drivers /\ task \in [Actions -> Tasks]
         /\ session \in Sessions /\ history \in Histories
BY DEF TypeOK

LEMMA GoneFacts ==
  ASSUME Gone("down")
  PROVE  /\ core'.pending = {} /\ core'.turn = None /\ lock'.holder = "nobody" /\ lock'.base.core = Fresh
         /\ Fresh.used = {} /\ Fresh.pending = {} /\ core' = Fresh /\ stray' = {}
         /\ driver'.pc = "idle" /\ driver'.action = None /\ driver'.recovering = FALSE
         /\ \A a \in Actions : task'[a].pc = "none"
         /\ session'.mode = "down"
<1>1. core' = Fresh /\ stray' = {} /\ lock' = Unlocked /\ driver' = NoDriver
      /\ task' = [a \in Actions |-> NoTask] /\ session' = [mode |-> "down", interrupt |-> FALSE]
  BY DEF Gone
<1>2. Fresh.used = {} /\ Fresh.pending = {} /\ Fresh.turn = None
  BY DEF Fresh
<1>3. driver'.pc = "idle" /\ driver'.action = None /\ driver'.recovering = FALSE
  BY <1>1 DEF NoDriver
<1>4. \A a \in Actions : task'[a].pc = "none"
  BY <1>1 DEF NoTask
<1>5. lock'.holder = "nobody" /\ lock'.base.core = Fresh
  BY <1>1, ConstantsTyped
<1> QED BY <1>1, <1>2, <1>3, <1>4, <1>5

LEMMA CancelledFacts ==
  ASSUME NEW t \in Tasks
  PROVE  \/ Cancelled(t).pc = "none"
         \/ /\ t.pc \in {"run", "cancelled"} /\ Cancelled(t).pc = "cancelled"
            /\ Cancelled(t).recovering = t.recovering
<1>1. CASE t.pc = "run"
  BY <1>1 DEF Cancelled, Tasks
<1>2. CASE t.pc # "run"
  BY <1>2 DEF Cancelled, NoTask
<1> QED BY <1>1, <1>2

LEMMA ReserveSafe ==
  ASSUME IInv, NEW c \in Commands, Reserve(c)
  PROVE  Safe'
<1>1. /\ driver = NoDriver /\ session.mode = "up" /\ ~session.interrupt
      /\ UNCHANGED <<core, step, stray, task, session, history>>
      /\ UNCHANGED <<disk.core, disk.gap, disk.intent>>
      /\ driver'.pc = "reserved" /\ driver'.command # None /\ driver'.action = None
      /\ lock'.holder = "command" /\ lock'.base.core = Fresh
  BY TypedFacts, ConstantsTyped, NamesAssumption DEF Reserve, Up, memory, Disks, NoDriver
<1>2. driver.pc = "idle" /\ Fresh.used = {}
  BY <1>1 DEF NoDriver, Fresh
<1> QED BY <1>1, <1>2, TypedFacts

LEMMA TakeSafe ==
  ASSUME IInv, Take
  PROVE  Safe'
<1>1. /\ driver.pc = "reserved" /\ UNCHANGED <<disk, stray, task, session>>
      /\ history'.performed = history.performed
  BY TypedFacts, ZenonT(60) DEF Take, Histories
<1>2. CASE driver.recovering /\ step.input # 0
  <2>1. /\ driver' = [driver EXCEPT !.pc = "drive", !.step = step] /\ lock' = Unlocked
        /\ UNCHANGED core
    BY <1>2 DEF Take
  <2>2. /\ driver'.pc = "drive" /\ driver'.recovering /\ UNCHANGED driver.action
        /\ lock'.holder = "nobody" /\ lock'.base.core = Fresh
    BY <1>2, <2>1, TypedFacts, ConstantsTyped DEF Drivers
  <2> QED BY <1>1, <2>1, <2>2, TypedFacts DEF Fresh
<1>3. CASE ~(driver.recovering /\ step.input # 0)
  <2>1. PICK after \in Begun(core, driver.command) :
          Apply("command", after)
          /\ driver' = [driver EXCEPT !.pc = "writing", !.step = after.step]
    BY <1>3 DEF Take
  <2>2. driver.command \in Commands
    BY <1>1, TypedFacts DEF Drivers
  <2>3. Grown(after, core)
    BY <2>2, TypedFacts, BegunGrows
  <2>4. /\ lock'.holder = "command" /\ lock'.base.core = core /\ core' \in Cores
        /\ Sound(core') /\ Follows(core', core) /\ step'.start \cap core.used = {}
        /\ step' = after.step
    BY <2>1, <2>3, ApplyFacts
  <2>5. /\ driver'.pc = "writing" /\ driver'.step = step'
        /\ UNCHANGED <<driver.command, driver.recovering, driver.action>>
    BY <2>1, <2>4, TypedFacts DEF Drivers
  <2> QED BY <1>1, <2>2, <2>4, <2>5, TypedFacts
<1> QED BY <1>2, <1>3

LEMMA CommandLandsSafe ==
  ASSUME IInv, CommandLands
  PROVE  Safe'
<1>1. /\ driver.pc = "writing" /\ UNCHANGED <<core, stray, task, session>>
      /\ Lands("command") /\ history'.performed = history.performed
      /\ driver' = [driver EXCEPT !.pc = "drive"] /\ lock' = Unlocked
  BY TypedFacts DEF CommandLands, Histories
<1>2. /\ lock.holder = "command" /\ lock'.holder = "nobody" /\ lock'.base.core = Fresh
      /\ driver'.pc = "drive" /\ UNCHANGED <<driver.step, driver.recovering, driver.action>>
  BY <1>1, TypedFacts, ConstantsTyped DEF Lands, Drivers
<1>3. /\ disk' \in Disks /\ disk'.intent = disk.intent /\ disk'.core \in {core, disk.core}
      /\ ~disk'.gap => ~disk.gap /\ lock.base.core = disk.core /\ disk'.core = core
  BY <1>1, LandsFacts
<1> QED BY <1>1, <1>2, <1>3, TypedFacts DEF Fresh

LEMMA StartSafe ==
  ASSUME IInv, Start
  PROVE  Safe'
<1> DEFINE due == driver.step.start \cup (IF driver.recovering THEN driver.step.keep ELSE {})
           created == (due \cap core.pending) \ InFlight
<1>1. driver.pc = "drive" /\ Free
      /\ UNCHANGED <<disk, core, step, stray, lock, session, history>>
  BY DEF Start, memory
<1>2. \/ driver' = [driver EXCEPT !.pc = "failing", !.why = "error"] /\ task' = task
      \/ /\ \/ created \cup InFlight = {} /\ driver' = [driver EXCEPT !.recovering = FALSE, !.pc = "answer"]
            \/ created \cup InFlight # {} /\ driver' = [driver EXCEPT !.recovering = FALSE, !.pc = "wait"]
         /\ task' = [a \in Actions |->
                      IF a \in created
                      THEN [NoTask EXCEPT !.pc = "created", !.recovering = driver.recovering]
                      ELSE task[a]]
  BY DEF Start
<1>3. CASE driver' = [driver EXCEPT !.pc = "failing", !.why = "error"] /\ task' = task
  <2>1. driver'.pc = "failing" /\ UNCHANGED <<driver.recovering, driver.action>>
    BY <1>3, TypedFacts DEF Drivers
  <2> QED BY <1>1, <1>3, <2>1, TypedFacts
<1>4. CASE /\ \/ created \cup InFlight = {} /\ driver' = [driver EXCEPT !.recovering = FALSE, !.pc = "answer"]
              \/ created \cup InFlight # {} /\ driver' = [driver EXCEPT !.recovering = FALSE, !.pc = "wait"]
           /\ task' = [a \in Actions |->
                        IF a \in created
                        THEN [NoTask EXCEPT !.pc = "created", !.recovering = driver.recovering]
                        ELSE task[a]]
  <2>1. /\ driver'.pc = IF created \cup InFlight = {} THEN "answer" ELSE "wait"
        /\ ~driver'.recovering /\ UNCHANGED <<driver.step, driver.action>>
    BY <1>4, TypedFacts DEF Drivers
  <2>2. \A a \in Actions : IF a \in created
                           THEN task'[a].pc = "created" /\ task'[a].recovering = driver.recovering
                           ELSE task'[a] = task[a]
    BY <1>4 DEF NoTask
  <2>3. /\ driver.step.start \in Ids /\ driver.step.keep \in Ids /\ core.pending \in Ids
    BY TypedFacts DEF Drivers, Steps, Cores
  <2>4. created = (due \cap core.pending) \ InFlight /\ created \subseteq core.pending
    OBVIOUS
  <2> HIDE DEF created
  <2>5. Owned' /\ Employed' /\ Cored'
    BY <1>1, <2>1, <2>2, <2>4, TypedFacts
  <2>6. Issued' /\ Agreed' /\ GivenUp'
    BY <1>1, <2>1, <2>2, <2>4, TypedFacts
  <2>7. Startable'
    <3>1. \A a \in Actions : a \in InFlight => a \in InFlight'
      BY <2>2, <2>4
    <3>2. ASSUME driver'.pc = "wait", NEW a \in driver.step.start \cap Awaited
          PROVE  a \in InFlight' \/ a \notin disk.intent
      <4>1. CASE ~driver.recovering
        BY <1>1, <3>1, <4>1, <2>3
      <4>2. CASE driver.recovering
        <5>1. InFlight = {} /\ created # {} /\ core.pending # {}
          BY <2>1, <2>4, <3>2, <4>2
        <5>2. CASE a \in core.pending
          BY <2>2, <2>3, <2>4, <5>1, <5>2 DEF Ids
        <5>3. CASE a \notin core.pending
          BY <1>1, <5>1, <5>3
        <5> QED BY <5>2, <5>3
      <4> QED BY <4>1, <4>2
    <3>3. Awaited' = Awaited
      BY <1>1
    <3> QED BY <1>1, <2>1, <3>2, <3>3
  <2>8. Performed'
    <3>1. \A a \in created : driver.recovering \/ a \notin disk.intent
      BY <1>1, <2>3, <2>4
    <3> QED BY <1>1, <2>2, <3>1, TypedFacts
  <2> QED BY <2>5, <2>6, <2>7, <2>8
<1> QED BY <1>2, <1>3, <1>4

LEMMA AbandonSafe ==
  ASSUME IInv, Abandon
  PROVE  Safe'
<1> DEFINE these == {driver.action} \cup (InFlight \ core.pending)
<1>1. /\ driver.pc = "abandon" /\ Cancel(these, disk)
      /\ driver' = [driver EXCEPT !.pc = "reap", !.action = None]
      /\ UNCHANGED <<core, step, stray, lock, session, history>>
  BY DEF Abandon, memory
<1>2. driver'.pc = "reap" /\ UNCHANGED <<driver.step, driver.recovering>> /\ driver'.action = None
  BY <1>1, TypedFacts DEF Drivers
<1>3. /\ disk'.intent = disk.intent /\ disk'.core = disk.core /\ disk'.gap = disk.gap
      /\ \A a \in Actions : task'[a] = IF a \in these THEN Cancelled(task[a]) ELSE task[a]
  BY <1>1, TypedFacts, CancelFacts
<1>4. \A a \in Actions :
        \/ task'[a] = task[a] /\ a \notin these
        \/ a \in these /\ task'[a].pc = "none"
        \/ a \in these /\ task[a].pc \in {"run", "cancelled"} /\ task'[a].pc = "cancelled"
             /\ task'[a].recovering = task[a].recovering
  BY <1>3, TypedFacts, CancelledFacts
<1>5. \A a \in these : a \in Actions /\ task[a].pc # "none" /\ a \notin Awaited
  BY <1>1
<1>6. \A a \in Actions : task[a].pc # "cancelled"
  BY <1>1
<1> QED BY <1>1, <1>2, <1>3, <1>4, <1>5, <1>6, TypedFacts

LEMMA ReapSafe ==
  ASSUME IInv, Reap
  PROVE  Safe'
<1>1. /\ driver.pc = "reap" /\ Cancelling = {}
      /\ driver' = [driver EXCEPT !.pc = "drive"]
      /\ UNCHANGED <<disk, core, step, stray, lock, task, session, history>>
  BY DEF Reap, memory
<1>2. driver'.pc = "drive"
      /\ UNCHANGED <<driver.command, driver.recovering, driver.step, driver.action>>
  BY <1>1, TypedFacts DEF Drivers
<1> QED BY <1>1, <1>2, TypedFacts DEF Cancelling

LEMMA ResultLandsSafe ==
  ASSUME IInv, ResultLands
  PROVE  Safe'
<1>1. /\ driver.pc = "writing" /\ UNCHANGED <<core, stray, task, session, history>>
      /\ Lands("result") /\ driver' = [driver EXCEPT !.pc = "abandon"] /\ lock' = Unlocked
  BY DEF ResultLands, memory
<1>2. /\ lock.holder = "result" /\ lock'.holder = "nobody" /\ lock'.base.core = Fresh
      /\ driver'.pc = "abandon" /\ UNCHANGED <<driver.step, driver.recovering, driver.action>>
  BY <1>1, TypedFacts, ConstantsTyped DEF Lands, Drivers
<1>3. /\ disk'.intent = disk.intent /\ disk'.core \in {core, disk.core}
      /\ ~disk'.gap => ~disk.gap /\ lock.base.core = disk.core /\ disk'.core = core
  BY <1>1, LandsFacts
<1> QED BY <1>1, <1>2, <1>3, TypedFacts DEF Fresh

LEMMA InputRefusedSafe ==
  ASSUME IInv, InputRefused
  PROVE  Safe'
<1>1. /\ driver.pc = "writing" /\ WriteFails(lock.holder)
      /\ driver' = [driver EXCEPT !.pc = "failing", !.why = "error", !.action = None]
      /\ UNCHANGED <<disk, stray, task, session, history>>
  BY DEF InputRefused
<1>2. /\ lock'.holder = "nobody" /\ lock'.base.core = Fresh
      /\ disk.gap => core' = core
      /\ ~disk.gap => core' = disk.core
  BY <1>1, FailsFacts, TypedFacts, ConstantsTyped
<1>3. driver'.pc = "failing" /\ UNCHANGED driver.recovering
  BY <1>1, TypedFacts DEF Drivers
<1>4. driver'.action = None
  BY <1>1, TypedFacts DEF Drivers
<1> QED BY <1>1, <1>2, <1>3, <1>4, TypedFacts DEF Fresh

LEMMA SettleSafe ==
  ASSUME IInv, Settle
  PROVE  Safe'
<1>1. /\ driver.pc = "failing" /\ Cancel(InFlight, disk)
      /\ driver' = [driver EXCEPT !.pc = "settling"]
      /\ UNCHANGED <<core, step, stray, lock, session, history>>
  BY DEF Settle, memory
<1>2. driver'.pc = "settling" /\ UNCHANGED <<driver.recovering, driver.action>>
  BY <1>1, TypedFacts DEF Drivers
<1>3. /\ disk'.intent = disk.intent /\ disk'.core = disk.core /\ disk'.gap = disk.gap
      /\ \A a \in Actions : task'[a] = IF a \in InFlight THEN Cancelled(task[a]) ELSE task[a]
  BY <1>1, TypedFacts, CancelFacts
<1>4. \A a \in Actions :
        \/ task'[a].pc = "none"
        \/ task[a].pc \in {"run", "cancelled"} /\ task'[a].pc = "cancelled"
             /\ task'[a].recovering = task[a].recovering
  BY <1>3, TypedFacts, CancelledFacts
<1> QED BY <1>1, <1>2, <1>3, <1>4, TypedFacts

LEMMA RaiseSafe ==
  ASSUME IInv, Raise
  PROVE  Safe'
<1>1. driver.pc = "settling" /\ InFlight = {} /\ UNCHANGED <<disk, spent>>
  BY DEF Raise
<1>2. CASE driver.command = None
  <2>1. Gone("down") /\ UNCHANGED history
    BY <1>2 DEF Raise
  <2> QED BY <1>1, <2>1, TypedFacts, GoneFacts
<1>3. CASE driver.command # None
  <2>1. /\ UNCHANGED <<core, step, stray, lock, task, session>> /\ driver' = NoDriver
        /\ history'.performed = history.performed
    BY <1>3, TypedFacts DEF Raise, Histories
  <2>2. driver'.pc = "idle" /\ driver'.action = None /\ driver'.recovering = FALSE
    BY <2>1 DEF NoDriver
  <2> QED BY <1>1, <2>1, <2>2, TypedFacts
<1> QED BY <1>2, <1>3

LEMMA AnswerSafe ==
  ASSUME IInv, Answer
  PROVE  Safe'
<1>1. /\ driver.pc = "answer" /\ UNCHANGED <<core, step, stray, lock, task, session, history>>
      /\ Free
      /\ driver' \in {NoDriver, [driver EXCEPT !.pc = "failing", !.why = "error"]}
  BY DEF Answer
<1>2. /\ driver'.pc \in {"idle", "failing"} /\ driver'.action \in {None, driver.action}
      /\ driver'.recovering \in {FALSE, driver.recovering}
  <2>1. CASE driver' = NoDriver
    BY <2>1 DEF NoDriver
  <2>2. CASE driver' = [driver EXCEPT !.pc = "failing", !.why = "error"]
    BY <2>2, TypedFacts DEF Drivers
  <2> QED BY <1>1, <2>1, <2>2
<1>3. disk'.intent = disk.intent /\ disk'.core = disk.core /\ disk'.gap = disk.gap
  BY TypedFacts, ReceiptsFacts DEF Answer
<1>4. lock.holder = "nobody"
  BY <1>1, ConstantsTyped DEF Free
<1> QED BY <1>1, <1>2, <1>3, <1>4, TypedFacts

LEMMA ApplyInterruptSafe ==
  ASSUME IInv, ApplyInterrupt
  PROVE  Safe'
<1>1. /\ session.interrupt /\ driver = NoDriver /\ UNCHANGED <<disk, stray, driver, task, history>>
      /\ driver.pc = "idle" /\ Free
  BY DEF ApplyInterrupt, NoDriver
<1>2. CASE core.turn # None
  <2>1. Grown(Interrupted(core), core) /\ Apply("interrupt", Interrupted(core))
        /\ Interrupted(core).core.pending = {} /\ UNCHANGED session
    BY <1>2, TypedFacts, InterruptedGrows DEF ApplyInterrupt
  <2>2. /\ lock'.holder = "interrupt" /\ lock'.base.core = core /\ core'.pending = {}
        /\ Sound(core') /\ Follows(core', core)
    BY <2>1, ApplyFacts
  <2> QED BY <1>1, <2>1, <2>2, TypedFacts
<1>3. CASE core.turn = None
  <2>1. UNCHANGED <<core, step, lock>> /\ session' = [session EXCEPT !.interrupt = FALSE]
    BY <1>3 DEF ApplyInterrupt
  <2>2. session'.mode = session.mode
    BY <2>1, TypedFacts DEF Sessions
  <2> QED BY <1>1, <1>3, <2>1, <2>2, TypedFacts
<1> QED BY <1>2, <1>3

LEMMA InterruptLandsSafe ==
  ASSUME IInv, InterruptLands
  PROVE  Safe'
<1>1. /\ Lands("interrupt") /\ lock' = Held("receipts")
      /\ UNCHANGED <<core, stray, driver, task, session, history>>
  BY DEF InterruptLands, memory
<1>2. /\ lock.holder = "interrupt" /\ lock'.holder = "receipts" /\ lock'.base.core = Fresh
  BY <1>1, ConstantsTyped DEF Lands
<1>3. /\ disk'.intent = disk.intent /\ disk'.core \in {core, disk.core}
      /\ ~disk'.gap => ~disk.gap /\ lock.base.core = disk.core /\ disk'.core = core
  BY <1>1, LandsFacts
<1> QED BY <1>1, <1>2, <1>3, TypedFacts DEF Fresh

LEMMA InterruptRefusedSafe ==
  ASSUME IInv, InterruptRefused
  PROVE  Safe'
<1>1. /\ WriteFails("interrupt") /\ session' = [session EXCEPT !.interrupt = FALSE]
      /\ UNCHANGED <<disk, stray, driver, task, history>>
  BY DEF InterruptRefused
<1>2. /\ lock.holder = "interrupt" /\ lock'.holder = "nobody" /\ lock'.base.core = Fresh
      /\ disk.gap => core' = core
      /\ ~disk.gap => core' = disk.core
  BY <1>1, FailsFacts, ConstantsTyped
<1>3. session'.mode = session.mode
  BY <1>1, TypedFacts DEF Sessions
<1> QED BY <1>1, <1>2, <1>3, TypedFacts DEF Fresh

LEMMA CloseReceiptsSafe ==
  ASSUME IInv, CloseReceipts
  PROVE  Safe'
<1>1. /\ lock.holder = "receipts" /\ lock' = Unlocked
      /\ session' = [session EXCEPT !.interrupt = FALSE]
      /\ UNCHANGED <<core, step, stray, driver, task>>
      /\ history'.performed = history.performed
  BY TypedFacts DEF CloseReceipts, Histories
<1>2. lock'.holder = "nobody" /\ lock'.base.core = Fresh /\ session'.mode = session.mode
  BY <1>1, TypedFacts, ConstantsTyped DEF Sessions
<1>3. disk'.intent = disk.intent /\ disk'.core = disk.core /\ disk'.gap = disk.gap
  BY TypedFacts, ReceiptsFacts DEF CloseReceipts
<1> QED BY <1>1, <1>2, <1>3, TypedFacts DEF Fresh

LEMMA InputSafe ==
  ASSUME IInv, Input
  PROVE  Safe'
<1>1. /\ Free /\ UNCHANGED <<disk, stray, driver, task, session, history>>
      /\ Apply("input", Noted(core))
  BY DEF Input
<1>2. Grown(Noted(core), core) /\ Noted(core).core.pending = core.pending
      /\ Noted(core).core.used = core.used
  BY TypedFacts, NotedGrows
<1>3. /\ lock'.holder = "input" /\ lock'.base.core = core /\ Sound(core') /\ Follows(core', core)
      /\ core'.pending = core.pending /\ core'.used = core.used
  BY <1>1, <1>2, ApplyFacts
<1>4. lock.holder = "nobody"
  BY <1>1, ConstantsTyped DEF Free
<1> QED BY <1>1, <1>3, <1>4, TypedFacts

LEMMA InputLandsSafe ==
  ASSUME IInv, InputLands
  PROVE  Safe'
<1>1. /\ Lands("input") /\ lock' = Unlocked
      /\ UNCHANGED <<core, stray, driver, task, session, history>>
  BY DEF InputLands, memory
<1>2. lock.holder = "input" /\ lock'.holder = "nobody" /\ lock'.base.core = Fresh
  BY <1>1, ConstantsTyped DEF Lands
<1>3. /\ disk'.intent = disk.intent /\ disk'.core \in {core, disk.core}
      /\ ~disk'.gap => ~disk.gap /\ lock.base.core = disk.core /\ disk'.core = core
  BY <1>1, LandsFacts
<1> QED BY <1>1, <1>2, <1>3, TypedFacts DEF Fresh

LEMMA InputFailsSafe ==
  ASSUME IInv, InputFails
  PROVE  Safe'
<1>1. WriteFails("input") /\ UNCHANGED <<disk, stray, driver, task, session, history>>
  BY DEF InputFails
<1>2. /\ lock.holder = "input" /\ lock'.holder = "nobody" /\ lock'.base.core = Fresh
      /\ disk.gap => core' = core
      /\ ~disk.gap => core' = disk.core
  BY <1>1, FailsFacts, ConstantsTyped
<1> QED BY <1>1, <1>2, TypedFacts DEF Fresh

LEMMA StrayLandsSafe ==
  ASSUME IInv, StrayLands
  PROVE  Safe'
<1>1. UNCHANGED <<core, lock, driver, task, session>>
  BY DEF StrayLands
<1>2. /\ disk'.intent = disk.intent /\ stray' \subseteq stray
      /\ history'.performed = history.performed
      /\ disk'.core = disk.core \/ \E s \in stray : disk'.core = s.core
      /\ ~disk'.gap => /\ ~disk.gap
                       /\ \/ disk'.core = disk.core
                          \/ \E s \in stray : disk'.core = s.core /\ s.base = disk.core
  BY TypedFacts, StrayFacts
<1>3. Sound(disk'.core) /\ (~disk'.gap => ~disk.gap /\ Follows(disk'.core, disk.core))
  BY <1>2
<1>4. Owned' /\ Employed' /\ Cored' /\ Issued' /\ Performed'
  BY <1>1, <1>2, <1>3, TypedFacts
<1>5. Agreed'
  BY <1>1, <1>2, <1>3, TypedFacts
<1>6. \A a \in InFlight \cup disk.intent : a \in Awaited' => a \in Awaited
  BY <1>1, <1>2, <1>3
<1>7. GivenUp' /\ Startable'
  BY <1>1, <1>2, <1>6, TypedFacts
<1> QED BY <1>4, <1>5, <1>7

LEMMA ShutSafe ==
  ASSUME IInv, Shut
  PROVE  Safe'
<1>1. /\ session.mode = "closing" /\ session' = [session EXCEPT !.mode = "closed"]
      /\ UNCHANGED <<core, step, stray, lock, driver, task>>
      /\ history'.performed = history.performed
  BY TypedFacts DEF Shut, Histories
<1>2. session'.mode = "closed"
  BY <1>1, TypedFacts DEF Sessions
<1>3. disk'.intent = disk.intent /\ disk'.core = disk.core /\ disk'.gap = disk.gap
  BY TypedFacts, ReceiptsFacts DEF Shut
<1> QED BY <1>1, <1>2, <1>3, TypedFacts

LEMMA RecoveredSafe ==
  ASSUME IInv, Recovered
  PROVE  Safe'
<1>1. /\ session.mode = "recovering" /\ driver.pc = "answer" /\ Free
      /\ driver' = NoDriver /\ session' = [session EXCEPT !.mode = "up"]
      /\ UNCHANGED <<core, step, stray, lock, task, history>>
  BY DEF Recovered, memory
<1>2. /\ session'.mode = "up" /\ session'.interrupt = session.interrupt
      /\ driver'.pc = "idle" /\ driver'.action = None /\ driver'.recovering = FALSE
      /\ lock.holder = "nobody"
  BY <1>1, TypedFacts, ConstantsTyped DEF Sessions, NoDriver, Free
<1>3. disk'.intent = disk.intent /\ disk'.core = disk.core /\ disk'.gap = disk.gap
  BY TypedFacts, ReceiptsFacts DEF Recovered
<1> QED BY <1>1, <1>2, <1>3, TypedFacts

\* The driver stops; what it was writing may still be stored.
LEMMA CancelSafe ==
  ASSUME IInv, CancelDriver, UNCHANGED <<disk, core, step, task>>,
         session.mode # "down", session'.mode # "down", ~Running',
         lock.holder \in {"interrupt", "receipts"} => driver.pc = "idle"
  PROVE  Safe'
<1>1. CASE driver.pc \in {"idle", "failing", "settling"}
  <2>1. UNCHANGED <<driver, stray, lock, history>>
    BY <1>1 DEF CancelDriver
  <2>2. Owned' /\ Employed' /\ Cored' /\ Issued' /\ Agreed'
    BY <1>1, <2>1, TypedFacts
  <2>3. GivenUp' /\ Startable'
    BY <1>1, <2>1, TypedFacts
  <2>4. Performed'
    BY <2>1
  <2> QED BY <2>2, <2>3, <2>4
<1>2. CASE driver.pc = "reserved"
  <2>1. driver' = NoDriver /\ lock' = Unlocked /\ UNCHANGED <<stray, history>>
    BY <1>2 DEF CancelDriver
  <2>2. driver'.pc = "idle" /\ driver'.action = None /\ driver'.recovering = FALSE
        /\ lock'.holder = "nobody" /\ lock'.base.core = Fresh
    BY <2>1, ConstantsTyped DEF NoDriver
  <2> QED BY <1>2, <2>1, <2>2, TypedFacts DEF Fresh
<1>3. CASE driver.pc = "writing"
  <2> DEFINE taken == IF lock.holder = "command" THEN {driver.command} ELSE {}
             s == [base |-> lock.base.core, core |-> core, step |-> step, taken |-> taken]
  <2>1. driver' = [driver EXCEPT !.pc = "failing", !.why = "cancelled", !.action = None]
        /\ stray' = stray \cup {s}
        /\ lock' = Unlocked /\ history' = [history EXCEPT !.adrift = TRUE]
    BY <1>3 DEF CancelDriver
  <2>2. /\ driver'.pc = "failing" /\ driver'.action = None /\ UNCHANGED driver.recovering
        /\ lock'.holder = "nobody" /\ lock'.base.core = Fresh
        /\ history'.performed = history.performed
    BY <2>1, TypedFacts, ConstantsTyped DEF Drivers, Histories
  <2>3. s.core = core /\ s.base = lock.base.core
    OBVIOUS
  <2> HIDE DEF s
  <2> QED BY <1>3, <2>1, <2>2, <2>3, TypedFacts DEF Fresh
<1>4. CASE driver.pc \in {"drive", "wait", "abandon", "reap", "answer"}
  <2>1. driver' = [driver EXCEPT !.pc = "failing", !.why = "cancelled", !.action = None]
        /\ UNCHANGED <<stray, lock, history>>
    BY <1>4 DEF CancelDriver
  <2>2. driver'.pc = "failing" /\ driver'.action = None /\ UNCHANGED driver.recovering
    BY <2>1, TypedFacts DEF Drivers
  <2> QED BY <1>4, <2>1, <2>2, TypedFacts
<1> QED BY <1>1, <1>2, <1>3, <1>4, TypedFacts DEF Drivers, Phases

LEMMA AskInterruptSafe ==
  ASSUME IInv, AskInterrupt
  PROVE  Safe'
<1>1. /\ CancelDriver /\ UNCHANGED <<disk, core, step, task>> /\ session.mode = "up"
      /\ session'.mode = session.mode /\ session'.interrupt
  BY TypedFacts DEF AskInterrupt, Up, Sessions
<1> QED BY <1>1, CancelSafe

LEMMA AskCloseSafe ==
  ASSUME IInv, AskClose
  PROVE  Safe'
<1>1. /\ CancelDriver /\ UNCHANGED <<disk, core, step, task>> /\ session'.mode = "closing"
      /\ session.mode = "up"
  BY TypedFacts DEF AskClose, Up, Sessions
<1> QED BY <1>1, CancelSafe

LEMMA StrayLostSafe ==
  ASSUME IInv, StrayLost
  PROVE  Safe'
<1>1. stray' \subseteq stray
      /\ UNCHANGED <<disk, core, step, lock, driver, task, session, history>>
  BY DEF StrayLost
<1> QED BY <1>1, TypedFacts

LEMMA CrashSafe ==
  ASSUME IInv, Crash
  PROVE  Safe'
<1>1. Gone("down") /\ UNCHANGED <<disk, history>>
  BY DEF Crash
<1> QED BY <1>1, TypedFacts, GoneFacts

LEMMA RestoreSafe ==
  ASSUME IInv, Restore
  PROVE  Safe'
<1>1. /\ ~disk.gap /\ core' = disk.core /\ lock' = Unlocked /\ stray' = {}
      /\ task' = [a \in Actions |-> NoTask] /\ UNCHANGED disk
      /\ driver' = [NoDriver EXCEPT !.pc = "drive", !.recovering = TRUE, !.step = disk.step]
      /\ session' = [mode |-> "recovering", interrupt |-> FALSE]
      /\ history'.performed = history.performed
  BY TypedFacts DEF Restore, Histories
<1>2. /\ driver'.pc = "drive" /\ driver'.recovering /\ driver'.action = None
      /\ lock'.holder = "nobody" /\ lock'.base.core = Fresh
      /\ \A a \in Actions : task'[a].pc = "none"
  BY <1>1, ConstantsTyped DEF NoDriver, NoTask
<1> QED BY <1>1, <1>2, TypedFacts DEF Fresh

LEMMA ResolveSafe ==
  ASSUME IInv, NEW a \in Actions, Resolve(a)
  PROVE  Safe'
<1>1. /\ task[a].pc = "created" /\ Free
      /\ UNCHANGED <<core, step, stray, lock, driver, session, history>>
  BY DEF Resolve, Quiet
<1>2. lock.holder = "nobody"
  BY <1>1, ConstantsTyped DEF Free
<1>3. /\ disk'.core = disk.core /\ disk'.gap = disk.gap
      /\ \A b \in Actions : b # a => task'[b] = task[b]
  BY TypedFacts DEF Resolve, Disks
<1>4. \/ task'[a].pc \in {"done", "raised"} /\ disk'.intent = disk.intent
      \/ /\ task'[a].pc = "run" /\ task'[a].recovering = FALSE
         /\ a \notin disk.intent /\ disk'.intent = disk.intent \cup {a}
      \/ /\ task'[a].pc = "run" /\ task'[a].recovering = task[a].recovering
         /\ a \in disk.intent /\ disk'.intent = disk.intent
  BY TypedFacts DEF Resolve, Disks, Tasks
<1>5. InFlight' = InFlight
  BY <1>1, <1>3, <1>4
<1>6. Owned' /\ Employed' /\ Cored'
  BY <1>1, <1>2, <1>3, <1>4, <1>5, TypedFacts
<1>7. Issued' /\ Agreed' /\ GivenUp'
  BY <1>1, <1>2, <1>3, <1>4, <1>5, TypedFacts
<1>8. Startable'
  BY <1>1, <1>2, <1>3, <1>4, <1>5, TypedFacts
<1>9. Performed'
  <2>1. \A b \in Actions \ {a} : task'[b] = task[b] /\ (b \in disk'.intent <=> b \in disk.intent)
    BY <1>3, <1>4
  <2>2. UNCHANGED history
    BY <1>1
  <2>3. CASE a \in disk.intent
    BY <1>1, <1>4, <2>1, <2>2, <2>3
  <2>4. CASE a \notin disk.intent
    <3>1. history.performed[a] = 0
      BY <2>4, TypedFacts DEF Histories
    <3> QED BY <1>1, <1>4, <2>1, <2>2, <2>4, <3>1
  <2> QED BY <2>3, <2>4
<1> QED BY <1>6, <1>7, <1>8, <1>9

LEMMA PerformSafe ==
  ASSUME IInv, NEW a \in Actions, Perform(a)
  PROVE  Safe'
<1>1. /\ task[a].pc = "run"
      /\ UNCHANGED <<disk, core, step, stray, lock, driver, session>>
  BY DEF Perform, Quiet
<1>2. /\ task'[a].pc = "record" /\ \A b \in Actions : b # a => task'[b] = task[b]
  BY TypedFacts DEF Perform, Tasks
<1>3. /\ \A b \in Actions : b # a => history'.performed[b] = history.performed[b]
      /\ \/ history'.performed[a] = history.performed[a]
         \/ Attempt(a) /\ history'.performed[a] = history.performed[a] + 1
  BY TypedFacts DEF Perform, Histories
<1>4. \A b \in Actions : history.performed[b] \in Int
  BY TypedFacts DEF Histories
<1> QED BY <1>1, <1>2, <1>3, <1>4, TypedFacts, NamesAssumption DEF Attempt

LEMMA RecordSafe ==
  ASSUME IInv, NEW a \in Actions, Record(a)
  PROVE  Safe'
<1>1. /\ task[a].pc = "record" /\ UNCHANGED <<core, step, stray, lock, driver, session, history>>
      /\ UNCHANGED <<disk.core, disk.gap, disk.intent>>
      /\ \A b \in Actions : b # a => task'[b] = task[b]
      /\ task'[a].pc \in {"done", "raised"}
  BY TypedFacts DEF Record, Quiet, Disks, Tasks
<1> QED BY <1>1, TypedFacts

LEMMA RecordCancelledSafe ==
  ASSUME IInv, NEW a \in Actions, RecordCancelled(a)
  PROVE  Safe'
<1>1. /\ task[a].pc = "cancelled" /\ UNCHANGED <<core, step, stray, lock, driver, session>>
      /\ UNCHANGED <<disk.core, disk.gap, disk.intent>>
      /\ \A b \in Actions : b # a => task'[b] = task[b]
      /\ task'[a].pc = "none"
  BY TypedFacts DEF RecordCancelled, Quiet, Disks, NoTask
<1>2. /\ \A b \in Actions : b # a => history'.performed[b] = history.performed[b]
      /\ \/ history'.performed[a] = history.performed[a]
         \/ Attempt(a) /\ history'.performed[a] = history.performed[a] + 1
  <2>1. PICK begun \in {FALSE, Attempt(a)} :
          history' = IF begun THEN [history EXCEPT !.performed[a] = @ + 1] ELSE history
    BY DEF RecordCancelled
  <2>2. CASE begun
    BY <2>1, <2>2, TypedFacts DEF Histories
  <2>3. CASE ~begun
    BY <2>1, <2>3
  <2> QED BY <2>2, <2>3
<1>3. \A b \in Actions : history.performed[b] \in Int
  BY TypedFacts DEF Histories
<1> QED BY <1>1, <1>2, <1>3, TypedFacts, NamesAssumption DEF Attempt

LEMMA DeliverSafe ==
  ASSUME IInv, NEW a \in Actions, Deliver(a)
  PROVE  Safe'
<1>1. /\ driver.pc = "wait" /\ task[a].pc = "done" /\ Free
      /\ UNCHANGED <<disk, stray, session, history>>
  BY DEF Deliver
<1>2. lock.holder = "nobody"
  BY <1>1, ConstantsTyped DEF Free
<1>3. CASE a \in core.pending
  <2>1. PICK outcome \in Given(a) : \E after \in Heard(core, a, outcome) :
          Apply("result", after)
          /\ driver' = [driver EXCEPT !.pc = "writing", !.step = after.step, !.action = a]
    BY <1>3 DEF Deliver
  <2>2. PICK after \in Heard(core, a, outcome) :
          Apply("result", after)
          /\ driver' = [driver EXCEPT !.pc = "writing", !.step = after.step, !.action = a]
    BY <2>1
  <2>3. outcome \in {"none"} \cup Outcomes
    BY TypedFacts DEF Given, Tasks
  <2>4. Grown(after, core) /\ a \notin after.core.pending
    BY <1>3, <2>3, TypedFacts, HeardGrows
  <2>5. /\ lock'.holder = "result" /\ lock'.base.core = core /\ core' = after.core
        /\ Sound(core') /\ Follows(core', core) /\ step'.start \cap core.used = {}
        /\ step' = after.step
    BY <2>2, <2>4, ApplyFacts
  <2>6. /\ driver'.pc = "writing" /\ driver'.step = step' /\ driver'.action = a
        /\ UNCHANGED <<driver.command, driver.recovering>>
    BY <2>2, <2>5, TypedFacts DEF Drivers
  <2>7. UNCHANGED task
    BY <1>3 DEF Deliver
  <2> QED BY <1>1, <1>2, <2>4, <2>5, <2>6, <2>7, TypedFacts
<1>4. CASE a \notin core.pending
  <2>1. /\ driver' = [driver EXCEPT !.pc = "drive"] /\ task' = [task EXCEPT ![a] = NoTask]
        /\ UNCHANGED <<core, step, lock>>
    BY <1>4 DEF Deliver
  <2>2. /\ driver'.pc = "drive" /\ UNCHANGED <<driver.step, driver.recovering, driver.action>>
        /\ task'[a].pc = "none" /\ \A b \in Actions : b # a => task'[b] = task[b]
    BY <2>1, TypedFacts DEF Drivers, NoTask
  <2>3. a \notin Awaited \/ a \notin disk.intent
    BY <1>1, <1>4
  <2> QED BY <1>1, <1>2, <2>1, <2>2, <2>3, TypedFacts
<1> QED BY <1>3, <1>4

LEMMA DeliverRaisedSafe ==
  ASSUME IInv, NEW a \in Actions, DeliverRaised(a)
  PROVE  Safe'
<1>1. /\ driver.pc = "wait" /\ driver' = [driver EXCEPT !.pc = "failing", !.why = "error"]
      /\ UNCHANGED <<disk, core, step, stray, lock, task, session, history>>
  BY DEF DeliverRaised, memory
<1>2. driver'.pc = "failing" /\ UNCHANGED <<driver.action, driver.recovering>>
  BY <1>1, TypedFacts DEF Drivers
<1> QED BY <1>1, <1>2, TypedFacts

-----------------------------------------------------------------------------
(* The theorems.                                                           *)

LEMMA Initially == Init => IInv
<1> SUFFICES ASSUME Init PROVE IInv
  OBVIOUS
<1>1. /\ core = Fresh /\ step = NoStep /\ lock = Unlocked /\ stray = {} /\ driver = NoDriver
      /\ task = [a \in Actions |-> NoTask] /\ desk = [owed |-> {}, cancelled |-> {}]
      /\ session = [mode |-> "up", interrupt |-> FALSE]
      /\ disk.core = Fresh /\ disk.intent = {} /\ disk.gap = FALSE
      /\ history.performed = [a \in Actions |-> 0]
  BY DEF Init
<1>2. TypeOK
  <2>1. disk \in Disks
    BY ConstantsTyped DEF Init, Disks, Ids
  <2>2. history \in Histories /\ desk \in Desks /\ session \in Sessions /\ spent \in Spendings
    BY DEF Init, Histories, Desks, Sessions, Spendings
  <2>3. lock \in Locks
    BY <1>1, ConstantsTyped DEF Locks, Unlocked, Held
  <2>4. task \in [Actions -> Tasks]
    BY <1>1, ConstantsTyped
  <2> QED BY <1>1, <2>1, <2>2, <2>3, <2>4, ConstantsTyped DEF TypeOK
<1>3. /\ driver.pc = "idle" /\ driver.recovering = FALSE /\ driver.action = None
      /\ \A a \in Actions : task[a].pc = "none"
      /\ lock.holder = "nobody" /\ lock.base.core = Fresh
      /\ Fresh.used = {} /\ Fresh.pending = {}
  <2>1. driver.pc = "idle" /\ driver.recovering = FALSE /\ driver.action = None
    BY <1>1 DEF NoDriver
  <2>2. \A a \in Actions : task[a].pc = "none"
    BY <1>1 DEF NoTask
  <2>3. lock.holder = "nobody" /\ lock.base.core = Fresh
    BY <1>1, ConstantsTyped
  <2>4. Fresh.used = {} /\ Fresh.pending = {}
    BY DEF Fresh
  <2> QED BY <2>1, <2>2, <2>3, <2>4
<1> QED BY <1>1, <1>2, <1>3

HIDE DEF IInv, Safe, Owned, Employed, Cored, Issued, Agreed, GivenUp, Startable, Performed,
         Running, InFlight, Awaited, Sound, Follows, EffectOnce

LEMMA Stepwise == IInv /\ [Next]_vars => IInv'
<1> SUFFICES ASSUME IInv, [Next]_vars PROVE IInv'
  OBVIOUS
<1>1. TypeOK'
  BY Typed DEF IInv, Safe
<1> SUFFICES Safe'
  BY <1>1 DEF IInv
<1>2. CASE UNCHANGED vars
  BY <1>2 DEF vars, IInv, Safe, Owned, Employed, Cored, Issued, Agreed, GivenUp, Startable,
     Performed, Running, InFlight, Awaited, Sound, Follows, EffectOnce
<1>3. CASE Requests
  BY <1>3, ReserveSafe, AskInterruptSafe, InputSafe, AskCloseSafe DEF Requests
<1>4. CASE Faults
  BY <1>4, StrayLostSafe, CrashSafe, RestoreSafe DEF Faults
<1>5. CASE Serve
  <2>1. CASE Take \/ CommandLands \/ Start \/ Abandon \/ Reap \/ ResultLands \/ InputRefused
             \/ Settle \/ Raise \/ Answer
    BY <2>1, TakeSafe, CommandLandsSafe, StartSafe, AbandonSafe, ReapSafe, ResultLandsSafe,
       InputRefusedSafe, SettleSafe, RaiseSafe, AnswerSafe
  <2>2. CASE \E a \in Actions : \/ Resolve(a) \/ Perform(a) \/ Record(a) \/ RecordCancelled(a)
                               \/ Deliver(a) \/ DeliverRaised(a)
    BY <2>2, ResolveSafe, PerformSafe, RecordSafe, RecordCancelledSafe, DeliverSafe,
       DeliverRaisedSafe
  <2>3. CASE ApplyInterrupt \/ InterruptLands \/ InterruptRefused \/ CloseReceipts
             \/ InputLands \/ InputFails \/ StrayLands \/ Shut \/ Recovered
    BY <2>3, ApplyInterruptSafe, InterruptLandsSafe, InterruptRefusedSafe, CloseReceiptsSafe,
       InputLandsSafe, InputFailsSafe, StrayLandsSafe, ShutSafe, RecoveredSafe
  <2> QED BY <1>5, <2>1, <2>2, <2>3 DEF Serve
<1> QED BY <1>1, <1>2, <1>3, <1>4, <1>5 DEF Next

\* Every variable keeps its type.
THEOREM SessionTypedHolds == Spec => []TypeOK
<1>1. IInv => TypeOK
  BY DEF IInv
<1> QED BY <1>1, Initially, Stepwise, PTL DEF Spec

\* Whatever the actions, the commands, the restarts, the interruptions and the
\* writes that fail: an effect that must not be repeated is performed once.
THEOREM EffectOnceHolds == Spec => []EffectOnce
<1>1. IInv => EffectOnce
  BY DEF IInv, Safe, Performed
<1> QED BY <1>1, Initially, Stepwise, PTL DEF Spec

\* The core waits for, and tasks exist of, actions it has issued; and what a
\* driver still means to start anew has no stored intent.
THEOREM IssuedHolds == Spec => [](Issued /\ Startable)
<1>1. IInv => Issued /\ Startable
  BY DEF IInv, Safe
<1> QED BY <1>1, Initially, Stepwise, PTL DEF Spec
=============================================================================
