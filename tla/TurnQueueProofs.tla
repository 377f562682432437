---------------------------- MODULE TurnQueueProofs ----------------------------
(***************************************************************************)
(* Proofs, for any numbers of prompts, turns, interruptions, failures and  *)
(* updates, that a running turn has a driver, that a prompt is taken by    *)
(* the core once, that queued prompts are taken in their order, and that   *)
(* none of them is left with nothing to move it.                           *)
(*                                                                         *)
(* A turn loses its driver only to an interruption that then ends it under *)
(* the same lock, because nothing else touches the task of a turn that is  *)
(* driven: what follows a response is for a turn whose task has not begun  *)
(* (Awaiting).  A prompt is in the queue, or with the task of one turn, or *)
(* taken (Itemized, Drained); it leaves the queue for good in the step     *)
(* that hands it on, so it is taken twice only if a steering that failed   *)
(* left its receipt open (Once).                                           *)
(*                                                                         *)
(* Each turn that has a command to submit stands once in the line for the  *)
(* Runtime's lock (Lined), so what the queue gives out in order is taken   *)
(* in that order: every prompt in the queue is behind those it gave        *)
(* (Rising), and every prompt in the line behind those in front of it      *)
(* (InTurn).                                                               *)
(*                                                                         *)
(* A reservation has a task or a response that is to be followed by one    *)
(* (Pending).  A prompt that waits is called for, or something goes on     *)
(* whose end will call for it (Called): the task the session counts as     *)
(* active has an end the session will see (Scheduling), and no end is      *)
(* announced of a task that never began (Known), so none is taken for one  *)
(* that was heard before.                                                  *)
(***************************************************************************)
EXTENDS TurnQueue, FiniteSetTheorems, SequenceTheorems, TLAPS

Sessions == [items : Seq(Item), paused : BOOLEAN, kind : KindsOfPrompts,
             used : [Keys -> {0} \cup ItemIds], reserved : Nat, active : Nat,
             drain : BOOLEAN, lastTerminal : Nat, promoted : BOOLEAN]
Tasks == [Turns -> [phase : Phases, key : Keys \cup {None}]]
Cores == [active : Nat, follow : Nat, driver : Nat, last : Nat,
          outcome : Outcomes, unheard : BOOLEAN]
Locks == [holder : {"none", "steer", "interrupt", "hearing"}, turn : Nat, item : Nat]
Replies == [kind : {"start", "deferred", "interrupted", "queue"}, turn : Nat]
Receipts == [ItemIds -> [state : {"none", "open", "done"}, turn : Nat]]
Spendings == [starts : Nat, interrupts : Nat, news : Nat, failures : Nat]
Entries == [key : Keys, turn : Nat]

Typed ==
  /\ session \in Sessions /\ tasks \in Tasks /\ core \in Cores
  /\ lock \in Locks /\ replies \subseteq Replies
  /\ steered \in Receipts /\ spent \in Spendings
  /\ history \in [taken : Seq(Entries), silent : BOOLEAN, unsent : BOOLEAN]

\* Only a prompt has context, and only a drained turn has a prompt.
Keyed ==
  \A t \in Turns : /\ tasks[t].phase = "context" => tasks[t].key # None
                   /\ tasks[t].phase \in {"none", "preparing"} => tasks[t].key = None

\* Turns are numbered in the order they come.
Numbered == \E n \in Nat : {t \in Turns : tasks[t].phase # "none"} = 1..n

\* What follows the response to a request that starts a turn.
Starting(r) == r.kind \in {"start", "deferred"} /\ r.turn \in Turns
Untouched == Phases \ {"none", "preparing", "context", "due", "driving"}

\* Nothing is done for a turn before the response, and that comes once.
Awaiting ==
  /\ \A r \in replies : Starting(r) =>
       tasks[r.turn].phase \in Untouched /\ tasks[r.turn].key = None
  /\ \A r, q \in replies : Starting(r) /\ Starting(q) /\ r.turn = q.turn => r = q

Driven == core.active # 0 => core.driver \in Turns

Sound == Typed /\ Keyed /\ Numbered /\ Awaiting /\ Driven /\ TurnIsDriven

-----------------------------------------------------------------------------
(* Constants and counts.                                                   *)

LEMMA Counts ==
  /\ IsFiniteSet(Keys) /\ Cardinality(Keys) \in Nat
  /\ Turns \subseteq Nat \ {0} /\ IsFiniteSet(Turns)
  /\ ItemIds \subseteq Nat \ {0}
<1>1. IsFiniteSet(Keys) /\ Cardinality(Keys) \in Nat
  BY CapacityAssumption, FS_CardinalityType
<1>2. MaxStarts + Cardinality(Keys) \in Nat
  BY <1>1, BoundAssumption
<1>3. IsFiniteSet(1..(MaxStarts + Cardinality(Keys)))
  BY <1>2, FS_Interval
<1>4. Turns \subseteq Nat \ {0} /\ ItemIds \subseteq Nat \ {0}
  BY <1>1, <1>2 DEF Turns, ItemIds
<1> QED BY <1>1, <1>3, <1>4 DEF Turns

\* The next turn is one that was not begun.
LEMMA NewTurnFresh ==
  ASSUME Typed, Numbered
  PROVE  /\ NewTurn \in Nat \ {0}
         /\ {t \in Turns : tasks[t].phase # "none"} = 1..(NewTurn - 1)
         /\ NewTurn \in Turns => tasks[NewTurn].phase = "none"
<1>1. PICK n \in Nat : {t \in Turns : tasks[t].phase # "none"} = 1..n
  BY DEF Numbered
<1>2. Cardinality(1..n) = n
  BY FS_Interval
<1>3. NewTurn = 1 + Cardinality(1..n)
  BY <1>1, Zenon DEF NewTurn
<1>4. NewTurn = n + 1
  BY <1>2, <1>3
<1> QED BY <1>1, <1>4

\* A task that has begun moves on.
LEMMA Moved ==
  ASSUME Typed, Keyed, Numbered, NEW t, NEW ph \in Phases \ {"none"},
         tasks' = SetPhase(tasks, t, ph),
         t \in Turns => /\ tasks[t].phase # "none"
                        /\ ph = "context" => tasks[t].key # None
                        /\ ph = "preparing" => tasks[t].key = None
  PROVE  /\ tasks' \in Tasks /\ Keyed' /\ Numbered'
         /\ \A u \in Turns : /\ tasks'[u].key = tasks[u].key
                             /\ tasks'[u].phase = IF u = t THEN ph ELSE tasks[u].phase
<1>1. tasks \in Tasks
  BY DEF Typed
<1>2. tasks' \in Tasks
  BY <1>1 DEF SetPhase, Tasks
<1>3. \A u \in Turns : /\ tasks'[u].key = tasks[u].key
                       /\ tasks'[u].phase = IF u = t THEN ph ELSE tasks[u].phase
  BY <1>1 DEF SetPhase, Tasks
<1>4. {u \in Turns : tasks'[u].phase # "none"} = {u \in Turns : tasks[u].phase # "none"}
  BY <1>3
<1> QED BY <1>2, <1>3, <1>4 DEF Keyed, Numbered

LEMMA StillNumbered ==
  ASSUME Typed, Keyed, Numbered, tasks' = tasks
  PROVE  tasks' \in Tasks /\ Keyed' /\ Numbered'
BY DEF Typed, Keyed, Numbered

LEMMA Spending ==
  ASSUME Typed, NEW what \in {"starts", "interrupts", "news", "failures"},
         spent' = Spend(what)
  PROVE  /\ spent' \in Spendings /\ spent'.failures >= spent.failures
         /\ what = "failures" => spent'.failures > 0
BY DEF Typed, Spendings, Spend

-----------------------------------------------------------------------------
(* What the session makes of events.                                       *)

\* Of the session, only the queue and the keys matter below.
Kept(s, r) == r.items = s.items /\ r.used = s.used /\ r.kind = s.kind

LEMMA DrainingKept ==
  ASSUME NEW s \in Sessions, NEW c, NEW p
  PROVE  Draining(s, c, p) \in Sessions /\ Kept(s, Draining(s, c, p))
BY DEF Draining, Sessions, Kept

LEMMA ReconciledKept ==
  ASSUME NEW s \in Sessions
  PROVE  Reconciled(s) \in Sessions /\ Kept(s, Reconciled(s))
BY DEF Reconciled, Sessions, Kept

LEMMA TerminalKept ==
  ASSUME NEW s \in Sessions, NEW c, NEW p, NEW t \in Nat, NEW outcome
  PROVE  Terminal(s, c, p, t, outcome) \in Sessions /\ Kept(s, Terminal(s, c, p, t, outcome))
<1> DEFINE noted == [s EXCEPT !.lastTerminal = t]
           halted == [noted EXCEPT !.paused = s.paused \/ s.items # <<>>]
<1>1. noted \in Sessions /\ Kept(s, noted) /\ halted \in Sessions /\ Kept(s, halted)
  BY DEF Sessions, Kept
<1>2. Draining(noted, c, p) \in Sessions /\ Kept(s, Draining(noted, c, p))
  <2> HIDE DEF noted
  <2>1. Draining(noted, c, p) \in Sessions /\ Kept(noted, Draining(noted, c, p))
    BY <1>1, DrainingKept
  <2> QED BY <1>1, <2>1 DEF Kept
<1> QED BY <1>1, <1>2 DEF Terminal, Kept

LEMMA AnnouncedKept ==
  ASSUME NEW s \in Sessions, NEW c, NEW p, NEW t \in Nat, NEW outcome
  PROVE  /\ Announced(s, c, p, t, outcome) \in Sessions
         /\ Kept(s, Announced(s, c, p, t, outcome))
BY ReconciledKept, TerminalKept DEF Announced, Kept

LEMMA HeardKept ==
  ASSUME NEW s \in Sessions, NEW c \in Cores, NEW p
  PROVE  Heard(s, c, p) \in Sessions /\ Kept(s, Heard(s, c, p))
<1>1. c.last \in Nat
  BY DEF Cores
<1> QED BY <1>1, ReconciledKept, TerminalKept DEF Heard, Kept

LEMMA UnpausedKept ==
  ASSUME NEW s \in Sessions
  PROVE  Unpaused(s) \in Sessions /\ Kept(s, Unpaused(s))
BY DEF Unpaused, Sessions, Kept

LEMMA ReapedKept ==
  ASSUME NEW s \in Sessions, NEW c, NEW p, NEW t \in Nat,
         p[t].phase \in {"over", "failed", "cancelled"}
  PROVE  Reaped(s, c, p, t) \in Sessions /\ Kept(s, Reaped(s, c, p, t))
<1> DEFINE cleared == [s EXCEPT !.reserved = 0, !.active = 0]
<1>1. cleared \in Sessions /\ Kept(s, cleared)
  BY DEF Sessions, Kept
<1>2. /\ Announced(cleared, c, p, t, "failed") \in Sessions
      /\ Kept(s, Announced(cleared, c, p, t, "failed"))
      /\ Draining(cleared, c, p) \in Sessions /\ Kept(s, Draining(cleared, c, p))
  <2> HIDE DEF cleared
  <2>1. /\ Announced(cleared, c, p, t, "failed") \in Sessions
        /\ Kept(cleared, Announced(cleared, c, p, t, "failed"))
    BY <1>1, AnnouncedKept
  <2>2. Draining(cleared, c, p) \in Sessions /\ Kept(cleared, Draining(cleared, c, p))
    BY <1>1, DrainingKept
  <2> QED BY <1>1, <2>1, <2>2 DEF Kept
<1> HIDE DEF cleared
<1>3. Reaped(s, c, p, t) \in {s, cleared, Draining(cleared, c, p),
                              Announced(cleared, c, p, t, "failed")}
  BY DEF Reaped, cleared
<1> QED BY <1>1, <1>2, <1>3 DEF Kept

-----------------------------------------------------------------------------
(* What the actions do to the parts of the invariant.                      *)

\* A steered item stays while its receipt is being written.
Gone(i) == Positions(i) = {}
Steering == lock.holder = "steer" => lock.item \in ItemIds /\ ~Gone(lock.item)

Secure == Sound /\ Steering

LEMMA AwaitingFrame ==
  ASSUME Awaiting,
         \A r \in replies' : r \in replies \/ ~Starting(r),
         \A t \in Turns : tasks[t].phase \in Untouched =>
           tasks'[t].phase \in Untouched /\ tasks'[t].key = tasks[t].key
  PROVE  Awaiting'
BY DEF Awaiting, Starting

LEMMA DrivenFrame ==
  ASSUME Typed, Driven, TurnIsDriven,
         core' = core, lock' = lock \/ lock.holder # "interrupt",
         spent' \in Spendings, spent'.failures >= spent.failures,
         \A t \in Turns : tasks[t].phase = "driving" => tasks'[t].phase = "driving"
  PROVE  Driven' /\ TurnIsDriven'
BY DEF Typed, Driven, TurnIsDriven, Spendings

LEMMA SteeringFrame ==
  ASSUME Steering,
         \/ lock' = lock /\ session'.items = session.items
         \/ lock'.holder # "steer"
  PROVE  Steering'
BY DEF Steering, Gone, Positions

LEMMA RemoveAtFacts ==
  ASSUME NEW S, NEW s \in Seq(S), NEW n \in 1..Len(s)
  PROVE  /\ RemoveAt(s, n) \in Seq(S) /\ Len(RemoveAt(s, n)) = Len(s) - 1
         /\ \A m \in 1..(Len(s) - 1) :
              RemoveAt(s, n)[m] = IF m < n THEN s[m] ELSE s[m + 1]
<1> DEFINE before == SubSeq(s, 1, n - 1)
           after == SubSeq(s, n + 1, Len(s))
<1>1. before \in Seq(S) /\ Len(before) = n - 1 /\ \A m \in 1..(n - 1) : before[m] = s[m]
  OBVIOUS
<1>2. /\ after \in Seq(S) /\ Len(after) = Len(s) - n
      /\ \A m \in 1..(Len(s) - n) : after[m] = s[n + m]
  OBVIOUS
<1>3. RemoveAt(s, n) = before \o after
  BY DEF RemoveAt
<1> HIDE DEF before, after
<1>4. /\ before \o after \in Seq(S) /\ Len(before \o after) = Len(s) - 1
      /\ \A m \in 1..(Len(s) - 1) :
           (before \o after)[m] = IF m <= n - 1 THEN before[m] ELSE after[m - (n - 1)]
  <2>1. ASSUME NEW a \in Seq(S), NEW b \in Seq(S)
        PROVE  /\ a \o b \in Seq(S) /\ Len(a \o b) = Len(a) + Len(b)
               /\ \A m \in 1..(Len(a) + Len(b)) :
                    (a \o b)[m] = IF m <= Len(a) THEN a[m] ELSE b[m - Len(a)]
    OBVIOUS
  <2>2. Len(s) \in Nat /\ Len(before) + Len(after) = Len(s) - 1
    BY <1>1, <1>2
  <2>3. /\ before \o after \in Seq(S) /\ Len(before \o after) = Len(before) + Len(after)
        /\ \A m \in 1..(Len(before) + Len(after)) :
             (before \o after)[m] =
               IF m <= Len(before) THEN before[m] ELSE after[m - Len(before)]
    BY <1>1, <1>2, <2>1
  <2> QED BY <1>1, <2>2, <2>3
<1> QED BY <1>1, <1>2, <1>3, <1>4

\* One item leaves; the others keep their order.
OneLeft(s, i, w) ==
  \E n \in 1..Len(s.items) :
    /\ s.items[n].id = i /\ Len(w.items) = Len(s.items) - 1
    /\ \A m \in 1..(Len(s.items) - 1) :
         w.items[m] = IF m < n THEN s.items[m] ELSE s.items[m + 1]

LEMMA WithoutKept ==
  ASSUME NEW s \in Sessions, NEW i, NEW c \in DOMAIN s.items, s.items[c].id = i
  PROVE  /\ Without(s, i) \in Sessions /\ Without(s, i).used = s.used
         /\ Without(s, i).kind = s.kind /\ OneLeft(s, i, Without(s, i))
<1> DEFINE n == CHOOSE n \in DOMAIN s.items : s.items[n].id = i
           shorter == [s EXCEPT !.items = RemoveAt(s.items, n)]
<1>1. n \in DOMAIN s.items /\ s.items[n].id = i
  OBVIOUS
<1>2. s.items \in Seq(Item)
  BY DEF Sessions
<1>3. Without(s, i) = Unpaused(shorter)
  BY DEF Without
<1> HIDE DEF n
<1>4. n \in 1..Len(s.items)
  BY <1>1, <1>2
<1>5. /\ RemoveAt(s.items, n) \in Seq(Item)
      /\ Len(RemoveAt(s.items, n)) = Len(s.items) - 1
      /\ \A m \in 1..(Len(s.items) - 1) :
           RemoveAt(s.items, n)[m] = IF m < n THEN s.items[m] ELSE s.items[m + 1]
  BY <1>2, <1>4, RemoveAtFacts
<1>6. /\ shorter \in Sessions /\ shorter.items = RemoveAt(s.items, n)
      /\ shorter.used = s.used /\ shorter.kind = s.kind
  BY <1>5 DEF Sessions
<1> HIDE DEF shorter
<1>7. Unpaused(shorter) \in Sessions /\ Kept(shorter, Unpaused(shorter))
  BY <1>6, UnpausedKept
<1> QED BY <1>1, <1>3, <1>4, <1>5, <1>6, <1>7 DEF Kept, OneLeft
-----------------------------------------------------------------------------
(* One lemma for each action.                                              *)

LEMMA StartSecure ==
  ASSUME Secure, NEW kind \in {"start", "deferred"}, Start(kind)
  PROVE  Secure'
<1> USE DEF Secure, Sound
<1> DEFINE t == NewTurn
<1>1. /\ t \in Nat \ {0} /\ {u \in Turns : tasks[u].phase # "none"} = 1..(t - 1)
      /\ t \in Turns => tasks[t].phase = "none"
  BY NewTurnFresh
<1>2. /\ tasks' = [tasks EXCEPT ![t].phase = "reserved"] /\ core' = core /\ lock' = lock
      /\ replies' = replies \cup {[kind |-> kind, turn |-> t]}
      /\ session' = [session EXCEPT !.reserved = t,
                                    !.promoted = @ \/ kind = "start"]
      /\ steered' = steered /\ history' = history
  BY DEF Start, SetPhase, Reply
<1>3. spent' \in Spendings /\ spent'.failures >= spent.failures
  BY Spending DEF Start
<1> HIDE DEF t
<1>4. session' \in Sessions /\ session'.items = session.items
  BY <1>1, <1>2 DEF Typed, Sessions
<1>5. /\ tasks' \in Tasks
      /\ \A u \in Turns : /\ tasks'[u].key = tasks[u].key
                          /\ tasks'[u].phase = IF u = t THEN "reserved" ELSE tasks[u].phase
  BY <1>2 DEF Typed, Tasks, Phases
<1>6. replies' \subseteq Replies
  BY <1>1, <1>2 DEF Typed, Replies
<1>7. Typed'
  BY <1>2, <1>3, <1>4, <1>5, <1>6 DEF Typed
<1>8. Keyed'
  BY <1>5 DEF Keyed
<1>9. Numbered'
  <2>1. CASE t \in Turns
    <3>1. {u \in Turns : tasks'[u].phase # "none"}
            = {u \in Turns : tasks[u].phase # "none"} \cup {t}
      BY <1>5, <2>1
    <3>2. 1..(t - 1) \cup {t} = 1..t
      BY <1>1
    <3> QED BY <1>1, <3>1, <3>2 DEF Numbered
  <2>2. CASE t \notin Turns
    <3>1. {u \in Turns : tasks'[u].phase # "none"} = {u \in Turns : tasks[u].phase # "none"}
      BY <1>5, <2>2
    <3> QED BY <3>1 DEF Numbered
  <2> QED BY <2>1, <2>2
<1>10. Awaiting'
  <2>1. \A r \in replies : Starting(r) => r.turn # t
    BY <1>1 DEF Awaiting, Starting, Untouched
  <2>2. t \in Turns => tasks[t].key = None
    BY <1>1 DEF Keyed
  <2> QED BY <1>2, <1>5, <2>1, <2>2 DEF Awaiting, Starting, Untouched, Phases
<1>11. Driven' /\ TurnIsDriven'
  BY <1>1, <1>2, <1>3, <1>5, DrivenFrame
<1>12. Steering'
  BY <1>2, <1>4, SteeringFrame
<1> QED BY <1>7, <1>8, <1>9, <1>10, <1>11, <1>12

\* What a response is followed by keeps the core, the lock and the queue.
LEMMA InterruptedKept ==
  ASSUME Typed, NEW t \in Nat, Interrupted(t)
  PROVE  session' \in Sessions /\ Kept(session, session')
<1> DEFINE heard == Announced(session, core, tasks, t, "interrupted")
           resumed == [heard EXCEPT !.paused = FALSE]
<1>1. session \in Sessions
  BY DEF Typed
<1>2. heard \in Sessions /\ Kept(session, heard)
  BY <1>1, AnnouncedKept
<1>3. session' = Draining(resumed, core, tasks)
  BY DEF Interrupted
<1> HIDE DEF heard
<1>4. resumed \in Sessions /\ Kept(session, resumed)
  BY <1>2 DEF Sessions, Kept
<1> HIDE DEF resumed
<1>5. Draining(resumed, core, tasks) \in Sessions
      /\ Kept(resumed, Draining(resumed, core, tasks))
  BY <1>4, DrainingKept
<1> QED BY <1>3, <1>4, <1>5 DEF Kept

LEMMA ScheduledKept ==
  ASSUME NEW s \in Sessions, NEW t \in Nat
  PROVE  Scheduled(s, t) \in Sessions /\ Kept(s, Scheduled(s, t))
BY DEF Scheduled, Sessions, Kept

\* A reply leaves, and with it the right to begin its turn.
LEMMA AnsweredSecure ==
  ASSUME Secure, NEW r \in replies, replies' = replies \ {r},
         session' \in Sessions, session'.items = session.items,
         tasks' \in Tasks, Keyed', Numbered',
         UNCHANGED <<core, lock, steered, spent>>,
         history' \in [taken : Seq(Entries), silent : BOOLEAN, unsent : BOOLEAN],
         \A u \in Turns :
           tasks'[u] = tasks[u] \/ (Starting(r) /\ r.turn = u)
  PROVE  Secure'
<1> USE DEF Secure, Sound
<1>1. Typed'
  BY DEF Typed
<1>2. Awaiting'
  BY DEF Awaiting, Starting
<1>3. \A u \in Turns : tasks[u].phase = "driving" => tasks'[u].phase = "driving"
  BY DEF Awaiting, Untouched
<1>4. spent' \in Spendings /\ spent'.failures >= spent.failures
  BY DEF Typed, Spendings
<1>5. Driven' /\ TurnIsDriven'
  BY <1>3, <1>4, DrivenFrame
<1>6. Steering'
  BY SteeringFrame
<1> QED BY <1>1, <1>2, <1>5, <1>6

LEMMA AnsweredIdle ==
  ASSUME Secure, NEW r \in replies, replies' = replies \ {r},
         session' \in Sessions, session'.items = session.items, tasks' = tasks,
         UNCHANGED <<core, lock, steered, spent>>,
         history' \in [taken : Seq(Entries), silent : BOOLEAN, unsent : BOOLEAN]
  PROVE  Secure'
<1>1. tasks' \in Tasks /\ Keyed' /\ Numbered'
  BY StillNumbered DEF Secure, Sound
<1>2. \A u \in Turns : tasks'[u] = tasks[u]
  OBVIOUS
<1> QED BY <1>1, <1>2, AnsweredSecure

\* Only the task the response is about moves.
LEMMA OnlyItsTask ==
  ASSUME tasks \in Tasks, NEW r, r.kind \in {"start", "deferred"},
         NEW ph \in Phases \ {"none"},
         tasks' = SetPhase(tasks, r.turn, ph)
  PROVE  \A u \in Turns : tasks'[u] = tasks[u] \/ (Starting(r) /\ r.turn = u)
<1>1. ASSUME NEW u \in Turns, u # r.turn  PROVE tasks'[u] = tasks[u]
  BY <1>1 DEF SetPhase, Tasks
<1> QED BY <1>1 DEF Starting

LEMMA RespondSecure ==
  ASSUME Secure, NEW r \in replies, Respond(r)
  PROVE  Secure'
<1> USE DEF Secure, Sound
<1>1. /\ replies' = replies \ {r} /\ UNCHANGED <<core, lock, steered, spent, history>>
      /\ history' \in [taken : Seq(Entries), silent : BOOLEAN, unsent : BOOLEAN]
      /\ session \in Sessions /\ tasks \in Tasks /\ r.turn \in Nat
  BY DEF Respond, Typed, Replies
<1>2. CASE r.kind = "start" /\ Started(r.turn)
  <2>1. CASE session.reserved # r.turn
    BY <1>1, <1>2, <2>1, AnsweredIdle DEF Started
  <2>2. CASE session.reserved = r.turn
    <3> DEFINE ph == FirstPhase(tasks[r.turn].key)
    <3>1. session' \in Sessions /\ session'.items = session.items
      BY <1>1, <1>2, <2>2, ScheduledKept DEF Started, Kept
    <3>2. /\ ph \in Phases \ {"none"} /\ ph # "preparing"
          /\ ph = "context" => tasks[r.turn].key # None
      BY DEF FirstPhase, Phases
    <3>3. r.turn \in Turns => tasks[r.turn].phase # "none"
      BY <1>2 DEF Awaiting, Starting, Untouched
    <3>4. tasks' = SetPhase(tasks, r.turn, ph)
      BY <1>2, <2>2 DEF Started
    <3> HIDE DEF ph
    <3>5. /\ tasks' \in Tasks /\ Keyed' /\ Numbered'
          /\ \A u \in Turns : /\ tasks'[u].key = tasks[u].key
                              /\ tasks'[u].phase = IF u = r.turn THEN ph ELSE tasks[u].phase
      BY <3>2, <3>3, <3>4, Moved
    <3>6. \A u \in Turns : tasks'[u] = tasks[u] \/ (Starting(r) /\ r.turn = u)
      BY <1>1, <1>2, <3>2, <3>4, OnlyItsTask
    <3> QED BY <1>1, <3>1, <3>5, <3>6, AnsweredSecure
  <2> QED BY <2>1, <2>2
<1>3. CASE r.kind = "deferred" /\ Deferred(r.turn)
  <2>1. CASE session.reserved # r.turn
    BY <1>1, <1>3, <2>1, AnsweredIdle DEF Deferred
  <2>2. CASE session.reserved = r.turn
    <3>1. r.turn \in Turns => tasks[r.turn].phase # "none" /\ tasks[r.turn].key = None
      BY <1>3 DEF Awaiting, Starting, Untouched
    <3>2. tasks' = SetPhase(tasks, r.turn, "preparing") /\ session' = session
      BY <1>3, <2>2 DEF Deferred
    <3>3. "preparing" \in Phases \ {"none"}
      BY DEF Phases
    <3>4. tasks' \in Tasks /\ Keyed' /\ Numbered'
      BY <3>1, <3>2, <3>3, Moved
    <3>5. \A u \in Turns : tasks'[u] = tasks[u] \/ (Starting(r) /\ r.turn = u)
      BY <1>1, <1>3, <3>2, <3>3, OnlyItsTask
    <3> QED BY <1>1, <3>2, <3>4, <3>5, AnsweredSecure
  <2> QED BY <2>1, <2>2
<1>4. CASE r.kind = "interrupted" /\ Interrupted(r.turn)
  <2>1. tasks' = tasks /\ session' \in Sessions /\ session'.items = session.items
    BY <1>1, <1>4, InterruptedKept DEF Interrupted, Kept
  <2> QED BY <1>1, <2>1, AnsweredIdle
<1>5. CASE /\ session' = Draining(session, core, tasks)
           /\ tasks' = tasks
  <2>1. session' \in Sessions /\ session'.items = session.items
    BY <1>1, <1>5, DrainingKept DEF Kept
  <2> QED BY <1>1, <1>5, <2>1, AnsweredIdle
<1> QED BY <1>2, <1>3, <1>4, <1>5 DEF Respond

LEMMA AbandonSecure ==
  ASSUME Secure, NEW r \in replies, Abandon(r)
  PROVE  Secure'
<1> USE DEF Secure, Sound
<1>1. /\ replies' = replies \ {r} /\ UNCHANGED <<core, lock, steered, spent>>
      /\ history' \in [taken : Seq(Entries), silent : BOOLEAN, unsent : BOOLEAN]
      /\ session \in Sessions /\ tasks \in Tasks /\ r.turn \in Nat
  BY DEF Abandon, Typed, Replies
<1>2. CASE session' = session /\ tasks' = tasks
  BY <1>1, <1>2, AnsweredIdle
<1>3. CASE /\ r.kind \in {"start", "deferred"}
           /\ session' = Draining([session EXCEPT !.reserved = 0], core, tasks)
           /\ tasks' = SetPhase(tasks, r.turn, "reaped")
  <2> DEFINE s == [session EXCEPT !.reserved = 0]
  <2>1. s \in Sessions /\ Kept(session, s) /\ session' = Draining(s, core, tasks)
    BY <1>1, <1>3 DEF Sessions, Kept
  <2> HIDE DEF s
  <2>2. session' \in Sessions /\ session'.items = session.items
    BY <2>1, DrainingKept DEF Kept
  <2>3. r.turn \in Turns => tasks[r.turn].phase # "none"
    BY <1>3 DEF Awaiting, Starting, Untouched
  <2>4. "reaped" \in Phases \ {"none"}
    BY DEF Phases
  <2>5. tasks' \in Tasks /\ Keyed' /\ Numbered'
    BY <1>3, <2>3, <2>4, Moved
  <2>6. \A u \in Turns : tasks'[u] = tasks[u] \/ (Starting(r) /\ r.turn = u)
    BY <1>1, <1>3, <2>4, OnlyItsTask
  <2> QED BY <1>1, <2>2, <2>5, <2>6, AnsweredSecure
<1>4. CASE Interrupted(r.turn)
  <2>1. tasks' = tasks /\ session' \in Sessions /\ session'.items = session.items
    BY <1>1, <1>4, InterruptedKept DEF Interrupted, Kept
  <2> QED BY <1>1, <2>1, AnsweredIdle
<1> QED BY <1>2, <1>3, <1>4 DEF Abandon

\* The tasks and the core stay as they are.
LEMMA CalmSecure ==
  ASSUME Secure, tasks' = tasks, core' = core, session' \in Sessions,
         lock' \in Locks, lock' = lock \/ lock.holder # "interrupt",
         replies' = replies \/ Changed,
         steered' \in Receipts, spent' \in Spendings, spent'.failures >= spent.failures,
         history' \in [taken : Seq(Entries), silent : BOOLEAN, unsent : BOOLEAN], Steering'
  PROVE  Secure'
<1> USE DEF Secure, Sound
<1>1. tasks' \in Tasks /\ Keyed' /\ Numbered'
  BY StillNumbered
<1>2. replies' \subseteq Replies /\ \A r \in replies' : r \in replies \/ ~Starting(r)
  BY DEF Changed, Reply, Replies, Starting, Typed
<1>3. Typed'
  BY <1>1, <1>2 DEF Typed
<1>4. Awaiting'
  BY <1>2, AwaitingFrame
<1>5. Driven' /\ TurnIsDriven'
  BY DrivenFrame
<1> QED BY <1>1, <1>3, <1>4, <1>5

\* One task moves; a driving one lets its turn go only with a reason.
LEMMA MovedSecure ==
  ASSUME Secure, NEW t \in Turns, NEW ph \in Phases \ {"none", "preparing", "context"},
         tasks' = SetPhase(tasks, t, ph), tasks[t].phase # "none",
         ph \in Untouched \/ tasks[t].phase \notin Untouched,
         core' = core, session' \in Sessions, lock' \in Locks,
         \/ lock' = lock
         \/ core.active # 0 => lock'.holder = "interrupt" /\ lock'.turn = core.active,
         \/ tasks[t].phase # "driving" \/ core.active = 0 \/ core.driver # t
         \/ spent'.failures > 0 \/ lock' # lock,
         replies' \subseteq Replies, \A r \in replies' : r \in replies \/ ~Starting(r),
         steered' = steered, spent' \in Spendings, spent'.failures >= spent.failures,
         history' \in [taken : Seq(Entries), silent : BOOLEAN, unsent : BOOLEAN], Steering'
  PROVE  Secure'
<1> USE DEF Secure, Sound
<1>1. /\ tasks' \in Tasks /\ Keyed' /\ Numbered'
      /\ \A u \in Turns : /\ tasks'[u].key = tasks[u].key
                          /\ tasks'[u].phase = IF u = t THEN ph ELSE tasks[u].phase
  BY Moved
<1>2. Typed'
  BY <1>1 DEF Typed
<1>3. Awaiting'
  BY <1>1, AwaitingFrame
<1>4. Driven' /\ TurnIsDriven'
  <2>1. spent.failures \in Nat /\ spent'.failures \in Nat
    BY DEF Typed, Spendings
  <2> QED BY <1>1, <2>1 DEF Driven, TurnIsDriven
<1> QED BY <1>1, <1>2, <1>3, <1>4

LEMMA PrepareSecure ==
  ASSUME Secure, NEW t \in Turns, Prepare(t)
  PROVE  Secure'
<1> USE DEF Secure, Sound
<1>1. /\ tasks[t].phase = "preparing"
      /\ UNCHANGED <<core, lock, replies, steered, spent, history>>
      /\ session \in Sessions /\ t \in Nat
  BY Counts DEF Prepare, Typed
<1>2. PICK ph \in {"due", "reaped"} : /\ tasks' = SetPhase(tasks, t, ph)
                                      /\ session' \in Sessions /\ Kept(session, session')
  <2>1. CASE /\ session' = [Scheduled(session, t) EXCEPT !.promoted = TRUE]
             /\ tasks' = SetPhase(tasks, t, "due")
    BY <1>1, <2>1, ScheduledKept DEF Sessions, Kept
  <2>2. CASE /\ session' = Announced([session EXCEPT !.reserved = 0], core, tasks,
                                     t, "failed")
             /\ tasks' = SetPhase(tasks, t, "reaped")
    <3> DEFINE s == [session EXCEPT !.reserved = 0]
    <3>1. s \in Sessions /\ Kept(session, s)
      BY <1>1 DEF Sessions, Kept
    <3>2. session' = Announced(s, core, tasks, t, "failed")
      BY <2>2
    <3> HIDE DEF s
    <3> QED BY <1>1, <2>2, <3>1, <3>2, AnnouncedKept DEF Kept
  <2> QED BY <2>1, <2>2 DEF Prepare
<1>3. ph \in Phases \ {"none", "preparing", "context"}
  BY DEF Phases
<1>4. "preparing" \notin Untouched
  BY DEF Untouched
<1>5. Steering'
  BY <1>1, <1>2, SteeringFrame DEF Kept
<1>6. spent' \in Spendings /\ spent'.failures >= spent.failures
  BY <1>1 DEF Typed, Spendings
<1> QED BY <1>1, <1>2, <1>3, <1>4, <1>5, <1>6, MovedSecure DEF Typed

\* The requests that change the queue hold no lock across an await.
LEMMA QueueChangeSecure ==
  ASSUME Secure, LockFree, Changed, session' \in Sessions,
         UNCHANGED <<tasks, core, line, lock, steered, spent, history>>
  PROVE  Secure'
<1>1. lock' \in Locks /\ lock' = lock /\ lock'.holder # "steer"
  BY DEF LockFree, Free, Secure, Sound, Typed
<1>2. /\ steered' \in Receipts /\ spent' \in Spendings
      /\ spent'.failures >= spent.failures
      /\ history' \in [taken : Seq(Entries), silent : BOOLEAN, unsent : BOOLEAN]
  BY DEF Secure, Sound, Typed, Spendings
<1> QED BY <1>1, <1>2, CalmSecure DEF Steering

LEMMA EnqueueSecure ==
  ASSUME Secure, NEW k \in Keys, Enqueue(k)
  PROVE  Secure'
<1>1. session \in Sessions
  BY DEF Secure, Sound, Typed
<1>2. [id |-> NextItem, key |-> k] \in Item
  BY DEF Enqueue, Item
<1>3. NextItem \in ItemIds /\ Append(session.items, [id |-> NextItem, key |-> k]) \in Seq(Item)
  BY <1>1, <1>2 DEF Enqueue, Sessions
<1>4. session' = [session EXCEPT !.items = Append(session.items, [id |-> NextItem, key |-> k]),
                                 !.used[k] = NextItem,
                                 !.promoted = @ \/ session.reserved = 0]
  BY DEF Enqueue
<1>5. session' \in Sessions
  BY <1>1, <1>3, <1>4 DEF Sessions
<1> QED BY <1>5, QueueChangeSecure DEF Enqueue

LEMMA ReplaceSecure ==
  ASSUME Secure, NEW k \in Keys, NEW i \in ItemIds, Replace(i, k)
  PROVE  Secure'
<1>1. session \in Sessions
  BY DEF Secure, Sound, Typed
<1>2. session.items \in Seq(Item)
  BY <1>1 DEF Sessions
<1>3. Replaced(session, i, k) \in Seq(Item)
  <2>1. [id |-> i, key |-> k] \in Item
    BY DEF Item
  <2>2. Replaced(session, i, k) \in [1..Len(session.items) -> Item]
    BY <1>2, <2>1 DEF Replaced
  <2> QED BY <1>2, <2>2 DEF Seq
<1>4. session' = [session EXCEPT !.items = Replaced(session, i, k), !.used[k] = i]
  BY DEF Replace
<1>5. session' \in Sessions
  BY <1>1, <1>3, <1>4 DEF Sessions
<1> QED BY <1>5, QueueChangeSecure DEF Replace

LEMMA WithdrawSecure ==
  ASSUME Secure, NEW i \in ItemIds, Withdraw(i)
  PROVE  Secure'
<1>1. session \in Sessions
  BY DEF Secure, Sound, Typed
<1>2. PICK c \in DOMAIN session.items : session.items[c].id = i
  BY DEF Withdraw, Positions
<1>3. session' \in Sessions
  BY <1>1, <1>2, WithoutKept DEF Withdraw
<1> QED BY <1>3, QueueChangeSecure DEF Withdraw

LEMMA ResumeSecure ==
  ASSUME Secure, Resume
  PROVE  Secure'
<1>1. session' \in Sessions
  BY DEF Secure, Sound, Typed, Sessions, Resume
<1> QED BY <1>1, QueueChangeSecure DEF Resume

LEMMA DrainSecure ==
  ASSUME Secure, Drain
  PROVE  Secure'
<1> USE DEF Secure, Sound
<1>1. /\ LockFree /\ UNCHANGED <<core, lock, replies, steered, spent>>
      /\ history' \in [taken : Seq(Entries), silent : BOOLEAN, unsent : BOOLEAN]
      /\ session \in Sessions
  BY DEF Drain, Typed
<1>2. lock.holder # "steer" /\ Steering'
  BY <1>1 DEF LockFree, Free, Steering
<1>3. spent' \in Spendings /\ spent'.failures >= spent.failures
  BY <1>1 DEF Typed, Spendings
<1>4. CASE session' = [session EXCEPT !.drain = FALSE] /\ tasks' = tasks
  <2>1. session' \in Sessions
    BY <1>1, <1>4 DEF Sessions
  <2> QED BY <1>1, <1>2, <1>3, <1>4, <2>1, CalmSecure DEF Typed
<1>5. CASE /\ session.items # <<>>
           /\ session' = Scheduled(Without([session EXCEPT !.drain = FALSE, !.promoted = TRUE],
                                           PeekNext(session).id), NewTurn)
           /\ tasks' = [tasks EXCEPT ![NewTurn] =
                          [phase |-> FirstPhase(PeekNext(session).key),
                           key |-> PeekNext(session).key]]
  <2> DEFINE item == PeekNext(session)
             s == [session EXCEPT !.drain = FALSE, !.promoted = TRUE]
             t == NewTurn
             ph == FirstPhase(item.key)
  <2>1. /\ t \in Nat \ {0} /\ {u \in Turns : tasks[u].phase # "none"} = 1..(t - 1)
        /\ t \in Turns => tasks[t].phase = "none"
    BY NewTurnFresh
  <2>2. session.items \in Seq(Item) /\ 1 \in DOMAIN session.items /\ item = session.items[1]
        /\ session.items[1] \in Item
    BY <1>1, <1>5 DEF Sessions, PeekNext
  <2>3. item.id \in ItemIds /\ item.key \in Keys /\ item.key # None
    BY <2>2, NoneAssumption DEF Item
  <2>4. s \in Sessions /\ s.items = session.items
    BY <1>1 DEF Sessions
  <2>5. ph \in {"context", "due"}
    BY DEF FirstPhase
  <2>6. session' = Scheduled(Without(s, item.id), t)
        /\ tasks' = [tasks EXCEPT ![t] = [phase |-> ph, key |-> item.key]]
    BY <1>5
  <2> HIDE DEF item, s, t, ph
  <2>7. Without(s, item.id) \in Sessions
    BY <2>2, <2>4, WithoutKept
  <2>8. session' \in Sessions
    BY <2>1, <2>6, <2>7, ScheduledKept
  <2>9. /\ tasks' \in Tasks
        /\ \A u \in Turns : tasks'[u] = IF u = t THEN [phase |-> ph, key |-> item.key]
                                        ELSE tasks[u]
    BY <2>3, <2>5, <2>6 DEF Typed, Tasks, Phases
  <2>10. Typed'
    BY <1>1, <1>3, <2>8, <2>9 DEF Typed
  <2>11. Keyed'
    BY <2>3, <2>5, <2>9 DEF Keyed
  <2>12. Numbered'
    <3>1. CASE t \in Turns
      <4>1. {u \in Turns : tasks'[u].phase # "none"}
              = {u \in Turns : tasks[u].phase # "none"} \cup {t}
        BY <2>5, <2>9, <3>1
      <4>2. 1..(t - 1) \cup {t} = 1..t
        BY <2>1
      <4> QED BY <2>1, <4>1, <4>2 DEF Numbered
    <3>2. CASE t \notin Turns
      <4>1. {u \in Turns : tasks'[u].phase # "none"} = {u \in Turns : tasks[u].phase # "none"}
        BY <2>9, <3>2
      <4> QED BY <4>1 DEF Numbered
    <3> QED BY <3>1, <3>2
  <2>13. Awaiting'
    BY <1>1, <2>1, <2>9, AwaitingFrame DEF Untouched
  <2>14. Driven' /\ TurnIsDriven'
    BY <1>1, <1>3, <2>1, <2>9, DrivenFrame
  <2> QED BY <1>2, <2>10, <2>11, <2>12, <2>13, <2>14
<1>6. /\ \/ session' = [session EXCEPT !.drain = FALSE] /\ tasks' = tasks
         \/ /\ session.items # <<>>
            /\ session' = Scheduled(Without([session EXCEPT !.drain = FALSE, !.promoted = TRUE],
                                            PeekNext(session).id), NewTurn)
            /\ tasks' = [tasks EXCEPT ![NewTurn] =
                           [phase |-> FirstPhase(PeekNext(session).key),
                            key |-> PeekNext(session).key]]
  <2> HIDE DEF Secure, Sound
  <2> QED BY Zenon DEF Drain
<1> QED BY <1>4, <1>5, <1>6

LEMMA SteerSecure ==
  ASSUME Secure, NEW i \in ItemIds, Steer(i)
  PROVE  Secure'
<1> USE DEF Secure, Sound
<1>1. /\ LockFree /\ Positions(i) # {}
      /\ lock' = [holder |-> "steer", item |-> i, turn |-> ActiveTurn(session, core, tasks)]
      /\ UNCHANGED <<session, tasks, core, replies, steered, spent, history>>
  BY DEF Steer
<1>2. ActiveTurn(session, core, tasks) \in Nat
  BY DEF ActiveTurn, RunningOrScheduled, Typed, Sessions, Cores
<1>3. lock' \in Locks
  BY <1>1, <1>2, Counts DEF Locks
<1>4. Steering'
  BY <1>1 DEF Steering, Gone, Positions
<1>5. lock.holder # "interrupt"
  BY <1>1 DEF LockFree, Free
<1>6. spent' \in Spendings /\ spent'.failures >= spent.failures
  BY <1>1 DEF Typed, Spendings
<1> QED BY <1>1, <1>3, <1>4, <1>5, <1>6, CalmSecure DEF Typed

LEMMA TakeTyped ==
  ASSUME Typed, NEW k \in Keys, NEW t \in Nat
  PROVE  /\ Take(k, t) \in [taken : Seq(Entries), silent : BOOLEAN, unsent : BOOLEAN]
         /\ Take(k, t).taken = Append(history.taken, [key |-> k, turn |-> t])
<1>1. [key |-> k, turn |-> t] \in Entries
  BY DEF Entries
<1> QED BY <1>1 DEF Typed, Take

LEMMA KeyOfItem ==
  ASSUME Typed, NEW i, ~Gone(i)
  PROVE  \E n \in DOMAIN session.items : session.items[n].id = i
           /\ KeyOf(i) = session.items[n].key /\ KeyOf(i) \in Keys
<1>1. (CHOOSE n \in Positions(i) : TRUE) \in Positions(i)
  BY DEF Gone
<1>2. \A n \in DOMAIN session.items : session.items[n].key \in Keys
  <2>1. session.items \in Seq(Item)
    BY DEF Typed, Sessions
  <2>2. \A n \in DOMAIN session.items : session.items[n] \in Item
    BY <2>1
  <2> QED BY <2>2 DEF Item
<1> QED BY <1>1, <1>2 DEF KeyOf, Positions

LEMMA SubmitSecure ==
  ASSUME Secure, Submit
  PROVE  Secure'
<1> USE DEF Secure, Sound
<1> DEFINE i == lock.item
<1>1. /\ lock.holder = "steer" /\ lock' = Free
      /\ UNCHANGED <<tasks, core, replies>>
      /\ i \in ItemIds /\ ~Gone(i)
  BY DEF Submit, Steering
<1>2. lock' \in Locks /\ Steering'
  BY <1>1 DEF Locks, Free, Steering
<1>3. KeyOf(i) \in Keys /\ Take(KeyOf(i), 0) \in [taken : Seq(Entries), silent : BOOLEAN, unsent : BOOLEAN]
  BY <1>1, KeyOfItem, TakeTyped
<1>4. /\ history' \in {history, Take(KeyOf(i), 0)}
      /\ spent' = spent \/ spent' = Spend("failures")
      /\ \/ Retire(i)
         \/ session' = session /\ (Reserve(i) \/ steered' = steered)
  BY DEF Submit
<1>5. history' \in [taken : Seq(Entries), silent : BOOLEAN, unsent : BOOLEAN]
  BY <1>3, <1>4 DEF Typed
<1>6. spent' \in Spendings /\ spent'.failures >= spent.failures
  BY <1>4, Spending DEF Typed, Spendings
<1>7. session' \in Sessions
  <2>1. PICK c \in DOMAIN session.items : session.items[c].id = i
    BY <1>1 DEF Gone, Positions
  <2>2. session \in Sessions
    BY DEF Typed
  <2>3. Without(session, i) \in Sessions
    BY <2>1, <2>2, WithoutKept
  <2> QED BY <1>4, <2>2, <2>3 DEF Retire
<1>8. steered' \in Receipts
  <2>1. lock.turn \in Nat /\ steered \in Receipts
    BY DEF Typed, Locks
  <2>2. [steered EXCEPT ![i] = [state |-> "done", turn |-> lock.turn]] \in Receipts
        /\ [steered EXCEPT ![i] = [state |-> "open", turn |-> lock.turn]] \in Receipts
    BY <1>1, <2>1 DEF Receipts
  <2> QED BY <1>4, <2>1, <2>2 DEF Retire, Reserve
<1> QED BY <1>1, <1>2, <1>5, <1>6, <1>7, <1>8, CalmSecure

LEMMA NewsSecure ==
  ASSUME Secure, News
  PROVE  Secure'
<1> USE DEF Secure, Sound
<1>1. session' \in Sessions /\ Kept(session, session')
  BY HeardKept DEF News, Typed
<1>2. spent' \in Spendings /\ spent'.failures >= spent.failures
  BY Spending DEF News
<1>3. Steering'
  BY <1>1, SteeringFrame DEF News, Kept
<1> QED BY <1>1, <1>2, <1>3, CalmSecure DEF News, Typed

LEMMA HeadOfTask ==
  ASSUME Typed, Keyed, NEW t \in Turns, tasks[t].phase = "context"
  PROVE  tasks[t].key \in Keys
BY DEF Typed, Tasks, Keyed

LEMMA ContributeSecure ==
  ASSUME Secure, NEW t \in Turns, Contribute(t)
  PROVE  Secure'
<1> USE DEF Secure, Sound
<1>1. /\ tasks[t].phase = "context" /\ UNCHANGED <<core, lock, replies, steered, spent>>
      /\ t \in Nat /\ tasks[t].key \in Keys
  BY Counts, HeadOfTask DEF Contribute
<1>2. PICK ph \in {"failed", "over", "due"} : tasks' = SetPhase(tasks, t, ph)
  BY DEF Contribute
<1>3. ph \in Phases \ {"none", "preparing", "context"}
  BY DEF Phases
<1>4. session' \in Sessions /\ Kept(session, session')
  <2>1. session' = session \/ session' = Heard(session, core, tasks')
    BY DEF Contribute
  <2>2. Heard(session, core, tasks') \in Sessions /\ Kept(session, Heard(session, core, tasks'))
    BY HeardKept DEF Typed
  <2> QED BY <2>1, <2>2 DEF Typed, Kept
<1>5. history' \in [taken : Seq(Entries), silent : BOOLEAN, unsent : BOOLEAN]
  <2>1. Take(tasks[t].key, t) \in [taken : Seq(Entries), silent : BOOLEAN, unsent : BOOLEAN]
    BY <1>1, TakeTyped
  <2>2. history' = history \/ history' = Take(tasks[t].key, t)
    BY DEF Contribute
  <2> QED BY <2>1, <2>2 DEF Typed
<1>6. Steering'
  BY <1>1, <1>4, SteeringFrame DEF Kept
<1>7. spent' \in Spendings /\ spent'.failures >= spent.failures
  BY <1>1 DEF Typed, Spendings
<1>8. "context" \notin Untouched
  BY DEF Untouched
<1> QED BY <1>1, <1>2, <1>3, <1>4, <1>5, <1>6, <1>7, <1>8, MovedSecure DEF Typed

LEMMA AcceptSecure ==
  ASSUME Secure, NEW t \in Turns, Accept(t)
  PROVE  Secure'
<1> USE DEF Secure, Sound
<1> DEFINE taken == IF tasks[t].key = None THEN history ELSE Take(tasks[t].key, t)
<1>1. /\ tasks[t].phase = "due" /\ UNCHANGED <<session, lock, replies, steered, spent>>
      /\ t \in Nat \ {0}
  BY Counts DEF Accept
<1>2. taken \in [taken : Seq(Entries), silent : BOOLEAN, unsent : BOOLEAN]
  <2>1. tasks[t].key # None => tasks[t].key \in Keys
    BY DEF Typed, Tasks
  <2> QED BY <1>1, <2>1, TakeTyped DEF Typed
<1> HIDE DEF taken
<1>3. /\ Steering' /\ spent' \in Spendings /\ spent'.failures >= spent.failures
      /\ "due" \notin Untouched
      /\ {"driving", "over", "failed"} \subseteq Phases \ {"none", "preparing", "context"}
  BY <1>1, SteeringFrame DEF Typed, Spendings, Untouched, Phases
<1>4. CASE /\ core.active = 0
           /\ core' = [core EXCEPT !.active = t, !.driver = t]
           /\ tasks' = SetPhase(tasks, t, "driving") /\ history' = taken
  <2>1. /\ tasks' \in Tasks /\ Keyed' /\ Numbered'
        /\ \A u \in Turns : /\ tasks'[u].key = tasks[u].key
                            /\ tasks'[u].phase = IF u = t THEN "driving" ELSE tasks[u].phase
    BY <1>1, <1>3, <1>4, Moved
  <2>2. core' \in Cores /\ core'.driver = t
    BY <1>1, <1>4 DEF Typed, Cores
  <2>3. Typed'
    BY <1>1, <1>2, <1>3, <1>4, <2>1, <2>2 DEF Typed
  <2>4. Awaiting'
    BY <1>1, <1>3, <2>1, AwaitingFrame
  <2>5. Driven' /\ TurnIsDriven'
    BY <2>1, <2>2 DEF Driven, TurnIsDriven
  <2> QED BY <1>3, <2>1, <2>3, <2>4, <2>5
<1>5. CASE /\ core.active # 0
           /\ core' = [core EXCEPT !.follow = t]
           /\ tasks' = SetPhase(tasks, t, "over") /\ history' = taken
  <2>1. /\ tasks' \in Tasks /\ Keyed' /\ Numbered'
        /\ \A u \in Turns : /\ tasks'[u].key = tasks[u].key
                            /\ tasks'[u].phase = IF u = t THEN "over" ELSE tasks[u].phase
    BY <1>1, <1>3, <1>5, Moved
  <2>2. core' \in Cores /\ core'.driver = core.driver /\ core'.active = core.active
    BY <1>1, <1>5 DEF Typed, Cores
  <2>3. Typed'
    BY <1>1, <1>2, <1>3, <1>5, <2>1, <2>2 DEF Typed
  <2>4. Awaiting'
    BY <1>1, <1>3, <2>1, AwaitingFrame
  <2>5. Driven' /\ TurnIsDriven'
    BY <1>1, <2>1, <2>2 DEF Driven, TurnIsDriven
  <2> QED BY <1>3, <2>1, <2>3, <2>4, <2>5
<1>6. CASE /\ tasks' = SetPhase(tasks, t, "failed") /\ UNCHANGED <<core, history>>
  BY <1>1, <1>3, <1>6, MovedSecure DEF Typed
<1> QED BY <1>4, <1>5, <1>6 DEF Accept, taken

LEMMA FailSecure ==
  ASSUME Secure, NEW t \in Turns, Fail(t)
  PROVE  Secure'
<1> USE DEF Secure, Sound
<1>1. spent' \in Spendings /\ spent'.failures >= spent.failures /\ spent'.failures > 0
  BY Spending DEF Fail
<1>2. "failed" \in Phases \ {"none", "preparing", "context"} /\ "failed" \in Untouched
  BY DEF Phases, Untouched
<1>3. Steering' /\ tasks[t].phase # "none"
  BY SteeringFrame DEF Fail
<1> QED BY <1>1, <1>2, <1>3, MovedSecure DEF Fail, Typed

LEMMA FinishSecure ==
  ASSUME Secure, NEW t \in Turns, Finish(t)
  PROVE  Secure'
<1> USE DEF Secure, Sound
<1>1. "over" \in Phases \ {"none", "preparing", "context"} /\ "over" \in Untouched
  BY DEF Phases, Untouched
<1>2. Steering' /\ spent' \in Spendings /\ spent'.failures >= spent.failures
  BY SteeringFrame DEF Finish, Typed, Spendings
<1> QED BY <1>1, <1>2, MovedSecure DEF Finish, DrivenOut, Typed

LEMMA ReapSecure ==
  ASSUME Secure, NEW t \in Turns, Reap(t)
  PROVE  Secure'
<1> USE DEF Secure, Sound
<1>1. "reaped" \in Phases \ {"none", "preparing", "context"} /\ "reaped" \in Untouched
  BY DEF Phases, Untouched
<1>2. session' \in Sessions /\ Kept(session, session')
  BY Counts, ReapedKept DEF Reap, Typed
<1>3. Steering' /\ spent' \in Spendings /\ spent'.failures >= spent.failures
  BY <1>2, SteeringFrame DEF Reap, Typed, Spendings, Kept
<1>4. history' \in [taken : Seq(Entries), silent : BOOLEAN, unsent : BOOLEAN]
  BY DEF Reap, Typed
<1> QED BY <1>1, <1>2, <1>3, <1>4, MovedSecure DEF Reap, Typed

LEMMA InterruptReservedSecure ==
  ASSUME Secure, NEW t \in Turns, InterruptReserved(t)
  PROVE  Secure'
<1> USE DEF Secure, Sound
<1>1. "reaped" \in Phases \ {"none", "preparing", "context"} /\ "reaped" \in Untouched
  BY DEF Phases, Untouched
<1>2. session' \in Sessions /\ session'.items = session.items
  BY DEF InterruptReserved, Typed, Sessions
<1>3. Steering'
  BY <1>2, SteeringFrame DEF InterruptReserved
<1>4. spent' \in Spendings /\ spent'.failures >= spent.failures
  BY Spending DEF InterruptReserved
<1>5. replies' \subseteq Replies /\ \A r \in replies' : r \in replies \/ ~Starting(r)
  BY Counts DEF InterruptReserved, Typed, Reply, Replies, Starting
<1> QED BY <1>1, <1>2, <1>3, <1>4, <1>5, MovedSecure DEF InterruptReserved, Typed

\* The turn the request found is the core's, if the core has one.
LEMMA InterruptRunningSecure ==
  ASSUME Secure, InterruptRunning
  PROVE  Secure'
<1> USE DEF Secure, Sound
<1> DEFINE t == RunningOrScheduled(session, core, tasks)
           a == session.active
<1>1. /\ LockFree /\ lock' = [holder |-> "interrupt", turn |-> t, item |-> 0]
      /\ session' = [session EXCEPT !.reserved = 0, !.active = 0]
      /\ UNCHANGED <<core, replies, steered, history>>
  BY DEF InterruptRunning
<1>2. t \in Nat /\ (core.active # 0 => t = core.active)
  BY DEF RunningOrScheduled, Typed, Sessions, Cores
<1> HIDE DEF t
<1>3. lock' \in Locks /\ lock'.holder = "interrupt" /\ lock'.turn = t /\ lock' # lock
  BY <1>1, <1>2 DEF Locks, LockFree, Free
<1>4. session' \in Sessions /\ Steering'
  BY <1>1, <1>3 DEF Typed, Sessions, Steering
<1>5. spent' \in Spendings /\ spent'.failures >= spent.failures
  BY Spending DEF InterruptRunning
<1>6. CASE a \in Turns /\ tasks' = SetPhase(tasks, a, "cancelled") /\ TaskRuns(session, tasks)
  <2>1. /\ tasks[a].phase # "none"
        /\ "cancelled" \in Phases \ {"none", "preparing", "context"} /\ "cancelled" \in Untouched
    BY <1>6 DEF TaskRuns, Unfinished, Phases, Untouched
  <2> HIDE DEF a
  <2> QED BY <1>1, <1>2, <1>3, <1>4, <1>5, <1>6, <2>1, MovedSecure DEF Typed
<1>7. CASE tasks' = tasks
  <2>1. lock.holder # "interrupt"
    BY <1>1 DEF LockFree, Free
  <2> QED BY <1>1, <1>3, <1>4, <1>5, <1>7, <2>1, CalmSecure DEF Typed
<1>8. a \notin Turns => SetPhase(tasks, a, "cancelled") = tasks
  BY DEF SetPhase, Typed, Tasks
<1>9. \/ tasks' = SetPhase(tasks, a, "cancelled") /\ TaskRuns(session, tasks)
      \/ tasks' = tasks
  BY DEF InterruptRunning
<1> QED BY <1>6, <1>7, <1>8, <1>9

LEMMA InterruptCoreSecure ==
  ASSUME Secure, InterruptCore
  PROVE  Secure'
<1> USE DEF Secure, Sound
<1>1. /\ lock.holder = "interrupt"
      /\ UNCHANGED <<session, tasks, replies, steered, spent>>
      /\ history' \in [taken : Seq(Entries), silent : BOOLEAN, unsent : BOOLEAN]
  BY DEF InterruptCore, Typed
<1>2. CASE /\ core.active = lock.turn /\ core' = Ended("interrupted")
           /\ lock' = [lock EXCEPT !.holder = "hearing"]
  <2>1. lock' \in Locks /\ lock'.holder # "steer"
    BY <1>2 DEF Typed, Locks
  <2>2. core' \in Cores /\ core'.active = 0
    BY <1>2 DEF Typed, Cores, Ended, Outcomes
  <2>3. Typed' /\ Keyed' /\ Numbered' /\ Awaiting'
    BY <1>1, <2>1, <2>2, StillNumbered, AwaitingFrame DEF Typed
  <2> QED BY <2>1, <2>2, <2>3 DEF Driven, TurnIsDriven, Steering
<1>3. CASE core.active # lock.turn /\ lock' = Free /\ UNCHANGED core
  <2>1. lock' \in Locks /\ lock'.holder # "steer"
    BY <1>3 DEF Locks, Free
  <2>2. Typed' /\ Keyed' /\ Numbered' /\ Awaiting'
    BY <1>1, <1>3, <2>1, StillNumbered, AwaitingFrame DEF Typed
  <2> QED BY <1>1, <1>3, <2>1, <2>2 DEF Driven, TurnIsDriven, Steering
<1> QED BY <1>2, <1>3 DEF InterruptCore

LEMMA AwaitSecure ==
  ASSUME Secure, AwaitRuntime
  PROVE  Secure'
<1> USE DEF Secure, Sound
<1>1. UNCHANGED <<session, tasks, core, lock, replies, steered, spent, history>>
  BY DEF AwaitRuntime
<1>2. spent' \in Spendings /\ spent'.failures >= spent.failures
  BY <1>1 DEF Typed, Spendings
<1>3. Steering'
  BY <1>1, SteeringFrame
<1> QED BY <1>1, <1>2, <1>3, CalmSecure DEF Typed

LEMMA EndSecure ==
  ASSUME Secure, NEW outcome \in {"completed", "failed"}, End(outcome)
  PROVE  Secure'
<1> USE DEF Secure, Sound
<1>1. /\ core.active # 0 /\ tasks[core.driver].phase = "driving"
      /\ core' = Ended(outcome)
      /\ UNCHANGED <<session, tasks, line, lock, replies, steered, spent, history>>
  BY DEF End
<1>2. core' \in Cores /\ core'.driver = core.driver
  BY <1>1 DEF Typed, Cores, Ended, Outcomes
<1>3. Typed' /\ Keyed' /\ Numbered' /\ Awaiting'
  BY <1>1, <1>2, StillNumbered, AwaitingFrame DEF Typed
<1>4. Steering'
  BY <1>1, SteeringFrame
<1> QED BY <1>1, <1>2, <1>3, <1>4 DEF Driven, TurnIsDriven

LEMMA HearSecure ==
  ASSUME Secure, Hear
  PROVE  Secure'
<1> USE DEF Secure, Sound
<1>1. /\ core' = [core EXCEPT !.unheard = FALSE]
      /\ session' = Heard(session, core, tasks)
      /\ lock' = IF lock.holder = "hearing" THEN Free ELSE lock
      /\ history' \in [taken : Seq(Entries), silent : BOOLEAN, unsent : BOOLEAN]
      /\ UNCHANGED <<tasks, line, replies, steered, spent>>
  BY DEF Hear, Typed
<1>2. core' \in Cores /\ core'.driver = core.driver /\ core'.active = core.active
  BY <1>1 DEF Typed, Cores
<1>3. session' \in Sessions /\ Kept(session, session')
  BY <1>1, HeardKept DEF Typed
<1>4. lock' \in Locks /\ (lock' = lock \/ (lock'.holder = "none" /\ lock.holder = "hearing"))
  BY <1>1 DEF Typed, Locks, Free
<1>5. Typed' /\ Keyed' /\ Numbered' /\ Awaiting'
  BY <1>1, <1>2, <1>3, <1>4, StillNumbered, AwaitingFrame DEF Typed
<1>6. Steering'
  BY <1>3, <1>4, SteeringFrame DEF Kept
<1> QED BY <1>1, <1>2, <1>4, <1>5, <1>6 DEF Driven, TurnIsDriven

LEMMA StutterSecure ==
  ASSUME Secure, UNCHANGED vars
  PROVE  Secure'
<1> USE DEF Secure, Sound
<1>1. spent' \in Spendings /\ spent'.failures >= spent.failures
  BY DEF vars, Typed, Spendings
<1>2. Steering'
  BY SteeringFrame DEF vars
<1> QED BY <1>1, <1>2, CalmSecure DEF vars, Typed

LEMMA InitSecure == Init => Secure
<1> SUFFICES ASSUME Init PROVE Secure
  OBVIOUS
<1>1. Typed
  <2>1. session \in Sessions
    BY DEF Init, Sessions
  <2>2. tasks \in Tasks /\ core \in Cores /\ lock \in Locks /\ replies \subseteq Replies
    BY DEF Init, Tasks, Phases, Cores, Outcomes, Locks, Free
  <2>3. steered \in Receipts /\ spent \in Spendings
        /\ history \in [taken : Seq(Entries), silent : BOOLEAN, unsent : BOOLEAN]
    BY DEF Init, Receipts, Spendings
  <2> QED BY <2>1, <2>2, <2>3 DEF Typed
<1>2. Keyed /\ Awaiting /\ Driven /\ TurnIsDriven /\ Steering
  BY DEF Init, Keyed, Awaiting, Driven, TurnIsDriven, Steering, Free
<1>3. Numbered
  <2>1. {t \in Turns : tasks[t].phase # "none"} = 1..0
    BY DEF Init
  <2> QED BY <2>1 DEF Numbered
<1> QED BY <1>1, <1>2, <1>3 DEF Secure, Sound

LEMMA RequestsSecure ==
  ASSUME Secure, Requests
  PROVE  Secure'
BY StartSecure, EnqueueSecure, ReplaceSecure, WithdrawSecure, SteerSecure, ResumeSecure,
   InterruptRunningSecure, InterruptReservedSecure, Zenon DEF Requests

LEMMA DisturbancesSecure ==
  ASSUME Secure, Disturbances
  PROVE  Secure'
BY NewsSecure, FailSecure, AbandonSecure, Zenon DEF Disturbances

LEMMA LoopSecure ==
  ASSUME Secure, Loop
  PROVE  Secure'
BY RespondSecure, DrainSecure, SubmitSecure, AwaitSecure, InterruptCoreSecure, HearSecure,
   PrepareSecure, ContributeSecure, AcceptSecure, FinishSecure, ReapSecure, EndSecure,
   Zenon DEF Loop

LEMMA SecureHolds == Spec => []Secure
<1>1. Secure /\ [Next]_vars => Secure'
  BY RequestsSecure, DisturbancesSecure, LoopSecure, StutterSecure DEF Next
<1> QED BY InitSecure, <1>1, PTL DEF Spec

(* A turn the core runs is driven by the task that started it, for any     *)
(* numbers of prompts, turns, interruptions and updates: it is dropped only *)
(* by an interruption that goes on to end it before it lets the lock go,    *)
(* and by a failure of the drive.                                          *)
THEOREM TurnIsDrivenHolds == Spec => []TurnIsDriven
<1>1. Secure => TurnIsDriven
  BY DEF Secure, Sound
<1> QED BY SecureHolds, <1>1, PTL

-----------------------------------------------------------------------------
(* The Runtime remembers a transition while the core has a turn.           *)

Runtimes == [replayed : BOOLEAN, reserved : SUBSET Turns, cancelled : SUBSET Turns]
Running ==
  /\ runtime \in Runtimes
  /\ core.active # 0 => runtime.replayed
  /\ lock.holder = "steer" => lock.turn # 0

\* A fold forgets nothing of a core that runs.
LEMMA FoldedKept ==
  ASSUME NEW rt \in Runtimes, NEW c
  PROVE  /\ Folded(rt, c) \in Runtimes
         /\ c.active # 0 => Folded(rt, c).replayed = rt.replayed
BY DEF Folded, Quiet, Runtimes

\* The steps at which the Runtime's memory may change.
LEMMA RunningStays ==
  ASSUME Running, runtime' = runtime, lock' = lock \/ lock'.holder # "steer",
         core'.active # 0 => core.active # 0
  PROVE  Running'
BY DEF Running

LEMMA TaskRunning ==
  ASSUME Secure, Running, NEW t \in Turns, Contribute(t) \/ Accept(t) \/ Fail(t) \/ Finish(t)
  PROVE  Running'
<1>1. lock' = lock /\ core \in Cores /\ runtime \in Runtimes
  BY DEF Contribute, Accept, Fail, Finish, Secure, Sound, Typed, Running
<1>2. CASE runtime' = runtime /\ core' = core
  BY <1>1, <1>2, RunningStays
<1>3. CASE Unanswered(t) /\ core' = core
  BY <1>1, <1>3 DEF Unanswered, Running, Runtimes
<1>4. CASE Applied
  BY <1>1, <1>4 DEF Applied, Running, Runtimes
<1>5. CASE runtime' = [runtime EXCEPT !.replayed = TRUE, !.reserved = @ \cup {t}]
  BY <1>1, <1>5 DEF Running, Runtimes
<1>6. CASE runtime' = Folded([runtime EXCEPT !.reserved = @ \ {t}], core) /\ core' = core
  <2> DEFINE rt == [runtime EXCEPT !.reserved = @ \ {t}]
  <2>1. rt \in Runtimes /\ rt.replayed = runtime.replayed
    BY <1>1 DEF Runtimes
  <2>2. runtime' = Folded(rt, core)
    BY <1>6
  <2> HIDE DEF rt
  <2> QED BY <1>1, <1>6, <2>1, <2>2, FoldedKept DEF Running
<1> QED BY <1>2, <1>3, <1>4, <1>5, <1>6 DEF Contribute, Accept, Fail, Finish

LEMMA NewsRunning ==
  ASSUME Running, News
  PROVE  Running'
<1>1. lock' = lock /\ core' = core /\ runtime \in Runtimes
  BY DEF News, Running
<1>2. CASE runtime' = runtime
  BY <1>1, <1>2, RunningStays
<1>3. CASE core.active = 0 /\ runtime' = Folded([runtime EXCEPT !.replayed = TRUE], core)
  <2> DEFINE rt == [runtime EXCEPT !.replayed = TRUE]
  <2>1. rt \in Runtimes
    BY <1>1 DEF Runtimes
  <2> HIDE DEF rt
  <2>2. Folded(rt, core) \in Runtimes
    BY <2>1, FoldedKept
  <2> QED BY <1>1, <1>3, <2>2 DEF Running, rt
<1> QED BY <1>2, <1>3 DEF News

LEMMA SubmitRunning ==
  ASSUME Running, Submit
  PROVE  Running'
<1>1. lock' = Free /\ core' = core /\ (runtime' = runtime \/ Applied)
  BY DEF Submit
<1> QED BY <1>1 DEF Free, Applied, Running, Runtimes

LEMMA InterruptsRunning ==
  ASSUME Secure, Running, InterruptRunning \/ InterruptCore
  PROVE  Running'
<1>1. core \in Cores /\ runtime \in Runtimes
  BY DEF Secure, Sound, Typed, Running
<1>2. CASE InterruptRunning
  <2>1. lock'.holder # "steer" /\ core' = core
    BY <1>2 DEF InterruptRunning
  <2>2. runtime' \in Runtimes /\ runtime'.replayed = runtime.replayed
    BY <1>1, <1>2 DEF InterruptRunning, Runtimes
  <2> QED BY <2>1, <2>2 DEF Running
<1>3. CASE InterruptCore
  <2>1. lock'.holder # "steer"
    BY <1>3 DEF InterruptCore, Free, Secure, Sound, Typed, Locks
  <2>2. CASE core' = Ended("interrupted") /\ runtime' = Folded(Closed, core')
    <3>1. Closed \in Runtimes
      BY <1>1 DEF Closed, Runtimes
    <3>2. core'.active = 0
      BY <1>1, <2>2 DEF Ended, Cores
    <3>3. Folded(Closed, core') \in Runtimes
      BY <3>1, FoldedKept
    <3> QED BY <2>1, <2>2, <3>2, <3>3 DEF Running
  <2>3. CASE UNCHANGED <<core, runtime>>
    BY <2>1, <2>3, RunningStays
  <2> QED BY <1>3, <2>2, <2>3 DEF InterruptCore
<1> QED BY <1>2, <1>3

\* A request steers the turn it found.
LEMMA SteerRunning ==
  ASSUME Running, NEW i \in ItemIds, Steer(i)
  PROVE  Running'
BY DEF Steer, Running

LEMMA EndRunning ==
  ASSUME Secure, Running,
         Hear \/ \E outcome \in {"completed", "failed"} : End(outcome)
  PROVE  Running'
<1>1. core \in Cores /\ lock \in Locks
  BY DEF Secure, Sound, Typed
<1>2. CASE Hear
  <2>1. core'.active = core.active /\ runtime' = runtime
    BY <1>1, <1>2 DEF Hear, Cores
  <2>2. lock' = lock \/ lock'.holder # "steer"
    BY <1>2 DEF Hear, Free
  <2> QED BY <2>1, <2>2, RunningStays
<1>3. CASE \E outcome \in {"completed", "failed"} : End(outcome)
  <2>1. core.active # 0 /\ lock' = lock /\ runtime' = runtime
    BY <1>3 DEF End
  <2> QED BY <2>1, RunningStays
<1> QED BY <1>2, <1>3

LEMMA RunningHolds == Spec => [](Secure /\ Running)
<1>1. Init => Running
  BY DEF Init, Running, Runtimes, Free
<1>2. Secure /\ Running /\ [Next]_vars => Running'
  <2> SUFFICES ASSUME Secure, Running, [Next]_vars PROVE Running'
    OBVIOUS
  <2>1. CASE UNCHANGED vars
    BY <2>1, RunningStays DEF vars
  <2>2. CASE Requests
    <3>1. CASE \/ \E kind \in {"start", "deferred"} : Start(kind)
               \/ \E k \in Keys : Enqueue(k)
               \/ \E k \in Keys, i \in ItemIds : Replace(i, k)
               \/ \E i \in ItemIds : Withdraw(i)
               \/ Resume \/ \E t \in Turns : InterruptReserved(t)
      <4>1. runtime' = runtime /\ lock' = lock /\ core' = core
        BY <3>1 DEF Start, Enqueue, Replace, Withdraw, Resume, InterruptReserved
      <4> QED BY <4>1, RunningStays
    <3> QED BY <2>2, <3>1, SteerRunning, InterruptsRunning DEF Requests
  <2>3. CASE Disturbances
    <3>1. CASE \E r \in replies : Abandon(r)
      <4>1. runtime' = runtime /\ lock' = lock /\ core' = core
        BY <3>1 DEF Abandon
      <4> QED BY <4>1, RunningStays
    <3> QED BY <2>3, <3>1, NewsRunning, TaskRunning DEF Disturbances
  <2>4. CASE Loop
    <3>1. CASE \/ \E r \in replies : Respond(r)
               \/ Drain \/ AwaitRuntime
               \/ \E t \in Turns : Prepare(t) \/ Reap(t)
      <4>1. runtime' = runtime /\ lock' = lock /\ core' = core
        BY <3>1 DEF Respond, Drain, AwaitRuntime, Prepare, Reap
      <4> QED BY <4>1, RunningStays
    <3> QED BY <2>4, <3>1, SubmitRunning, InterruptsRunning, EndRunning, TaskRunning DEF Loop
  <2> QED BY <2>1, <2>2, <2>3, <2>4 DEF Next
<1> QED BY SecureHolds, <1>1, <1>2, PTL DEF Spec

-----------------------------------------------------------------------------
(* Where a prompt is: in the queue, with the task of one turn, or taken.   *)

Waits(t) == tasks[t].phase \in {"context", "due"} /\ tasks[t].key # None
IsQueued(k) == \E n \in DOMAIN session.items : session.items[n].key = k
IsTaken(k) == \E n \in DOMAIN history.taken : history.taken[n].key = k
HasLeft(k) ==
  session.used[k] # 0 /\ \A n \in DOMAIN session.items : session.items[n].id # session.used[k]
LeftOpen(k) == steered[session.used[k]].state = "open"
IsWaiting(k) == \E t \in Turns : Waits(t) /\ tasks[t].key = k

\* An item is in the queue once, under the key it was accepted for last.
Itemized ==
  /\ \A m, n \in DOMAIN session.items : session.items[m].id = session.items[n].id => m = n
  /\ \A n \in DOMAIN session.items : session.used[session.items[n].key] = session.items[n].id
  /\ \A k \in Keys : session.used[k] < NextItem

\* An item that a turn waits with has left the queue.
Drained ==
  /\ \A t \in Turns : Waits(t) => HasLeft(tasks[t].key)
  /\ \A t, u \in Turns : Waits(t) /\ Waits(u) /\ tasks[t].key = tasks[u].key => t = u

\* Unless its receipt was left open, a prompt that may still be taken was not.
Once ==
  /\ \A n \in DOMAIN history.taken : session.used[history.taken[n].key] # 0
  /\ \A a, b \in DOMAIN history.taken :
       /\ history.taken[a].key = history.taken[b].key
       /\ a # b
       => LeftOpen(history.taken[a].key) /\ HasLeft(history.taken[a].key)
  /\ \A k \in Keys : IsTaken(k) /\ (IsQueued(k) \/ IsWaiting(k)) => LeftOpen(k)

\* What the core took twice it took first as steering, and not so again.
OnlySteered(k) ==
  \A n \in DOMAIN history.taken : history.taken[n].key = k => history.taken[n].turn = 0

Steers ==
  /\ \A a, b \in DOMAIN history.taken :
       a < b /\ history.taken[a].key = history.taken[b].key =>
         history.taken[a].turn = 0 /\ history.taken[b].turn # 0
  /\ \A k \in Keys : IsQueued(k) \/ IsWaiting(k) => OnlySteered(k)

Placed == Itemized /\ Drained /\ Once /\ Steers

LEMMA PlacedFrame ==
  ASSUME Typed, Placed, session'.used = session.used,
         \A m \in DOMAIN session'.items :
           \E n \in DOMAIN session.items : session'.items[m] = session.items[n],
         \A m, n \in DOMAIN session'.items :
           session'.items[m].id = session'.items[n].id => m = n,
         steered' = steered, history'.taken = history.taken,
         \A t \in Turns : Waits(t)' => Waits(t) /\ tasks'[t].key = tasks[t].key
  PROVE  Placed'
<1>1. NextItem' = NextItem
  BY DEF NextItem
<1>2. Itemized'
  BY <1>1 DEF Placed, Itemized
<1>3. \A k : (HasLeft(k) => HasLeft(k)') /\ (LeftOpen(k) => LeftOpen(k)')
  BY DEF HasLeft, LeftOpen
<1>4. Drained'
  BY <1>3 DEF Placed, Drained
<1>5. \A k : /\ IsTaken(k)' => IsTaken(k)
             /\ IsQueued(k)' => IsQueued(k)
             /\ IsWaiting(k)' => IsWaiting(k)
  BY DEF IsTaken, IsQueued, IsWaiting
<1>6. Once'
  BY <1>3, <1>5 DEF Placed, Once
<1>7. Steers'
  BY <1>5 DEF Placed, Steers, OnlySteered
<1> QED BY <1>2, <1>4, <1>6, <1>7 DEF Placed

\* Nothing comes, and no task begins to wait with a prompt.
LEMMA StillPlaced ==
  ASSUME Typed, Placed, Kept(session, session'),
         steered' = steered, history'.taken = history.taken,
         \A t \in Turns : Waits(t)' => Waits(t) /\ tasks'[t].key = tasks[t].key
  PROVE  Placed'
<1>1. session'.items = session.items /\ session'.used = session.used
  BY DEF Kept
<1>2. \A m, n \in DOMAIN session.items : session.items[m].id = session.items[n].id => m = n
  BY DEF Placed, Itemized
<1> QED BY <1>1, <1>2, PlacedFrame

LEMMA WithoutItems ==
  ASSUME NEW s \in Sessions, NEW i, NEW c \in DOMAIN s.items, s.items[c].id = i,
         \A m, n \in DOMAIN s.items : s.items[m].id = s.items[n].id => m = n
  PROVE  /\ \A m \in DOMAIN Without(s, i).items :
              /\ Without(s, i).items[m].id # i
              /\ \E n \in DOMAIN s.items : Without(s, i).items[m] = s.items[n]
         /\ \A m, n \in DOMAIN Without(s, i).items :
              Without(s, i).items[m].id = Without(s, i).items[n].id => m = n
         /\ Without(s, i).used = s.used
<1> DEFINE w == Without(s, i)
<1>1. w \in Sessions /\ w.used = s.used /\ OneLeft(s, i, w)
  BY WithoutKept
<1> HIDE DEF w
<1>2. PICK n \in 1..Len(s.items) :
        /\ s.items[n].id = i /\ Len(w.items) = Len(s.items) - 1
        /\ \A m \in 1..(Len(s.items) - 1) :
             w.items[m] = IF m < n THEN s.items[m] ELSE s.items[m + 1]
  BY <1>1 DEF OneLeft
<1>3. DOMAIN w.items = 1..Len(w.items) /\ DOMAIN s.items = 1..Len(s.items)
      /\ Len(s.items) \in Nat
  BY <1>1 DEF Sessions
<1> DEFINE at(m) == IF m < n THEN m ELSE m + 1
<1>4. ASSUME NEW m \in DOMAIN w.items
      PROVE  at(m) \in DOMAIN s.items /\ at(m) # n /\ w.items[m] = s.items[at(m)]
  <2>1. m \in 1..(Len(s.items) - 1) /\ n \in 1..Len(s.items) /\ Len(s.items) \in Nat
    BY <1>2, <1>3
  <2>2. at(m) \in 1..Len(s.items) /\ at(m) # n
    BY <2>1
  <2>3. w.items[m] = IF m < n THEN s.items[m] ELSE s.items[m + 1]
    BY <1>2, <2>1
  <2> QED BY <1>3, <2>2, <2>3
<1>5. \A m, l \in DOMAIN w.items : at(m) = at(l) => m = l
  BY <1>3
<1> HIDE DEF at
<1>6. n \in DOMAIN s.items
  BY <1>3
<1>7. \A m \in DOMAIN w.items : w.items[m].id # i
  BY <1>2, <1>4, <1>6
<1>8. \A m, l \in DOMAIN w.items : w.items[m].id = w.items[l].id => m = l
  BY <1>4, <1>5
<1> QED BY <1>1, <1>4, <1>7, <1>8 DEF w

LEMMA UsedNumbers ==
  ASSUME Typed
  PROVE  \A k \in Keys : session.used[k] \in Nat
<1>1. \A k \in Keys : session.used[k] \in {0} \cup ItemIds
  BY DEF Typed, Sessions
<1>2. \A i \in {0} \cup ItemIds : i \in Nat
  BY Counts
<1> QED BY <1>1, <1>2

\* A number is given to each prompt the queue accepts.
LEMMA NextItemGrows ==
  ASSUME Typed, NEW k \in Keys, session.used[k] = 0, NEW i \in ItemIds,
         session'.used = [session.used EXCEPT ![k] = i]
  PROVE  NextItem' = NextItem + 1 /\ NextItem \in Nat /\ NextItem > 0
<1> DEFINE known == {h \in Keys : session.used[h] # 0}
<1>1. session.used \in [Keys -> {0} \cup ItemIds] /\ i # 0
  BY Counts DEF Typed, Sessions
<1>2. {h \in Keys : session'.used[h] # 0} = known \cup {k}
  BY <1>1
<1>3. k \notin known /\ known \subseteq Keys
  OBVIOUS
<1>4. IsFiniteSet(known)
  BY <1>3, Counts, FS_Subset
<1> HIDE DEF known
<1>5. Cardinality(known \cup {k}) = Cardinality(known) + 1 /\ Cardinality(known) \in Nat
  BY <1>3, <1>4, FS_AddElement, FS_CardinalityType
<1>6. NextItem' = 1 + Cardinality(known \cup {k})
  BY <1>2, Zenon DEF NextItem
<1>7. NextItem = 1 + Cardinality(known)
  BY Zenon DEF NextItem, known
<1> QED BY <1>5, <1>6, <1>7

\* A prompt is accepted, as an item of its own or in the place of another.
LEMMA AcceptedPlaced ==
  ASSUME Typed, Placed, NEW k \in Keys, session.used[k] = 0, NEW i \in ItemIds,
         session'.used = [session.used EXCEPT ![k] = i], i <= NextItem,
         \A n \in DOMAIN session'.items :
           \/ session'.items[n] = [id |-> i, key |-> k]
           \/ \E m \in DOMAIN session.items : session'.items[n] = session.items[m],
         \A m, n \in DOMAIN session'.items :
           session'.items[m].id = session'.items[n].id => m = n,
         \A h \in Keys : HasLeft(h) => HasLeft(h)',
         UNCHANGED <<tasks, steered>>, history'.taken = history.taken
  PROVE  Placed'
<1>1. NextItem' = NextItem + 1 /\ NextItem \in Nat /\ NextItem > 0
  BY NextItemGrows
<1>2. /\ session.used \in [Keys -> {0} \cup ItemIds] /\ session.items \in Seq(Item)
      /\ i \in Nat \ {0}
  BY Counts DEF Typed, Sessions
<1>3. \A h \in Keys : session'.used[h] = IF h = k THEN i ELSE session.used[h]
  BY <1>2
<1>4. \A n \in DOMAIN session.items : /\ session.items[n].key \in Keys /\ session.items[n].key # k
                                      /\ session.items[n].id # 0
  <2>1. \A n \in DOMAIN session.items : session.items[n] \in Item
    BY <1>2
  <2> QED BY <2>1, Counts DEF Item, Placed, Itemized
<1>5. Itemized'
  <2>1. \A n \in DOMAIN session'.items :
          session'.used[session'.items[n].key] = session'.items[n].id
    BY <1>3, <1>4 DEF Placed, Itemized
  <2>2. \A h \in Keys : session'.used[h] < NextItem'
    <3>1. \A h \in Keys : session.used[h] < NextItem
      BY DEF Placed, Itemized
    <3>2. \A h \in Keys : session.used[h] \in Nat
      BY UsedNumbers
    <3> QED BY <1>1, <1>2, <1>3, <3>1, <3>2
  <2> QED BY <2>1, <2>2 DEF Itemized
<1>6. Drained'
  <2>1. \A t \in Turns : Waits(t) => tasks[t].key \in Keys
    BY DEF Waits, Typed, Tasks
  <2> QED BY <1>3, <2>1 DEF Placed, Drained, Waits
<1>7. \A n \in DOMAIN history.taken : history.taken[n].key \in Keys
  <2>1. history.taken \in Seq(Entries)
    BY DEF Typed
  <2>2. \A n \in DOMAIN history.taken : history.taken[n] \in Entries
    BY <2>1
  <2> QED BY <2>2 DEF Entries
<1>8. \A n \in DOMAIN history.taken : /\ session.used[history.taken[n].key] # 0
                                      /\ history.taken[n].key # k
  BY DEF Placed, Once
<1>9. \A h : h # k /\ IsQueued(h)' => IsQueued(h)
  BY DEF IsQueued
<1>10. \A h : /\ IsTaken(h)' => IsTaken(h) /\ h # k
              /\ IsWaiting(h)' => IsWaiting(h)
  BY <1>8 DEF IsTaken, IsWaiting, Waits
<1>11. \A h \in Keys : h # k /\ LeftOpen(h) => LeftOpen(h)'
  BY <1>3 DEF LeftOpen
<1>12. Once'
  <2>1. \A n \in DOMAIN history'.taken : session'.used[history'.taken[n].key] # 0
    BY <1>3, <1>7, <1>8
  <2>2. ASSUME NEW a \in DOMAIN history'.taken, NEW b \in DOMAIN history'.taken,
               history'.taken[a].key = history'.taken[b].key, a # b
        PROVE  LeftOpen(history.taken[a].key)' /\ HasLeft(history.taken[a].key)'
    <3> DEFINE h == history.taken[a].key
    <3>1. h \in Keys /\ h # k /\ history'.taken[a].key = h
      BY <1>7, <1>8
    <3>2. LeftOpen(h) /\ HasLeft(h)
      BY <2>2 DEF Placed, Once
    <3> HIDE DEF h
    <3>3. \A g : g = h => LeftOpen(g)' /\ HasLeft(g)'
      BY <1>11, <3>1, <3>2
    <3> QED BY <3>1, <3>3 DEF LeftOpen, HasLeft
  <2>3. \A h \in Keys : IsTaken(h) /\ (IsQueued(h) \/ IsWaiting(h)) => LeftOpen(h)
    BY DEF Placed, Once
  <2>4. \A h \in Keys : IsTaken(h)' /\ (IsQueued(h)' \/ IsWaiting(h)') => LeftOpen(h)'
    BY <1>9, <1>10, <1>11, <2>3
  <2> QED BY <2>1, <2>2, <2>4 DEF Once
<1>13. Steers'
  <2>1. \A h \in Keys : IsQueued(h)' \/ IsWaiting(h)' => OnlySteered(h)
    BY <1>8, <1>9, <1>10 DEF Placed, Steers, OnlySteered
  <2> QED BY <2>1 DEF Placed, Steers, OnlySteered
<1> QED BY <1>5, <1>6, <1>12, <1>13 DEF Placed

LEMMA EnqueuePlaced ==
  ASSUME Typed, Placed, NEW k \in Keys, Enqueue(k)
  PROVE  Placed'
<1> DEFINE i == NextItem
           item == [id |-> i, key |-> k]
<1>1. session.used[k] = 0 /\ i \in ItemIds /\ UNCHANGED <<tasks, steered, history>>
  BY DEF Enqueue, Fresh
<1>2. /\ session.items \in Seq(Item) /\ session.used \in [Keys -> {0} \cup ItemIds]
      /\ item \in Item /\ i <= NextItem
  BY <1>1, Counts DEF Typed, Sessions, Item
<1>3. session' = [session EXCEPT !.items = Append(session.items, item),
                                 !.used[k] = i,
                                 !.promoted = @ \/ session.reserved = 0]
  BY DEF Enqueue
<1> HIDE DEF item
<1>4. /\ session'.items = Append(session.items, item)
      /\ session'.used = [session.used EXCEPT ![k] = i]
  BY <1>3 DEF Typed, Sessions
<1>5. \A h \in Keys : session.used[h] # i
  <2>1. \A h \in Keys : session.used[h] < i
    BY DEF Placed, Itemized
  <2>2. \A h \in Keys : session.used[h] \in Nat
    BY UsedNumbers
  <2> QED BY <1>1, <2>1, <2>2, Counts
<1>6. item.id = i
  BY DEF item
<1>7. \A n \in DOMAIN session.items : session.items[n].id # i
  <2>1. \A n \in DOMAIN session.items : session.items[n] \in Item
    BY <1>2
  <2> QED BY <1>5, <2>1 DEF Placed, Itemized, Item
<1> HIDE DEF i
<1>8. /\ DOMAIN session'.items = 1..(Len(session.items) + 1)
      /\ DOMAIN session.items = 1..Len(session.items) /\ Len(session.items) \in Nat
      /\ \A n \in DOMAIN session'.items :
           session'.items[n] = IF n \in DOMAIN session.items THEN session.items[n] ELSE item
  BY <1>2, <1>4
<1>9. \A m, n \in DOMAIN session'.items : session'.items[m].id = session'.items[n].id => m = n
  BY <1>6, <1>7, <1>8 DEF Placed, Itemized
<1>10. \A h \in Keys : HasLeft(h) => HasLeft(h)'
  <2>1. \A h \in Keys : session.used[h] # 0 => session'.used[h] = session.used[h]
    BY <1>1, <1>2, <1>4
  <2> QED BY <1>5, <1>6, <1>8, <2>1 DEF HasLeft
<1>11. \A n \in DOMAIN session'.items :
         \/ session'.items[n] = [id |-> i, key |-> k]
         \/ \E m \in DOMAIN session.items : session'.items[n] = session.items[m]
  BY <1>8 DEF item
<1> QED BY <1>1, <1>2, <1>4, <1>9, <1>10, <1>11, AcceptedPlaced

LEMMA ReplacePlaced ==
  ASSUME Typed, Placed, NEW k \in Keys, NEW i \in ItemIds, Replace(i, k)
  PROVE  Placed'
<1>1. session.used[k] = 0 /\ ~Gone(i) /\ UNCHANGED <<tasks, steered, history>>
  BY DEF Replace, Fresh, Gone
<1>2. session.items \in Seq(Item) /\ session.used \in [Keys -> {0} \cup ItemIds]
  BY DEF Typed, Sessions
<1>3. /\ session'.items = Replaced(session, i, k)
      /\ session'.used = [session.used EXCEPT ![k] = i]
  BY DEF Replace, Typed, Sessions
<1>4. /\ DOMAIN session'.items = DOMAIN session.items
      /\ \A n \in DOMAIN session.items :
           session'.items[n] = IF session.items[n].id = i THEN [id |-> i, key |-> k]
                               ELSE session.items[n]
  BY <1>3 DEF Replaced
<1>5. \A n \in DOMAIN session.items : session'.items[n].id = session.items[n].id
  BY <1>4
<1>6. i <= NextItem
  <2>1. PICK n \in DOMAIN session.items : session.items[n].id = i
    BY <1>1 DEF Gone, Positions
  <2>2. session.items[n].key \in Keys
    <3>1. session.items[n] \in Item
      BY <1>2
    <3> QED BY <3>1 DEF Item
  <2>3. session.used[session.items[n].key] < NextItem
    BY <2>2 DEF Placed, Itemized
  <2>4. i < NextItem
    BY <2>1, <2>3 DEF Placed, Itemized
  <2>5. NextItem \in Nat
    BY <1>1, <1>3, NextItemGrows
  <2> QED BY <2>4, <2>5, Counts
<1>7. \A m, n \in DOMAIN session'.items : session'.items[m].id = session'.items[n].id => m = n
  BY <1>4, <1>5 DEF Placed, Itemized
<1>8. \A h \in Keys : HasLeft(h) => HasLeft(h)'
  <2>1. \A h \in Keys : session.used[h] # 0 => session'.used[h] = session.used[h]
    BY <1>1, <1>2, <1>3
  <2> QED BY <1>4, <1>5, <2>1 DEF HasLeft
<1>9. \A n \in DOMAIN session'.items :
        \/ session'.items[n] = [id |-> i, key |-> k]
        \/ \E m \in DOMAIN session.items : session'.items[n] = session.items[m]
  BY <1>4
<1> QED BY <1>1, <1>3, <1>6, <1>7, <1>8, <1>9, AcceptedPlaced

\* The prompt leaves the queue with the task of its turn.
LEMMA DrainPlaced ==
  ASSUME Secure, Placed, Drain
  PROVE  Placed'
<1> USE DEF Secure, Sound
<1>1. session \in Sessions /\ steered' = steered /\ history'.taken = history.taken
  BY DEF Drain, Typed
<1>2. CASE session' = [session EXCEPT !.drain = FALSE] /\ tasks' = tasks
  <2>1. Kept(session, session')
    BY <1>1, <1>2 DEF Sessions, Kept
  <2> QED BY <1>1, <1>2, <2>1, StillPlaced DEF Waits
<1>3. CASE /\ session.items # <<>>
           /\ session' = Scheduled(Without([session EXCEPT !.drain = FALSE, !.promoted = TRUE],
                                           PeekNext(session).id), NewTurn)
           /\ tasks' = [tasks EXCEPT ![NewTurn] =
                          [phase |-> FirstPhase(PeekNext(session).key),
                           key |-> PeekNext(session).key]]
  <2> DEFINE item == PeekNext(session)
             s == [session EXCEPT !.drain = FALSE, !.promoted = TRUE]
             t == NewTurn
             ph == FirstPhase(item.key)
             k == item.key
  <2>1. t \in Nat
    BY NewTurnFresh
  <2>2. session.items \in Seq(Item) /\ 1 \in DOMAIN session.items /\ item = session.items[1]
        /\ session.items[1] \in Item
    BY <1>1, <1>3 DEF Sessions, PeekNext
  <2>3. item.id \in ItemIds /\ item.id # 0 /\ k \in Keys /\ k # None /\ session.used[k] = item.id
    <3>1. item.id \in ItemIds /\ k \in Keys
      BY <2>2 DEF Item
    <3>2. item.id # 0
      BY <3>1, Counts
    <3> QED BY <2>2, <3>1, <3>2, NoneAssumption DEF Placed, Itemized
  <2>4. s \in Sessions /\ s.items = session.items /\ s.used = session.used
    BY <1>1 DEF Sessions
  <2>5. session' = Scheduled(Without(s, item.id), t)
        /\ tasks' = [tasks EXCEPT ![t] = [phase |-> ph, key |-> k]]
    BY <1>3
  <2>6. IsQueued(k)
    BY <2>2 DEF IsQueued
  <2> HIDE DEF item, s, t, ph, k
  <2> DEFINE w == Without(s, item.id)
  <2>7. /\ \A m \in DOMAIN w.items : /\ w.items[m].id # item.id
                                    /\ \E n \in DOMAIN s.items : w.items[m] = s.items[n]
        /\ \A m, n \in DOMAIN w.items : w.items[m].id = w.items[n].id => m = n
        /\ w.used = s.used /\ w \in Sessions
    <3>1. 1 \in DOMAIN s.items /\ s.items[1].id = item.id
      BY <2>2, <2>4
    <3>2. \A m, n \in DOMAIN s.items : s.items[m].id = s.items[n].id => m = n
      BY <2>4 DEF Placed, Itemized
    <3>3. w \in Sessions
      BY <2>4, <3>1, WithoutKept
    <3> QED BY <2>4, <3>1, <3>2, <3>3, WithoutItems
  <2> HIDE DEF w
  <2>w. session' = Scheduled(w, t)
    BY <2>5 DEF w
  <2>8. Kept(w, session')
    BY <2>1, <2>w, <2>7, ScheduledKept
  <2>9. /\ session'.used = session.used
        /\ \A m \in DOMAIN session'.items :
             /\ session'.items[m].id # item.id
             /\ \E n \in DOMAIN session.items : session'.items[m] = session.items[n]
        /\ \A m, n \in DOMAIN session'.items :
             session'.items[m].id = session'.items[n].id => m = n
    BY <2>4, <2>7, <2>8 DEF Kept
  <2>10. \A u \in Turns : tasks'[u] = IF u = t THEN [phase |-> ph, key |-> k] ELSE tasks[u]
    BY <2>5 DEF Typed, Tasks
  <2>11. NextItem' = NextItem
    BY <2>9 DEF NextItem
  <2>12. Itemized'
    BY <2>9, <2>11 DEF Placed, Itemized
  <2>13. \A h : HasLeft(h) => HasLeft(h)'
    BY <2>9 DEF HasLeft
  <2>14. \A h : h = k => HasLeft(h)'
    BY <2>3, <2>9 DEF HasLeft
  <2>15. \A u \in Turns : Waits(u) => tasks[u].key # k
    <3>1. ~HasLeft(k)
      BY <2>2, <2>3 DEF HasLeft, item
    <3> QED BY <3>1 DEF Placed, Drained
  <2>16. Drained'
    <3>1. \A u \in Turns : Waits(u)' => \/ u = t /\ tasks'[u].key = k
                                        \/ u # t /\ Waits(u) /\ tasks'[u].key = tasks[u].key
      BY <2>10 DEF Waits
    <3>2. \A u \in Turns : Waits(u)' => \E h : h = tasks'[u].key /\ HasLeft(h)'
      BY <2>13, <2>14, <3>1 DEF Placed, Drained
    <3>3. \A u, v \in Turns : Waits(u)' /\ Waits(v)' /\ tasks'[u].key = tasks'[v].key => u = v
      BY <2>15, <3>1 DEF Placed, Drained
    <3> QED BY <3>2, <3>3 DEF Drained, HasLeft
  <2>17. \A h : /\ LeftOpen(h) => LeftOpen(h)'
                /\ IsTaken(h)' => IsTaken(h)
                /\ IsQueued(h)' => IsQueued(h)
                /\ IsWaiting(h)' => IsWaiting(h) \/ IsQueued(h)
    BY <1>1, <2>6, <2>9, <2>10 DEF LeftOpen, IsTaken, IsQueued, IsWaiting, Waits
  <2>18. Once'
    <3>1. \A n \in DOMAIN history'.taken : session'.used[history'.taken[n].key] # 0
      BY <1>1, <2>9 DEF Placed, Once
    <3>2. \A h \in Keys : IsTaken(h) /\ (IsQueued(h) \/ IsWaiting(h)) => LeftOpen(h)
      BY DEF Placed, Once
    <3>3. \A h \in Keys : IsTaken(h)' /\ (IsQueued(h)' \/ IsWaiting(h)') => LeftOpen(h)'
      BY <2>17, <3>2
    <3> QED BY <1>1, <2>13, <2>17, <3>1, <3>3 DEF Placed, Once
  <2>19. Steers'
    <3>1. \A h \in Keys : OnlySteered(h) => OnlySteered(h)'
      BY <1>1 DEF OnlySteered
    <3> QED BY <1>1, <2>17, <3>1 DEF Placed, Steers
  <2> QED BY <2>12, <2>16, <2>18, <2>19 DEF Placed
<1>4. /\ \/ session' = [session EXCEPT !.drain = FALSE] /\ tasks' = tasks
         \/ /\ session.items # <<>>
            /\ session' = Scheduled(Without([session EXCEPT !.drain = FALSE, !.promoted = TRUE],
                                            PeekNext(session).id), NewTurn)
            /\ tasks' = [tasks EXCEPT ![NewTurn] =
                           [phase |-> FirstPhase(PeekNext(session).key),
                            key |-> PeekNext(session).key]]
  <2> HIDE DEF Secure, Sound
  <2> QED BY Zenon DEF Drain
<1> QED BY <1>2, <1>3, <1>4

\* The core takes a prompt from the task that waited with it.
LEMMA TakenPlaced ==
  ASSUME Typed, Placed, Kept(session, session'), steered' = steered,
         NEW t \in Turns, Waits(t), ~Waits(t)', NEW n \in Nat \ {0},
         history'.taken = Append(history.taken, [key |-> tasks[t].key, turn |-> n]),
         \A u \in Turns : Waits(u)' => Waits(u) /\ tasks'[u].key = tasks[u].key
  PROVE  Placed'
<1> DEFINE k == tasks[t].key
           len == Len(history.taken)
<1>1. /\ session'.items = session.items /\ session'.used = session.used
  BY DEF Kept
<1>2. k \in Keys /\ HasLeft(k) /\ IsWaiting(k)
  BY DEF Waits, Typed, Tasks, Placed, Drained, IsWaiting
<1>3. /\ history.taken \in Seq(Entries) /\ len \in Nat
      /\ DOMAIN history.taken = 1..len /\ DOMAIN history'.taken = 1..(len + 1)
      /\ \A a \in 1..len : history'.taken[a] = history.taken[a]
      /\ history'.taken[len + 1] = [key |-> k, turn |-> n]
  <2>1. history.taken \in Seq(Entries) /\ [key |-> k, turn |-> n] \in Entries
    BY <1>2 DEF Typed, Entries
  <2> QED BY <2>1
<1> HIDE DEF k, len
<1>4. NextItem' = NextItem
  BY <1>1 DEF NextItem
<1>5. Itemized'
  BY <1>1, <1>4 DEF Placed, Itemized
<1>6. \A h : HasLeft(h)' <=> HasLeft(h)
  BY <1>1 DEF HasLeft
<1>7. Drained'
  BY <1>6 DEF Placed, Drained
<1>8. \A h : /\ LeftOpen(h) => LeftOpen(h)'
             /\ IsQueued(h)' => IsQueued(h)
             /\ IsWaiting(h)' => IsWaiting(h) /\ h # k
             /\ IsTaken(h)' => IsTaken(h) \/ h = k
  <2>1. \A u \in Turns : Waits(u)' => u # t /\ Waits(u) /\ tasks[u].key # k
    BY DEF Placed, Drained, k
  <2>2. \A h : IsTaken(h)' => IsTaken(h) \/ h = k
    BY <1>3 DEF IsTaken
  <2> QED BY <1>1, <2>1, <2>2 DEF LeftOpen, IsQueued, IsWaiting
<1>9. ~IsQueued(k)
  BY <1>2 DEF HasLeft, IsQueued, Placed, Itemized
<1>10. Once'
  <2>1. \A a \in DOMAIN history'.taken : session'.used[history'.taken[a].key] # 0
    <3>1. session.used[k] # 0
      BY <1>2 DEF HasLeft
    <3> QED BY <1>1, <1>3, <3>1 DEF Placed, Once
  <2>2. \A h \in Keys : IsTaken(h) /\ (IsQueued(h) \/ IsWaiting(h)) => LeftOpen(h)
    BY DEF Placed, Once
  <2>3. \A h \in Keys : IsTaken(h)' /\ (IsQueued(h)' \/ IsWaiting(h)') => LeftOpen(h)'
    BY <1>8, <1>9, <2>2
  <2>4. \A a \in 1..len : history.taken[a].key = k => LeftOpen(k)
    <3>1. \A a \in 1..len : history.taken[a].key = k => IsTaken(k)
      BY <1>3 DEF IsTaken
    <3> QED BY <1>2, <2>2, <3>1
  <2>5. ASSUME NEW a \in DOMAIN history'.taken, NEW b \in DOMAIN history'.taken,
               history'.taken[a].key = history'.taken[b].key, a # b
        PROVE  \E h : h = history'.taken[a].key /\ LeftOpen(h) /\ HasLeft(h)
    BY <1>2, <1>3, <2>4, <2>5 DEF Placed, Once
  <2>6. \A a, b \in DOMAIN history'.taken :
          history'.taken[a].key = history'.taken[b].key /\ a # b =>
            \E h : h = history'.taken[a].key /\ LeftOpen(h)' /\ HasLeft(h)'
    BY <1>6, <1>8, <2>5
  <2> QED BY <2>1, <2>3, <2>6, SMTT(30) DEF Once, LeftOpen, HasLeft
<1>11. Steers'
  <2>1. OnlySteered(k)
    BY <1>2 DEF Placed, Steers
  <2>2. \A a, b \in 1..len : a < b /\ history.taken[a].key = history.taken[b].key =>
          history.taken[a].turn = 0 /\ history.taken[b].turn # 0
    BY <1>3 DEF Placed, Steers
  <2>3. \A a \in 1..len : history.taken[a].key = k => history.taken[a].turn = 0
    BY <1>3, <2>1 DEF OnlySteered
  <2>4. \A a, b \in DOMAIN history'.taken :
          a < b /\ history'.taken[a].key = history'.taken[b].key =>
            history'.taken[a].turn = 0 /\ history'.taken[b].turn # 0
    BY <1>3, <2>2, <2>3
  <2>5. \A h \in Keys : IsQueued(h)' \/ IsWaiting(h)' => h # k /\ OnlySteered(h)
    BY <1>8, <1>9 DEF Placed, Steers
  <2>6. \A h \in Keys : IsQueued(h)' \/ IsWaiting(h)' => OnlySteered(h)'
    BY <1>3, <2>5 DEF OnlySteered
  <2> QED BY <2>4, <2>6 DEF Steers
<1> QED BY <1>5, <1>7, <1>10, <1>11 DEF Placed

\* The running turn takes a queued prompt: its item goes, or its receipt
\* is left open.
LEMMA SteeredPlaced ==
  ASSUME Typed, Placed, NEW i \in ItemIds, NEW k \in Keys, IsQueued(k), session.used[k] = i,
         session'.used = session.used,
         \A m \in DOMAIN session'.items :
           \E n \in DOMAIN session.items : session'.items[m] = session.items[n],
         \A m, n \in DOMAIN session'.items :
           session'.items[m].id = session'.items[n].id => m = n,
         \A j \in ItemIds : j # i => steered'[j] = steered[j],
         \/ steered'[i].state = "open"
         \/ \A n \in DOMAIN session'.items : session'.items[n].id # i,
         tasks' = tasks,
         \/ history'.taken = history.taken
         \/ /\ steered[i].state = "none"
            /\ history'.taken = Append(history.taken, [key |-> k, turn |-> 0])
  PROVE  Placed'
<1> DEFINE len == Len(history.taken)
<1>1. NextItem' = NextItem
  BY DEF NextItem
<1>2. Itemized'
  BY <1>1 DEF Placed, Itemized
<1>3. \A h : HasLeft(h) => HasLeft(h)'
  BY DEF HasLeft
<1>4. Drained'
  BY <1>3 DEF Placed, Drained, Waits
<1>5. /\ history.taken \in Seq(Entries) /\ len \in Nat /\ DOMAIN history.taken = 1..len
      /\ \A a \in 1..len : history.taken[a].key \in Keys
  <2>1. history.taken \in Seq(Entries) /\ len \in Nat /\ DOMAIN history.taken = 1..len
    BY DEF Typed
  <2>2. \A a \in 1..len : history.taken[a] \in Entries
    BY <2>1
  <2> QED BY <2>1, <2>2 DEF Entries
<1>6. \A h \in Keys : session.used[h] = i => ~HasLeft(h) /\ ~IsWaiting(h)
  <2>1. \E n \in DOMAIN session.items : session.items[n].id = i
    BY DEF IsQueued, Placed, Itemized
  <2>2. \A h \in Keys : session.used[h] = i => ~HasLeft(h)
    BY <2>1 DEF HasLeft
  <2> QED BY <2>2 DEF Placed, Drained, IsWaiting
<1>7. \A h \in Keys : session.used[h] # 0 /\ session.used[h] # i /\ LeftOpen(h) => LeftOpen(h)'
  <2>1. \A h \in Keys : session.used[h] \in {0} \cup ItemIds
    BY DEF Typed, Sessions
  <2> QED BY <2>1 DEF LeftOpen
<1>8. \A h \in Keys : /\ session.used[h] = i /\ steered'[i].state = "open" => LeftOpen(h)'
                      /\ session.used[h] = i /\ steered[i].state = "none" => ~LeftOpen(h)
  BY DEF LeftOpen
<1>9. \A h \in Keys : session.used[h] = i /\ IsQueued(h)' => steered'[i].state = "open"
  BY <1>2 DEF IsQueued, Itemized
<1>10. \A h \in Keys : /\ IsQueued(h)' => IsQueued(h)
                       /\ IsWaiting(h)' => IsWaiting(h)
  BY DEF IsQueued, IsWaiting, Waits
<1>11. \A h \in Keys : IsTaken(h) => session.used[h] # 0
  BY DEF Placed, Once, IsTaken
<1>12. \A h \in Keys : IsTaken(h) /\ (IsQueued(h) \/ IsWaiting(h)) => LeftOpen(h)
  BY DEF Placed, Once
<1>13. \A a, b \in DOMAIN history.taken :
         history.taken[a].key = history.taken[b].key /\ a # b =>
           LeftOpen(history.taken[a].key) /\ HasLeft(history.taken[a].key)
  BY DEF Placed, Once
<1>14. i # 0
  BY Counts
<1>15. CASE history'.taken = history.taken
  <2>1. \A h \in Keys : IsTaken(h)' => IsTaken(h)
    BY <1>15 DEF IsTaken
  <2>2. \A h \in Keys : IsTaken(h)' /\ (IsQueued(h)' \/ IsWaiting(h)') => LeftOpen(h)'
    BY <1>6, <1>7, <1>8, <1>9, <1>10, <1>11, <1>12, <2>1
  <2>3. \A a, b \in DOMAIN history.taken :
          history.taken[a].key = history.taken[b].key /\ a # b =>
            \E h : h = history.taken[a].key /\ LeftOpen(h)' /\ HasLeft(h)'
    <3>1. \A h \in Keys : LeftOpen(h) /\ HasLeft(h) => LeftOpen(h)' /\ HasLeft(h)'
      BY <1>3, <1>6, <1>7 DEF HasLeft
    <3> QED BY <1>5, <1>13, <3>1
  <2>4. \A n \in DOMAIN history'.taken : session'.used[history'.taken[n].key] # 0
    BY <1>15 DEF Placed, Once
  <2>5. Once'
    BY <1>15, <2>2, <2>3, <2>4 DEF Once, LeftOpen, HasLeft
  <2>6. Steers'
    BY <1>10, <1>15 DEF Placed, Steers, OnlySteered
  <2> QED BY <1>2, <1>4, <2>5, <2>6 DEF Placed
<1>16. CASE /\ steered[i].state = "none"
            /\ history'.taken = Append(history.taken, [key |-> k, turn |-> 0])
  <2>1. /\ DOMAIN history'.taken = 1..(len + 1)
        /\ \A a \in 1..len : history'.taken[a] = history.taken[a]
        /\ history'.taken[len + 1].key = k /\ history'.taken[len + 1].turn = 0
    <3>1. [key |-> k, turn |-> 0] \in Entries
      BY DEF Entries
    <3> QED BY <1>5, <1>16, <3>1
  <2>2. ~IsTaken(k)
    BY <1>8, <1>12, <1>16
  <2>3. \A h \in Keys : IsTaken(h)' => IsTaken(h) \/ h = k
    BY <1>5, <2>1 DEF IsTaken
  <2>4. \A h \in Keys : IsTaken(h)' /\ (IsQueued(h)' \/ IsWaiting(h)') => LeftOpen(h)'
    BY <1>6, <1>7, <1>8, <1>9, <1>10, <1>11, <1>12, <2>3
  <2>5. \A a \in 1..len : history.taken[a].key # k
    BY <1>5, <2>2 DEF IsTaken
  <2>6. \A a, b \in DOMAIN history'.taken :
          history'.taken[a].key = history'.taken[b].key /\ a # b =>
            \E h : h = history'.taken[a].key /\ LeftOpen(h)' /\ HasLeft(h)'
    <3>1. \A h \in Keys : LeftOpen(h) /\ HasLeft(h) => LeftOpen(h)' /\ HasLeft(h)'
      BY <1>3, <1>6, <1>7 DEF HasLeft
    <3>2. ASSUME NEW a \in DOMAIN history'.taken, NEW b \in DOMAIN history'.taken,
                 history'.taken[a].key = history'.taken[b].key, a # b
          PROVE  a \in 1..len /\ b \in 1..len
      <4>1. \A c \in 1..(len + 1) : c \in 1..len \/ c = len + 1
        BY <1>5
      <4>2. \A c \in 1..len : history'.taken[c].key # history'.taken[len + 1].key
        BY <2>1, <2>5
      <4> QED BY <2>1, <3>2, <4>1, <4>2
    <3>3. \A a, b \in 1..len :
            history'.taken[a].key = history'.taken[b].key /\ a # b =>
              \E h : h = history'.taken[a].key /\ LeftOpen(h)' /\ HasLeft(h)'
      BY <1>5, <1>13, <2>1, <3>1, ZenonT(60)
    <3> QED BY <3>2, <3>3
  <2>7. \A n \in DOMAIN history'.taken : session'.used[history'.taken[n].key] # 0
    BY <1>5, <1>14, <2>1 DEF Placed, Once
  <2>8. Once'
    BY <2>4, <2>6, <2>7 DEF Once, LeftOpen, HasLeft
  <2>9. Steers'
    <3>1. \A a, b \in 1..len : a < b /\ history.taken[a].key = history.taken[b].key =>
            history.taken[a].turn = 0 /\ history.taken[b].turn # 0
      BY <1>5 DEF Placed, Steers
    <3>2. \A a, b \in DOMAIN history'.taken :
            a < b /\ history'.taken[a].key = history'.taken[b].key =>
              history'.taken[a].turn = 0 /\ history'.taken[b].turn # 0
      <4>1. \A a, b \in 1..(len + 1) : a < b => a \in 1..len /\ (b \in 1..len \/ b = len + 1)
        <5>1. len \in Nat
          BY <1>5
        <5> HIDE DEF len
        <5> QED BY ONLY <5>1
      <4>2. \A a \in 1..len : history'.taken[a].key # history'.taken[len + 1].key
        BY <2>1, <2>5
      <4>3. \A a, b \in 1..len :
              a < b /\ history'.taken[a].key = history'.taken[b].key =>
                history'.taken[a].turn = 0 /\ history'.taken[b].turn # 0
        BY ONLY <2>1, <3>1
      <4> QED BY ONLY <2>1, <4>1, <4>2, <4>3
    <3>3. \A h \in Keys : IsQueued(h)' \/ IsWaiting(h)' => OnlySteered(h)
      BY <1>10 DEF Placed, Steers
    <3>4. \A h \in Keys : OnlySteered(h) => OnlySteered(h)'
      BY <1>5, <2>1 DEF OnlySteered
    <3> QED BY <3>2, <3>3, <3>4 DEF Steers
  <2> QED BY <1>2, <1>4, <2>8, <2>9 DEF Placed
<1> QED BY <1>15, <1>16

LEMMA SubmitPlaced ==
  ASSUME Secure, Running, Placed, Submit
  PROVE  Placed'
<1> USE DEF Secure, Sound
<1>1. PICK i \in ItemIds : i = lock.item
  BY DEF Submit, Steering
<1>2. PICK c \in DOMAIN session.items : /\ session.items[c].id = i
                                        /\ KeyOf(i) = session.items[c].key /\ KeyOf(i) \in Keys
  BY <1>1, KeyOfItem DEF Submit, Steering
<1>3. PICK k \in Keys : k = KeyOf(i)
  BY <1>2
<1>4. /\ session \in Sessions /\ tasks' = tasks
      /\ IsQueued(k) /\ session.used[k] = i
      /\ \A m, n \in DOMAIN session.items : session.items[m].id = session.items[n].id => m = n
  BY <1>2, <1>3 DEF Typed, Submit, IsQueued, Placed, Itemized
<1>5. Take(KeyOf(i), 0).taken = Append(history.taken, [key |-> k, turn |-> 0])
  BY <1>3, TakeTyped
<1>6. steered \in Receipts /\ steered[i].state \in {"none", "open", "done"}
  BY DEF Typed, Receipts
<1>7. CASE /\ Retire(i)
           /\ \/ history' = history
              \/ steered[i].state = "none" /\ history' = Take(KeyOf(i), 0)
  <2> DEFINE w == Without(session, i)
  <2>1. /\ \A m \in DOMAIN w.items : /\ w.items[m].id # i
                                     /\ \E n \in DOMAIN session.items : w.items[m] = session.items[n]
        /\ \A m, n \in DOMAIN w.items : w.items[m].id = w.items[n].id => m = n
        /\ w.used = session.used
    BY <1>2, <1>4, WithoutItems
  <2>2. session' = w /\ \A j \in ItemIds : j # i => steered'[j] = steered[j]
    BY <1>6, <1>7 DEF Retire, Receipts
  <2> HIDE DEF w
  <2>3. \/ history'.taken = history.taken
        \/ /\ steered[i].state = "none"
           /\ history'.taken = Append(history.taken, [key |-> k, turn |-> 0])
    BY <1>5, <1>7
  <2> QED BY <1>4, <2>1, <2>2, <2>3, SteeredPlaced
<1>8. CASE /\ Reserve(i) /\ session' = session
           /\ \/ history' = history
              \/ steered[i].state = "none" /\ history' = Take(KeyOf(i), 0)
  <2>1. steered'[i].state = "open" /\ \A j \in ItemIds : j # i => steered'[j] = steered[j]
    BY <1>6, <1>8 DEF Reserve, Receipts
  <2>2. \/ history'.taken = history.taken
        \/ /\ steered[i].state = "none"
           /\ history'.taken = Append(history.taken, [key |-> k, turn |-> 0])
    BY <1>5, <1>8
  <2> QED BY <1>4, <1>8, <2>1, <2>2, SteeredPlaced
<1>9. CASE session' = session /\ steered' = steered /\ history' = history
  BY <1>4, <1>9, StillPlaced DEF Kept, Waits
<1>10. core.active = lock.turn /\ Applies(i) => steered[i].state = "none"
  BY <1>1 DEF Running, Applies, Submit
<1>11. \/ /\ Retire(i)
          /\ \/ history' = history
             \/ /\ core.active = lock.turn /\ Applies(i)
                /\ history' = Take(KeyOf(i), 0)
       \/ /\ Reserve(i) /\ session' = session
          /\ \/ history' = history
             \/ /\ core.active = lock.turn /\ Applies(i)
                /\ history' = Take(KeyOf(i), 0)
       \/ session' = session /\ steered' = steered /\ history' = history
  BY <1>1 DEF Submit
<1> QED BY <1>7, <1>8, <1>9, <1>10, <1>11

LEMMA ContributePlaced ==
  ASSUME Secure, Placed, NEW t \in Turns, Contribute(t)
  PROVE  Placed'
<1> USE DEF Secure, Sound
<1>1. /\ tasks[t].phase = "context" /\ tasks[t].key # None /\ steered' = steered
      /\ tasks \in Tasks /\ t \in Nat \ {0}
  BY Counts DEF Contribute, Typed, Keyed
<1>2. Waits(t)
  BY <1>1 DEF Waits
<1>3. Kept(session, session')
  <2>1. session' = session \/ session' = Heard(session, core, tasks')
    BY DEF Contribute
  <2>2. Kept(session, Heard(session, core, tasks'))
    BY HeardKept DEF Typed
  <2> QED BY <2>1, <2>2 DEF Kept
<1>4. \A u \in Turns : u # t => tasks'[u] = tasks[u]
  BY <1>1 DEF Contribute, SetPhase, Tasks
<1>5. tasks'[t].key = tasks[t].key
  BY <1>1 DEF Contribute, SetPhase, Tasks
<1>6. \A u \in Turns : Waits(u)' => Waits(u) /\ tasks'[u].key = tasks[u].key
  BY <1>2, <1>4, <1>5 DEF Waits
<1>7. CASE history' = history
  BY <1>1, <1>3, <1>6, <1>7, StillPlaced
<1>8. CASE tasks' = SetPhase(tasks, t, "over") /\ history' = Take(tasks[t].key, t)
  <2>1. tasks[t].key \in Keys
    BY <1>1, HeadOfTask
  <2>2. history'.taken = Append(history.taken, [key |-> tasks[t].key, turn |-> t])
    BY <1>1, <1>8, <2>1, TakeTyped
  <2>3. ~Waits(t)'
    BY <1>1, <1>8 DEF Waits, SetPhase, Tasks
  <2> QED BY <1>1, <1>2, <1>3, <1>6, <2>2, <2>3, TakenPlaced
<1> QED BY <1>7, <1>8 DEF Contribute

LEMMA AcceptPlaced ==
  ASSUME Secure, Placed, NEW t \in Turns, Accept(t)
  PROVE  Placed'
<1> USE DEF Secure, Sound
<1>1. /\ tasks[t].phase = "due" /\ Kept(session, session') /\ steered' = steered
      /\ tasks \in Tasks /\ t \in Nat \ {0}
  BY Counts DEF Accept, Typed, Kept
<1>2. PICK ph \in {"driving", "over", "failed"} : tasks' = SetPhase(tasks, t, ph)
  BY DEF Accept
<1>3. ~Waits(t)' /\ \A u \in Turns : u # t => tasks'[u] = tasks[u]
  BY <1>1, <1>2 DEF SetPhase, Tasks, Waits
<1>4. \A u \in Turns : Waits(u)' => Waits(u) /\ tasks'[u].key = tasks[u].key
  BY <1>3 DEF Waits
<1>5. CASE history' = history
  BY <1>1, <1>4, <1>5, StillPlaced
<1>6. CASE tasks[t].key # None /\ history' = Take(tasks[t].key, t)
  <2>1. Waits(t) /\ tasks[t].key \in Keys
    BY <1>1, <1>6 DEF Waits, Tasks
  <2>2. history'.taken = Append(history.taken, [key |-> tasks[t].key, turn |-> t])
    BY <1>1, <1>6, <2>1, TakeTyped
  <2> QED BY <1>1, <1>3, <1>4, <2>1, <2>2, TakenPlaced
<1> QED BY <1>5, <1>6 DEF Accept

LEMMA WithdrawPlaced ==
  ASSUME Typed, Placed, NEW i \in ItemIds, Withdraw(i)
  PROVE  Placed'
<1>1. /\ session' = Without(session, i) /\ session \in Sessions
      /\ UNCHANGED <<tasks, steered, history>>
  BY DEF Withdraw, Typed
<1>2. PICK c \in DOMAIN session.items : session.items[c].id = i
  BY DEF Withdraw, Positions
<1>3. \A m, n \in DOMAIN session.items : session.items[m].id = session.items[n].id => m = n
  BY DEF Placed, Itemized
<1> DEFINE w == Without(session, i)
<1>4. /\ \A m \in DOMAIN w.items : \E n \in DOMAIN session.items : w.items[m] = session.items[n]
      /\ \A m, n \in DOMAIN w.items : w.items[m].id = w.items[n].id => m = n
      /\ w.used = session.used
  BY <1>1, <1>2, <1>3, WithoutItems
<1>5. session' = w
  BY <1>1
<1> HIDE DEF w
<1> QED BY <1>1, <1>4, <1>5, PlacedFrame DEF Waits

\* The task of one turn moves, and does not begin to wait with a prompt.
LEMMA MovedPlaced ==
  ASSUME Typed, Placed, NEW t, NEW ph \in Phases, tasks' = SetPhase(tasks, t, ph),
         ph \notin {"context", "due"} \/ t \notin Turns \/ tasks[t].key = None,
         Kept(session, session'), steered' = steered, history'.taken = history.taken
  PROVE  Placed'
<1>1. \A u \in Turns : /\ tasks'[u].key = tasks[u].key
                       /\ tasks'[u].phase = IF u = t THEN ph ELSE tasks[u].phase
  BY DEF Typed, SetPhase, Tasks
<1>2. \A u \in Turns : Waits(u)' => Waits(u) /\ tasks'[u].key = tasks[u].key
  BY <1>1 DEF Waits
<1> QED BY <1>2, StillPlaced

LEMMA IdlePlaced ==
  ASSUME Typed, Placed, tasks' = tasks,
         Kept(session, session'), steered' = steered, history'.taken = history.taken
  PROVE  Placed'
BY StillPlaced DEF Waits

LEMMA ResponsePlaced ==
  ASSUME Secure, Placed, NEW r \in replies, Respond(r) \/ Abandon(r)
  PROVE  Placed'
<1> USE DEF Secure, Sound
<1>1. /\ steered' = steered /\ history'.taken = history.taken
      /\ session \in Sessions /\ tasks \in Tasks /\ r.turn \in Nat
  BY DEF Respond, Abandon, Typed, Replies
<1>2. CASE r.kind \in {"start", "deferred"}
  <2>1. r.turn \notin Turns \/ tasks[r.turn].key = None
    BY <1>2 DEF Awaiting, Starting
  <2>2. PICK ph \in Phases : tasks' = tasks \/ tasks' = SetPhase(tasks, r.turn, ph)
    <3>1. FirstPhase(tasks[r.turn].key) \in Phases /\ {"preparing", "reaped"} \subseteq Phases
      BY DEF FirstPhase, Phases
    <3> QED BY <1>2, <3>1 DEF Respond, Abandon, Started, Deferred
  <2>3. Kept(session, session')
    <3> DEFINE s == [session EXCEPT !.reserved = 0]
    <3>1. s \in Sessions /\ Kept(session, s) /\ Kept(session, session)
      BY <1>1 DEF Sessions, Kept
    <3>2. session' \in {session, Scheduled(session, r.turn), Draining(s, core, tasks)}
      BY <1>2 DEF Respond, Abandon, Started, Deferred
    <3> HIDE DEF s
    <3>3. Kept(session, Draining(s, core, tasks))
      BY <3>1, DrainingKept DEF Kept
    <3>4. Kept(session, Scheduled(session, r.turn))
      BY <1>1, ScheduledKept
    <3> QED BY <3>1, <3>2, <3>3, <3>4
  <2> QED BY <1>1, <2>1, <2>2, <2>3, MovedPlaced, IdlePlaced
<1>3. CASE r.kind \notin {"start", "deferred"}
  <2>1. tasks' = tasks
    BY <1>3 DEF Respond, Abandon, Interrupted
  <2>2. Kept(session, session')
    <3>1. \/ Interrupted(r.turn) \/ session' = session
          \/ session' = Draining(session, core, tasks)
      BY <1>3 DEF Respond, Abandon
    <3> QED BY <1>1, <3>1, InterruptedKept, DrainingKept DEF Kept
  <2> QED BY <1>1, <2>1, <2>2, IdlePlaced
<1> QED BY <1>2, <1>3

LEMMA StartPlaced ==
  ASSUME Secure, Placed, NEW kind \in {"start", "deferred"}, Start(kind)
  PROVE  Placed'
<1> USE DEF Secure, Sound
<1>1. "reserved" \in Phases /\ "reserved" \notin {"context", "due"}
  BY DEF Phases
<1>2. Kept(session, session')
  BY DEF Start, Typed, Sessions, Kept
<1> QED BY <1>1, <1>2, MovedPlaced DEF Start

LEMMA PreparePlaced ==
  ASSUME Secure, Placed, NEW t \in Turns, Prepare(t)
  PROVE  Placed'
<1> USE DEF Secure, Sound
<1>1. /\ tasks[t].key = None /\ steered' = steered /\ history' = history
      /\ session \in Sessions /\ t \in Nat
  BY Counts DEF Prepare, Keyed, Typed
<1>2. PICK ph \in {"due", "reaped"} : tasks' = SetPhase(tasks, t, ph)
  BY DEF Prepare
<1>3. ph \in Phases
  BY DEF Phases
<1>4. Kept(session, session')
  <2> DEFINE s == [session EXCEPT !.reserved = 0]
  <2>1. s \in Sessions /\ Kept(session, s)
    BY <1>1 DEF Sessions, Kept
  <2>2. \/ session' = [Scheduled(session, t) EXCEPT !.promoted = TRUE]
        \/ session' = Announced(s, core, tasks, t, "failed")
    BY DEF Prepare
  <2> HIDE DEF s
  <2>3. Kept(session, Announced(s, core, tasks, t, "failed"))
    BY <1>1, <2>1, AnnouncedKept DEF Kept
  <2>4. CASE session' = [Scheduled(session, t) EXCEPT !.promoted = TRUE]
    BY <1>1, <2>4, ScheduledKept DEF Sessions, Kept
  <2> QED BY <2>2, <2>3, <2>4
<1> QED BY <1>1, <1>2, <1>3, <1>4, MovedPlaced

LEMMA TaskPlaced ==
  ASSUME Secure, Placed, NEW t \in Turns,
         Fail(t) \/ Finish(t) \/ Reap(t) \/ InterruptReserved(t)
  PROVE  Placed'
<1> USE DEF Secure, Sound
<1>1. /\ steered' = steered /\ history'.taken = history.taken
      /\ session \in Sessions /\ t \in Nat
  BY Counts DEF Fail, Finish, Reap, InterruptReserved, Typed
<1>2. PICK ph \in {"failed", "over", "reaped"} : tasks' = SetPhase(tasks, t, ph)
  BY DEF Fail, Finish, Reap, InterruptReserved
<1>3. ph \in Phases /\ ph \notin {"context", "due"}
  BY DEF Phases
<1>4. Kept(session, session')
  <2>1. CASE session' = session
    BY <2>1 DEF Kept
  <2>2. CASE Reap(t)
    BY <1>1, <2>2, ReapedKept DEF Reap
  <2>3. CASE session' = [session EXCEPT !.reserved = 0]
    BY <1>1, <2>3 DEF Sessions, Kept
  <2> QED BY <2>1, <2>2, <2>3 DEF Fail, Finish, InterruptReserved
<1> QED BY <1>1, <1>2, <1>3, <1>4, MovedPlaced

LEMMA EventPlaced ==
  ASSUME Secure, Placed, Hear \/ News
  PROVE  Placed'
<1> USE DEF Secure, Sound
<1>1. /\ tasks' = tasks /\ steered' = steered /\ history'.taken = history.taken
      /\ session' = Heard(session, core, tasks)
  BY DEF Hear, News, Typed
<1>2. Kept(session, session')
  BY <1>1, HeardKept DEF Typed
<1> QED BY <1>1, <1>2, IdlePlaced

LEMMA QuietPlaced ==
  ASSUME Secure, Placed,
         \/ Resume \/ AwaitRuntime \/ InterruptCore \/ UNCHANGED vars
         \/ \E i \in ItemIds : Steer(i)
         \/ \E outcome \in {"completed", "failed"} : End(outcome)
  PROVE  Placed'
<1> USE DEF Secure, Sound
<1>1. tasks' = tasks /\ steered' = steered /\ history'.taken = history.taken
  BY DEF Resume, Steer, AwaitRuntime, InterruptCore, End, vars, Typed
<1>2. Kept(session, session')
  BY DEF Resume, Steer, AwaitRuntime, InterruptCore, End, vars, Typed, Sessions, Kept
<1> QED BY <1>1, <1>2, IdlePlaced

LEMMA InterruptRunningPlaced ==
  ASSUME Secure, Placed, InterruptRunning
  PROVE  Placed'
<1> USE DEF Secure, Sound
<1>1. steered' = steered /\ history'.taken = history.taken /\ Kept(session, session')
  BY DEF InterruptRunning, Typed, Sessions, Kept
<1>2. tasks' = tasks \/ tasks' = SetPhase(tasks, session.active, "cancelled")
  BY DEF InterruptRunning
<1>3. "cancelled" \in Phases /\ "cancelled" \notin {"context", "due"}
  BY DEF Phases
<1> QED BY <1>1, <1>2, <1>3, MovedPlaced, IdlePlaced

LEMMA InitPlaced == Init => Placed
<1> SUFFICES ASSUME Init PROVE Placed
  OBVIOUS
<1>1. {k \in Keys : session.used[k] # 0} = {} /\ session.items = <<>> /\ history.taken = <<>>
  BY DEF Init
<1>2. NextItem = 1
  BY <1>1, FS_EmptySet DEF NextItem
<1>3. Itemized
  BY <1>1, <1>2 DEF Init, Itemized
<1>4. Drained
  BY DEF Init, Drained, Waits
<1>5. Once /\ Steers
  BY <1>1 DEF Once, IsTaken, Steers, OnlySteered
<1> QED BY <1>3, <1>4, <1>5 DEF Placed

LEMMA RequestsPlaced ==
  ASSUME Secure, Placed, Requests
  PROVE  Placed'
<1>1. Typed
  BY DEF Secure, Sound
<1> QED BY <1>1, StartPlaced, EnqueuePlaced, ReplacePlaced, WithdrawPlaced, QuietPlaced,
           InterruptRunningPlaced, TaskPlaced, Zenon DEF Requests

LEMMA DisturbancesPlaced ==
  ASSUME Secure, Placed, Disturbances
  PROVE  Placed'
BY EventPlaced, TaskPlaced, ResponsePlaced, Zenon DEF Disturbances

LEMMA LoopPlaced ==
  ASSUME Secure, Running, Placed, Loop
  PROVE  Placed'
BY ResponsePlaced, DrainPlaced, SubmitPlaced, QuietPlaced, EventPlaced, PreparePlaced,
   ContributePlaced, AcceptPlaced, TaskPlaced, Zenon DEF Loop

LEMMA PlacedHolds == Spec => [](Secure /\ Running /\ Placed)
<1>1. Secure /\ Running /\ Placed /\ [Next]_vars => Placed'
  <2> SUFFICES ASSUME Secure, Running, Placed, [Next]_vars PROVE Placed'
    OBVIOUS
  <2>1. CASE UNCHANGED vars
    BY <2>1, QuietPlaced
  <2>2. CASE Next
    BY <2>2, RequestsPlaced, DisturbancesPlaced, LoopPlaced DEF Next
  <2> QED BY <2>1, <2>2
<1> QED BY RunningHolds, InitPlaced, <1>1, PTL DEF Spec

(* A prompt enters the core's history once, for any numbers of prompts,    *)
(* turns, interruptions, failures and updates, and with responses that may *)
(* not be deliverable; the exception is a prompt the core took as steering *)
(* while its receipt was left open, which may start a turn of its own.     *)
THEOREM NoPromptTwiceHolds == Spec => []NoPromptTwice
<1>1. Placed => NoPromptTwice
  <2> SUFFICES ASSUME Placed,
                      NEW a \in DOMAIN history.taken, NEW b \in DOMAIN history.taken,
                      a < b, history.taken[a].key = history.taken[b].key
               PROVE  /\ history.taken[a].turn = 0 /\ history.taken[b].turn # 0
                      /\ LeftOpen(history.taken[a].key)
    BY DEF NoPromptTwice, LeftOpen
  <2>1. history.taken[a].turn = 0 /\ history.taken[b].turn # 0
    BY DEF Placed, Steers
  <2>2. a # b
    BY <2>1
  <2> QED BY <2>1, <2>2 DEF Placed, Once
<1> QED BY PlacedHolds, <1>1, PTL

-----------------------------------------------------------------------------
(* Who waits for the Runtime's lock, and in which order.                   *)

InLine(t) == tasks[t].phase \in {"context", "due"}
Occurs(l, t) == \E n \in DOMAIN l : l[n] = t
Ahead(l, t, u) == \E m, n \in DOMAIN l : m < n /\ l[m] = t /\ l[n] = u
Single(l) == \A m, n \in DOMAIN l : l[m] = l[n] /\ l[m] \in Turns => m = n

\* A turn stands in the line while its task has a command to submit, once.
Lined ==
  /\ line \in Seq(Nat) /\ Single(line)
  /\ \A t \in Turns : InLine(t) <=> Occurs(line, t)

\* One turn is out of the line; the others keep their order.
Shorter(l, w, t) ==
  /\ w \in Seq(Nat) /\ Single(w)
  /\ \A u \in Turns : Occurs(w, u) <=> Occurs(l, u) /\ u # t
  /\ \A u, v \in Turns : Ahead(w, u, v) => Ahead(l, u, v)

\* One turn is at the end of the line.
Longer(l, w, t) ==
  /\ w \in Seq(Nat) /\ Single(w)
  /\ \A u \in Turns : Occurs(w, u) <=> Occurs(l, u) \/ u = t
  /\ \A u, v \in Turns : Ahead(w, u, v) => Ahead(l, u, v) \/ (v = t /\ u # t)

LEMMA AppendFacts ==
  ASSUME NEW S, NEW l \in Seq(S), NEW t \in S
  PROVE  /\ Append(l, t) \in Seq(S) /\ Len(Append(l, t)) = Len(l) + 1
         /\ DOMAIN l = 1..Len(l) /\ Len(l) \in Nat
         /\ DOMAIN Append(l, t) = 1..(Len(l) + 1)
         /\ Append(l, t)[Len(l) + 1] = t
         /\ \A n \in 1..Len(l) : Append(l, t)[n] = l[n]
OBVIOUS

LEMMA JoinsLine ==
  ASSUME NEW l \in Seq(Nat), Single(l), NEW t \in Nat, t \in Turns => ~Occurs(l, t)
  PROVE  Longer(l, Append(l, t), t)
<1> DEFINE w == Append(l, t)
<1>1. /\ w \in Seq(Nat)
      /\ DOMAIN l = 1..Len(l) /\ Len(l) \in Nat /\ DOMAIN w = 1..(Len(l) + 1)
      /\ w[Len(l) + 1] = t /\ \A n \in 1..Len(l) : w[n] = l[n]
  BY AppendFacts
<1> HIDE DEF w
<1>2. \A n \in DOMAIN w : \/ n \in DOMAIN l /\ w[n] = l[n]
                          \/ n = Len(l) + 1 /\ w[n] = t
  BY <1>1
<1>3. \A n \in DOMAIN l : n \in DOMAIN w /\ w[n] = l[n] /\ n < Len(l) + 1
  BY <1>1
<1>4. Len(l) + 1 \in DOMAIN w
  BY <1>1
<1>5. Single(w)
  BY <1>2 DEF Single, Occurs
<1>6. \A u \in Turns : Occurs(w, u) <=> Occurs(l, u) \/ u = t
  BY <1>1, <1>2, <1>3, <1>4 DEF Occurs
<1>7. ASSUME NEW u \in Turns, NEW v \in Turns, Ahead(w, u, v)
      PROVE  Ahead(l, u, v) \/ (v = t /\ u # t)
  <2>1. PICK m, n \in DOMAIN w : m < n /\ w[m] = u /\ w[n] = v
    BY <1>7 DEF Ahead
  <2>2. m \in DOMAIN l /\ w[m] = l[m]
    BY <1>1, <2>1, SMTT(30)
  <2>3. CASE n \in DOMAIN l
    BY <1>3, <2>1, <2>2, <2>3 DEF Ahead
  <2>4. CASE n = Len(l) + 1
    BY <1>1, <2>1, <2>2, <2>4 DEF Occurs
  <2> QED BY <1>2, <2>3, <2>4
<1> QED BY <1>1, <1>5, <1>6, <1>7 DEF Longer, w

\* Whoever stands at a place goes, and no one else.
LEMMA LeavesLine ==
  ASSUME NEW l \in Seq(Nat), Single(l), NEW c \in DOMAIN l
  PROVE  Shorter(l, RemoveAt(l, c), l[c])
<1> DEFINE w == RemoveAt(l, c)
           at(m) == IF m < c THEN m ELSE m + 1
           from(n) == IF n < c THEN n ELSE n - 1
<1>1. c \in 1..Len(l) /\ Len(l) \in Nat /\ DOMAIN l = 1..Len(l)
  OBVIOUS
<1>2. /\ w \in Seq(Nat) /\ Len(w) = Len(l) - 1
      /\ \A m \in 1..(Len(l) - 1) : w[m] = IF m < c THEN l[m] ELSE l[m + 1]
  BY <1>1, RemoveAtFacts
<1> HIDE DEF w
<1>3. DOMAIN w = 1..(Len(l) - 1)
  BY <1>2
<1>4. \A m \in DOMAIN w : at(m) \in DOMAIN l /\ at(m) # c /\ w[m] = l[at(m)] /\ m \in Nat
  <2> SUFFICES ASSUME NEW m \in DOMAIN w
               PROVE  at(m) \in DOMAIN l /\ at(m) # c /\ w[m] = l[at(m)] /\ m \in Nat
    OBVIOUS
  <2>1. m \in 1..(Len(l) - 1) /\ w[m] = IF m < c THEN l[m] ELSE l[m + 1]
    BY <1>2, <1>3
  <2> QED BY <1>1, <2>1
<1>5. \A m, n \in DOMAIN w : /\ at(m) = at(n) => m = n
                             /\ m < n => at(m) < at(n)
  BY <1>1, <1>3
<1>6. \A n \in DOMAIN l : n # c => from(n) \in DOMAIN w /\ at(from(n)) = n
  BY <1>1, <1>3
<1> HIDE DEF at, from
<1>7. Single(w)
  BY <1>4, <1>5 DEF Single
<1>8. ASSUME NEW u \in Turns PROVE Occurs(w, u) <=> Occurs(l, u) /\ u # l[c]
  <2>1. Occurs(w, u) => Occurs(l, u) /\ u # l[c]
    BY <1>4 DEF Occurs, Single
  <2>2. Occurs(l, u) /\ u # l[c] => Occurs(w, u)
    BY <1>4, <1>6 DEF Occurs
  <2> QED BY <2>1, <2>2
<1>9. \A u, v \in Turns : Ahead(w, u, v) => Ahead(l, u, v)
  BY <1>4, <1>5 DEF Ahead
<1> QED BY <1>2, <1>7, <1>8, <1>9 DEF Shorter, w

\* The first of the line goes.
LEMMA TailLine ==
  ASSUME NEW l \in Seq(Nat), Single(l), l # <<>>
  PROVE  /\ Shorter(l, Tail(l), Head(l)) /\ Head(l) \in Nat
         /\ \A u \in Turns : Occurs(l, u) /\ u # Head(l) => Ahead(l, Head(l), u)
<1>1. /\ 1 \in DOMAIN l /\ Head(l) = l[1] /\ l[1] \in Nat
      /\ Len(l) \in Nat \ {0} /\ DOMAIN l = 1..Len(l)
  OBVIOUS
<1>2. Tail(l) \in Seq(Nat) /\ Len(Tail(l)) = Len(l) - 1
      /\ \A m \in 1..(Len(l) - 1) : Tail(l)[m] = l[m + 1]
  OBVIOUS
<1>3. RemoveAt(l, 1) = Tail(l)
  <2>1. /\ RemoveAt(l, 1) \in Seq(Nat) /\ Len(RemoveAt(l, 1)) = Len(l) - 1
        /\ \A m \in 1..(Len(l) - 1) : RemoveAt(l, 1)[m] = IF m < 1 THEN l[m] ELSE l[m + 1]
    <3>1. 1 \in 1..Len(l)
      BY <1>1
    <3> QED BY <3>1, RemoveAtFacts
  <2>2. ASSUME NEW m \in 1..(Len(l) - 1) PROVE RemoveAt(l, 1)[m] = Tail(l)[m]
    <3>1. ~(m < 1)
      BY <1>1
    <3> QED BY <1>2, <2>1, <3>1
  <2>3. \A a, b \in Seq(Nat) : /\ Len(a) = Len(b)
                               /\ \A m \in 1..Len(a) : a[m] = b[m]
                               => a = b
    OBVIOUS
  <2> QED BY <1>2, <2>1, <2>2, <2>3
<1>4. Shorter(l, RemoveAt(l, 1), l[1])
  BY <1>1, LeavesLine
<1>5. \A u \in Turns : Occurs(l, u) /\ u # Head(l) => Ahead(l, Head(l), u)
  BY <1>1 DEF Occurs, Ahead
<1> QED BY <1>1, <1>3, <1>4, <1>5

-----------------------------------------------------------------------------
(* The order in which prompts go from the queue, through the line, to the  *)
(* core.                                                                   *)

ItemAt(t) == session.used[tasks[t].key]
Late(k) == session.kind[k] = "both"
Turned == {n \in DOMAIN history.taken : history.taken[n].turn # 0}

\* The queue is in the order of its items, and behind every prompt it gave.
Rising ==
  /\ \A m, n \in DOMAIN session.items : m < n => session.items[m].id < session.items[n].id
  /\ \A t \in Turns, n \in DOMAIN session.items : Waits(t) => ItemAt(t) < session.items[n].id
  /\ \A a \in Turned, n \in DOMAIN session.items :
       ItemOf(history.taken[a]) < session.items[n].id

\* A prompt in the line is behind those taken and those in front of it.
InTurn ==
  /\ \A a \in Turned, t \in Turns : Waits(t) =>
       ItemOf(history.taken[a]) <= ItemAt(t) \/ Late(tasks[t].key)
  /\ \A t, u \in Turns : Waits(t) /\ Waits(u) /\ Ahead(line, t, u) =>
       ItemAt(t) <= ItemAt(u) \/ Late(tasks[u].key)

Ordered == Rising /\ InTurn /\ StartedInOrder

LEMMA HistoryKeys ==
  ASSUME Typed
  PROVE  \A a \in DOMAIN history.taken : history.taken[a].key \in Keys
<1>1. history.taken \in Seq(Entries)
  BY DEF Typed
<1>2. \A a \in DOMAIN history.taken : history.taken[a] \in Entries
  BY <1>1
<1> QED BY <1>2 DEF Entries

LEMMA WaitingKeys ==
  ASSUME Typed, Placed
  PROVE  \A t \in Turns : Waits(t) => /\ tasks[t].key \in Keys
                                     /\ ItemAt(t) # 0 /\ ItemAt(t) \in Nat
<1>1. \A t \in Turns : Waits(t) => tasks[t].key \in Keys
  BY DEF Typed, Tasks, Waits
<1> QED BY <1>1, UsedNumbers DEF ItemAt, Placed, Drained, HasLeft

\* Prompts that were numbered keep their numbers.
LEMMA SameNumbers ==
  ASSUME Typed, Placed, session'.kind = session.kind,
         \A k \in Keys : session.used[k] # 0 => session'.used[k] = session.used[k],
         \A t \in Turns : Waits(t)' => Waits(t) /\ tasks'[t].key = tasks[t].key,
         \A a \in Turned' : a \in Turned /\ history'.taken[a] = history.taken[a]
  PROVE  /\ \A t \in Turns : Waits(t)' =>
              /\ Waits(t) /\ ItemAt(t)' = ItemAt(t)
              /\ Late(tasks[t].key)' <=> Late(tasks[t].key)
         /\ \A a \in Turned' :
              /\ a \in Turned /\ ItemOf(history.taken[a])' = ItemOf(history.taken[a])
              /\ Late(history.taken[a].key)' <=> Late(history.taken[a].key)
<1>1. ASSUME NEW t \in Turns, Waits(t)'
      PROVE  /\ Waits(t) /\ ItemAt(t)' = ItemAt(t)
             /\ Late(tasks[t].key)' <=> Late(tasks[t].key)
  <2>1. Waits(t) /\ tasks'[t].key = tasks[t].key
    BY <1>1
  <2>2. tasks[t].key \in Keys /\ session.used[tasks[t].key] # 0
    BY <2>1, WaitingKeys DEF ItemAt
  <2> QED BY <2>1, <2>2 DEF ItemAt, Late
<1>2. ASSUME NEW a \in Turned'
      PROVE  /\ a \in Turned /\ ItemOf(history.taken[a])' = ItemOf(history.taken[a])
             /\ Late(history.taken[a].key)' <=> Late(history.taken[a].key)
  <2>1. a \in Turned /\ a \in DOMAIN history.taken /\ history'.taken[a] = history.taken[a]
    BY <1>2 DEF Turned
  <2>2. history.taken[a].key \in Keys /\ session.used[history.taken[a].key] # 0
    BY <2>1, HistoryKeys DEF Placed, Once
  <2> QED BY <2>1, <2>2 DEF ItemOf, Late
<1> QED BY <1>1, <1>2

\* What a step may do to the order without taking or joining.
LEMMA OrderedFrame ==
  ASSUME Typed, Placed, Ordered, session'.kind = session.kind,
         \A k \in Keys : session.used[k] # 0 => session'.used[k] = session.used[k],
         \A m, n \in DOMAIN session'.items : m < n => session'.items[m].id < session'.items[n].id,
         \A n \in DOMAIN session'.items :
           \/ session'.items[n].id = NextItem
           \/ \E m \in DOMAIN session.items : session'.items[n].id = session.items[m].id,
         \A a \in Turned' : a \in Turned /\ history'.taken[a] = history.taken[a],
         \A t \in Turns : Waits(t)' => Waits(t) /\ tasks'[t].key = tasks[t].key,
         \A t, u \in Turns : Waits(t)' /\ Waits(u)' /\ Ahead(line', t, u) =>
           Ahead(line, t, u) \/ Late(tasks[u].key)
  PROVE  Ordered'
<1>1. /\ \A t \in Turns : Waits(t)' =>
           /\ Waits(t) /\ ItemAt(t)' = ItemAt(t)
           /\ Late(tasks[t].key)' <=> Late(tasks[t].key)
      /\ \A a \in Turned' :
           /\ a \in Turned /\ ItemOf(history.taken[a])' = ItemOf(history.taken[a])
           /\ Late(history.taken[a].key)' <=> Late(history.taken[a].key)
  BY SameNumbers
<1>2. \A k \in Keys : session.used[k] < NextItem
  BY DEF Placed, Itemized
<1>3. /\ \A t \in Turns : Waits(t) => ItemAt(t) < NextItem
      /\ \A a \in Turned : ItemOf(history.taken[a]) < NextItem
  BY <1>2, WaitingKeys, HistoryKeys DEF ItemAt, ItemOf, Turned
<1>4. Rising'
  <2>1. ASSUME NEW t \in Turns, NEW n \in DOMAIN session'.items, Waits(t)'
        PROVE  ItemAt(t)' < session'.items[n].id
    BY <1>1, <1>3, <2>1 DEF Ordered, Rising
  <2>2. ASSUME NEW a \in Turned', NEW n \in DOMAIN session'.items
        PROVE  ItemOf(history.taken[a])' < session'.items[n].id
    BY <1>1, <1>3, <2>2 DEF Ordered, Rising
  <2> QED BY <2>1, <2>2 DEF Rising
<1>5. InTurn'
  BY <1>1 DEF Ordered, InTurn
<1>6. StartedInOrder'
  <2>1. \A a, b \in Turned : a < b => \/ ItemOf(history.taken[a]) <= ItemOf(history.taken[b])
                                      \/ Late(history.taken[b].key)
    BY DEF Ordered, StartedInOrder, Turned, Late
  <2>2. \A a, b \in Turned' : a < b =>
          \/ ItemOf(history.taken[a])' <= ItemOf(history.taken[b])'
          \/ Late(history.taken[b].key)'
    BY <1>1, <2>1
  <2> QED BY <2>2 DEF StartedInOrder, Turned, Late
<1> QED BY <1>4, <1>5, <1>6 DEF Ordered

\* The core takes the prompt of the first task in the line.
LEMMA TakenOrdered ==
  ASSUME Typed, Placed, Lined, Ordered, Kept(session, session'),
         NEW t \in Turns, Waits(t), ~Waits(t)', line # <<>>, Head(line) = t,
         line' = Tail(line),
         history'.taken = Append(history.taken, [key |-> tasks[t].key, turn |-> t]),
         \A u \in Turns : Waits(u)' => Waits(u) /\ tasks'[u].key = tasks[u].key
  PROVE  Ordered'
<1>0. PICK z : z = Len(history.taken) + 1
  OBVIOUS
<1>1. /\ session'.items = session.items /\ session'.used = session.used
      /\ session'.kind = session.kind
  BY DEF Kept
<1>2. /\ z \in Nat /\ DOMAIN history'.taken = DOMAIN history.taken \cup {z}
      /\ history'.taken[z] = [key |-> tasks[t].key, turn |-> t]
      /\ \A a \in DOMAIN history.taken : history'.taken[a] = history.taken[a] /\ a \in Nat /\ a < z
  <2>1. history.taken \in Seq(Entries) /\ tasks[t].key \in Keys /\ t \in Nat
    BY WaitingKeys, Counts DEF Typed
  <2>2. [key |-> tasks[t].key, turn |-> t] \in Entries
    BY <2>1 DEF Entries
  <2>3. \A s \in Seq(Entries), e \in Entries :
          /\ Len(s) + 1 \in Nat /\ DOMAIN Append(s, e) = DOMAIN s \cup {Len(s) + 1}
          /\ Append(s, e)[Len(s) + 1] = e
          /\ \A a \in DOMAIN s : Append(s, e)[a] = s[a] /\ a \in Nat /\ a < Len(s) + 1
    OBVIOUS
  <2> QED BY <1>0, <2>1, <2>2, <2>3
<1>3. t # 0
  BY Counts
<1>4. Turned' = Turned \cup {z}
  BY <1>2, <1>3 DEF Turned
<1>5. /\ \A a \in Turned : /\ ItemOf(history.taken[a])' = ItemOf(history.taken[a])
                           /\ Late(history.taken[a].key)' <=> Late(history.taken[a].key)
      /\ ItemOf(history.taken[z])' = ItemAt(t)
      /\ Late(history.taken[z].key)' <=> Late(tasks[t].key)
      /\ \A u \in Turns : Waits(u)' =>
           /\ Waits(u) /\ u # t /\ ItemAt(u)' = ItemAt(u)
           /\ Late(tasks[u].key)' <=> Late(tasks[u].key)
  <2>1. ASSUME NEW a \in Turned
        PROVE  /\ ItemOf(history.taken[a])' = ItemOf(history.taken[a])
               /\ Late(history.taken[a].key)' <=> Late(history.taken[a].key)
    <3>1. history'.taken[a] = history.taken[a]
      BY <1>2 DEF Turned
    <3> QED BY <1>1, <3>1 DEF ItemOf, Late
  <2>2. /\ ItemOf(history.taken[z])' = ItemAt(t)
        /\ Late(history.taken[z].key)' <=> Late(tasks[t].key)
    <3>1. history'.taken[z].key = tasks[t].key
      BY <1>2
    <3> QED BY <1>1, <3>1 DEF ItemOf, ItemAt, Late
  <2>3. ASSUME NEW u \in Turns, Waits(u)'
        PROVE  /\ Waits(u) /\ u # t /\ ItemAt(u)' = ItemAt(u)
               /\ Late(tasks[u].key)' <=> Late(tasks[u].key)
    BY <1>1, <2>3 DEF ItemAt, Late
  <2> QED BY <2>1, <2>2, <2>3
<1>6. /\ \A u \in Turns : Waits(u)' => Ahead(line, t, u)
      /\ \A u, v \in Turns : Ahead(line', u, v) => Ahead(line, u, v)
  <2>1. /\ Shorter(line, Tail(line), t)
        /\ \A u \in Turns : Occurs(line, u) /\ u # t => Ahead(line, t, u)
    BY TailLine DEF Lined
  <2>2. \A u \in Turns : Waits(u)' => Occurs(line, u) /\ u # t
    BY <1>5 DEF Lined, Waits, InLine
  <2> QED BY <2>1, <2>2 DEF Shorter
<1>7. Rising'
  <2>1. \A u \in Turns, n \in DOMAIN session'.items :
          Waits(u)' => ItemAt(u)' < session'.items[n].id
    BY <1>1, <1>5 DEF Ordered, Rising
  <2>2. ASSUME NEW a \in Turned', NEW n \in DOMAIN session'.items
        PROVE  ItemOf(history.taken[a])' < session'.items[n].id
    <3>1. CASE a \in Turned
      BY <1>1, <1>5, <3>1 DEF Ordered, Rising
    <3>2. CASE a = z
      BY <1>1, <1>5, <3>2 DEF Ordered, Rising
    <3> QED BY <1>4, <3>1, <3>2
  <2> QED BY <1>1, <2>1, <2>2 DEF Ordered, Rising
<1>8. InTurn'
  <2>1. ASSUME NEW a \in Turned', NEW u \in Turns, Waits(u)'
        PROVE  ItemOf(history.taken[a])' <= ItemAt(u)' \/ Late(tasks[u].key)'
    <3>1. CASE a \in Turned
      BY <1>5, <2>1, <3>1 DEF Ordered, InTurn
    <3>2. CASE a = z
      BY <1>5, <1>6, <2>1, <3>2 DEF Ordered, InTurn
    <3> QED BY <1>4, <3>1, <3>2
  <2>2. \A u, v \in Turns : Waits(u)' /\ Waits(v)' /\ Ahead(line', u, v) =>
          ItemAt(u)' <= ItemAt(v)' \/ Late(tasks[v].key)'
    BY <1>5, <1>6 DEF Ordered, InTurn
  <2> QED BY <2>1, <2>2 DEF InTurn
<1>9. StartedInOrder'
  <2>1. \A a, b \in Turned : a < b => \/ ItemOf(history.taken[a]) <= ItemOf(history.taken[b])
                                      \/ Late(history.taken[b].key)
    BY DEF Ordered, StartedInOrder, Turned, Late
  <2>2. \A a \in Turned : ItemOf(history.taken[a]) <= ItemAt(t) \/ Late(tasks[t].key)
    BY DEF Ordered, InTurn
  <2>3. ~(z < z) /\ \A a \in Turned : ~(z < a)
    BY <1>2 DEF Turned
  <2>4. ASSUME NEW a \in Turned', NEW b \in Turned', a < b
        PROVE  \/ ItemOf(history.taken[a])' <= ItemOf(history.taken[b])'
               \/ Late(history.taken[b].key)'
    <3>1. a \in Turned
      BY <1>4, <2>3, <2>4
    <3>2. CASE b \in Turned
      BY <1>5, <2>1, <2>4, <3>1, <3>2
    <3>3. CASE b = z
      BY <1>5, <2>2, <3>1, <3>3
    <3> QED BY <1>4, <3>2, <3>3
  <2> QED BY <2>4 DEF StartedInOrder, Turned, Late
<1> QED BY <1>7, <1>8, <1>9 DEF Ordered

\* The first item of the queue becomes the last task in the line.
LEMMA DrainedOrdered ==
  ASSUME Typed, Placed, Lined, Ordered, history'.taken = history.taken,
         session'.used = session.used, session'.kind = session.kind,
         NEW t \in Nat, t \in Turns => tasks[t].phase = "none", line' = Append(line, t),
         NEW k \in Keys, NEW h, session.used[k] = h,
         \A u \in Turns : u # t => tasks'[u] = tasks[u],
         t \in Turns => tasks'[t].key = k,
         \A a \in Turned : ItemOf(history.taken[a]) < h,
         \A u \in Turns : Waits(u) => ItemAt(u) < h,
         \A n \in DOMAIN session'.items :
           /\ h < session'.items[n].id
           /\ \E m \in DOMAIN session.items : session'.items[n] = session.items[m],
         \A m, n \in DOMAIN session'.items : m < n => session'.items[m].id < session'.items[n].id
  PROVE  Ordered'
<1>1. \A u \in Turns : Waits(u)' =>
        \/ u # t /\ Waits(u) /\ ItemAt(u)' = ItemAt(u)
           /\ (Late(tasks[u].key)' <=> Late(tasks[u].key))
        \/ u = t /\ ItemAt(u)' = h
  BY DEF Waits, ItemAt, Late
<1>2. Turned' = Turned /\ \A a \in Turned : ItemOf(history.taken[a])' = ItemOf(history.taken[a])
  BY DEF Turned, ItemOf
<1>3. \A u, v \in Turns : Ahead(line', u, v) => Ahead(line, u, v) \/ (v = t /\ u # t)
  <2>1. t \in Turns => ~Occurs(line, t)
    BY DEF Lined, InLine
  <2> QED BY <2>1, JoinsLine DEF Lined, Longer
<1>4. \A u, v \in Turns : Waits(u)' /\ Waits(v)' /\ Ahead(line', u, v) =>
        \/ v = t /\ u # t
        \/ v # t /\ u # t /\ Ahead(line, u, v)
  <2>1. \A u, v \in Turns : Ahead(line, u, v) => Occurs(line, u) /\ Occurs(line, v)
    BY DEF Ahead, Occurs
  <2>2. t \in Turns => ~Occurs(line, t)
    BY DEF Lined, InLine
  <2> QED BY <1>3, <2>1, <2>2
<1>5. h \in Nat /\ \A u \in Turns : Waits(u) => ItemAt(u) \in Nat
  BY UsedNumbers, WaitingKeys
<1>6. \A a \in Turned : ItemOf(history.taken[a]) \in Nat
  BY HistoryKeys, UsedNumbers DEF Turned, ItemOf
<1>7. Rising'
  <2>1. \A u \in Turns, n \in DOMAIN session'.items :
          Waits(u)' => ItemAt(u)' < session'.items[n].id
    BY <1>1 DEF Ordered, Rising
  <2>2. \A a \in Turned', n \in DOMAIN session'.items :
          ItemOf(history.taken[a])' < session'.items[n].id
    BY <1>2 DEF Ordered, Rising
  <2> QED BY <2>1, <2>2 DEF Rising
<1>8. InTurn'
  <2>1. \A a \in Turned', u \in Turns : Waits(u)' =>
          ItemOf(history.taken[a])' <= ItemAt(u)' \/ Late(tasks[u].key)'
    BY <1>1, <1>2, <1>5, <1>6 DEF Ordered, InTurn
  <2>2. \A u, v \in Turns : Waits(u)' /\ Waits(v)' /\ Ahead(line', u, v) =>
          ItemAt(u)' <= ItemAt(v)' \/ Late(tasks[v].key)'
    BY <1>1, <1>4, <1>5 DEF Ordered, InTurn
  <2> QED BY <2>1, <2>2 DEF InTurn
<1>9. StartedInOrder'
  BY DEF Ordered, StartedInOrder, ItemOf
<1> QED BY <1>7, <1>8, <1>9 DEF Ordered

-----------------------------------------------------------------------------
(* What the actions do to the order.                                       *)

Roomy == Len(session.items) <= MaxItems

InOrder == Lined /\ Roomy /\ Ordered

LEMMA LinedStill ==
  ASSUME Lined, line' = line, \A t \in Turns : InLine(t)' <=> InLine(t)
  PROVE  Lined'
BY DEF Lined

LEMMA LinedJoin ==
  ASSUME Lined, NEW t \in Nat, line' = Append(line, t),
         t \in Turns => ~InLine(t) /\ InLine(t)',
         \A u \in Turns : u # t => (InLine(u)' <=> InLine(u))
  PROVE  Lined'
<1>1. Longer(line, line', t)
  BY JoinsLine DEF Lined
<1> QED BY <1>1 DEF Lined, Longer

LEMMA LinedTail ==
  ASSUME Lined, NEW t \in Turns, line # <<>>, Head(line) = t, line' = Tail(line),
         ~InLine(t)', \A u \in Turns : u # t => (InLine(u)' <=> InLine(u))
  PROVE  Lined' /\ \A u, v \in Turns : Ahead(line', u, v) => Ahead(line, u, v)
<1>1. Shorter(line, line', t)
  BY TailLine DEF Lined
<1> QED BY <1>1 DEF Lined, Shorter

LEMMA LinedLeave ==
  ASSUME Lined, NEW t, Leaves(t), t \in Turns => ~InLine(t)',
         \A u \in Turns : u # t => (InLine(u)' <=> InLine(u))
  PROVE  Lined' /\ \A u, v \in Turns : Ahead(line', u, v) => Ahead(line, u, v)
<1>1. CASE Places(t) = {}
  <2>1. line' = line /\ ~Occurs(line, t)
    BY <1>1 DEF Leaves, Places, Occurs
  <2> QED BY <2>1 DEF Lined
<1>2. CASE Places(t) # {}
  <2>1. PICK c \in DOMAIN line : line[c] = t /\ line' = RemoveAt(line, c)
    BY <1>2 DEF Leaves, Places
  <2>2. Shorter(line, line', t)
    BY <2>1, LeavesLine DEF Lined
  <2> QED BY <2>2 DEF Lined, Shorter
<1> QED BY <1>1, <1>2

\* The first of the line takes the last place.
LEMMA LinedAgain ==
  ASSUME Lined, NEW t \in Turns, line # <<>>, Head(line) = t, line' = Append(Tail(line), t),
         InLine(t)', \A u \in Turns : u # t => (InLine(u)' <=> InLine(u))
  PROVE  /\ Lined'
         /\ \A u, v \in Turns : Ahead(line', u, v) => Ahead(line, u, v) \/ v = t
<1>1. PICK l : l = Tail(line)
  OBVIOUS
<1>2. Shorter(line, l, t)
  BY <1>1, TailLine DEF Lined
<1>3. Longer(l, Append(l, t), t)
  <2>1. l \in Seq(Nat) /\ Single(l) /\ t \in Nat /\ ~Occurs(l, t)
    BY <1>2, Counts DEF Shorter
  <2> QED BY <2>1, JoinsLine
<1>4. Longer(l, line', t)
  BY <1>1, <1>3
<1> QED BY <1>2, <1>4 DEF Lined, Shorter, Longer

\* A request comes or goes, and the turns keep their places.
Beside ==
  \/ line' = line
  \/ line' = Append(line, Request)
  \/ line # <<>> /\ Head(line) = Request /\ line' = Tail(line)

LEMMA LinedBeside ==
  ASSUME Lined, Beside, \A t \in Turns : InLine(t)' <=> InLine(t)
  PROVE  Lined' /\ \A u, v \in Turns : Ahead(line', u, v) => Ahead(line, u, v)
<1>1. Request \in Nat /\ Request \notin Turns
  BY Counts DEF Request, Turns
<1>2. line' = line \/ Longer(line, line', Request) \/ Shorter(line, line', Request)
  BY <1>1, JoinsLine, TailLine DEF Beside, Lined
<1> QED BY <1>1, <1>2 DEF Lined, Longer, Shorter

\* The queue stays as it is.
LEMMA SteadyInOrder ==
  ASSUME Typed, Placed, InOrder, Kept(session, session'), Lined',
         \A a \in Turned' : a \in Turned /\ history'.taken[a] = history.taken[a],
         \A t \in Turns : Waits(t)' => Waits(t) /\ tasks'[t].key = tasks[t].key,
         \A t, u \in Turns : Waits(t)' /\ Waits(u)' /\ Ahead(line', t, u) =>
           Ahead(line, t, u) \/ Late(tasks[u].key)
  PROVE  InOrder'
<1>1. /\ session'.items = session.items /\ session'.used = session.used
      /\ session'.kind = session.kind
  BY DEF Kept
<1>2. Roomy'
  BY <1>1 DEF InOrder, Roomy
<1>3. /\ Ordered
      /\ \A m, n \in DOMAIN session'.items : m < n => session'.items[m].id < session'.items[n].id
      /\ \A n \in DOMAIN session'.items :
           \E m \in DOMAIN session.items : session'.items[n].id = session.items[m].id
  BY <1>1 DEF InOrder, Ordered, Rising
<1> QED BY <1>1, <1>2, <1>3, OrderedFrame DEF InOrder

\* Nothing moves in the line, either.
LEMMA CalmInOrder ==
  ASSUME Typed, Placed, InOrder, Kept(session, session'), line' = line,
         \A a \in Turned' : a \in Turned /\ history'.taken[a] = history.taken[a],
         \A t \in Turns : (InLine(t)' <=> InLine(t)) /\ tasks'[t].key = tasks[t].key
  PROVE  InOrder'
<1>1. Lined'
  BY LinedStill DEF InOrder
<1>2. /\ \A t \in Turns : Waits(t)' => Waits(t) /\ tasks'[t].key = tasks[t].key
      /\ \A t, u \in Turns : Ahead(line', t, u) => Ahead(line, t, u)
  BY DEF Waits, InLine
<1> QED BY <1>1, <1>2, SteadyInOrder

\* One item leaves the queue.
LEMMA WithoutRising ==
  ASSUME NEW s \in Sessions, NEW i, NEW c \in DOMAIN s.items, s.items[c].id = i,
         \A m, n \in DOMAIN s.items : m < n => s.items[m].id < s.items[n].id
  PROVE  /\ \A m, n \in DOMAIN Without(s, i).items : m < n =>
              Without(s, i).items[m].id < Without(s, i).items[n].id
         /\ Len(Without(s, i).items) = Len(s.items) - 1
<1> DEFINE w == Without(s, i)
<1>1. w \in Sessions /\ OneLeft(s, i, w)
  BY WithoutKept
<1> HIDE DEF w
<1>2. PICK n \in 1..Len(s.items) :
        /\ s.items[n].id = i /\ Len(w.items) = Len(s.items) - 1
        /\ \A m \in 1..(Len(s.items) - 1) :
             w.items[m] = IF m < n THEN s.items[m] ELSE s.items[m + 1]
  BY <1>1 DEF OneLeft
<1>3. DOMAIN w.items = 1..(Len(s.items) - 1) /\ DOMAIN s.items = 1..Len(s.items)
      /\ Len(s.items) \in Nat
  BY <1>1, <1>2 DEF Sessions
<1> DEFINE at(m) == IF m < n THEN m ELSE m + 1
<1>4. \A m \in DOMAIN w.items : at(m) \in DOMAIN s.items /\ w.items[m] = s.items[at(m)]
  BY <1>2, <1>3, SMTT(30)
<1>5. \A m, l \in DOMAIN w.items : m < l => at(m) < at(l)
  BY <1>3
<1> HIDE DEF at
<1>6. \A m, l \in DOMAIN w.items : m < l => w.items[m].id < w.items[l].id
  BY <1>4, <1>5
<1> QED BY <1>2, <1>6 DEF w

LEMMA WithdrawnInOrder ==
  ASSUME Typed, Placed, InOrder, NEW i \in ItemIds, ~Gone(i),
         session' = Without(session, i), Beside, tasks' = tasks,
         \A a \in Turned' : a \in Turned /\ history'.taken[a] = history.taken[a]
  PROVE  InOrder'
<1>1. PICK c \in DOMAIN session.items : session.items[c].id = i
  BY DEF Gone, Positions
<1>2. /\ session \in Sessions
      /\ \A m, n \in DOMAIN session.items : session.items[m].id = session.items[n].id => m = n
      /\ \A m, n \in DOMAIN session.items : m < n => session.items[m].id < session.items[n].id
  BY DEF Typed, Placed, Itemized, InOrder, Ordered, Rising
<1> DEFINE w == Without(session, i)
<1>3. /\ w.used = session.used /\ w.kind = session.kind
      /\ \A m \in DOMAIN w.items : \E n \in DOMAIN session.items : w.items[m] = session.items[n]
      /\ \A m, n \in DOMAIN w.items : m < n => w.items[m].id < w.items[n].id
      /\ Len(w.items) = Len(session.items) - 1
  <2>1. w.used = session.used /\ w.kind = session.kind
    BY <1>1, <1>2, WithoutKept
  <2>2. ASSUME NEW m \in DOMAIN w.items
        PROVE  \E n \in DOMAIN session.items : w.items[m] = session.items[n]
    <3>1. OneLeft(session, i, w) /\ w \in Sessions
      BY <1>1, <1>2, WithoutKept
    <3> HIDE DEF w
    <3>2. PICK n \in 1..Len(session.items) :
            /\ Len(w.items) = Len(session.items) - 1
            /\ \A k \in 1..(Len(session.items) - 1) :
                 w.items[k] = IF k < n THEN session.items[k] ELSE session.items[k + 1]
      BY <3>1 DEF OneLeft
    <3>3. /\ DOMAIN w.items = 1..(Len(session.items) - 1)
          /\ DOMAIN session.items = 1..Len(session.items) /\ Len(session.items) \in Nat
      BY <1>2, <3>1, <3>2 DEF Sessions
    <3>4. m \in DOMAIN session.items /\ m + 1 \in DOMAIN session.items
      BY <2>2, <3>3
    <3> QED BY <2>2, <3>2, <3>3, <3>4
  <2>3. /\ \A m, n \in DOMAIN w.items : m < n => w.items[m].id < w.items[n].id
        /\ Len(w.items) = Len(session.items) - 1
    BY <1>1, <1>2, WithoutRising
  <2> QED BY <2>1, <2>2, <2>3
<1>4. session' = w
  OBVIOUS
<1> HIDE DEF w
<1>5. Roomy'
  BY <1>2, <1>3, <1>4, CapacityAssumption DEF Roomy, InOrder, Sessions
<1>6. Lined' /\ \A u, v \in Turns : Ahead(line', u, v) => Ahead(line, u, v)
  BY LinedBeside DEF InOrder, InLine
<1>7. Ordered'
  <2>1. Ordered
    BY DEF InOrder
  <2>2. \A m \in DOMAIN session'.items :
          \E n \in DOMAIN session.items : session'.items[m].id = session.items[n].id
    BY <1>3, <1>4
  <2>3. /\ session'.kind = session.kind
        /\ \A k \in Keys : session.used[k] # 0 => session'.used[k] = session.used[k]
        /\ \A m, n \in DOMAIN session'.items : m < n => session'.items[m].id < session'.items[n].id
    BY <1>3, <1>4
  <2>4. /\ \A t \in Turns : Waits(t)' => Waits(t) /\ tasks'[t].key = tasks[t].key
        /\ \A t, u \in Turns : Ahead(line', t, u) => Ahead(line, t, u)
    BY <1>6 DEF Waits
  <2> QED BY <2>1, <2>2, <2>3, <2>4, OrderedFrame
<1> QED BY <1>5, <1>6, <1>7 DEF InOrder

LEMMA PhaseOf ==
  ASSUME Typed, NEW t, NEW ph, tasks' = SetPhase(tasks, t, ph)
  PROVE  \A u \in Turns : /\ tasks'[u].key = tasks[u].key
                          /\ tasks'[u].phase = IF u = t THEN ph ELSE tasks[u].phase
BY DEF Typed, Tasks, SetPhase

LEMMA SameTaken ==
  ASSUME history'.taken = history.taken
  PROVE  \A a \in Turned' : a \in Turned /\ history'.taken[a] = history.taken[a]
BY DEF Turned

\* A task that has no command to submit moves, and still has none.
LEMMA MovedInOrder ==
  ASSUME Typed, Placed, InOrder, Kept(session, session'), line' = line,
         history'.taken = history.taken,
         NEW t, NEW ph \in Phases \ {"context", "due"}, tasks' = SetPhase(tasks, t, ph),
         t \in Turns => ~InLine(t)
  PROVE  InOrder'
<1>1. \A u \in Turns : (InLine(u)' <=> InLine(u)) /\ tasks'[u].key = tasks[u].key
  BY PhaseOf DEF InLine
<1> QED BY <1>1, SameTaken, CalmInOrder

LEMMA BesideInOrder ==
  ASSUME Typed, Placed, InOrder, Kept(session, session'), Beside, tasks' = tasks,
         \A a \in Turned' : a \in Turned /\ history'.taken[a] = history.taken[a]
  PROVE  InOrder'
<1>1. Lined' /\ \A u, v \in Turns : Ahead(line', u, v) => Ahead(line, u, v)
  BY LinedBeside DEF InOrder, InLine
<1>2. \A t \in Turns : Waits(t)' => Waits(t) /\ tasks'[t].key = tasks[t].key
  BY DEF Waits
<1> QED BY <1>1, <1>2, SteadyInOrder

LEMMA IdleInOrder ==
  ASSUME Typed, Placed, InOrder, Kept(session, session'), Beside,
         history'.taken = history.taken, tasks' = tasks
  PROVE  InOrder'
BY SameTaken, BesideInOrder

\* A task that was started directly joins the line.
LEMMA JoinedInOrder ==
  ASSUME Typed, Placed, InOrder, Kept(session, session'), history'.taken = history.taken,
         NEW t \in Nat, NEW ph \in {"context", "due"}, tasks' = SetPhase(tasks, t, ph),
         t \in Turns => ~InLine(t) /\ tasks[t].key = None, line' = Append(line, t)
  PROVE  InOrder'
<1>1. \A u \in Turns : /\ tasks'[u].key = tasks[u].key
                       /\ InLine(u)' <=> InLine(u) \/ u = t
                       /\ Waits(u)' => Waits(u) /\ u # t
  BY PhaseOf DEF InLine, Waits
<1>2. Lined'
  BY <1>1, LinedJoin DEF InOrder
<1>3. \A u, v \in Turns : Ahead(line', u, v) => Ahead(line, u, v) \/ v = t
  BY JoinsLine DEF InOrder, Lined, Longer
<1>4. \A u, v \in Turns : Waits(u)' /\ Waits(v)' /\ Ahead(line', u, v) => Ahead(line, u, v)
  BY <1>1, <1>3
<1> QED BY <1>1, <1>2, <1>4, SameTaken, SteadyInOrder

\* A task leaves the line, if it is there.
LEMMA LeftInOrder ==
  ASSUME Typed, Placed, InOrder, Kept(session, session'), history'.taken = history.taken,
         NEW t, NEW ph \in Phases \ {"context", "due"}, tasks' = SetPhase(tasks, t, ph),
         Leaves(t)
  PROVE  InOrder'
<1>1. \A u \in Turns : /\ tasks'[u].key = tasks[u].key
                       /\ InLine(u)' <=> InLine(u) /\ u # t
                       /\ Waits(u)' => Waits(u)
  BY PhaseOf DEF InLine, Waits
<1>2. Lined' /\ \A u, v \in Turns : Ahead(line', u, v) => Ahead(line, u, v)
  BY <1>1, LinedLeave DEF InOrder
<1> QED BY <1>1, <1>2, SameTaken, SteadyInOrder

LEMMA StartInOrder ==
  ASSUME Secure, Placed, InOrder, NEW kind \in {"start", "deferred"}, Start(kind)
  PROVE  InOrder'
<1> USE DEF Secure, Sound
<1>1. NewTurn \in Turns => ~InLine(NewTurn)
  BY NewTurnFresh DEF InLine
<1>2. "reserved" \in Phases \ {"context", "due"}
  BY DEF Phases
<1>3. /\ Kept(session, session') /\ line' = line /\ history'.taken = history.taken
      /\ tasks' = SetPhase(tasks, NewTurn, "reserved")
  BY DEF Start, Typed, Sessions, Kept
<1> QED BY <1>1, <1>2, <1>3, MovedInOrder

LEMMA ResponseInOrder ==
  ASSUME Secure, Placed, InOrder, NEW r \in replies, Respond(r) \/ Abandon(r)
  PROVE  InOrder'
<1> USE DEF Secure, Sound
<1>1. /\ history'.taken = history.taken /\ session \in Sessions /\ r.turn \in Nat
  BY DEF Respond, Abandon, Typed, Replies
<1>2. CASE r.kind \in {"start", "deferred"}
  <2>1. r.turn \in Turns => ~InLine(r.turn) /\ tasks[r.turn].key = None
    BY <1>2 DEF Awaiting, Starting, Untouched, InLine
  <2>2. Kept(session, session')
    <3> DEFINE s == [session EXCEPT !.reserved = 0]
    <3>1. s \in Sessions /\ Kept(session, s) /\ Kept(session, session)
      BY <1>1 DEF Sessions, Kept
    <3>2. session' \in {session, Scheduled(session, r.turn), Draining(s, core, tasks)}
      BY <1>2 DEF Respond, Abandon, Started, Deferred
    <3> HIDE DEF s
    <3>3. Kept(session, Draining(s, core, tasks))
      BY <3>1, DrainingKept DEF Kept
    <3>4. Kept(session, Scheduled(session, r.turn))
      BY <1>1, ScheduledKept
    <3> QED BY <3>1, <3>2, <3>3, <3>4
  <2>3. CASE tasks' = tasks /\ line' = line
    BY <1>1, <2>2, <2>3, IdleInOrder DEF Beside
  <2>4. CASE line' = line /\ \E ph \in {"preparing", "reaped"} : tasks' = SetPhase(tasks, r.turn, ph)
    <3>1. PICK ph \in {"preparing", "reaped"} : tasks' = SetPhase(tasks, r.turn, ph)
      BY <2>4
    <3>2. ph \in Phases \ {"context", "due"}
      BY DEF Phases
    <3> QED BY <1>1, <2>1, <2>2, <2>4, <3>1, <3>2, MovedInOrder
  <2>5. CASE line' = Append(line, r.turn)
             /\ tasks' = SetPhase(tasks, r.turn, FirstPhase(tasks[r.turn].key))
    <3>1. FirstPhase(tasks[r.turn].key) \in {"context", "due"}
      BY DEF FirstPhase
    <3> QED BY <1>1, <2>1, <2>2, <2>5, <3>1, JoinedInOrder
  <2> QED BY <1>2, <2>3, <2>4, <2>5 DEF Respond, Abandon, Started, Deferred, Joins
<1>3. CASE r.kind \notin {"start", "deferred"}
  <2>1. tasks' = tasks /\ line' = line
    BY <1>3 DEF Respond, Abandon, Interrupted
  <2>2. Kept(session, session')
    <3>1. \/ Interrupted(r.turn) \/ session' = session
          \/ session' = Draining(session, core, tasks)
      BY <1>3 DEF Respond, Abandon
    <3> QED BY <1>1, <3>1, InterruptedKept, DrainingKept DEF Kept
  <2> QED BY <1>1, <2>1, <2>2, IdleInOrder DEF Beside
<1> QED BY <1>2, <1>3

LEMMA PrepareInOrder ==
  ASSUME Secure, Placed, InOrder, NEW t \in Turns, Prepare(t)
  PROVE  InOrder'
<1> USE DEF Secure, Sound
<1>1. /\ tasks[t].key = None /\ ~InLine(t) /\ history' = history
      /\ session \in Sessions /\ t \in Nat
  BY Counts DEF Prepare, Keyed, Typed, InLine
<1>2. Kept(session, session')
  <2> DEFINE s == [session EXCEPT !.reserved = 0]
  <2>1. s \in Sessions /\ Kept(session, s)
    BY <1>1 DEF Sessions, Kept
  <2>2. \/ session' = [Scheduled(session, t) EXCEPT !.promoted = TRUE]
        \/ session' = Announced(s, core, tasks, t, "failed")
    BY DEF Prepare
  <2> HIDE DEF s
  <2>3. Kept(session, Announced(s, core, tasks, t, "failed"))
    BY <1>1, <2>1, AnnouncedKept DEF Kept
  <2>4. CASE session' = [Scheduled(session, t) EXCEPT !.promoted = TRUE]
    BY <1>1, <2>4, ScheduledKept DEF Sessions, Kept
  <2> QED BY <2>2, <2>3, <2>4
<1>3. CASE tasks' = SetPhase(tasks, t, "due") /\ line' = Append(line, t)
  BY <1>1, <1>2, <1>3, JoinedInOrder
<1>4. CASE tasks' = SetPhase(tasks, t, "reaped") /\ line' = line
  <2>1. "reaped" \in Phases \ {"context", "due"}
    BY DEF Phases
  <2> QED BY <1>1, <1>2, <1>4, <2>1, MovedInOrder
<1> QED BY <1>3, <1>4 DEF Prepare, Joins

LEMMA TaskInOrder ==
  ASSUME Secure, Placed, InOrder, NEW t \in Turns, Finish(t) \/ Reap(t) \/ InterruptReserved(t)
  PROVE  InOrder'
<1> USE DEF Secure, Sound
<1>1. /\ history'.taken = history.taken /\ line' = line /\ ~InLine(t)
      /\ session \in Sessions /\ t \in Nat
  BY Counts DEF Finish, Reap, InterruptReserved, Typed, InLine
<1>2. PICK ph \in {"over", "reaped"} : tasks' = SetPhase(tasks, t, ph)
  BY DEF Finish, Reap, InterruptReserved
<1>3. ph \in Phases \ {"context", "due"}
  BY DEF Phases
<1>4. Kept(session, session')
  <2>1. CASE session' = session
    BY <2>1 DEF Kept
  <2>2. CASE Reap(t)
    BY <1>1, <2>2, ReapedKept DEF Reap
  <2>3. CASE session' = [session EXCEPT !.reserved = 0]
    BY <1>1, <2>3 DEF Sessions, Kept
  <2> QED BY <2>1, <2>2, <2>3 DEF Finish, InterruptReserved
<1> QED BY <1>1, <1>2, <1>3, <1>4, MovedInOrder

LEMMA FailInOrder ==
  ASSUME Secure, Placed, InOrder, NEW t \in Turns, Fail(t)
  PROVE  InOrder'
<1>1. /\ Kept(session, session') /\ history'.taken = history.taken /\ Leaves(t)
      /\ tasks' = SetPhase(tasks, t, "failed") /\ "failed" \in Phases \ {"context", "due"}
  BY DEF Fail, Kept, Phases
<1> QED BY <1>1, LeftInOrder DEF Secure, Sound

LEMMA InterruptRunningInOrder ==
  ASSUME Secure, Placed, InOrder, InterruptRunning
  PROVE  InOrder'
<1> USE DEF Secure, Sound
<1>1. history'.taken = history.taken /\ Kept(session, session')
  BY DEF InterruptRunning, Typed, Sessions, Kept
<1>2. \/ tasks' = tasks /\ line' = line
      \/ tasks' = SetPhase(tasks, session.active, "cancelled") /\ Leaves(session.active)
  BY DEF InterruptRunning
<1>3. "cancelled" \in Phases \ {"context", "due"}
  BY DEF Phases
<1> QED BY <1>1, <1>2, <1>3, LeftInOrder, IdleInOrder DEF Beside

LEMMA QuietInOrder ==
  ASSUME Secure, Placed, InOrder,
         \/ Resume \/ AwaitRuntime \/ InterruptCore \/ Hear \/ News \/ UNCHANGED vars
         \/ \E i \in ItemIds : Steer(i)
         \/ \E outcome \in {"completed", "failed"} : End(outcome)
  PROVE  InOrder'
<1> USE DEF Secure, Sound
<1>1. tasks' = tasks /\ Beside /\ history'.taken = history.taken
  <2>1. tasks' = tasks /\ history'.taken = history.taken
    BY DEF Resume, Steer, AwaitRuntime, InterruptCore, End, Hear, News, vars, Typed
  <2>2. Beside
    BY DEF Resume, Steer, AwaitRuntime, InterruptCore, End, Hear, News, vars, Beside, Joins,
           MayEnter
  <2> QED BY <2>1, <2>2
<1>2. Kept(session, session')
  <2>1. CASE session' = Heard(session, core, tasks)
    BY <2>1, HeardKept DEF Typed
  <2>2. CASE session' = session \/ session' = [session EXCEPT !.paused = FALSE]
    BY <2>2 DEF Typed, Sessions, Kept
  <2> QED BY <2>1, <2>2 DEF Resume, Steer, AwaitRuntime, InterruptCore, End, Hear, News, vars
<1> QED BY <1>1, <1>2, IdleInOrder

LEMMA EnqueueInOrder ==
  ASSUME Typed, Placed, InOrder, NEW k \in Keys, Enqueue(k)
  PROVE  InOrder'
<1>1. PICK i \in ItemIds : i = NextItem
  BY DEF Enqueue
<1>2. PICK e : e = [id |-> i, key |-> k]
  OBVIOUS
<1>3. /\ session \in Sessions /\ session.used[k] = 0 /\ session'.kind = session.kind
      /\ session'.items = Append(session.items, e)
      /\ session'.used = [session.used EXCEPT ![k] = i]
      /\ Len(session.items) < MaxItems /\ UNCHANGED <<tasks, line, history>>
  BY <1>1, <1>2 DEF Enqueue, Fresh, Typed, Sessions
<1>4. session.items \in Seq(Item) /\ e \in Item /\ session.used \in [Keys -> {0} \cup ItemIds]
  BY <1>1, <1>2, <1>3 DEF Sessions, Item
<1>5. PICK z \in Nat : z = Len(session.items)
  BY <1>4
<1>6. /\ DOMAIN session.items = 1..z /\ DOMAIN session'.items = 1..(z + 1)
      /\ Len(session'.items) = z + 1 /\ session'.items[z + 1] = e
      /\ \A n \in 1..z : session'.items[n] = session.items[n]
  BY <1>3, <1>4, <1>5, AppendFacts
<1>7. \A n \in 1..z : session.items[n].id < NextItem
  <2>1. \A n \in 1..z : session.items[n] \in Item
    BY <1>4, <1>6
  <2> QED BY <1>6, <2>1 DEF Item, Placed, Itemized
<1>8. Ordered
  BY DEF InOrder
<1>9. \A m, n \in DOMAIN session'.items : m < n => session'.items[m].id < session'.items[n].id
  <2>1. ASSUME NEW m \in 1..(z + 1), NEW n \in 1..(z + 1), m < n
        PROVE  session'.items[m].id < session'.items[n].id
    <3>1. m \in 1..z /\ session'.items[m] = session.items[m]
      BY <1>6, <2>1
    <3>2. CASE n \in 1..z
      BY <1>6, <1>8, <2>1, <3>1, <3>2 DEF Ordered, Rising
    <3>3. CASE n = z + 1
      BY <1>1, <1>2, <1>6, <1>7, <3>1, <3>3
    <3> QED BY <3>2, <3>3
  <2> QED BY <1>6, <2>1
<1>10. \A n \in DOMAIN session'.items :
         \/ session'.items[n].id = NextItem
         \/ \E m \in DOMAIN session.items : session'.items[n].id = session.items[m].id
  <2>1. \A n \in 1..(z + 1) : n \in 1..z \/ n = z + 1
    OBVIOUS
  <2> QED BY <1>1, <1>2, <1>6, <2>1
<1>11. \A h \in Keys : session.used[h] # 0 => session'.used[h] = session.used[h]
  BY <1>3, <1>4
<1>12. /\ \A t \in Turns : Waits(t)' => Waits(t) /\ tasks'[t].key = tasks[t].key
       /\ \A a \in Turned' : a \in Turned /\ history'.taken[a] = history.taken[a]
       /\ \A t, u \in Turns : Ahead(line', t, u) => Ahead(line, t, u)
  BY <1>3, SameTaken DEF Waits
<1>13. Ordered'
  BY <1>3, <1>8, <1>9, <1>10, <1>11, <1>12, OrderedFrame
<1>14. Lined' /\ Roomy'
  <2>1. Lined'
    BY <1>3, LinedStill DEF InOrder, InLine
  <2>2. z + 1 <= MaxItems
    BY <1>3, <1>5, CapacityAssumption
  <2> QED BY <1>6, <2>1, <2>2 DEF Roomy
<1> QED BY <1>13, <1>14 DEF InOrder

LEMMA ReplaceInOrder ==
  ASSUME Typed, Placed, InOrder, NEW k \in Keys, NEW i \in ItemIds, Replace(i, k)
  PROVE  InOrder'
<1>1. /\ session.used[k] = 0 /\ session'.kind = session.kind
      /\ session'.items = Replaced(session, i, k)
      /\ session'.used = [session.used EXCEPT ![k] = i]
      /\ UNCHANGED <<tasks, line, history>>
  BY DEF Replace, Fresh, Typed, Sessions
<1>2. session.items \in Seq(Item) /\ session.used \in [Keys -> {0} \cup ItemIds]
  BY DEF Typed, Sessions
<1>3. /\ DOMAIN session'.items = DOMAIN session.items
      /\ \A n \in DOMAIN session.items : session'.items[n].id = session.items[n].id
  BY <1>1 DEF Replaced
<1>4. Ordered
  BY DEF InOrder
<1>5. /\ \A m, n \in DOMAIN session'.items : m < n => session'.items[m].id < session'.items[n].id
      /\ \A n \in DOMAIN session'.items :
           \E m \in DOMAIN session.items : session'.items[n].id = session.items[m].id
  BY <1>3, <1>4 DEF Ordered, Rising
<1>6. \A h \in Keys : session.used[h] # 0 => session'.used[h] = session.used[h]
  BY <1>1, <1>2
<1>7. /\ \A t \in Turns : Waits(t)' => Waits(t) /\ tasks'[t].key = tasks[t].key
      /\ \A a \in Turned' : a \in Turned /\ history'.taken[a] = history.taken[a]
      /\ \A t, u \in Turns : Ahead(line', t, u) => Ahead(line, t, u)
  BY <1>1, SameTaken DEF Waits
<1>8. Ordered'
  BY <1>1, <1>4, <1>5, <1>6, <1>7, OrderedFrame
<1>9. Lined'
  BY <1>1, LinedStill DEF InOrder, InLine
<1>10. Roomy'
  <2>1. session'.items \in Seq(Item)
    BY <1>1, <1>2 DEF Replace, Replaced, Typed, Sessions, Item
  <2>2. Len(session'.items) = Len(session.items)
    BY <1>2, <1>3, <2>1
  <2> QED BY <2>2 DEF InOrder, Roomy
<1> QED BY <1>8, <1>9, <1>10 DEF InOrder

LEMMA WithdrawInOrder ==
  ASSUME Typed, Placed, InOrder, NEW i \in ItemIds, Withdraw(i)
  PROVE  InOrder'
<1>1. /\ ~Gone(i) /\ session' = Without(session, i) /\ line' = line /\ tasks' = tasks
      /\ history'.taken = history.taken
  BY DEF Withdraw, Gone
<1> QED BY <1>1, SameTaken, WithdrawnInOrder DEF Beside

\* A steered prompt is no turn's.
LEMMA SubmitInOrder ==
  ASSUME Secure, Placed, InOrder, Submit
  PROVE  InOrder'
<1> USE DEF Secure, Sound
<1>1. PICK i \in ItemIds : i = lock.item /\ ~Gone(i)
  BY DEF Submit, Steering
<1>2. Beside /\ tasks' = tasks
  BY DEF Submit, Beside, MayEnter
<1>3. \A a \in Turned' : a \in Turned /\ history'.taken[a] = history.taken[a]
  <2>1. CASE history' = history
    BY <2>1, SameTaken
  <2>2. CASE history' = Take(KeyOf(i), 0)
    <3>1. KeyOf(i) \in Keys
      BY <1>1, KeyOfItem
    <3>2. history'.taken = Append(history.taken, [key |-> KeyOf(i), turn |-> 0])
      BY <2>2, <3>1, TakeTyped
    <3>3. PICK e : e = [key |-> KeyOf(i), turn |-> 0]
      OBVIOUS
    <3>4. history.taken \in Seq(Entries) /\ e \in Entries /\ e.turn = 0
      BY <3>1, <3>3 DEF Typed, Entries
    <3>5. \A s \in Seq(Entries) : \A a \in DOMAIN Append(s, e) :
            \/ a \in DOMAIN s /\ Append(s, e)[a] = s[a]
            \/ Append(s, e)[a] = e
      BY <3>4
    <3> QED BY <3>2, <3>3, <3>4, <3>5 DEF Turned
  <2> QED BY <1>1, <2>1, <2>2 DEF Submit
<1>4. CASE session' = Without(session, i)
  BY <1>1, <1>2, <1>3, <1>4, WithdrawnInOrder
<1>5. CASE session' = session
  <2>1. Kept(session, session')
    BY <1>5 DEF Kept
  <2> QED BY <1>2, <1>3, <2>1, BesideInOrder
<1> QED BY <1>1, <1>4, <1>5 DEF Submit, Retire

LEMMA ContributeInOrder ==
  ASSUME Secure, Placed, InOrder, NEW t \in Turns, Contribute(t)
  PROVE  InOrder'
<1> USE DEF Secure, Sound
<1>1. /\ tasks[t].phase = "context" /\ line # <<>> /\ Head(line) = t
      /\ Lined /\ Ordered /\ InLine(t)
  BY DEF Contribute, MayEnter, InOrder, InLine
<1>2. Waits(t) /\ tasks[t].key \in Keys /\ t \in Nat
  BY <1>1, HeadOfTask, Counts DEF Keyed, Waits
<1>3. Kept(session, session')
  <2>1. session' = session \/ session' = Heard(session, core, tasks')
    BY DEF Contribute
  <2>2. Kept(session, Heard(session, core, tasks'))
    BY HeardKept DEF Typed
  <2> QED BY <2>1, <2>2 DEF Kept
<1>4. ASSUME NEW ph \in {"over", "failed"}, tasks' = SetPhase(tasks, t, ph), line' = Tail(line)
      PROVE  /\ Lined' /\ \A u, v \in Turns : Ahead(line', u, v) => Ahead(line, u, v)
             /\ \A u \in Turns : Waits(u)' => /\ Waits(u) /\ u # t
                                              /\ tasks'[u].key = tasks[u].key
  <2>1. \A u \in Turns : /\ tasks'[u].key = tasks[u].key
                         /\ InLine(u)' <=> InLine(u) /\ u # t
                         /\ Waits(u)' => Waits(u) /\ u # t
    BY <1>4, PhaseOf DEF InLine, Waits
  <2> QED BY <1>1, <1>4, <2>1, LinedTail
<1>5. CASE line' = Tail(line) /\ tasks' = SetPhase(tasks, t, "failed") /\ history' = history
  BY <1>3, <1>4, <1>5, SameTaken, SteadyInOrder
<1>6. CASE /\ line' = Tail(line) /\ tasks' = SetPhase(tasks, t, "over")
           /\ history' = Take(tasks[t].key, t)
  <2>1. history'.taken = Append(history.taken, [key |-> tasks[t].key, turn |-> t])
    BY <1>2, <1>6, TakeTyped
  <2>2. Ordered'
    BY <1>1, <1>2, <1>3, <1>4, <1>6, <2>1, TakenOrdered
  <2>3. Roomy'
    BY <1>3 DEF InOrder, Roomy, Kept
  <2> QED BY <1>4, <1>6, <2>2, <2>3 DEF InOrder
<1>7. CASE /\ session.kind[tasks[t].key] = "both" /\ line' = Append(Tail(line), t)
           /\ tasks' = SetPhase(tasks, t, "due") /\ history' = history
  <2>1. \A u \in Turns : /\ tasks'[u].key = tasks[u].key
                         /\ InLine(u)' <=> InLine(u)
                         /\ Waits(u)' => Waits(u)
    BY <1>1, <1>2, <1>7, PhaseOf DEF InLine, Waits
  <2>2. Lined' /\ \A u, v \in Turns : Ahead(line', u, v) => Ahead(line, u, v) \/ v = t
    BY <1>1, <1>7, <2>1, LinedAgain
  <2>3. Late(tasks[t].key)
    BY <1>7 DEF Late
  <2> QED BY <1>3, <1>7, <2>1, <2>2, <2>3, SameTaken, SteadyInOrder
<1> QED BY <1>5, <1>6, <1>7 DEF Contribute

LEMMA AcceptInOrder ==
  ASSUME Secure, Placed, InOrder, NEW t \in Turns, Accept(t)
  PROVE  InOrder'
<1> USE DEF Secure, Sound
<1>1. /\ tasks[t].phase = "due" /\ line # <<>> /\ Head(line) = t /\ line' = Tail(line)
      /\ Lined /\ Ordered /\ Kept(session, session') /\ t \in Nat
  BY Counts DEF Accept, MayEnter, InOrder, Kept
<1>2. PICK ph \in {"driving", "over", "failed"} : tasks' = SetPhase(tasks, t, ph)
  BY DEF Accept
<1>3. \A u \in Turns : /\ tasks'[u].key = tasks[u].key
                       /\ InLine(u)' <=> InLine(u) /\ u # t
                       /\ Waits(u)' => Waits(u) /\ u # t
  BY <1>2, PhaseOf DEF InLine, Waits
<1>4. Lined' /\ \A u, v \in Turns : Ahead(line', u, v) => Ahead(line, u, v)
  BY <1>1, <1>3, LinedTail
<1>5. CASE history' = history
  BY <1>1, <1>3, <1>4, <1>5, SameTaken, SteadyInOrder
<1>6. CASE tasks[t].key # None /\ history' = Take(tasks[t].key, t)
  <2>1. Waits(t) /\ tasks[t].key \in Keys
    BY <1>1, <1>6 DEF Waits, Typed, Tasks
  <2>2. history'.taken = Append(history.taken, [key |-> tasks[t].key, turn |-> t])
    BY <1>1, <1>6, <2>1, TakeTyped
  <2>3. Ordered'
    BY <1>1, <1>3, <2>1, <2>2, TakenOrdered
  <2>4. Roomy'
    BY <1>1 DEF InOrder, Roomy, Kept
  <2> QED BY <1>4, <2>3, <2>4 DEF InOrder
<1> QED BY <1>5, <1>6 DEF Accept

LEMMA DrainInOrder ==
  ASSUME Secure, Placed, InOrder, Drain
  PROVE  InOrder'
<1> USE DEF Secure, Sound
<1>1. session \in Sessions /\ history'.taken = history.taken /\ Ordered /\ Lined
  BY DEF Drain, Typed, InOrder
<1>2. CASE session' = [session EXCEPT !.drain = FALSE] /\ tasks' = tasks /\ line' = line
  <2>1. Kept(session, session')
    BY <1>1, <1>2 DEF Sessions, Kept
  <2> QED BY <1>1, <1>2, <2>1, IdleInOrder DEF Beside
<1>3. CASE /\ session.items # <<>>
           /\ session' = Scheduled(Without([session EXCEPT !.drain = FALSE, !.promoted = TRUE],
                                           PeekNext(session).id), NewTurn)
           /\ tasks' = [tasks EXCEPT ![NewTurn] =
                          [phase |-> FirstPhase(PeekNext(session).key),
                           key |-> PeekNext(session).key]]
           /\ line' = Append(line, NewTurn)
  <2> DEFINE s == [session EXCEPT !.drain = FALSE, !.promoted = TRUE]
  <2>1. PICK item : item = PeekNext(session)
    OBVIOUS
  <2>2. PICK t : t = NewTurn
    OBVIOUS
  <2>3. PICK ph : ph = FirstPhase(item.key)
    OBVIOUS
  <2>4. t \in Nat /\ (t \in Turns => tasks[t].phase = "none" /\ ~InLine(t))
    BY <2>2, NewTurnFresh DEF InLine
  <2>5. /\ 1 \in DOMAIN session.items /\ item = session.items[1] /\ item \in Item
        /\ DOMAIN session.items \subseteq Nat \ {0}
    BY <1>1, <1>3, <2>1 DEF Sessions, PeekNext
  <2>6. item.id \in ItemIds /\ item.key \in Keys /\ session.used[item.key] = item.id
    BY <2>5 DEF Item, Placed, Itemized
  <2>7. ph \in {"context", "due"}
    BY <2>3 DEF FirstPhase
  <2>8. /\ s \in Sessions /\ s.items = session.items /\ s.used = session.used
        /\ s.kind = session.kind
    BY <1>1 DEF Sessions
  <2>9. session' = Scheduled(Without(s, item.id), t) /\ line' = Append(line, t)
        /\ tasks' = [tasks EXCEPT ![t] = [phase |-> ph, key |-> item.key]]
    BY <1>3, <2>1, <2>2, <2>3
  <2> HIDE DEF s
  <2>10. PICK w : w = Without(s, item.id)
    OBVIOUS
  <2>11. 1 \in DOMAIN s.items /\ s.items[1].id = item.id
    BY <2>5, <2>8
  <2>12. w \in Sessions /\ w.used = s.used /\ w.kind = s.kind
    BY <2>8, <2>10, <2>11, WithoutKept
  <2>13. \A m \in DOMAIN w.items : /\ w.items[m].id # item.id
                                   /\ \E n \in DOMAIN s.items : w.items[m] = s.items[n]
    <3>1. \A m, n \in DOMAIN s.items : s.items[m].id = s.items[n].id => m = n
      BY <2>8 DEF Placed, Itemized
    <3>2. \A m \in DOMAIN Without(s, item.id).items :
            /\ Without(s, item.id).items[m].id # item.id
            /\ \E n \in DOMAIN s.items : Without(s, item.id).items[m] = s.items[n]
      BY <2>8, <2>11, <3>1, WithoutItems
    <3> QED BY <2>10, <3>2
  <2>14. /\ \A m, n \in DOMAIN w.items : m < n => w.items[m].id < w.items[n].id
         /\ Len(w.items) = Len(s.items) - 1
    <3>1. \A m, n \in DOMAIN s.items : m < n => s.items[m].id < s.items[n].id
      BY <1>1, <2>8 DEF Ordered, Rising
    <3> QED BY <2>8, <2>10, <2>11, <3>1, WithoutRising
  <2>15. Kept(w, session')
    BY <2>4, <2>9, <2>10, <2>12, ScheduledKept
  <2>16. \A n \in DOMAIN session'.items :
           /\ item.id < session'.items[n].id
           /\ \E m \in DOMAIN session.items : session'.items[n] = session.items[m]
    <3>1. ASSUME NEW n \in DOMAIN w.items
          PROVE  /\ item.id < w.items[n].id
                 /\ \E m \in DOMAIN session.items : w.items[n] = session.items[m]
      <4>1. PICK m \in DOMAIN session.items : w.items[n] = session.items[m]
        BY <2>8, <2>13
      <4>2. 1 < m
        BY <2>5, <2>13, <4>1
      <4> QED BY <1>1, <2>5, <4>1, <4>2 DEF Ordered, Rising
    <3> QED BY <2>15, <3>1 DEF Kept
  <2>17. /\ session'.used = session.used /\ session'.kind = session.kind
         /\ \A m, n \in DOMAIN session'.items : m < n => session'.items[m].id < session'.items[n].id
    BY <2>8, <2>12, <2>14, <2>15 DEF Kept
  <2>18. \A u \in Turns : tasks'[u] = IF u = t THEN [phase |-> ph, key |-> item.key] ELSE tasks[u]
    BY <2>9 DEF Typed, Tasks
  <2>19. /\ \A u \in Turns : u # t => tasks'[u] = tasks[u] /\ (InLine(u)' <=> InLine(u))
         /\ t \in Turns => tasks'[t].key = item.key /\ InLine(t)'
    BY <2>7, <2>18 DEF InLine
  <2>20. /\ \A a \in Turned : ItemOf(history.taken[a]) < item.id
         /\ \A u \in Turns : Waits(u) => ItemAt(u) < item.id
    BY <1>1, <2>5 DEF Ordered, Rising
  <2>21. Lined'
    BY <1>1, <2>4, <2>9, <2>19, LinedJoin
  <2>22. Roomy'
    <3>1. Len(session'.items) = Len(session.items) - 1 /\ Len(session.items) \in Nat
      BY <1>1, <2>8, <2>14, <2>15 DEF Kept, Sessions
    <3> QED BY <3>1, CapacityAssumption DEF InOrder, Roomy
  <2>23. Ordered'
    BY <1>1, <2>4, <2>6, <2>9, <2>16, <2>17, <2>19, <2>20, DrainedOrdered
  <2> QED BY <2>21, <2>22, <2>23 DEF InOrder
<1>4. /\ \/ session' = [session EXCEPT !.drain = FALSE] /\ tasks' = tasks /\ line' = line
         \/ /\ session.items # <<>>
            /\ session' = Scheduled(Without([session EXCEPT !.drain = FALSE, !.promoted = TRUE],
                                            PeekNext(session).id), NewTurn)
            /\ tasks' = [tasks EXCEPT ![NewTurn] =
                           [phase |-> FirstPhase(PeekNext(session).key),
                            key |-> PeekNext(session).key]]
            /\ line' = Append(line, NewTurn)
  <2> HIDE DEF Secure, Sound
  <2> QED BY Zenon DEF Drain, Joins
<1> QED BY <1>2, <1>3, <1>4

LEMMA InitInOrder == Init => InOrder
<1> SUFFICES ASSUME Init PROVE InOrder
  OBVIOUS
<1>1. line = <<>> /\ session.items = <<>> /\ history.taken = <<>>
      /\ \A t \in Turns : tasks[t].phase = "none"
  BY DEF Init
<1>2. Lined
  BY <1>1 DEF Lined, Single, Occurs, InLine
<1>3. Roomy
  BY <1>1, CapacityAssumption DEF Roomy
<1>4. Ordered
  BY <1>1 DEF Ordered, Rising, InTurn, StartedInOrder, Turned, Waits
<1> QED BY <1>2, <1>3, <1>4 DEF InOrder

LEMMA RequestsInOrder ==
  ASSUME Secure, Placed, InOrder, Requests
  PROVE  InOrder'
<1>1. Typed
  BY DEF Secure, Sound
<1> QED BY <1>1, StartInOrder, EnqueueInOrder, ReplaceInOrder, WithdrawInOrder, QuietInOrder,
           InterruptRunningInOrder, TaskInOrder, Zenon DEF Requests

LEMMA DisturbancesInOrder ==
  ASSUME Secure, Placed, InOrder, Disturbances
  PROVE  InOrder'
BY QuietInOrder, FailInOrder, ResponseInOrder, Zenon DEF Disturbances

LEMMA LoopInOrder ==
  ASSUME Secure, Placed, InOrder, Loop
  PROVE  InOrder'
BY ResponseInOrder, DrainInOrder, SubmitInOrder, QuietInOrder, PrepareInOrder,
   ContributeInOrder, AcceptInOrder, TaskInOrder, Zenon DEF Loop

LEMMA InOrderHolds == Spec => [](Secure /\ InOrder)
<1>1. Secure /\ Placed /\ InOrder /\ [Next]_vars => InOrder'
  <2> SUFFICES ASSUME Secure, Placed, InOrder, [Next]_vars PROVE InOrder'
    OBVIOUS
  <2>1. CASE UNCHANGED vars
    BY <2>1, QuietInOrder
  <2>2. CASE Next
    BY <2>2, RequestsInOrder, DisturbancesInOrder, LoopInOrder DEF Next
  <2> QED BY <2>1, <2>2
<1> QED BY PlacedHolds, InitInOrder, <1>1, PTL DEF Spec

(* Queued prompts reach the core in the order of their places in the queue *)
(* (_turn_queue.py), for any numbers of prompts, turns, interruptions and  *)
(* failures, though a prompt leaves the queue when its task is made and    *)
(* the session may lose sight of that task: the line for the Runtime's     *)
(* lock keeps the order the queue had.  Only a prompt that submits context *)
(* first, and so stands in that line twice (_session.py), is overtaken.    *)
THEOREM StartedInOrderHolds == Spec => []StartedInOrder
<1>1. InOrder => StartedInOrder
  BY DEF InOrder, Ordered
<1> QED BY InOrderHolds, <1>1, PTL

(* Exactly the turns with a command to submit stand in the line for the    *)
(* Runtime's lock, once each: no cancelled or failed task of _session.py   *)
(* keeps a place, and none with work to do loses it.  And the queue never  *)
(* holds more than its capacity.                                           *)
THEOREM TypeCorrect == Spec => []TypeOK
<1>1. Secure /\ Running /\ InOrder => TypeOK
  <2> SUFFICES ASSUME Secure, Running, InOrder PROVE TypeOK
    OBVIOUS
  <2>1. ASSUME NEW t \in Turns
        PROVE  InLine(t) <=> Cardinality({n \in DOMAIN line : line[n] = t}) = 1
    <3>1. CASE Occurs(line, t)
      <4>1. PICK c \in DOMAIN line : line[c] = t
        BY <3>1 DEF Occurs
      <4>2. {n \in DOMAIN line : line[n] = t} = {c}
        BY <4>1 DEF InOrder, Lined, Single
      <4>3. Cardinality({c}) = 1
        BY FS_Singleton
      <4> QED BY <3>1, <4>2, <4>3 DEF InOrder, Lined
    <3>2. CASE ~Occurs(line, t)
      <4>1. {n \in DOMAIN line : line[n] = t} = {}
        BY <3>2 DEF Occurs
      <4>2. Cardinality({n \in DOMAIN line : line[n] = t}) = 0
        BY <4>1, FS_EmptySet
      <4> QED BY <3>2, <4>2 DEF InOrder, Lined
    <3> QED BY <3>1, <3>2
  <2>2. session \in [items : Seq(Item), paused : BOOLEAN, kind : KindsOfPrompts,
                     used : [Keys -> Nat], reserved : Nat, active : Nat,
                     drain : BOOLEAN, lastTerminal : Nat, promoted : BOOLEAN]
    <3>1. {0} \cup ItemIds \subseteq Nat
      BY Counts
    <3>2. [Keys -> {0} \cup ItemIds] \subseteq [Keys -> Nat]
      BY <3>1, Zenon
    <3> QED BY <3>2 DEF Secure, Sound, Typed, Sessions
  <2>3. /\ tasks \in Tasks /\ core \in Cores
        /\ history \in [taken : Seq(Entries), silent : BOOLEAN, unsent : BOOLEAN]
        /\ runtime \in Runtimes
    BY DEF Secure, Sound, Typed, Running
  <2> QED BY <2>1, <2>2, <2>3
      DEF TypeOK, Tasks, Cores, Runtimes, Entries, InOrder, Roomy, InLine
<1> QED BY RunningHolds, InOrderHolds, <1>1, PTL

-----------------------------------------------------------------------------
(* What moves the session on.                                              *)

\* A prompt that waits is called for, or by something that goes on.
Wakes(s, c) == s.items = <<>> \/ s.paused \/ s.drain \/ s.reserved # 0 \/ c.active # 0

\* An event takes nothing back but a reservation.
Follows(s, r) == r.items = s.items /\ (s.paused => r.paused) /\ (s.drain => r.drain)
Holds(s, r) == r.reserved = s.reserved /\ r.active = s.active
Dropped(r) == r.reserved = 0 /\ r.active = 0
Reconciles(s, r) == IF s.active = 0 THEN Holds(s, r) ELSE Dropped(r)

LEMMA DrainingEffect ==
  ASSUME NEW s \in Sessions, NEW c, NEW p
  PROVE  /\ Holds(s, Draining(s, c, p)) /\ Follows(s, Draining(s, c, p))
         /\ Draining(s, c, p).lastTerminal = s.lastTerminal
         /\ Wakes(Draining(s, c, p), c)
<1>1. CASE s.reserved # 0 \/ ActiveTurn(s, c, p) # 0
  <2>1. Draining(s, c, p) = s
    BY <1>1 DEF Draining
  <2>2. s.reserved # 0 \/ c.active # 0
    BY <1>1 DEF ActiveTurn, RunningOrScheduled
  <2> QED BY <2>1, <2>2 DEF Holds, Follows, Wakes
<1>2. CASE ~(s.reserved # 0 \/ ActiveTurn(s, c, p) # 0)
  <2>1. Draining(s, c, p) = [s EXCEPT !.drain = TRUE]
    BY <1>2 DEF Draining
  <2> QED BY <2>1 DEF Holds, Follows, Wakes, Sessions
<1> QED BY <1>1, <1>2

LEMMA ReconciledEffect ==
  ASSUME NEW s \in Sessions
  PROVE  /\ Reconciles(s, Reconciled(s)) /\ Follows(s, Reconciled(s))
         /\ Reconciled(s).lastTerminal = s.lastTerminal
BY DEF Reconciles, Holds, Dropped, Follows, Reconciled, Sessions

LEMMA TerminalEffect ==
  ASSUME NEW s \in Sessions, NEW c, NEW p, NEW t \in Nat, NEW outcome
  PROVE  /\ Holds(s, Terminal(s, c, p, t, outcome)) /\ Follows(s, Terminal(s, c, p, t, outcome))
         /\ Terminal(s, c, p, t, outcome).lastTerminal = t
         /\ t # s.lastTerminal => Wakes(Terminal(s, c, p, t, outcome), c)
<1>1. CASE t = s.lastTerminal
  BY <1>1 DEF Terminal, Holds, Follows
<1>2. CASE t # s.lastTerminal
  <2> DEFINE noted == [s EXCEPT !.lastTerminal = t]
             halted == [noted EXCEPT !.paused = s.paused \/ s.items # <<>>]
  <2>1. /\ noted \in Sessions /\ Holds(s, noted) /\ Follows(s, noted) /\ noted.lastTerminal = t
        /\ Holds(s, halted) /\ Follows(s, halted) /\ halted.lastTerminal = t /\ Wakes(halted, c)
    BY DEF Sessions, Holds, Follows, Wakes
  <2>2. CASE outcome = "completed"
    <3>1. Terminal(s, c, p, t, outcome) = Draining(noted, c, p)
      BY <1>2, <2>2 DEF Terminal
    <3> HIDE DEF noted
    <3>2. /\ Holds(noted, Draining(noted, c, p)) /\ Follows(noted, Draining(noted, c, p))
          /\ Draining(noted, c, p).lastTerminal = t /\ Wakes(Draining(noted, c, p), c)
      BY <2>1, DrainingEffect
    <3> QED BY <2>1, <3>1, <3>2 DEF Holds, Follows
  <2>3. CASE outcome # "completed"
    <3>1. Terminal(s, c, p, t, outcome) = halted
      BY <1>2, <2>3 DEF Terminal
    <3> QED BY <2>1, <3>1
  <2> QED BY <2>2, <2>3
<1> QED BY <1>1, <1>2

LEMMA AnnouncedEffect ==
  ASSUME NEW s \in Sessions, NEW c, NEW p, NEW t \in Nat, NEW outcome
  PROVE  /\ Reconciles(s, Announced(s, c, p, t, outcome))
         /\ Follows(s, Announced(s, c, p, t, outcome))
         /\ Announced(s, c, p, t, outcome).lastTerminal = t
         /\ t # s.lastTerminal => Wakes(Announced(s, c, p, t, outcome), c)
<1>1. PICK m : m = Reconciled(s)
  OBVIOUS
<1>2. /\ m \in Sessions /\ Reconciles(s, m) /\ Follows(s, m)
      /\ m.lastTerminal = s.lastTerminal
  BY <1>1, ReconciledKept, ReconciledEffect
<1>3. PICK r : r = Terminal(m, c, p, t, outcome)
  OBVIOUS
<1>4. /\ Holds(m, r) /\ Follows(m, r) /\ r.lastTerminal = t
      /\ t # m.lastTerminal => Wakes(r, c)
  BY <1>2, <1>3, TerminalEffect
<1>5. Announced(s, c, p, t, outcome) = r
  BY <1>1, <1>3 DEF Announced
<1> QED BY <1>2, <1>4, <1>5 DEF Reconciles, Holds, Dropped, Follows

LEMMA HeardEffect ==
  ASSUME NEW s \in Sessions, NEW c \in Cores, NEW p
  PROVE  /\ c.active # 0 => Heard(s, c, p) = s
         /\ c.active = 0 => Reconciles(s, Heard(s, c, p))
         /\ Follows(s, Heard(s, c, p))
         /\ Heard(s, c, p).lastTerminal \in {s.lastTerminal, c.last}
         /\ c.active = 0 /\ c.last # 0 =>
              /\ Heard(s, c, p).lastTerminal = c.last
              /\ c.last # s.lastTerminal => Wakes(Heard(s, c, p), c)
         /\ c.active = 0 /\ c.last = 0 => Heard(s, c, p).lastTerminal = s.lastTerminal
<1>1. CASE c.active # 0
  BY <1>1 DEF Heard, Follows
<1>2. CASE c.active = 0 /\ c.last = 0
  <2>1. Heard(s, c, p) = Reconciled(s)
    BY <1>2 DEF Heard
  <2> QED BY <1>2, <2>1, ReconciledEffect
<1>3. CASE c.active = 0 /\ c.last # 0
  <2>1. Heard(s, c, p) = Announced(s, c, p, c.last, c.outcome)
    BY <1>3 DEF Heard, Announced
  <2>2. c.last \in Nat
    BY DEF Cores
  <2> QED BY <1>3, <2>1, <2>2, AnnouncedEffect
<1> QED BY <1>1, <1>2, <1>3

LEMMA InterruptedEffect ==
  ASSUME Typed, NEW t \in Nat, Interrupted(t)
  PROVE  /\ Reconciles(session, session') /\ session'.items = session.items
         /\ session'.lastTerminal = t /\ Wakes(session', core)
<1>1. PICK heard : heard = Announced(session, core, tasks, t, "interrupted")
  OBVIOUS
<1>2. /\ heard \in Sessions /\ Reconciles(session, heard) /\ Follows(session, heard)
      /\ heard.lastTerminal = t
  BY <1>1, AnnouncedKept, AnnouncedEffect DEF Typed
<1>3. PICK m : m = [heard EXCEPT !.paused = FALSE]
  OBVIOUS
<1>4. /\ m \in Sessions /\ Holds(heard, m) /\ m.items = heard.items /\ m.lastTerminal = t
  BY <1>2, <1>3 DEF Sessions, Holds
<1>5. session' = Draining(m, core, tasks)
  BY <1>1, <1>3 DEF Interrupted
<1>6. /\ Holds(m, session') /\ Follows(m, session') /\ session'.lastTerminal = m.lastTerminal
      /\ Wakes(session', core)
  BY <1>4, <1>5, DrainingEffect
<1> QED BY <1>2, <1>4, <1>6 DEF Reconciles, Holds, Dropped, Follows

LEMMA ReapedEffect ==
  ASSUME NEW s \in Sessions, NEW c, NEW p, NEW t \in Nat,
         p[t].phase \in {"over", "failed", "cancelled"}
  PROVE  /\ s.active # t => Reaped(s, c, p, t) = s
         /\ s.active = t =>
              /\ Dropped(Reaped(s, c, p, t)) /\ Follows(s, Reaped(s, c, p, t))
              /\ Reaped(s, c, p, t).lastTerminal = IF p[t].phase = "failed" THEN t
                                                   ELSE s.lastTerminal
              /\ \/ p[t].phase = "cancelled"
                 \/ p[t].phase = "failed" /\ t = s.lastTerminal
                 \/ Wakes(Reaped(s, c, p, t), c)
<1>1. CASE s.active # t
  BY <1>1 DEF Reaped
<1>2. CASE s.active = t
  <2>1. PICK m : m = [s EXCEPT !.reserved = 0, !.active = 0]
    OBVIOUS
  <2>2. /\ m \in Sessions /\ Dropped(m) /\ Follows(s, m) /\ m.active = 0
        /\ m.lastTerminal = s.lastTerminal
    BY <2>1 DEF Sessions, Dropped, Follows
  <2>3. Reaped(s, c, p, t) = CASE p[t].phase = "failed"    -> Announced(m, c, p, t, "failed")
                               [] p[t].phase = "over"      -> Draining(m, c, p)
                               [] p[t].phase = "cancelled" -> m
    BY <1>2, <2>1 DEF Reaped
  <2>4. CASE p[t].phase = "failed"
    <3>1. PICK r : r = Announced(m, c, p, t, "failed")
      OBVIOUS
    <3>2. /\ Reconciles(m, r) /\ Follows(m, r) /\ r.lastTerminal = t
          /\ t # m.lastTerminal => Wakes(r, c)
      BY <2>2, <3>1, AnnouncedEffect
    <3>3. Reaped(s, c, p, t) = r
      BY <2>3, <2>4, <3>1
    <3> QED BY <1>2, <2>2, <2>4, <3>2, <3>3 DEF Reconciles, Holds, Dropped, Follows
  <2>5. CASE p[t].phase = "over"
    <3>1. PICK r : r = Draining(m, c, p)
      OBVIOUS
    <3>2. /\ Holds(m, r) /\ Follows(m, r) /\ r.lastTerminal = m.lastTerminal /\ Wakes(r, c)
      BY <2>2, <3>1, DrainingEffect
    <3>3. Reaped(s, c, p, t) = r
      BY <2>3, <2>5, <3>1
    <3> QED BY <1>2, <2>2, <2>5, <3>2, <3>3 DEF Holds, Dropped, Follows
  <2>6. CASE p[t].phase = "cancelled"
    <3>1. Reaped(s, c, p, t) = m
      BY <2>3, <2>6
    <3> QED BY <1>2, <2>2, <2>6, <3>1
  <2> QED BY <2>4, <2>5, <2>6
<1> QED BY <1>1, <1>2

-----------------------------------------------------------------------------
(* There is a number for every turn that may come.                         *)

\* Each turn was started directly, or for an item that has left the queue.
Counted ==
  /\ spent.starts <= MaxStarts
  /\ NewTurn + Len(session.items) <= spent.starts + NextItem

LEMMA NextItemBound ==
  ASSUME Typed
  PROVE  NextItem \in Nat /\ NextItem <= 1 + Cardinality(Keys)
<1>1. PICK known : known = {h \in Keys : session.used[h] # 0}
  OBVIOUS
<1>2. known \subseteq Keys
  BY <1>1
<1>3. Cardinality(known) \in Nat /\ Cardinality(known) <= Cardinality(Keys)
  BY <1>2, Counts, FS_Subset, FS_CardinalityType
<1>4. NextItem = 1 + Cardinality(known)
  BY <1>1, Zenon DEF NextItem
<1> QED BY <1>3, <1>4, Counts

LEMMA RoomForTurn ==
  ASSUME Typed, Numbered, Counted,
         session.items # <<>> \/ spent.starts < MaxStarts
  PROVE  NewTurn \in Turns
<1>1. NextItem \in Nat /\ NextItem <= 1 + Cardinality(Keys) /\ Cardinality(Keys) \in Nat
  BY NextItemBound, Counts
<1>2. NewTurn \in Nat \ {0}
  BY NewTurnFresh
<1>3. /\ Len(session.items) \in Nat /\ spent.starts \in Nat /\ MaxStarts \in Nat
      /\ session.items # <<>> => Len(session.items) > 0
  BY BoundAssumption DEF Typed, Sessions, Spendings
<1>4. NewTurn <= MaxStarts + Cardinality(Keys)
  BY <1>1, <1>2, <1>3 DEF Counted
<1> QED BY <1>1, <1>2, <1>3, <1>4 DEF Turns

LEMMA NewTurnSame ==
  ASSUME \A t \in Turns : tasks'[t].phase = "none" <=> tasks[t].phase = "none"
  PROVE  NewTurn' = NewTurn
<1>1. {t \in Turns : tasks'[t].phase # "none"} = {t \in Turns : tasks[t].phase # "none"}
  OBVIOUS
<1> QED BY <1>1, Zenon DEF NewTurn

LEMMA NewTurnNext ==
  ASSUME Typed, Numbered, NEW n \in Turns, n = NewTurn,
         \A u \in Turns : tasks'[u].phase # "none" <=> tasks[u].phase # "none" \/ u = n
  PROVE  NewTurn' = n + 1
<1>1. n \in Nat \ {0} /\ {u \in Turns : tasks[u].phase # "none"} = 1..(n - 1)
  BY NewTurnFresh
<1>2. {u \in Turns : tasks'[u].phase # "none"} = {u \in Turns : tasks[u].phase # "none"} \cup {n}
  OBVIOUS
<1>3. {u \in Turns : tasks'[u].phase # "none"} = 1..n
  BY <1>1, <1>2
<1>4. Cardinality(1..n) = n
  BY <1>1, FS_Interval
<1>5. NewTurn' = 1 + Cardinality(1..n)
  BY <1>3, Zenon DEF NewTurn
<1> QED BY <1>1, <1>4, <1>5

\* No turn begins, and no item comes.
LEMMA CountedFrame ==
  ASSUME Typed, Numbered, Counted, session'.used = session.used,
         session'.items \in Seq(Item), Len(session'.items) <= Len(session.items),
         spent'.starts = spent.starts,
         \A t \in Turns : tasks'[t].phase = "none" <=> tasks[t].phase = "none"
  PROVE  Counted'
<1>1. NextItem' = NextItem /\ NewTurn' = NewTurn
  BY NewTurnSame DEF NextItem
<1>2. NextItem \in Nat /\ NewTurn \in Nat
  BY NextItemBound, NewTurnFresh
<1>3. Len(session.items) \in Nat /\ Len(session'.items) \in Nat /\ spent.starts \in Nat
  BY DEF Typed, Sessions, Spendings
<1> QED BY <1>1, <1>2, <1>3 DEF Counted

LEMMA StartCounted ==
  ASSUME Secure, Counted, NEW kind \in {"start", "deferred"}, Start(kind)
  PROVE  Counted' /\ NewTurn \in Turns
<1> USE DEF Secure, Sound
<1>1. PICK n : n = NewTurn
  OBVIOUS
<1>2. /\ n \in Turns /\ n \in Nat
  BY <1>1, RoomForTurn, NewTurnFresh DEF Start, CanSpend
<1>3. /\ session'.items = session.items /\ session'.used = session.used
      /\ tasks' = SetPhase(tasks, n, "reserved")
  BY <1>1 DEF Start, Typed, Sessions
<1>4. spent.starts < MaxStarts /\ spent'.starts = spent.starts + 1 /\ spent.starts \in Nat
      /\ MaxStarts \in Nat
  BY BoundAssumption DEF Start, CanSpend, Spend, Typed, Spendings
<1>5. \A u \in Turns : tasks'[u].phase = IF u = n THEN "reserved" ELSE tasks[u].phase
  BY <1>3, PhaseOf
<1>6. NewTurn' = n + 1 /\ NextItem' = NextItem
  BY <1>1, <1>2, <1>3, <1>5, NewTurnNext DEF NextItem
<1>7. NextItem \in Nat /\ Len(session.items) \in Nat
  BY NextItemBound DEF Typed, Sessions
<1>8. n + Len(session.items) <= spent.starts + NextItem
  BY <1>1 DEF Counted
<1>9. spent'.starts <= MaxStarts
  BY <1>4
<1>10. NewTurn' + Len(session'.items) <= spent'.starts + NextItem'
  <2>1. Len(session'.items) = Len(session.items)
    BY <1>3
  <2>2. \A a, b, c, d \in Nat : a + b <= c + d => (a + 1) + b <= (c + 1) + d
    OBVIOUS
  <2>3. (n + 1) + Len(session.items) <= (spent.starts + 1) + NextItem
    BY <1>2, <1>4, <1>7, <1>8, <2>2
  <2> QED BY <1>4, <1>6, <2>1, <2>3
<1> QED BY <1>1, <1>2, <1>9, <1>10 DEF Counted

LEMMA AcceptedCounted ==
  ASSUME Secure, Counted, UNCHANGED <<tasks, spent>>,
         NEW k \in Keys, session.used[k] = 0, NEW i \in ItemIds,
         session'.used = [session.used EXCEPT ![k] = i],
         session'.items \in Seq(Item), Len(session'.items) <= Len(session.items) + 1
  PROVE  Counted'
<1> USE DEF Secure, Sound
<1>1. NextItem' = NextItem + 1 /\ NextItem \in Nat
  BY NextItemGrows
<1>2. NewTurn' = NewTurn /\ NewTurn \in Nat
  BY NewTurnSame, NewTurnFresh
<1>3. Len(session.items) \in Nat /\ Len(session'.items) \in Nat /\ spent.starts \in Nat
  BY DEF Typed, Sessions, Spendings
<1> QED BY <1>1, <1>2, <1>3 DEF Counted

LEMMA EnqueueCounted ==
  ASSUME Secure, Counted, NEW k \in Keys, Enqueue(k)
  PROVE  Counted'
<1> USE DEF Secure, Sound
<1>1. PICK i \in ItemIds : i = NextItem
  BY DEF Enqueue
<1>2. /\ session \in Sessions /\ session.used[k] = 0
      /\ session'.items = Append(session.items, [id |-> i, key |-> k])
      /\ session'.used = [session.used EXCEPT ![k] = i] /\ UNCHANGED <<tasks, spent>>
  BY <1>1 DEF Enqueue, Fresh, Typed, Sessions
<1>3. session.items \in Seq(Item) /\ [id |-> i, key |-> k] \in Item
  BY <1>2 DEF Sessions, Item
<1>4. session'.items \in Seq(Item) /\ Len(session'.items) = Len(session.items) + 1
  BY <1>2, <1>3, AppendFacts
<1> QED BY <1>2, <1>3, <1>4, AcceptedCounted

LEMMA ReplaceCounted ==
  ASSUME Secure, Counted, NEW k \in Keys, NEW i \in ItemIds, Replace(i, k)
  PROVE  Counted'
<1> USE DEF Secure, Sound
<1>1. /\ session.used[k] = 0 /\ session'.items = Replaced(session, i, k)
      /\ session'.used = [session.used EXCEPT ![k] = i] /\ UNCHANGED <<tasks, spent>>
  BY DEF Replace, Fresh, Typed, Sessions
<1>2. session.items \in Seq(Item)
  BY DEF Typed, Sessions
<1>3. session'.items \in [1..Len(session.items) -> Item]
  <2>1. [id |-> i, key |-> k] \in Item
    BY DEF Item
  <2> QED BY <1>1, <1>2, <2>1 DEF Replaced
<1>4. session'.items \in Seq(Item) /\ Len(session'.items) = Len(session.items)
  BY <1>2, <1>3
<1> QED BY <1>1, <1>2, <1>4, AcceptedCounted

LEMMA WithoutEffect ==
  ASSUME NEW s \in Sessions, NEW i, NEW c \in DOMAIN s.items, s.items[c].id = i
  PROVE  /\ Holds(s, Without(s, i)) /\ Without(s, i).drain = s.drain
         /\ Without(s, i).lastTerminal = s.lastTerminal
         /\ Without(s, i).items = <<>> \/ Without(s, i).paused = s.paused
<1>1. PICK n : n = CHOOSE m \in DOMAIN s.items : s.items[m].id = i
  OBVIOUS
<1>2. PICK m : m = [s EXCEPT !.items = RemoveAt(s.items, n)]
  OBVIOUS
<1>3. Without(s, i) = Unpaused(m)
  BY <1>1, <1>2, Zenon DEF Without
<1>4. /\ Holds(s, m) /\ m.drain = s.drain /\ m.lastTerminal = s.lastTerminal /\ m.paused = s.paused
  BY <1>2 DEF Sessions, Holds
<1>5. CASE m.items = <<>>
  <2>1. Unpaused(m) = [m EXCEPT !.paused = FALSE]
    BY <1>5 DEF Unpaused
  <2>2. PICK w : w = [m EXCEPT !.paused = FALSE]
    OBVIOUS
  <2>3. /\ w.reserved = m.reserved /\ w.active = m.active /\ w.drain = m.drain
        /\ w.lastTerminal = m.lastTerminal /\ w.items = m.items
    BY <1>2, <2>2 DEF Sessions
  <2> QED BY <1>3, <1>4, <1>5, <2>1, <2>2, <2>3 DEF Holds
<1>6. CASE m.items # <<>>
  BY <1>3, <1>4, <1>6 DEF Unpaused
<1> QED BY <1>5, <1>6

\* What the drain does: nothing, or the first item becomes a turn.
Drains(n, ph) ==
  /\ n = NewTurn /\ session.items # <<>> /\ ph \in {"context", "due"}
  /\ session'.reserved = n /\ session'.active = n
  /\ session'.items \in Seq(Item) /\ Len(session'.items) = Len(session.items) - 1
  /\ \A u \in Turns : tasks'[u].phase = IF u = n THEN ph ELSE tasks[u].phase

Idles ==
  /\ Holds(session, session') /\ session'.items = session.items /\ tasks' = tasks
  /\ session'.paused = session.paused /\ Wakes(session', core)

LEMMA DrainEffect ==
  ASSUME Secure, Placed, InOrder, Drain
  PROVE  /\ session'.used = session.used /\ session'.lastTerminal = session.lastTerminal
         /\ Idles \/ \E n \in Nat, ph \in {"context", "due"} : Drains(n, ph)
<1> USE DEF Secure, Sound
<1>1. session \in Sessions
  BY DEF Typed
<1>2. PICK idle : idle = [session EXCEPT !.drain = FALSE]
  OBVIOUS
<1>3. PICK s : s = [idle EXCEPT !.promoted = TRUE]
  OBVIOUS
<1>4. /\ idle \in Sessions /\ Holds(session, idle) /\ idle.items = session.items
      /\ idle.paused = session.paused /\ idle.used = session.used
      /\ idle.lastTerminal = session.lastTerminal
      /\ s \in Sessions /\ s.items = session.items /\ s.used = session.used
      /\ s.lastTerminal = session.lastTerminal
  BY <1>1, <1>2, <1>3 DEF Sessions, Holds
<1>5. CASE /\ \/ session.reserved # 0 \/ session.paused \/ session.items = <<>>
              \/ ActiveTurn(session, core, tasks) # 0
           /\ session' = idle /\ tasks' = tasks
  <2>1. ActiveTurn(session, core, tasks) # 0 => session.reserved # 0 \/ core.active # 0
    BY DEF ActiveTurn, RunningOrScheduled
  <2> QED BY <1>4, <1>5, <2>1 DEF Idles, Wakes, Holds
<1>6. CASE /\ session.items # <<>>
           /\ session' = Scheduled(Without(s, PeekNext(session).id), NewTurn)
           /\ tasks' = [tasks EXCEPT ![NewTurn] =
                          [phase |-> FirstPhase(PeekNext(session).key),
                           key |-> PeekNext(session).key]]
  <2>1. PICK item : item = PeekNext(session)
    OBVIOUS
  <2>2. PICK n \in Nat : n = NewTurn
    BY NewTurnFresh
  <2>3. PICK ph \in {"context", "due"} : ph = FirstPhase(item.key)
    BY DEF FirstPhase
  <2>4. 1 \in DOMAIN s.items /\ s.items[1].id = item.id
    BY <1>4, <1>6, <2>1 DEF Sessions, PeekNext
  <2>5. PICK w : w = Without(s, item.id)
    OBVIOUS
  <2>6. w \in Sessions /\ w.used = s.used
    BY <1>4, <2>4, <2>5, WithoutKept
  <2>7. Holds(s, w) /\ w.lastTerminal = s.lastTerminal
    BY <1>4, <2>4, <2>5, WithoutEffect
  <2>8. Len(w.items) = Len(s.items) - 1
    <3>1. \A a, b \in DOMAIN s.items : a < b => s.items[a].id < s.items[b].id
      BY <1>4 DEF InOrder, Ordered, Rising
    <3> QED BY <1>4, <2>4, <2>5, <3>1, WithoutRising
  <2>9. session' = Scheduled(w, n)
    BY <1>6, <2>1, <2>2, <2>5
  <2>10. /\ session'.reserved = n /\ session'.active = n /\ session'.items = w.items
         /\ session'.used = w.used /\ session'.lastTerminal = w.lastTerminal
         /\ w.items \in Seq(Item)
    BY <2>6, <2>9 DEF Scheduled, Sessions
  <2>11. \A u \in Turns : tasks'[u].phase = IF u = n THEN ph ELSE tasks[u].phase
    BY <1>6, <2>1, <2>2, <2>3 DEF Typed, Tasks
  <2>12. Drains(n, ph)
    BY <1>4, <1>6, <2>2, <2>3, <2>8, <2>10, <2>11 DEF Drains
  <2> QED BY <1>4, <2>6, <2>7, <2>10, <2>12
<1>7. \/ /\ \/ session.reserved # 0 \/ session.paused \/ session.items = <<>>
            \/ ActiveTurn(session, core, tasks) # 0
         /\ session' = idle /\ tasks' = tasks
      \/ /\ session.items # <<>>
         /\ session' = Scheduled(Without(s, PeekNext(session).id), NewTurn)
         /\ tasks' = [tasks EXCEPT ![NewTurn] =
                        [phase |-> FirstPhase(PeekNext(session).key),
                         key |-> PeekNext(session).key]]
  <2> HIDE DEF Secure, Sound
  <2>1. s = [session EXCEPT !.drain = FALSE, !.promoted = TRUE]
    BY <1>1, <1>2, <1>3 DEF Sessions
  <2>2. idle = [session EXCEPT !.drain = FALSE]
    BY <1>2
  <2>3. \/ /\ \/ session.reserved # 0 \/ session.paused \/ session.items = <<>>
              \/ ActiveTurn(session, core, tasks) # 0
           /\ session' = [session EXCEPT !.drain = FALSE] /\ tasks' = tasks
        \/ /\ session.items # <<>>
           /\ session' = Scheduled(Without([session EXCEPT !.drain = FALSE, !.promoted = TRUE],
                                           PeekNext(session).id), NewTurn)
           /\ tasks' = [tasks EXCEPT ![NewTurn] =
                          [phase |-> FirstPhase(PeekNext(session).key),
                           key |-> PeekNext(session).key]]
    BY Zenon DEF Drain
  <2> QED BY <2>1, <2>2, <2>3, Zenon
<1> QED BY <1>5, <1>6, <1>7

LEMMA DrainCounted ==
  ASSUME Secure, Placed, InOrder, Counted, Drain
  PROVE  Counted'
<1> USE DEF Secure, Sound
<1>1. session'.used = session.used /\ spent' = spent
  BY DrainEffect DEF Drain
<1>2. session.items \in Seq(Item) /\ Len(session.items) \in Nat
  BY DEF Typed, Sessions
<1>3. CASE Idles
  BY <1>1, <1>2, <1>3, CountedFrame DEF Idles
<1>4. ASSUME NEW n \in Nat, NEW ph \in {"context", "due"}, Drains(n, ph)
      PROVE  Counted'
  <2>1. n = NewTurn /\ n \in Turns
    BY <1>4, RoomForTurn DEF Drains
  <2>2. NewTurn' = n + 1 /\ NextItem' = NextItem
    BY <1>1, <1>4, <2>1, NewTurnNext DEF NextItem, Drains
  <2>3. NextItem \in Nat /\ spent.starts \in Nat
    BY NextItemBound DEF Typed, Spendings
  <2>4. n + Len(session.items) <= spent.starts + NextItem /\ spent'.starts <= MaxStarts
    BY <1>1, <2>1 DEF Counted
  <2>5. Len(session'.items) = Len(session.items) - 1
    BY <1>4 DEF Drains
  <2>6. \A a, b, c \in Nat : a + b <= c => (a + 1) + (b - 1) <= c
    OBVIOUS
  <2>7. (n + 1) + (Len(session.items) - 1) <= spent.starts + NextItem
    <3>1. spent.starts + NextItem \in Nat
      BY <2>3
    <3> QED BY <1>2, <2>4, <2>6, <3>1
  <2> QED BY <1>1, <2>2, <2>4, <2>5, <2>7 DEF Counted
<1> QED BY <1>3, <1>4, DrainEffect

-----------------------------------------------------------------------------
(* Something goes on for every reservation and every prompt that waits.    *)

Unbegun == {"none", "reserved", "preparing"}
Begun(t) == t \in Turns /\ tasks[t].phase \in Phases \ (Unbegun \cup {"context", "due"})
IsReaped(t) == t \in Turns /\ tasks[t].phase = "reaped"

\* The core's turns, and the ends announced, are of tasks that began.
Known ==
  /\ \A t \in {core.active, core.follow, core.last} : t # 0 => Begun(t)
  /\ session.lastTerminal # 0 => /\ session.lastTerminal \in Turns
                                 /\ tasks[session.lastTerminal].phase \notin Unbegun
  /\ \A r \in replies : r.kind = "interrupted" => IsReaped(r.turn)
  /\ core.unheard => core.last # 0
  /\ lock.holder = "interrupt" => lock.turn # 0

\* The task the session counts as active has an end the session will see.
Scheduling ==
  session.active # 0 =>
    /\ session.active \in Turns /\ session.reserved = session.active
    /\ tasks[session.active].phase \in Phases \ (Unbegun \cup {"cancelled", "reaped"})
    /\ session.active # session.lastTerminal
    /\ tasks[session.active].phase \in {"driving", "over"} => core.active # 0 \/ core.unheard

\* A reservation has a task, or a response that is to be followed by one.
Offers(r) == r.kind \in {"start", "deferred"}
Pending ==
  /\ session.reserved # 0 =>
       \/ session.active = session.reserved
       \/ session.reserved \in Turns /\ tasks[session.reserved].phase = "preparing"
       \/ \E r \in replies : Offers(r) /\ r.turn = session.reserved
  /\ \A r \in replies : Offers(r) =>
       r.turn \in Turns /\ (session.reserved = r.turn => tasks[r.turn].phase = "reserved")

\* A task that is let go with an end no turn of the core tells.
Falls(t) == \/ tasks[t].phase = "failed"
            \/ /\ tasks[t].phase = "over" /\ tasks[t].key # None
               /\ session.kind[tasks[t].key] = "context"

\* A call was missed since the queue was last drained.
Missed == history.silent \/ history.unsent

\* What calls for the next prompt, or is to.
Called ==
  \/ Missed \/ Wakes(session, core) \/ core.unheard
  \/ \E r \in replies : r.kind \in {"queue", "interrupted"}
  \/ \E t \in Turns : InLine(t) \/ Falls(t)
  \/ lock.holder = "interrupt" /\ core.last # lock.turn

Alive == Counted /\ Known /\ Scheduling /\ Pending /\ Called

LEMMA CountedOn ==
  ASSUME Secure, Counted, Kept(session, session'), spent'.starts = spent.starts,
         \A t \in Turns : tasks'[t].phase = "none" <=> tasks[t].phase = "none"
  PROVE  Counted'
<1>1. session'.items = session.items /\ session'.used = session.used
  BY DEF Kept
<1>2. session.items \in Seq(Item) /\ Len(session.items) <= Len(session.items)
  BY DEF Secure, Sound, Typed, Sessions
<1> QED BY <1>1, <1>2, CountedFrame DEF Secure, Sound

LEMMA KnownFrame ==
  ASSUME Known,
         \A t \in {core'.active, core'.follow, core'.last} :
           t \in {0, core.active, core.follow, core.last} \/ Begun(t)',
         \A t \in Turns : /\ Begun(t) => Begun(t)'
                          /\ tasks[t].phase \notin Unbegun => tasks'[t].phase \notin Unbegun
                          /\ IsReaped(t) => IsReaped(t)',
         \/ session'.lastTerminal \in {0, session.lastTerminal}
         \/ /\ session'.lastTerminal \in Turns
            /\ tasks'[session'.lastTerminal].phase \notin Unbegun,
         \A r \in replies' : r.kind = "interrupted" => r \in replies \/ IsReaped(r.turn)',
         core'.unheard => core'.last # 0,
         lock'.holder = "interrupt" => lock'.turn # 0
  PROVE  Known'
<1>1. \A t : Begun(t) => t \in Turns
  BY DEF Begun
<1>2. \A t \in {core'.active, core'.follow, core'.last} : t # 0 => Begun(t)'
  BY <1>1 DEF Known
<1>3. \A t : IsReaped(t) => t \in Turns
  BY DEF IsReaped
<1>4. \A r \in replies' : r.kind = "interrupted" => IsReaped(r.turn)'
  BY <1>3 DEF Known
<1>5. session'.lastTerminal # 0 => /\ session'.lastTerminal \in Turns
                                   /\ tasks'[session'.lastTerminal].phase \notin Unbegun
  BY DEF Known
<1> QED BY <1>2, <1>4, <1>5 DEF Known

\* A task goes on; the core, the lock and the responses stay.
LEMMA KnownOn ==
  ASSUME Secure, Known, NEW t, NEW ph \in Phases, tasks' = SetPhase(tasks, t, ph),
         t \in Turns => /\ Begun(t) => ph \in Phases \ (Unbegun \cup {"context", "due"})
                        /\ tasks[t].phase \notin Unbegun => ph \notin Unbegun
                        /\ tasks[t].phase # "reaped",
         \/ session'.lastTerminal \in {0, session.lastTerminal}
         \/ /\ session'.lastTerminal \in Turns
            /\ tasks'[session'.lastTerminal].phase \notin Unbegun,
         UNCHANGED <<core, lock>>, replies' \subseteq replies
  PROVE  Known'
<1>1. \A u \in Turns : /\ tasks'[u].key = tasks[u].key
                       /\ tasks'[u].phase = IF u = t THEN ph ELSE tasks[u].phase
  BY PhaseOf DEF Secure, Sound
<1>2. \A u \in Turns : /\ Begun(u) => Begun(u)'
                       /\ tasks[u].phase \notin Unbegun => tasks'[u].phase \notin Unbegun
                       /\ IsReaped(u) => IsReaped(u)'
  BY <1>1 DEF Begun, IsReaped
<1>3. core.unheard => core.last # 0
  BY DEF Known
<1>4. lock.holder = "interrupt" => lock.turn # 0
  BY DEF Known
<1> QED BY <1>2, <1>3, <1>4, KnownFrame

\* The reservation stays, with what it waits for, or is dropped.
LEMMA PendingFrame ==
  ASSUME Pending, session'.reserved \in {0, session.reserved},
         session'.reserved # 0 => session'.active = session.active,
         \A u \in Turns : tasks[u].phase \in {"reserved", "preparing"} =>
           tasks'[u].phase = tasks[u].phase \/ session'.reserved # u,
         \A r \in replies' : Offers(r) => r \in replies,
         \A r \in replies : Offers(r) => r \in replies' \/ r.turn # session'.reserved
  PROVE  Pending'
<1>1. \A u \in Turns : u # 0
  BY Counts
<1> QED BY <1>1 DEF Pending

LEMMA StartAlive ==
  ASSUME Secure, Alive, NEW kind \in {"start", "deferred"}, Start(kind)
  PROVE  Alive'
<1> USE DEF Secure, Sound, Alive
<1>1. Counted' /\ NewTurn \in Turns
  BY StartCounted
<1>2. PICK n \in Turns : n = NewTurn /\ tasks[n].phase = "none"
  BY <1>1, NewTurnFresh
<1>3. /\ UNCHANGED <<core, lock, history>> /\ session.reserved = 0 /\ session.items = <<>>
      /\ replies' = replies \cup {[kind |-> kind, turn |-> n]}
      /\ session'.reserved = n /\ session'.active = session.active
      /\ session'.items = session.items /\ session'.lastTerminal = session.lastTerminal
      /\ tasks' = SetPhase(tasks, n, "reserved")
  BY <1>2 DEF Start, Reply, Typed, Sessions
<1>4. \A u \in Turns : tasks'[u].phase = IF u = n THEN "reserved" ELSE tasks[u].phase
  BY <1>3, PhaseOf
<1>5. session.active = 0
  BY <1>2, <1>3, Counts DEF Scheduling
<1>6. Known'
  <2>1. \A u \in Turns : /\ Begun(u) => Begun(u)'
                         /\ tasks[u].phase \notin Unbegun => tasks'[u].phase \notin Unbegun
                         /\ IsReaped(u) => IsReaped(u)'
    BY <1>2, <1>4 DEF Begun, IsReaped, Unbegun
  <2>2. \A r \in replies' : r.kind = "interrupted" => r \in replies
    BY <1>3
  <2>3. core.unheard => core.last # 0
    BY DEF Known
  <2>4. lock.holder = "interrupt" => lock.turn # 0
    BY DEF Known
  <2> QED BY <1>3, <2>1, <2>2, <2>3, <2>4, KnownFrame
<1>7. Scheduling'
  BY <1>3, <1>5 DEF Scheduling
<1>8. Pending'
  <2>1. PICK r : r = [kind |-> kind, turn |-> n]
    OBVIOUS
  <2>2. replies' = replies \cup {r} /\ Offers(r) /\ r.turn = n
    BY <1>3, <2>1 DEF Offers
  <2>3. \A q \in replies : Offers(q) => q.turn # n
    BY <1>2 DEF Awaiting, Starting, Untouched, Offers, Pending
  <2> QED BY <1>3, <1>4, <2>2, <2>3 DEF Pending
<1>9. Called'
  BY <1>3 DEF Called, Wakes
<1> QED BY <1>1, <1>6, <1>7, <1>8, <1>9

\* A response goes out, or is lost: what it left behind is done.
LEMMA AnsweredOn ==
  ASSUME Secure, Alive, NEW r \in replies, replies' = replies \ {r},
         UNCHANGED <<tasks, core, lock, spent>>, Kept(session, session'),
         Missed => Missed',
         \/ session' = session /\ Offers(r) /\ session.reserved # r.turn
         \/ session' = session /\ ~Offers(r) /\ (Missed' \/ Wakes(session, core))
         \/ /\ ~Offers(r) /\ Holds(session, session')
            /\ session'.lastTerminal = session.lastTerminal /\ Wakes(session', core)
         \/ /\ ~Offers(r) /\ Reconciles(session, session') /\ IsReaped(r.turn)
            /\ session'.lastTerminal = r.turn /\ Wakes(session', core)
  PROVE  Alive'
<1> USE DEF Alive
<1>1. Counted'
  BY CountedOn
<1>2. Known'
  <2>1. session'.lastTerminal = session.lastTerminal \/ IsReaped(session'.lastTerminal)
    OBVIOUS
  <2>2. \/ session'.lastTerminal \in {0, session.lastTerminal}
        \/ /\ session'.lastTerminal \in Turns
           /\ tasks'[session'.lastTerminal].phase \notin Unbegun
    BY <2>1 DEF IsReaped, Unbegun
  <2>3. \A t \in Turns : /\ Begun(t) => Begun(t)'
                         /\ IsReaped(t) => IsReaped(t)'
                         /\ tasks[t].phase \notin Unbegun => tasks'[t].phase \notin Unbegun
    BY DEF Begun, IsReaped
  <2>4. core.unheard => core.last # 0
    BY DEF Known
  <2>5. lock.holder = "interrupt" => lock.turn # 0
    BY DEF Known
  <2>6. /\ \A q \in replies' : q \in replies
        /\ \A t \in {core'.active, core'.follow, core'.last} :
             t \in {0, core.active, core.follow, core.last}
    OBVIOUS
  <2> QED BY <2>2, <2>3, <2>4, <2>5, <2>6, KnownFrame
<1>3. Scheduling'
  BY DEF Scheduling, Holds, Reconciles, Dropped
<1>4. Pending'
  <2>1. /\ session'.reserved \in {0, session.reserved}
        /\ session'.reserved # 0 => session'.active = session.active
        /\ Offers(r) => session'.reserved # r.turn
    BY DEF Holds, Reconciles, Dropped
  <2> QED BY <2>1, PendingFrame
<1>5. Called'
  <2>1. Missed' \/ Wakes(session', core') => Called'
    BY DEF Called
  <2>2. CASE session' = session /\ Offers(r)
    <3>1. \A q \in replies : q.kind \in {"queue", "interrupted"} => q \in replies'
      BY <2>2 DEF Offers
    <3>2. \A t \in Turns : (InLine(t) \/ Falls(t)) => (InLine(t) \/ Falls(t))'
      BY <2>2 DEF InLine, Falls
    <3> QED BY <2>1, <2>2, <3>1, <3>2 DEF Called, Wakes
  <2> QED BY <2>1, <2>2
<1> QED BY <1>1, <1>2, <1>3, <1>4, <1>5

LEMMA RespondAlive ==
  ASSUME Secure, Alive, NEW r \in replies, Respond(r) \/ Abandon(r)
  PROVE  Alive'
<1> USE DEF Secure, Sound, Alive
<1>1. /\ replies' = replies \ {r} /\ UNCHANGED <<core, lock, spent>>
      /\ Missed => Missed'
      /\ session \in Sessions /\ r.turn \in Nat
      /\ r.kind \in {"start", "deferred", "interrupted", "queue"}
  BY DEF Respond, Abandon, Typed, Replies, Missed
<1>2. CASE Offers(r) /\ session.reserved # r.turn
  <2>1. session' = session /\ tasks' = tasks
    BY <1>2 DEF Offers, Respond, Abandon, Started, Deferred
  <2> QED BY <1>1, <1>2, <2>1, AnsweredOn DEF Kept
<1>3. CASE Offers(r) /\ session.reserved = r.turn
  <2>1. PICK t \in Turns : t = r.turn /\ tasks[t].phase = "reserved" /\ t # 0
    BY <1>3, Counts DEF Pending
  <2>2. session.active = 0
    BY <1>3, <2>1 DEF Scheduling, Unbegun
  <2>3. PICK ph \in {"context", "due", "preparing", "reaped"} :
          /\ tasks' = SetPhase(tasks, t, ph)
          /\ \/ /\ ph \in {"context", "due"} /\ session'.reserved = t /\ session'.active = t
                /\ Kept(session, session') /\ session'.lastTerminal = session.lastTerminal
             \/ ph = "preparing" /\ session' = session
             \/ /\ ph = "reaped" /\ session'.reserved = 0 /\ session'.active = 0
                /\ Kept(session, session') /\ session'.lastTerminal = session.lastTerminal
                /\ Wakes(session', core)
    <3>1. CASE r.kind = "start" /\ Respond(r)
      <4>1. FirstPhase(tasks[t].key) \in {"context", "due"}
        BY DEF FirstPhase
      <4>2. session' = Scheduled(session, t) /\ tasks' = SetPhase(tasks, t, FirstPhase(tasks[t].key))
        BY <1>3, <2>1, <3>1 DEF Respond, Started
      <4> QED BY <1>1, <4>1, <4>2 DEF Scheduled, Sessions, Kept
    <3>2. CASE r.kind = "deferred" /\ Respond(r)
      BY <1>3, <2>1, <3>2 DEF Respond, Deferred
    <3>3. CASE Abandon(r)
      <4>1. PICK m : m = [session EXCEPT !.reserved = 0]
        OBVIOUS
      <4>2. /\ m \in Sessions /\ m.reserved = 0 /\ m.active = 0 /\ Kept(session, m)
            /\ m.lastTerminal = session.lastTerminal
        BY <1>1, <2>2, <4>1 DEF Sessions, Kept
      <4>3. session' = Draining(m, core, tasks) /\ tasks' = SetPhase(tasks, t, "reaped")
        BY <1>3, <2>1, <3>3, <4>1 DEF Abandon, Offers
      <4>4. /\ Holds(m, session') /\ session'.lastTerminal = m.lastTerminal
            /\ Wakes(session', core) /\ Kept(m, session')
        BY <4>2, <4>3, DrainingEffect, DrainingKept
      <4> QED BY <4>2, <4>3, <4>4 DEF Holds, Kept
    <3> QED BY <1>1, <1>3, <3>1, <3>2, <3>3 DEF Offers
  <2>4. \A u \in Turns : tasks'[u].phase = IF u = t THEN ph ELSE tasks[u].phase
    BY <2>3, PhaseOf
  <2>5. Counted'
    <3>1. Kept(session, session')
      BY <2>3 DEF Kept
    <3> QED BY <1>1, <2>1, <2>4, <3>1, CountedOn
  <2>6. Known'
    <3>1. ~Begun(t) /\ tasks[t].phase \in Unbegun /\ tasks[t].phase # "reaped" /\ ph \in Phases
      BY <2>1, <2>3 DEF Begun, Unbegun, Phases
    <3>2. session'.lastTerminal = session.lastTerminal
      BY <2>3
    <3> QED BY <1>1, <2>3, <3>1, <3>2, KnownOn
  <2>7. Scheduling'
    <3>1. t # session.lastTerminal
      BY <2>1 DEF Known, Unbegun
    <3> QED BY <2>2, <2>3, <2>4, <3>1 DEF Scheduling, Unbegun, Phases
  <2>8. Pending'
    <3>1. \A q \in replies' : Offers(q) => q \in replies /\ q.turn # t
      BY <1>1, <1>3, <2>1 DEF Awaiting, Starting, Offers, Pending
    <3>2. \A u \in Turns : u # 0
      BY Counts
    <3>3. \A q \in replies' : Offers(q) => q.turn \in Turns
      BY <3>1 DEF Pending
    <3>4. tasks'[t].phase = ph
      BY <2>4
    <3> QED BY <1>3, <2>1, <2>3, <3>1, <3>2, <3>3, <3>4 DEF Pending
  <2>9. Called'
    <3>1. Wakes(session', core')
      BY <1>1, <1>3, <2>1, <2>3 DEF Wakes
    <3> QED BY <3>1 DEF Called
  <2> QED BY <2>5, <2>6, <2>7, <2>8, <2>9
<1>4. CASE r.kind = "interrupted"
  <2>1. Interrupted(r.turn) /\ tasks' = tasks /\ ~Offers(r)
    BY <1>4 DEF Respond, Abandon, Interrupted, Offers
  <2>2. /\ Reconciles(session, session') /\ session'.lastTerminal = r.turn
        /\ Wakes(session', core) /\ Kept(session, session')
    BY <1>1, <2>1, InterruptedEffect, InterruptedKept
  <2>3. IsReaped(r.turn)
    BY <1>4 DEF Known
  <2> QED BY <1>1, <2>1, <2>2, <2>3, AnsweredOn
<1>5. CASE r.kind = "queue" /\ Respond(r)
  <2>1. session' = Draining(session, core, tasks) /\ tasks' = tasks /\ ~Offers(r)
    BY <1>5 DEF Respond, Offers
  <2>2. /\ Holds(session, session') /\ session'.lastTerminal = session.lastTerminal
        /\ Wakes(session', core) /\ Kept(session, session')
    BY <1>1, <2>1, DrainingEffect, DrainingKept
  <2> QED BY <1>1, <2>1, <2>2, AnsweredOn
<1>6. CASE r.kind = "queue" /\ Abandon(r)
  <2>1. session' = session /\ tasks' = tasks /\ ~Offers(r)
    BY <1>6 DEF Abandon, Offers
  <2>2. Waiting => Missed'
    BY <1>6 DEF Abandon, Missed, Typed
  <2>3. ~Waiting => Wakes(session, core)
    BY DEF Waiting, Wakes
  <2> QED BY <1>1, <2>1, <2>2, <2>3, AnsweredOn DEF Kept
<1> QED BY <1>1, <1>2, <1>3, <1>4, <1>5, <1>6 DEF Offers

\* A task moves that has begun to be prepared, or later.
LEMMA TaskOn ==
  ASSUME Secure, Alive, NEW t \in Turns, NEW ph \in Phases \ Unbegun,
         tasks' = SetPhase(tasks, t, ph), tasks[t].phase \notin {"none", "reaped"},
         Begun(t) => ph \notin {"context", "due"},
         Kept(session, session'), UNCHANGED <<core, lock>>, replies' \subseteq replies,
         spent'.starts = spent.starts,
         session'.lastTerminal \in {session.lastTerminal, core.last, t}
  PROVE  /\ Counted' /\ Known' /\ t # 0
         /\ \A u \in Turns : /\ tasks'[u].key = tasks[u].key
                             /\ tasks'[u].phase = IF u = t THEN ph ELSE tasks[u].phase
<1> USE DEF Alive
<1>1. \A u \in Turns : /\ tasks'[u].key = tasks[u].key
                       /\ tasks'[u].phase = IF u = t THEN ph ELSE tasks[u].phase
  BY PhaseOf DEF Secure, Sound
<1>2. Counted'
  BY <1>1, CountedOn DEF Unbegun
<1>3. \/ session'.lastTerminal \in {0, session.lastTerminal}
      \/ /\ session'.lastTerminal \in Turns
         /\ tasks'[session'.lastTerminal].phase \notin Unbegun
  BY <1>1 DEF Known, Begun
<1>4. Known'
  BY <1>3, KnownOn DEF Begun
<1> QED BY <1>1, <1>2, <1>4, Counts

LEMMA PrepareAlive ==
  ASSUME Secure, Alive, NEW t \in Turns, Prepare(t)
  PROVE  Alive'
<1> USE DEF Alive
<1>1. /\ tasks[t].phase = "preparing" /\ UNCHANGED <<core, lock, replies, spent, history>>
      /\ session \in Sessions /\ t \in Nat /\ t # 0
  BY Counts DEF Prepare, Secure, Sound, Typed
<1>2. t # session.lastTerminal
  BY <1>1 DEF Known, Unbegun
<1>3. PICK ph \in {"due", "reaped"} :
        /\ tasks' = SetPhase(tasks, t, ph)
        /\ \/ /\ ph = "due" /\ session'.reserved = t /\ session'.active = t
              /\ session'.lastTerminal = session.lastTerminal
           \/ /\ ph = "reaped" /\ session'.reserved = 0 /\ session'.active = 0
              /\ session'.lastTerminal = t
        /\ Kept(session, session') /\ Wakes(session', core)
  <2>1. CASE /\ session' = [Scheduled(session, t) EXCEPT !.promoted = TRUE]
             /\ tasks' = SetPhase(tasks, t, "due")
    BY <1>1, <2>1 DEF Scheduled, Sessions, Kept, Wakes
  <2>2. CASE /\ session' = Announced([session EXCEPT !.reserved = 0], core, tasks, t, "failed")
             /\ tasks' = SetPhase(tasks, t, "reaped")
    <3>1. PICK m : m = [session EXCEPT !.reserved = 0]
      OBVIOUS
    <3>2. /\ m \in Sessions /\ m.reserved = 0 /\ m.lastTerminal = session.lastTerminal
          /\ Kept(session, m)
      BY <1>1, <3>1 DEF Sessions, Kept
    <3>3. session' = Announced(m, core, tasks, t, "failed")
      BY <2>2, <3>1
    <3>4. /\ Reconciles(m, session') /\ session'.lastTerminal = t /\ Kept(m, session')
          /\ Wakes(session', core)
      BY <1>1, <1>2, <3>2, <3>3, AnnouncedEffect, AnnouncedKept
    <3> QED BY <2>2, <3>2, <3>4 DEF Reconciles, Holds, Dropped, Kept
  <2> QED BY <2>1, <2>2 DEF Prepare
<1>4. /\ Counted' /\ Known'
      /\ \A u \in Turns : tasks'[u].phase = IF u = t THEN ph ELSE tasks[u].phase
  <2>1. ph \in Phases \ Unbegun /\ ~Begun(t)
    BY <1>1 DEF Phases, Unbegun, Begun
  <2>2. session'.lastTerminal \in {session.lastTerminal, core.last, t}
    BY <1>3
  <2> QED BY <1>1, <1>3, <2>1, <2>2, TaskOn
<1>5. Scheduling'
  BY <1>2, <1>3, <1>4 DEF Scheduling, Phases, Unbegun
<1>6. Pending'
  <2>1. \A q \in replies : Offers(q) => q.turn # t /\ q.turn \in Turns
    BY <1>1 DEF Secure, Sound, Awaiting, Starting, Untouched, Offers, Pending
  <2>2. \A u \in Turns : u # 0
    BY Counts
  <2> QED BY <1>1, <1>3, <2>1, <2>2 DEF Pending
<1>7. Called'
  BY <1>1, <1>3 DEF Called, Wakes
<1> QED BY <1>4, <1>5, <1>6, <1>7

LEMMA FinishAlive ==
  ASSUME Secure, Alive, NEW t \in Turns, Finish(t)
  PROVE  Alive'
<1> USE DEF Alive
<1>1. /\ tasks[t].phase = "driving" /\ tasks' = SetPhase(tasks, t, "over")
      /\ UNCHANGED <<session, core, lock, replies, spent, history>>
  BY DEF Finish
<1>2. /\ Counted' /\ Known'
      /\ \A u \in Turns : /\ tasks'[u].key = tasks[u].key
                          /\ tasks'[u].phase = IF u = t THEN "over" ELSE tasks[u].phase
  <2>1. "over" \in Phases \ Unbegun
    BY DEF Phases, Unbegun
  <2> QED BY <1>1, <2>1, TaskOn DEF Kept
<1>3. Scheduling'
  BY <1>1, <1>2 DEF Scheduling, Phases, Unbegun
<1>4. Pending'
  BY <1>1, <1>2, PendingFrame
<1>5. Called'
  <2>1. \A u \in Turns : (InLine(u) \/ Falls(u)) => (InLine(u) \/ Falls(u))'
    BY <1>1, <1>2 DEF InLine, Falls
  <2> QED BY <1>1, <2>1 DEF Called, Missed, Wakes
<1> QED BY <1>2, <1>3, <1>4, <1>5

LEMMA ReapAlive ==
  ASSUME Secure, Alive, NEW t \in Turns, Reap(t)
  PROVE  Alive'
<1> USE DEF Alive
<1>1. /\ tasks[t].phase \in {"over", "failed", "cancelled"}
      /\ tasks' = SetPhase(tasks, t, "reaped") /\ UNCHANGED <<core, lock, replies, spent>>
      /\ session' = Reaped(session, core, tasks, t)
      /\ Missed' <=> Missed \/ (EndsUnheard(t) /\ Waiting)
      /\ session \in Sessions /\ t \in Nat
  BY Counts DEF Reap, Secure, Sound, Typed, Missed
<1>2. Kept(session, session')
  BY <1>1, ReapedKept
<1>3. \/ session.active # t /\ session' = session
      \/ /\ session.active = t /\ Dropped(session')
         /\ session'.lastTerminal \in {session.lastTerminal, t}
         /\ \/ tasks[t].phase = "cancelled"
            \/ tasks[t].phase = "failed" /\ t = session.lastTerminal
            \/ Wakes(session', core)
  BY <1>1, ReapedEffect
<1>4. /\ Counted' /\ Known' /\ t # 0
      /\ \A u \in Turns : /\ tasks'[u].key = tasks[u].key
                          /\ tasks'[u].phase = IF u = t THEN "reaped" ELSE tasks[u].phase
  <2>1. "reaped" \in Phases \ Unbegun
    BY DEF Phases, Unbegun
  <2>2. session'.lastTerminal \in {session.lastTerminal, core.last, t}
    BY <1>3
  <2> QED BY <1>1, <1>2, <2>1, <2>2, TaskOn
<1>5. Scheduling'
  BY <1>1, <1>3, <1>4 DEF Scheduling, Dropped
<1>6. Pending'
  <2>1. /\ session'.reserved \in {0, session.reserved}
        /\ session'.reserved # 0 => session'.active = session.active
    BY <1>3 DEF Dropped
  <2> QED BY <1>1, <1>4, <2>1, PendingFrame
<1>7. Called'
  <2>1. CASE session.active # t /\ session' = session
    <3>1. \A u \in Turns : u # t /\ (InLine(u) \/ Falls(u)) => (InLine(u) \/ Falls(u))'
      BY <1>1, <1>4, <2>1 DEF InLine, Falls
    <3>2. InLine(t) \/ Falls(t) => EndsUnheard(t)
      BY <1>1, <2>1 DEF InLine, Falls, EndsUnheard
    <3>3. ~Waiting => Wakes(session, core)
      BY DEF Waiting, Wakes
    <3> QED BY <1>1, <2>1, <3>1, <3>2, <3>3 DEF Called, Wakes
  <2>2. CASE session.active = t
    <3>1. tasks[t].phase # "cancelled" /\ t # session.lastTerminal
      BY <1>4, <2>2 DEF Scheduling
    <3> QED BY <1>1, <1>3, <2>2, <3>1 DEF Called, Wakes
  <2> QED BY <1>3, <2>1, <2>2
<1> QED BY <1>4, <1>5, <1>6, <1>7

LEMMA InterruptReservedAlive ==
  ASSUME Secure, Alive, NEW t \in Turns, InterruptReserved(t)
  PROVE  Alive'
<1> USE DEF Alive
<1>1. /\ tasks[t].phase \in {"reserved", "preparing"} /\ tasks' = SetPhase(tasks, t, "reaped")
      /\ UNCHANGED <<core, lock, history>> /\ session.reserved = t
      /\ session'.reserved = 0 /\ session'.active = session.active
      /\ session'.lastTerminal = session.lastTerminal /\ Kept(session, session')
      /\ spent'.starts = spent.starts
      /\ replies' = replies \cup {[kind |-> "interrupted", turn |-> t]}
  BY DEF InterruptReserved, Reply, Spend, Secure, Sound, Typed, Sessions, Spendings, Kept
<1>2. \A u \in Turns : tasks'[u].phase = IF u = t THEN "reaped" ELSE tasks[u].phase
  BY <1>1, PhaseOf DEF Secure, Sound
<1>3. Counted'
  BY <1>1, <1>2, CountedOn
<1>4. Known'
  <2>1. \A u \in Turns : /\ Begun(u) => Begun(u)'
                         /\ tasks[u].phase \notin Unbegun => tasks'[u].phase \notin Unbegun
                         /\ IsReaped(u) => IsReaped(u)'
    BY <1>1, <1>2 DEF Begun, IsReaped, Unbegun
  <2>2. \A q \in replies' : q.kind = "interrupted" => q \in replies \/ IsReaped(q.turn)'
    BY <1>1, <1>2 DEF IsReaped
  <2>3. core.unheard => core.last # 0
    BY DEF Known
  <2>4. lock.holder = "interrupt" => lock.turn # 0
    BY DEF Known
  <2> QED BY <1>1, <2>1, <2>2, <2>3, <2>4, KnownFrame
<1>5. Scheduling'
  BY <1>1 DEF Scheduling, Unbegun
<1>6. Pending'
  <2>1. \A q \in replies' : Offers(q) => q \in replies
    BY <1>1 DEF Offers
  <2> QED BY <1>1, <2>1, Counts DEF Pending
<1>7. Called'
  <2>1. PICK q : q = [kind |-> "interrupted", turn |-> t]
    OBVIOUS
  <2>2. q \in replies' /\ q.kind = "interrupted"
    BY <1>1, <2>1
  <2> QED BY <2>2 DEF Called
<1> QED BY <1>3, <1>4, <1>5, <1>6, <1>7

LEMMA ContributeAlive ==
  ASSUME Secure, Alive, NEW t \in Turns, Contribute(t)
  PROVE  Alive'
<1> USE DEF Alive
<1>1. /\ tasks[t].phase = "context" /\ tasks[t].key # None
      /\ UNCHANGED <<core, lock, replies, spent>>
      /\ session \in Sessions /\ core \in Cores /\ t # 0
  BY Counts DEF Contribute, Secure, Sound, Typed, Keyed
<1>2. PICK ph \in {"failed", "over", "due"} :
        /\ tasks' = SetPhase(tasks, t, ph)
        /\ \/ ph = "failed" /\ session' = session
           \/ core.active = 0 /\ session' = Heard(session, core, tasks')
        /\ ph = "over" => session.kind[tasks[t].key] = "context"
  BY Zenon DEF Contribute
<1>3. /\ Kept(session, session')
      /\ (ph = "failed" /\ session' = session) \/ Reconciles(session, session')
      /\ session'.lastTerminal \in {session.lastTerminal, core.last, t}
  <2>1. CASE ph = "failed" /\ session' = session
    BY <2>1 DEF Kept
  <2>2. CASE core.active = 0 /\ session' = Heard(session, core, tasks')
    <3>1. PICK p : p = tasks'
      OBVIOUS
    <3>2. core.active = 0 /\ session' = Heard(session, core, p)
      BY <2>2, <3>1
    <3> QED BY <1>1, <3>2, HeardEffect, HeardKept
  <2> QED BY <1>2, <2>1, <2>2
<1>4. /\ Counted' /\ Known'
      /\ \A u \in Turns : /\ tasks'[u].key = tasks[u].key
                          /\ tasks'[u].phase = IF u = t THEN ph ELSE tasks[u].phase
  <2>1. ph \in Phases \ Unbegun /\ ~Begun(t)
    BY <1>1 DEF Phases, Unbegun, Begun
  <2> QED BY <1>1, <1>2, <1>3, <2>1, TaskOn
<1>5. Scheduling'
  BY <1>1, <1>3, <1>4 DEF Scheduling, Reconciles, Holds, Dropped, Phases, Unbegun
<1>6. Pending'
  <2>1. /\ session'.reserved \in {0, session.reserved}
        /\ session'.reserved # 0 => session'.active = session.active
    BY <1>3 DEF Reconciles, Holds, Dropped
  <2> QED BY <1>1, <1>4, <2>1, PendingFrame
<1>7. Called'
  <2>1. InLine(t)' \/ Falls(t)'
    BY <1>1, <1>2, <1>3, <1>4 DEF InLine, Falls, Kept
  <2> QED BY <2>1 DEF Called
<1> QED BY <1>4, <1>5, <1>6, <1>7

LEMMA FailAlive ==
  ASSUME Secure, Alive, NEW t \in Turns, Fail(t)
  PROVE  Alive'
<1> USE DEF Alive
<1>1. /\ tasks[t].phase \in {"driving", "context", "due"}
      /\ tasks' = SetPhase(tasks, t, "failed")
      /\ UNCHANGED <<session, core, lock, replies>> /\ spent'.starts = spent.starts
  BY DEF Fail, Spend, Secure, Sound, Typed, Spendings
<1>2. /\ Counted' /\ Known'
      /\ \A u \in Turns : tasks'[u].phase = IF u = t THEN "failed" ELSE tasks[u].phase
  <2>1. "failed" \in Phases \ Unbegun
    BY DEF Phases, Unbegun
  <2> QED BY <1>1, <2>1, TaskOn DEF Kept
<1>3. Scheduling'
  BY <1>1, <1>2 DEF Scheduling, Phases, Unbegun
<1>4. Pending'
  BY <1>1, <1>2, PendingFrame
<1>5. Called'
  BY <1>2 DEF Called, Falls
<1> QED BY <1>2, <1>3, <1>4, <1>5

LEMMA AcceptAlive ==
  ASSUME Secure, Alive, NEW t \in Turns, Accept(t)
  PROVE  Alive'
<1> USE DEF Alive
<1>1. /\ tasks[t].phase = "due" /\ t # 0
      /\ UNCHANGED <<session, lock, replies, spent>> /\ core \in Cores
  BY Counts DEF Accept, Secure, Sound, Typed
<1>2. PICK ph \in {"driving", "over", "failed"} :
        /\ tasks' = SetPhase(tasks, t, ph)
        /\ \/ ph = "driving" /\ core' = [core EXCEPT !.active = t, !.driver = t]
           \/ ph = "over" /\ core' = [core EXCEPT !.follow = t] /\ core.active # 0
           \/ ph = "failed" /\ core' = core
  BY Zenon DEF Accept
<1>3. /\ core'.active \in {t, core.active} /\ core'.follow \in {t, core.follow}
      /\ core'.last = core.last /\ core'.unheard = core.unheard
      /\ ph # "failed" => core'.active # 0
      /\ core.active # 0 => core'.active # 0
  BY <1>1, <1>2 DEF Cores
<1>4. \A u \in Turns : /\ tasks'[u].key = tasks[u].key
                       /\ tasks'[u].phase = IF u = t THEN ph ELSE tasks[u].phase
  BY <1>2, PhaseOf DEF Secure, Sound
<1>5. Counted'
  BY <1>1, <1>2, <1>4, CountedOn DEF Kept
<1>6. Known'
  <2>1. Begun(t)'
    BY <1>2, <1>4 DEF Begun, Phases, Unbegun
  <2>2. \A u \in Turns : /\ Begun(u) => Begun(u)'
                         /\ tasks[u].phase \notin Unbegun => tasks'[u].phase \notin Unbegun
                         /\ IsReaped(u) => IsReaped(u)'
    BY <1>1, <1>2, <1>4 DEF Begun, IsReaped, Phases, Unbegun
  <2>3. core.unheard => core.last # 0
    BY DEF Known
  <2>4. lock.holder = "interrupt" => lock.turn # 0
    BY DEF Known
  <2>5. \A u \in {core'.active, core'.follow, core'.last} :
          u \in {0, core.active, core.follow, core.last} \/ Begun(u)'
    BY <1>3, <2>1
  <2> QED BY <1>1, <1>3, <2>2, <2>3, <2>4, <2>5, KnownFrame
<1>7. Scheduling'
  BY <1>1, <1>2, <1>3, <1>4 DEF Scheduling, Phases, Unbegun
<1>8. Pending'
  BY <1>1, <1>4, PendingFrame
<1>9. Called'
  BY <1>2, <1>3, <1>4 DEF Called, Wakes, Falls
<1> QED BY <1>5, <1>6, <1>7, <1>8, <1>9

-----------------------------------------------------------------------------
\* The tasks and the core stay, and what the session counts as active.
LEMMA CalmAlive ==
  ASSUME Secure, Alive, Counted', UNCHANGED <<tasks, core>>, Holds(session, session'),
         session'.lastTerminal = session.lastTerminal,
         lock' = lock \/ lock'.holder # "interrupt",
         replies \subseteq replies',
         \A r \in replies' : r \in replies \/ r.kind = "queue",
         Called'
  PROVE  Alive'
<1> USE DEF Alive
<1>1. Known'
  <2>1. \A u \in Turns : /\ Begun(u) => Begun(u)'
                         /\ tasks[u].phase \notin Unbegun => tasks'[u].phase \notin Unbegun
                         /\ IsReaped(u) => IsReaped(u)'
    BY DEF Begun, IsReaped
  <2>2. \A r \in replies' : r.kind = "interrupted" => r \in replies
    OBVIOUS
  <2>3. core'.unheard => core'.last # 0
    BY DEF Known
  <2>4. lock'.holder = "interrupt" => lock'.turn # 0
    BY DEF Known
  <2>5. \A u \in {core'.active, core'.follow, core'.last} :
          u \in {0, core.active, core.follow, core.last}
    OBVIOUS
  <2> QED BY <2>1, <2>2, <2>3, <2>4, <2>5, KnownFrame
<1>2. Scheduling'
  BY DEF Scheduling, Holds
<1>3. Pending'
  <2>1. \A r \in replies' : Offers(r) => r \in replies
    BY DEF Offers
  <2> QED BY <2>1, PendingFrame DEF Holds
<1> QED BY <1>1, <1>2, <1>3

LEMMA WithdrawnEffect ==
  ASSUME Typed, Placed, InOrder, NEW i \in ItemIds, ~Gone(i), session' = Without(session, i)
  PROVE  /\ Holds(session, session') /\ session'.drain = session.drain
         /\ session'.lastTerminal = session.lastTerminal
         /\ session'.items = <<>> \/ session'.paused = session.paused
         /\ session.items # <<>> /\ session'.used = session.used /\ session'.kind = session.kind
         /\ session'.items \in Seq(Item) /\ Len(session'.items) <= Len(session.items)
<1>1. PICK c \in DOMAIN session.items : session.items[c].id = i
  BY DEF Gone, Positions
<1>2. session \in Sessions
  BY DEF Typed
<1>3. \A m, n \in DOMAIN session.items : m < n => session.items[m].id < session.items[n].id
  BY DEF InOrder, Ordered, Rising
<1>4. PICK w : w = Without(session, i)
  OBVIOUS
<1>5. /\ Holds(session, w) /\ w.drain = session.drain /\ w.lastTerminal = session.lastTerminal
      /\ w.items = <<>> \/ w.paused = session.paused
  BY <1>1, <1>2, <1>4, WithoutEffect
<1>6. w \in Sessions /\ w.used = session.used /\ w.kind = session.kind
  BY <1>1, <1>2, <1>4, WithoutKept
<1>7. Len(w.items) = Len(session.items) - 1
  BY <1>1, <1>2, <1>3, <1>4, WithoutRising
<1>8. Len(session.items) \in Nat /\ session.items # <<>> /\ w.items \in Seq(Item)
  BY <1>1, <1>2, <1>6 DEF Sessions
<1> QED BY <1>4, <1>5, <1>6, <1>7, <1>8

LEMMA QueueChangeAlive ==
  ASSUME Secure, Placed, InOrder, Alive,
         \/ \E k \in Keys : Enqueue(k)
         \/ \E k \in Keys, i \in ItemIds : Replace(i, k)
         \/ \E i \in ItemIds : Withdraw(i)
         \/ Resume
  PROVE  Alive'
<1>1. /\ UNCHANGED <<tasks, core, lock, spent>>
      /\ replies' = replies \cup {[kind |-> "queue", turn |-> 0]}
  BY DEF Enqueue, Replace, Withdraw, Resume, Changed, Reply
<1>2. Called'
  <2>1. PICK r : r = [kind |-> "queue", turn |-> 0]
    OBVIOUS
  <2>2. r \in replies' /\ r.kind = "queue"
    BY <1>1, <2>1
  <2> QED BY <2>2 DEF Called
<1>3. session \in Sessions
  BY DEF Secure, Sound, Typed
<1>4. /\ Holds(session, session') /\ session'.lastTerminal = session.lastTerminal
      /\ Counted'
  <2>1. CASE \E k \in Keys : Enqueue(k)
    <3>1. PICK k \in Keys : Enqueue(k)
      BY <2>1
    <3>2. Holds(session, session') /\ session'.lastTerminal = session.lastTerminal
      BY <1>3, <3>1 DEF Enqueue, Holds, Sessions
    <3> QED BY <3>1, <3>2, EnqueueCounted DEF Alive
  <2>2. CASE \E k \in Keys, i \in ItemIds : Replace(i, k)
    <3>1. PICK k \in Keys, i \in ItemIds : Replace(i, k)
      BY <2>2
    <3>2. Holds(session, session') /\ session'.lastTerminal = session.lastTerminal
      BY <1>3, <3>1 DEF Replace, Holds, Sessions
    <3> QED BY <3>1, <3>2, ReplaceCounted DEF Alive
  <2>3. CASE \E i \in ItemIds : Withdraw(i)
    <3>1. PICK i \in ItemIds : Withdraw(i)
      BY <2>3
    <3>2. session' = Without(session, i) /\ ~Gone(i)
      BY <3>1 DEF Withdraw, Gone
    <3>3. /\ Holds(session, session') /\ session'.lastTerminal = session.lastTerminal
          /\ session'.items \in Seq(Item) /\ Len(session'.items) <= Len(session.items)
          /\ session'.used = session.used
      BY <3>2, WithdrawnEffect DEF Secure, Sound
    <3> QED BY <1>1, <3>3, CountedFrame DEF Secure, Sound, Alive
  <2>4. CASE Resume
    <3>1. /\ Holds(session, session') /\ session'.lastTerminal = session.lastTerminal
          /\ Kept(session, session')
      BY <1>3, <2>4 DEF Resume, Holds, Sessions, Kept
    <3> QED BY <1>1, <3>1, CountedOn DEF Alive
  <2> QED BY <2>1, <2>2, <2>3, <2>4
<1>5. \A r \in replies' : r \in replies \/ r.kind = "queue"
  BY <1>1
<1> QED BY <1>1, <1>2, <1>4, <1>5, CalmAlive

LEMMA SteerAlive ==
  ASSUME Secure, Alive, NEW i \in ItemIds, Steer(i)
  PROVE  Alive'
<1>1. /\ UNCHANGED <<session, tasks, core, replies, spent, history>>
      /\ lock.holder = "none" /\ lock'.holder = "steer"
  BY DEF Steer, LockFree, Free
<1>2. Counted'
  BY <1>1, CountedOn DEF Alive, Kept
<1>3. Called'
  BY <1>1 DEF Alive, Called, Missed, Wakes, InLine, Falls
<1> QED BY <1>1, <1>2, <1>3, CalmAlive DEF Holds

LEMMA SubmitAlive ==
  ASSUME Secure, Placed, InOrder, Alive, Submit
  PROVE  Alive'
<1>1. /\ UNCHANGED <<tasks, core, replies>> /\ lock.holder = "steer" /\ lock' = Free
      /\ lock'.holder # "interrupt"
  BY DEF Submit, Free
<1>2. spent'.starts = spent.starts
  BY DEF Submit, Spend, Secure, Sound, Typed, Spendings
<1>3. Missed' <=> Missed
  <2>1. PICK i \in ItemIds : i = lock.item /\ ~Gone(i)
    BY DEF Submit, Secure, Steering
  <2>2. \A key, t : /\ Take(key, t).silent = history.silent
                    /\ Take(key, t).unsent = history.unsent
    BY DEF Take, Secure, Sound, Typed
  <2> QED BY <2>2 DEF Submit, Missed
<1>4. PICK i \in ItemIds : i = lock.item /\ ~Gone(i)
  BY DEF Submit, Secure, Steering
<1>5. session' = session \/ session' = Without(session, i)
  BY <1>4 DEF Submit, Retire
<1>6. /\ Holds(session, session') /\ session'.lastTerminal = session.lastTerminal
      /\ session'.kind = session.kind /\ Counted'
      /\ Wakes(session, core) => Wakes(session', core)
  <2>1. CASE session' = session
    <3>1. Counted'
      BY <1>1, <1>2, <2>1, CountedOn DEF Kept, Alive
    <3> QED BY <2>1, <3>1 DEF Holds
  <2>2. CASE session' = Without(session, i)
    <3>1. /\ Holds(session, session') /\ session'.lastTerminal = session.lastTerminal
          /\ session'.drain = session.drain /\ session'.kind = session.kind
          /\ session'.items = <<>> \/ session'.paused = session.paused
          /\ session.items # <<>> /\ session'.used = session.used
          /\ session'.items \in Seq(Item) /\ Len(session'.items) <= Len(session.items)
      BY <1>4, <2>2, WithdrawnEffect DEF Secure, Sound
    <3>2. Counted'
      BY <1>1, <1>2, <3>1, CountedFrame DEF Secure, Sound, Alive
    <3>3. Wakes(session, core) => Wakes(session', core)
      BY <3>1 DEF Wakes, Holds
    <3> QED BY <3>1, <3>2, <3>3
  <2> QED BY <1>5, <2>1, <2>2
<1>7. Called'
  <2>1. \A t \in Turns : (InLine(t) \/ Falls(t)) => (InLine(t) \/ Falls(t))'
    BY <1>1, <1>6 DEF InLine, Falls
  <2>2. Wakes(session, core) => Wakes(session', core')
    BY <1>1, <1>6
  <2> QED BY <1>1, <1>3, <2>1, <2>2 DEF Alive, Called
<1> QED BY <1>1, <1>6, <1>7, CalmAlive

LEMMA DrainAlive ==
  ASSUME Secure, Placed, InOrder, Alive, Drain
  PROVE  Alive'
<1>1. UNCHANGED <<core, lock, replies, spent>> /\ Counted'
  BY DrainCounted DEF Drain, Alive
<1>2. session'.lastTerminal = session.lastTerminal
  BY DrainEffect
<1>3. CASE Idles
  <2>1. Called'
    BY <1>1, <1>3 DEF Called, Idles
  <2> QED BY <1>1, <1>2, <1>3, <2>1, CalmAlive DEF Idles
<1>4. ASSUME NEW n \in Nat, NEW ph \in {"context", "due"}, Drains(n, ph)
      PROVE  Alive'
  <2> USE DEF Secure, Sound, Alive
  <2>1. n = NewTurn /\ n \in Turns
    BY <1>4, RoomForTurn DEF Drains
  <2>2. tasks[n].phase = "none" /\ n # 0
    BY <2>1, NewTurnFresh, Counts
  <2>3. /\ session'.reserved = n /\ session'.active = n
        /\ \A u \in Turns : tasks'[u].phase = IF u = n THEN ph ELSE tasks[u].phase
    BY <1>4 DEF Drains
  <2>4. Known'
    <3>1. \A u \in Turns : /\ Begun(u) => Begun(u)'
                           /\ tasks[u].phase \notin Unbegun => tasks'[u].phase \notin Unbegun
                           /\ IsReaped(u) => IsReaped(u)'
      BY <2>2, <2>3 DEF Begun, IsReaped, Unbegun
    <3>2. core.unheard => core.last # 0
      BY DEF Known
    <3>3. lock.holder = "interrupt" => lock.turn # 0
      BY DEF Known
    <3>4. \A u \in {core'.active, core'.follow, core'.last} :
            u \in {0, core.active, core.follow, core.last}
      BY <1>1
    <3> QED BY <1>1, <1>2, <3>1, <3>2, <3>3, <3>4, KnownFrame
  <2>5. Scheduling'
    <3>1. n # session.lastTerminal
      BY <2>2 DEF Known, Unbegun
    <3>2. ph \in Phases \ (Unbegun \cup {"cancelled", "reaped"}) /\ ph \notin {"driving", "over"}
      BY DEF Phases, Unbegun
    <3> QED BY <1>1, <1>2, <2>1, <2>3, <3>1, <3>2 DEF Scheduling
  <2>6. Pending'
    <3>1. \A q \in replies : Offers(q) => q.turn \in Turns /\ q.turn # n
      BY <2>2 DEF Awaiting, Starting, Untouched, Offers, Pending
    <3> QED BY <1>1, <2>3, <3>1 DEF Pending
  <2>7. Called'
    BY <2>2, <2>3 DEF Called, Wakes
  <2> QED BY <1>1, <2>4, <2>5, <2>6, <2>7
<1> QED BY <1>3, <1>4, DrainEffect

LEMMA EndedAlive ==
  ASSUME Secure, Alive, core.active # 0, NEW outcome, core' = Ended(outcome),
         UNCHANGED <<session, tasks, replies, spent, history>>,
         lock' = lock \/ lock'.holder # "interrupt"
  PROVE  Alive'
<1> USE DEF Alive
<1>1. /\ core'.active \in {0, core.follow} /\ core'.follow = 0 /\ core'.last = core.active
      /\ core'.unheard
  BY DEF Ended, Secure, Sound, Typed, Cores
<1>2. Counted'
  BY CountedOn DEF Kept
<1>3. Known'
  <2>1. \A u \in Turns : /\ Begun(u) => Begun(u)'
                         /\ tasks[u].phase \notin Unbegun => tasks'[u].phase \notin Unbegun
                         /\ IsReaped(u) => IsReaped(u)'
    BY DEF Begun, IsReaped
  <2>2. core'.unheard => core'.last # 0
    BY <1>1
  <2>3. lock'.holder = "interrupt" => lock'.turn # 0
    BY DEF Known
  <2>4. \A u \in {core'.active, core'.follow, core'.last} :
          u \in {0, core.active, core.follow, core.last}
    BY <1>1
  <2> QED BY <2>1, <2>2, <2>3, <2>4, KnownFrame
<1>4. Scheduling'
  BY <1>1 DEF Scheduling
<1>5. Pending'
  BY PendingFrame
<1>6. Called'
  BY <1>1 DEF Called
<1> QED BY <1>2, <1>3, <1>4, <1>5, <1>6

LEMMA InterruptCoreAlive ==
  ASSUME Secure, Alive, InterruptCore
  PROVE  Alive'
<1>1. /\ lock.holder = "interrupt" /\ UNCHANGED <<session, tasks, replies, spent>>
  BY DEF InterruptCore
<1>2. CASE /\ core.active = lock.turn /\ core' = Ended("interrupted")
           /\ lock' = [lock EXCEPT !.holder = "hearing"] /\ UNCHANGED history
  <2>1. core.active # 0
    BY <1>1, <1>2 DEF Alive, Known
  <2>2. lock'.holder # "interrupt"
    BY <1>2 DEF Secure, Sound, Typed, Locks
  <2> QED BY <1>1, <1>2, <2>1, <2>2, EndedAlive
<1>3. CASE /\ lock' = Free /\ UNCHANGED core
           /\ history' = [history EXCEPT !.silent =
                            @ \/ (core.last # lock.turn /\ Waiting)]
  <2>1. lock'.holder # "interrupt"
    BY <1>3 DEF Free
  <2>2. Missed' <=> Missed \/ (core.last # lock.turn /\ Waiting)
    BY <1>3 DEF Secure, Sound, Typed, Missed
  <2>5. ~Waiting => Wakes(session, core)
    BY DEF Waiting, Wakes
  <2>3. Counted'
    BY <1>1, CountedOn DEF Kept, Alive
  <2>4. Called'
    BY <1>1, <1>3, <2>2, <2>5 DEF Alive, Called, Wakes, InLine, Falls
  <2> QED BY <1>1, <1>3, <2>1, <2>3, <2>4, CalmAlive DEF Holds
<1> QED BY <1>2, <1>3 DEF InterruptCore

\* The session hears of the core's turns.
LEMMA HeardOn ==
  ASSUME Secure, Alive, session' = Heard(session, core, tasks),
         UNCHANGED <<tasks, replies>>, spent'.starts = spent.starts,
         core'.active = core.active, core'.follow = core.follow, core'.last = core.last,
         core'.unheard => core.unheard,
         lock' = lock \/ lock'.holder # "interrupt"
  PROVE  /\ Counted' /\ Known' /\ Scheduling' /\ Pending' /\ Kept(session, session')
<1> USE DEF Alive
<1>1. session \in Sessions /\ core \in Cores
  BY DEF Secure, Sound, Typed
<1>2. /\ Kept(session, session')
      /\ (session' = session /\ core.active # 0) \/ Reconciles(session, session')
      /\ session'.lastTerminal \in {session.lastTerminal, core.last}
  BY <1>1, HeardEffect, HeardKept
<1>3. Counted'
  BY <1>2, CountedOn
<1>4. Known'
  <2>1. \A u \in Turns : /\ Begun(u) => Begun(u)'
                         /\ tasks[u].phase \notin Unbegun => tasks'[u].phase \notin Unbegun
                         /\ IsReaped(u) => IsReaped(u)'
    BY DEF Begun, IsReaped
  <2>2. core'.unheard => core'.last # 0
    BY DEF Known
  <2>3. lock'.holder = "interrupt" => lock'.turn # 0
    BY DEF Known
  <2>4. \A u \in {core'.active, core'.follow, core'.last} :
          u \in {0, core.active, core.follow, core.last}
    OBVIOUS
  <2>5. \/ session'.lastTerminal \in {0, session.lastTerminal}
        \/ /\ session'.lastTerminal \in Turns
           /\ tasks'[session'.lastTerminal].phase \notin Unbegun
    BY <1>2 DEF Known, Begun
  <2>6. \A r \in replies' : r.kind = "interrupted" => r \in replies
    OBVIOUS
  <2> QED BY <2>1, <2>2, <2>3, <2>4, <2>5, <2>6, KnownFrame
<1>5. Scheduling'
  BY <1>2 DEF Scheduling, Reconciles, Holds, Dropped
<1>6. Pending'
  <2>1. /\ session'.reserved \in {0, session.reserved}
        /\ session'.reserved # 0 => session'.active = session.active
    BY <1>2 DEF Reconciles, Holds, Dropped
  <2> QED BY <2>1, PendingFrame
<1> QED BY <1>2, <1>3, <1>4, <1>5, <1>6

LEMMA HearAlive ==
  ASSUME Secure, Alive, Hear
  PROVE  Alive'
<1>1. /\ core.unheard /\ session' = Heard(session, core, tasks)
      /\ UNCHANGED <<tasks, replies, spent>>
      /\ session \in Sessions /\ core \in Cores
  BY DEF Hear, Secure, Sound, Typed
<1>2. /\ core'.active = core.active /\ core'.follow = core.follow /\ core'.last = core.last
      /\ core'.unheard = FALSE
  BY <1>1 DEF Hear, Cores
<1>3. lock' = lock \/ lock'.holder # "interrupt"
  BY DEF Hear, Free
<1>4. Counted' /\ Known' /\ Scheduling' /\ Pending' /\ Kept(session, session')
  BY <1>1, <1>2, <1>3, HeardOn
<1>5. Missed' <=> Missed \/ (core.active = 0 /\ core.last = session.lastTerminal /\ Waiting)
  BY DEF Hear, Secure, Sound, Typed, Missed
<1>6. Called'
  <2>1. CASE core.active # 0
    BY <1>2, <2>1 DEF Called, Wakes
  <2>2. CASE core.active = 0
    <3>1. core.last # 0
      BY <1>1 DEF Alive, Known
    <3>2. core.last # session.lastTerminal => Wakes(session', core)
      BY <1>1, <2>2, <3>1, HeardEffect
    <3>3. ~Waiting => Wakes(session', core)
      <4>1. Follows(session, session')
        BY <1>1, HeardEffect
      <4> QED BY <4>1 DEF Waiting, Wakes, Follows
    <3> QED BY <1>2, <1>5, <2>2, <3>2, <3>3 DEF Called, Wakes
  <2> QED BY <2>1, <2>2
<1> QED BY <1>4, <1>6 DEF Alive

LEMMA NewsAlive ==
  ASSUME Secure, Alive, News
  PROVE  Alive'
<1>1. /\ ~core.unheard /\ session' = Heard(session, core, tasks)
      /\ UNCHANGED <<tasks, core, replies, lock, history>>
      /\ session \in Sessions /\ core \in Cores /\ spent'.starts = spent.starts
  BY DEF News, RuntimeFree, Spend, Secure, Sound, Typed, Spendings
<1>2. Counted' /\ Known' /\ Scheduling' /\ Pending' /\ Kept(session, session')
  BY <1>1, HeardOn
<1>3. /\ Follows(session, session')
      /\ core.active = 0 => Reconciles(session, session')
      /\ core.active # 0 => session' = session
  BY <1>1, HeardEffect
<1>4. Called'
  <2>1. \A u \in Turns : (InLine(u) \/ Falls(u)) => (InLine(u) \/ Falls(u))'
    BY <1>1, <1>2 DEF InLine, Falls, Kept
  <2>2. CASE Holds(session, session')
    BY <1>1, <1>3, <2>1, <2>2 DEF Alive, Called, Missed, Wakes, Follows, Holds
  <2>3. CASE core.active = 0 /\ session.active # 0
    <3>1. PICK a \in Turns : a = session.active
      BY <2>3 DEF Alive, Scheduling
    <3>2. InLine(a) \/ Falls(a)
      BY <1>1, <2>3, <3>1 DEF Alive, Scheduling, InLine, Falls, Phases, Unbegun
    <3> QED BY <2>1, <3>2 DEF Called
  <2> QED BY <1>3, <2>2, <2>3 DEF Reconciles, Holds
<1> QED BY <1>2, <1>4 DEF Alive

LEMMA InterruptRunningAlive ==
  ASSUME Secure, Alive, InterruptRunning
  PROVE  Alive'
<1> USE DEF Alive
<1>1. PICK t : t = RunningOrScheduled(session, core, tasks)
  OBVIOUS
<1>2. PICK a : a = session.active
  OBVIOUS
<1>3. /\ t # 0 /\ UNCHANGED <<core, replies, history>>
      /\ session'.reserved = 0 /\ session'.active = 0
      /\ session'.lastTerminal = session.lastTerminal /\ Kept(session, session')
      /\ lock' = [holder |-> "interrupt", turn |-> t, item |-> 0]
      /\ spent'.starts = spent.starts
      /\ \/ TaskRuns(session, tasks) /\ tasks' = SetPhase(tasks, a, "cancelled")
         \/ tasks' = tasks
  BY <1>1, <1>2 DEF InterruptRunning, Spend, Secure, Sound, Typed, Sessions, Spendings, Kept
<1>4. lock'.holder = "interrupt" /\ lock'.turn = t
  BY <1>3
<1>5. TaskRuns(session, tasks) =>
        /\ a \in Turns /\ session.reserved = a
        /\ tasks[a].phase \in {"context", "due", "driving"}
        /\ tasks[a].phase = "driving" => core.active # 0 \/ core.unheard
  BY <1>2 DEF TaskRuns, Scheduling, Unfinished, Unbegun
<1>6. \A u \in Turns :
        \/ tasks'[u].phase = tasks[u].phase
        \/ tasks[u].phase \in {"context", "due", "driving"} /\ tasks'[u].phase = "cancelled"
  <2>1. CASE TaskRuns(session, tasks) /\ tasks' = SetPhase(tasks, a, "cancelled")
    BY <1>5, <2>1, PhaseOf DEF Secure, Sound
  <2> QED BY <1>3, <2>1
<1>7. Counted'
  BY <1>3, <1>6, CountedOn
<1>8. Known'
  <2>1. \A u \in Turns : /\ Begun(u) => Begun(u)'
                         /\ tasks[u].phase \notin Unbegun => tasks'[u].phase \notin Unbegun
                         /\ IsReaped(u) => IsReaped(u)'
    BY <1>6 DEF Begun, IsReaped, Phases, Unbegun
  <2>2. core.unheard => core.last # 0
    BY DEF Known
  <2>3. \A u \in {core'.active, core'.follow, core'.last} :
          u \in {0, core.active, core.follow, core.last}
    BY <1>3
  <2> QED BY <1>3, <1>4, <2>1, <2>2, <2>3, KnownFrame
<1>9. Scheduling'
  BY <1>3 DEF Scheduling
<1>10. Pending'
  BY <1>3, <1>6, Counts, PendingFrame
<1>11. Called'
  <2>1. CASE core.active # 0
    BY <1>3, <2>1 DEF Called, Wakes
  <2>2. CASE core.active = 0
    <3>1. TaskRuns(session, tasks) /\ t = a
      BY <1>1, <1>2, <1>3, <1>5, <2>2 DEF RunningOrScheduled
    <3>2. CASE tasks[a].phase = "driving"
      BY <1>3, <1>5, <2>2, <3>1, <3>2 DEF Called
    <3>3. CASE tasks[a].phase \in {"context", "due"}
      <4>1. core.last # t
        BY <1>3, <3>1, <3>3 DEF Known, Begun
      <4> QED BY <1>3, <1>4, <4>1 DEF Called
    <3> QED BY <1>5, <3>1, <3>2, <3>3
  <2> QED BY <2>1, <2>2
<1> QED BY <1>7, <1>8, <1>9, <1>10, <1>11

LEMMA StutterAlive ==
  ASSUME Secure, Alive, AwaitRuntime \/ UNCHANGED vars
  PROVE  Alive'
<1>1. UNCHANGED <<session, tasks, core, lock, replies, spent, history>>
  BY DEF vars, AwaitRuntime
<1>2. Counted'
  BY <1>1, CountedOn DEF Alive, Kept
<1>3. Called'
  BY <1>1 DEF Alive, Called, Missed, Wakes, InLine, Falls
<1> QED BY <1>1, <1>2, <1>3, CalmAlive DEF Holds

LEMMA InitAlive == Init => Alive
<1> SUFFICES ASSUME Init PROVE Alive
  OBVIOUS
<1>1. /\ session.items = <<>> /\ session.reserved = 0 /\ session.active = 0
      /\ session.lastTerminal = 0 /\ session.used = [k \in Keys |-> 0]
      /\ tasks = [t \in Turns |-> [phase |-> "none", key |-> None]]
      /\ core.active = 0 /\ core.follow = 0 /\ core.last = 0 /\ core.unheard = FALSE
      /\ replies = {} /\ lock.holder = "none" /\ spent.starts = 0
  BY DEF Init, Free
<1>2. Counted
  <2>1. {t \in Turns : tasks[t].phase # "none"} = {} /\ {k \in Keys : session.used[k] # 0} = {}
    BY <1>1
  <2>2. NewTurn = 1 + Cardinality({}) /\ NextItem = 1 + Cardinality({})
    BY <2>1, Zenon DEF NewTurn, NextItem
  <2>3. NewTurn = 1 /\ NextItem = 1
    BY <2>2, FS_EmptySet
  <2> QED BY <1>1, <2>3, BoundAssumption DEF Counted
<1>3. Known /\ Scheduling /\ Pending
  BY <1>1 DEF Known, Scheduling, Pending
<1>4. Called
  BY <1>1 DEF Called, Wakes
<1> QED BY <1>2, <1>3, <1>4 DEF Alive

LEMMA RequestsAlive ==
  ASSUME Secure, Placed, InOrder, Alive, Requests
  PROVE  Alive'
<1>1. \/ \E k \in Keys : Enqueue(k)
      \/ \E k \in Keys, i \in ItemIds : Replace(i, k)
      \/ \E i \in ItemIds : Withdraw(i)
      \/ Resume
      \/ \E kind \in {"start", "deferred"} : Start(kind)
      \/ \E i \in ItemIds : Steer(i)
      \/ InterruptRunning
      \/ \E t \in Turns : InterruptReserved(t)
  BY Zenon DEF Requests
<1> QED BY <1>1, QueueChangeAlive, StartAlive, SteerAlive, InterruptRunningAlive,
           InterruptReservedAlive, Zenon

LEMMA DisturbancesAlive ==
  ASSUME Secure, Alive, Disturbances
  PROVE  Alive'
BY NewsAlive, FailAlive, RespondAlive, Zenon DEF Disturbances

LEMMA EndAlive ==
  ASSUME Secure, Alive, NEW outcome, End(outcome)
  PROVE  Alive'
BY EndedAlive DEF End

LEMMA LoopAlive ==
  ASSUME Secure, Placed, InOrder, Alive, Loop
  PROVE  Alive'
BY RespondAlive, DrainAlive, SubmitAlive, StutterAlive, InterruptCoreAlive, HearAlive, PrepareAlive,
   ContributeAlive, AcceptAlive, FinishAlive, ReapAlive, EndAlive, Zenon DEF Loop

LEMMA AliveHolds == Spec => [](Secure /\ Alive)
<1>1. Secure /\ Placed /\ InOrder /\ Alive /\ [Next]_vars => Alive'
  <2> SUFFICES ASSUME Secure, Placed, InOrder, Alive, [Next]_vars PROVE Alive'
    OBVIOUS
  <2>1. CASE UNCHANGED vars
    BY <2>1, StutterAlive
  <2>2. CASE Next
    BY <2>2, RequestsAlive, DisturbancesAlive, LoopAlive DEF Next
  <2> QED BY <2>1, <2>2
<1> QED BY PlacedHolds, InOrderHolds, InitAlive, <1>1, PTL DEF Spec

(* No prompt and no reservation is left with nothing to move it: whatever  *)
(* is interrupted, fails, is abandoned or is heard late in _session.py, a  *)
(* session at rest holds no turn back, and a prompt that waits does so in  *)
(* a paused queue, or because a call was missed since the queue was last   *)
(* drained: an end the session never heard, or a response not sent.        *)
THEOREM NothingForgottenHolds == Spec => []NothingForgotten
<1>1. Secure /\ Alive => NothingForgotten
  <2> SUFFICES ASSUME Secure, Alive, AtRest
               PROVE  /\ session.reserved = 0
                      /\ session.items = <<>> \/ session.paused \/ Missed
    BY DEF NothingForgotten, Missed
  <2>1. /\ core.active = 0 /\ ~core.unheard /\ lock.holder = "none"
        /\ replies = {} /\ session.drain = FALSE
        /\ \A t \in Turns : tasks[t].phase \in {"none", "reserved", "reaped"}
    BY DEF AtRest, RuntimeFree, LockFree, Free, Secure, Sound, Typed, Sessions
  <2>2. session.active = 0
    BY <2>1 DEF Alive, Scheduling, Unbegun
  <2>3. session.reserved = 0
    BY <2>1, <2>2 DEF Alive, Pending
  <2>4. session.items = <<>> \/ session.paused \/ Missed
    BY <2>1, <2>3 DEF Alive, Called, Wakes, InLine, Falls
  <2> QED BY <2>3, <2>4
<1> QED BY AliveHolds, <1>1, PTL
=============================================================================
