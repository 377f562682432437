--------------------------- MODULE TurnEngineProofs ---------------------------
(***************************************************************************)
(* Theorems about TurnEngine, for every value of its constants.            *)
(*                                                                         *)
(* The engine is built from operators on states, and so are the proofs:    *)
(* one lemma per operator says what it keeps, and one step per action of   *)
(* Next cites them, in three passes.  The first keeps Sound: the types,    *)
(* the ids of completions and the iterations left.  The second             *)
(* rests on it and keeps Steady: the order of turns, what is ready for the *)
(* model, and that a phase agrees with its turn; and it says how each step *)
(* moves the turn, from which the action properties and the refinement of  *)
(* TurnLifecycle follow.  The third keeps Filed: where the transcript has  *)
(* the steering, the notices and the results of tool calls, however it is  *)
(* compacted and whatever ends a turn.  The last section follows a turn    *)
(* from answer to answer: each takes it further.                           *)
(***************************************************************************)
EXTENDS TurnEngine, FiniteSetTheorems, SequenceTheorems, TLAPS

-----------------------------------------------------------------------------
(* The inductive invariant.                                                *)

Precedes(a, b) == a[1] < b[1] \/ (a[1] = b[1] /\ a[2] < b[2])

(* No id issued so far lies beyond the one the state would issue next.     *)
NoneBeyond(s) ==
    \A i \in DOMAIN s.issued : ~Precedes(NextCompletionId(s), s.issued[i])

(* The id the state would issue next is new.                               *)
NextIsNew(s) ==
    \A i \in DOMAIN s.issued : Precedes(s.issued[i], NextCompletionId(s))

(* Every id issued so far belongs to the context before the compaction.    *)
AllBeforeCompaction(s) ==
    \A i \in DOMAIN s.issued : s.issued[i][1] < s.compactions

Settled(s) == s \in State /\ DistinctIds(s) /\ NoneBeyond(s)

Sound(s) ==
    /\ Settled(s)
    /\ IsCompacting(s) => AllBeforeCompaction(s)
    /\ HasBudget(s)

IInv == Sound(core)

-----------------------------------------------------------------------------
(* Types of messages and turns.                                            *)

(* A turn that is active is one of ActiveTurns.                            *)
LEMMA ActiveTurn ==
    ASSUME NEW s \in State, IsActive(s)
    PROVE  s.turn \in ActiveTurns
BY DEF State, IsActive, Turns, RestingTurns, CompactingTurns, ActiveTurns, Idle

(* The messages made of a sequence of user messages.                       *)
LEMMA UsersType ==
    ASSUME NEW msgs \in Seq(Nat)
    PROVE  Users(msgs) \in Seq(Message) /\ Len(Users(msgs)) = Len(msgs)
<1>1. DOMAIN msgs = 1..Len(msgs) /\ Len(msgs) \in Nat
  OBVIOUS
<1>2. \A i \in 1..Len(msgs) : User(msgs[i]) \in Message
  BY <1>1 DEF User, Message
<1>3. Users(msgs) = [i \in 1..Len(msgs) |-> User(msgs[i])]
  BY <1>1 DEF Users
<1> QED
  BY <1>1, <1>2, <1>3

(* The results of a batch are one message per call.                        *)
LEMMA ToolResultsType ==
    ASSUME NEW list \in Seq(Calls)
    PROVE  ToolResults(list) \in Seq(Message) /\ Len(ToolResults(list)) = Len(list)
<1>1. DOMAIN list = 1..Len(list) /\ Len(list) \in Nat
  OBVIOUS
<1>2. \A i \in 1..Len(list) : [kind |-> "tool", ids |-> {list[i]}] \in Message
  BY <1>1 DEF Message
<1>3. ToolResults(list) = [i \in 1..Len(list) |-> [kind |-> "tool", ids |-> {list[i]}]]
  BY <1>1 DEF ToolResults
<1> QED
  BY <1>1, <1>2, <1>3

(* A list of calls is a sequence of calls.                                 *)
LEMMA CallSeqsType ==
    ASSUME NEW list \in CallSeqs
    PROVE  list \in Seq(Calls)
<1>1. \A each \in CallLists : each \in Seq(Calls)
  BY CallAssumption
<1>2. <<>> \in Seq(Calls)
  OBVIOUS
<1> QED
  BY <1>1, <1>2 DEF CallSeqs

(* The assistant message of a completion is a message.                     *)
LEMMA AssistantMessageType ==
    ASSUME NEW list \in CallSeqs
    PROVE  AssistantMessage(list) \in Message
<1>1. ToSet(list) \in SUBSET Calls
  BY CallSeqsType DEF ToSet
<1> QED
  BY <1>1 DEF AssistantMessage, Message, Note

(* What a state would inject as late input is a sequence of messages.      *)
LEMMA LateInputType ==
    ASSUME NEW s \in State, IsActive(s)
    PROVE  LateInput(s) \in Seq(Message)
<1>1. Users(s.turn.steer) \in Seq(Message)
  BY ActiveTurn, UsersType DEF ActiveTurns
<1>2. ToSet(s.pending) \in SUBSET Notifications
  BY DEF State, ToSet
<1>3. [kind |-> "notice", ids |-> ToSet(s.pending)] \in Message
  BY <1>2 DEF Message
<1>4. ReadyNotice(s) \in Seq(Message)
  BY <1>3 DEF ReadyNotice
<1> QED
  BY <1>1, <1>4 DEF LateInput

(* A state that issues nothing, and keeps its context or counts a          *)
(* compaction, keeps the facts about issued ids.                           *)
LEMMA SettledKept ==
    ASSUME NEW s, Settled(s), NEW t \in State,
           t.issued = s.issued,
           \/ t.compactions = s.compactions /\ Len(t.context) >= Len(s.context)
           \/ t.compactions > s.compactions
    PROVE  Settled(t)
<1>1. s.issued \in Seq(CompletionIds) /\ s.compactions \in Nat /\ t.compactions \in Nat
      /\ Len(s.context) \in Nat /\ Len(t.context) \in Nat
  BY SMTT(30) DEF Settled, State
<1>2. \A i \in DOMAIN s.issued : s.issued[i][1] \in Nat /\ s.issued[i][2] \in Nat
  BY <1>1, SMTT(30) DEF CompletionIds
<1> QED
  BY <1>1, <1>2, SMTT(30) DEF Settled, DistinctIds, NoneBeyond, Precedes, NextCompletionId

(* A longer context, at the same compaction, has a new id to issue.        *)
LEMMA GrownIsNew ==
    ASSUME NEW s, Settled(s), NEW t \in State,
           t.issued = s.issued, t.compactions = s.compactions,
           Len(t.context) > Len(s.context)
    PROVE  NextIsNew(t)
<1>1. s.issued \in Seq(CompletionIds) /\ s.compactions \in Nat
      /\ Len(s.context) \in Nat /\ Len(t.context) \in Nat
  BY SMTT(30) DEF Settled, State
<1>2. \A i \in DOMAIN s.issued : s.issued[i][1] \in Nat /\ s.issued[i][2] \in Nat
  BY <1>1, SMTT(30) DEF CompletionIds
<1> QED
  BY <1>1, <1>2 DEF Settled, NoneBeyond, NextIsNew, Precedes, NextCompletionId

-----------------------------------------------------------------------------
(* The operators, from the last called to the first.                       *)

(* Finishing a turn.                                                       *)
LEMMA FinishTurnSound ==
    ASSUME NEW s, Settled(s), IsActive(s), NEW outcome \in Outcomes
    PROVE  /\ Sound(FinishTurn(s, outcome))
           /\ Resting(FinishTurn(s, outcome))
<1> DEFINE t == FinishTurn(s, outcome)
<1>1. s \in State /\ s.turn \in ActiveTurns
  BY ActiveTurn DEF Settled
<1>2. Users(s.turn.steer) \in Seq(Message) /\ s.turn.id \in Nat
  BY <1>1, UsersType DEF ActiveTurns
<1>3. Terminal(s.turn.id, outcome) \in Turns
  BY <1>2 DEF Terminal, Turns, RestingTurns
<1>4. /\ s.context \o Users(s.turn.steer) \in Seq(Message)
      /\ Len(s.context \o Users(s.turn.steer)) >= Len(s.context)
  BY <1>1, <1>2 DEF State
<1>5. t \in State
  BY <1>1, <1>2, <1>3, <1>4 DEF State, FinishTurn
<1>6. /\ t.issued = s.issued /\ t.compactions = s.compactions
      /\ Len(t.context) >= Len(s.context)
      /\ t.turn.kind = "Terminal"
  BY <1>1, <1>4 DEF State, FinishTurn, Terminal
<1>7. Settled(t)
  BY <1>5, <1>6, SettledKept
<1> QED
  BY <1>6, <1>7 DEF Sound, IsCompacting, InPhase, IsActive, HasBudget, Resting

(* Counting a compaction puts every id issued so far behind it.            *)
LEMMA CountCompactionSound ==
    ASSUME NEW s, Settled(s)
    PROVE  /\ Settled(CountCompaction(s))
           /\ AllBeforeCompaction(CountCompaction(s))
           /\ CountCompaction(s).turn = s.turn
<1> DEFINE t == CountCompaction(s)
<1>1. s \in State /\ s.compactions \in Nat /\ s.issued \in Seq(CompletionIds)
      /\ Len(s.context) \in Nat
  BY DEF Settled, State
<1>2. t \in State
  <2>1. s.compactions + 1 \in Nat
    BY <1>1
  <2> QED
    BY <1>1, <2>1 DEF State, CountCompaction
<1>3. /\ t.issued = s.issued /\ t.compactions = s.compactions + 1
      /\ t.turn = s.turn /\ t.context = s.context
  BY <1>1 DEF State, CountCompaction
<1>4. Settled(t)
  BY <1>1, <1>2, <1>3, SettledKept
<1>5. \A i \in DOMAIN s.issued : s.issued[i][1] \in Nat /\ s.issued[i][2] \in Nat
  BY <1>1 DEF CompletionIds
<1>6. AllBeforeCompaction(t)
  BY <1>1, <1>3, <1>5
     DEF Settled, NoneBeyond, Precedes, NextCompletionId, AllBeforeCompaction
<1> QED
  BY <1>3, <1>4, <1>6

(* A state about to dispatch an agent completion, or its hook.             *)
Dispatching(s) ==
    /\ Settled(s)
    /\ IsActive(s)
    /\ s.turn.phase.kind \in {"AwaitingCompletion", "PreLlmCall"}
    /\ s.turn.iterations < MaxIterations

(* Late input goes to the context and leaves the turn dispatching.         *)
LEMMA TakeLateInputSound ==
    ASSUME NEW s, Dispatching(s)
    PROVE  Dispatching(TakeLateInput(s))
<1> DEFINE late == LateInput(s)
           turn == [s.turn EXCEPT !.steer = <<>>, !.ready = FALSE]
           pending == IF s.notesReady THEN <<>> ELSE s.pending
           t == [s EXCEPT !.context = s.context \o late, !.turn = turn,
                          !.pending = pending, !.notesReady = FALSE]
<1>1. s \in State /\ s.turn \in ActiveTurns /\ IsActive(s)
  BY ActiveTurn DEF Dispatching, Settled
<1>2. late \in Seq(Message)
  BY <1>1, LateInputType
<1>3. /\ turn \in Turns /\ turn.kind = "Active"
      /\ turn.phase = s.turn.phase /\ turn.iterations = s.turn.iterations
  <2>1. <<>> \in Seq(Nat)
    OBVIOUS
  <2>2. turn \in ActiveTurns
    BY <1>1, <2>1 DEF ActiveTurns
  <2>3. turn.phase = s.turn.phase /\ turn.iterations = s.turn.iterations
    BY <1>1 DEF ActiveTurns
  <2> QED
    BY <2>2, <2>3 DEF ActiveTurns, Turns
<1>4. pending \in Seq(Notifications)
  BY <1>1 DEF State
<1>5. /\ s.context \o late \in Seq(Message)
      /\ Len(s.context \o late) >= Len(s.context)
  BY <1>1, <1>2 DEF State
<1>6. t \in State
  BY <1>1, <1>3, <1>4, <1>5 DEF State
<1>7. /\ t.issued = s.issued /\ t.compactions = s.compactions
      /\ Len(t.context) >= Len(s.context) /\ t.turn = turn
  BY <1>1, <1>5 DEF State
<1>8. Settled(t)
  BY <1>6, <1>7, SettledKept DEF Dispatching
<1>9. Dispatching(t)
  BY <1>3, <1>7, <1>8 DEF Dispatching, IsActive
<1>10. TakeLateInput(s) = IF ~s.turn.ready THEN s ELSE t
  BY <1>1 DEF TakeLateInput, State, ActiveTurns
<1> QED
  BY <1>9, <1>10

(* Moving an active turn to another phase.                                 *)
LEMMA PhaseUpdate ==
    ASSUME NEW s, Settled(s), IsActive(s), NEW phase \in Phases
    PROVE  LET t == [s EXCEPT !.turn.phase = phase]
           IN  /\ Settled(t) /\ IsActive(t)
               /\ t.turn = [s.turn EXCEPT !.phase = phase]
               /\ t.turn.phase = phase
               /\ t.turn.iterations = s.turn.iterations
               /\ t.issued = s.issued /\ t.compactions = s.compactions
               /\ t.context = s.context
<1> DEFINE turn == [s.turn EXCEPT !.phase = phase]
           t == [s EXCEPT !.turn = turn]
<1>1. s \in State /\ s.turn \in ActiveTurns
  BY ActiveTurn DEF Settled
<1>2. /\ turn \in ActiveTurns /\ turn.phase = phase /\ turn.kind = "Active"
      /\ turn.iterations = s.turn.iterations
  BY <1>1 DEF ActiveTurns
<1>3. t \in State
  BY <1>1, <1>2 DEF State, Turns
<1>4. /\ t.turn = turn /\ t.issued = s.issued
      /\ t.compactions = s.compactions /\ t.context = s.context
  BY <1>1 DEF State
<1>5. Len(t.context) >= Len(s.context)
  <2>1. Len(s.context) \in Nat
    BY <1>1 DEF State
  <2> QED
    BY <1>4, <2>1
<1>6. Settled(t)
  <2> HIDE DEF t
  <2> QED
    BY <1>3, <1>4, <1>5, SettledKept
<1>7. t = [s EXCEPT !.turn.phase = phase]
  OBVIOUS
<1> QED
  BY <1>2, <1>4, <1>6, <1>7 DEF IsActive

(* The compaction check before a dispatch: the turn goes on, waits for the *)
(* compaction, or has failed.                                              *)
LEMMA PreflightSound ==
    ASSUME NEW s, Dispatching(s), NEW grown, NEW t \in Preflight(s, grown)
    PROVE  Sound(t)
<1> DEFINE counted == CountCompaction(s)
           phase == AwaitingCompaction(counted.turn, counted.compactions, 0)
<1>1. s \in State /\ s.turn \in ActiveTurns /\ Settled(s) /\ IsActive(s)
  BY ActiveTurn DEF Dispatching, Settled
<1>2. /\ Settled(counted) /\ AllBeforeCompaction(counted)
      /\ counted.turn = s.turn /\ IsActive(counted)
  BY <1>1, CountCompactionSound DEF IsActive
<1>3. CASE t = s
  BY <1>3, <1>1 DEF Dispatching, Sound, IsCompacting, InPhase, IsActive, HasBudget
<1>4. CASE t = FinishTurn(counted, "Failed")
  BY <1>4, <1>2, FinishTurnSound DEF Outcomes
<1>5. CASE t = AwaitCompaction(counted, 0)
  <2>1. phase \in Phases /\ phase.kind = "AwaitingCompaction"
    BY <1>1, <1>2 DEF Settled, State, ActiveTurns, Phases, AwaitingCompaction
  <2>2. t = [counted EXCEPT !.turn.phase = phase]
    BY <1>5 DEF AwaitCompaction
  <2>3. /\ Settled(t) /\ IsActive(t) /\ t.turn.phase = phase
        /\ t.turn.iterations = counted.turn.iterations
        /\ t.issued = counted.issued /\ t.compactions = counted.compactions
    BY <1>2, <2>1, <2>2, PhaseUpdate
  <2>4. AllBeforeCompaction(t)
    BY <1>2, <2>3 DEF AllBeforeCompaction
  <2> QED
    BY <1>2, <2>1, <2>3, <2>4 DEF Sound, HasBudget, Dispatching
<1> QED
  BY <1>3, <1>4, <1>5 DEF Preflight

(* A dispatch from a planned phase.                                        *)
LEMMA DispatchSound ==
    ASSUME NEW s, Dispatching(s), NEW grown, NEW t \in DispatchAgent(s, grown)
    PROVE  Sound(t)
<1>1. CASE s.turn.phase.kind = "AwaitingCompletion"
  <2>1. Dispatching(TakeLateInput(s))
    BY TakeLateInputSound
  <2>2. t \in Preflight(TakeLateInput(s), grown \/ LateInput(s) # <<>>)
    BY <1>1 DEF DispatchAgent
  <2> QED
    BY <2>1, <2>2, PreflightSound
<1>2. CASE s.turn.phase.kind # "AwaitingCompletion"
  <2>1. t = s
    BY <1>2 DEF DispatchAgent
  <2> QED
    BY <1>2, <2>1
       DEF Dispatching, Sound, IsCompacting, InPhase, IsActive, HasBudget
<1> QED
  BY <1>1, <1>2

(* Issuing a new id keeps the ids distinct.                                *)
LEMMA IssueSound ==
    ASSUME NEW s \in State, DistinctIds(s), NextIsNew(s)
    PROVE  /\ Settled(Issue(s))
           /\ Issue(s).turn = s.turn /\ Issue(s).hooks = s.hooks
           /\ Issue(s).context = s.context /\ Issue(s).compactions = s.compactions
<1> DEFINE id == NextCompletionId(s)
           t == Issue(s)
<1>1. /\ s.issued \in Seq(CompletionIds) /\ s.compactions \in Nat
      /\ Len(s.context) \in Nat
  BY DEF State
<1>2. id \in CompletionIds /\ id[1] \in Nat /\ id[2] \in Nat
  BY <1>1 DEF NextCompletionId, CompletionIds
<1>3. Append(s.issued, id) \in Seq(CompletionIds)
  BY <1>1, <1>2
<1>4. /\ t \in State /\ t.issued = Append(s.issued, id) /\ t.turn = s.turn
      /\ t.context = s.context /\ t.compactions = s.compactions
      /\ t.hooks = s.hooks
  BY <1>3 DEF State, Issue
<1>5. \A i \in DOMAIN s.issued : s.issued[i][1] \in Nat /\ s.issued[i][2] \in Nat
  BY <1>1 DEF CompletionIds
<1>6. \A i \in DOMAIN s.issued : Precedes(s.issued[i], id) /\ s.issued[i] # id
  BY <1>2, <1>5 DEF NextIsNew, Precedes
<1>7. /\ DOMAIN t.issued = 1..Len(s.issued)+1 /\ DOMAIN s.issued = 1..Len(s.issued)
      /\ Len(s.issued) \in Nat
      /\ \A i \in DOMAIN s.issued : t.issued[i] = s.issued[i]
      /\ t.issued[Len(s.issued)+1] = id
  BY <1>1, <1>2, <1>4
<1>8. DistinctIds(t)
  BY <1>6, <1>7 DEF DistinctIds
<1>9. NextCompletionId(t) = id
  BY <1>4 DEF NextCompletionId
<1>10. NoneBeyond(t)
  <2> SUFFICES ASSUME NEW i \in DOMAIN t.issued
               PROVE  ~Precedes(id, t.issued[i])
    BY <1>9 DEF NoneBeyond
  <2> HIDE DEF t, id
  <2>1. CASE i \in DOMAIN s.issued
    <3>1. t.issued[i] = s.issued[i]
      BY <2>1, <1>7
    <3>2. s.issued[i][1] \in Nat /\ s.issued[i][2] \in Nat
      BY <2>1, <1>5
    <3>3. Precedes(s.issued[i], id)
      BY <2>1, <1>6
    <3> QED
      BY <3>1, <3>2, <3>3, <1>2 DEF Precedes
  <2>2. CASE i = Len(s.issued) + 1
    BY <2>2, <1>2, <1>7 DEF Precedes
  <2> QED
    BY <2>1, <2>2, <1>7
<1> QED
  BY <1>4, <1>8, <1>10 DEF Settled

(* The phase a state plans is one the state can dispatch from.             *)
LEMMA PlannedPhaseType ==
    ASSUME NEW s \in State
    PROVE  /\ PlannedPhase(s) \in Phases
           /\ PlannedPhase(s).kind \in {"AwaitingCompletion", "PreLlmCall"}
<1>1. NextCompletionId(s) \in CompletionIds /\ <<>> \in CallSeqs
  BY DEF NextCompletionId, CompletionIds, State, CallSeqs
<1> QED
  BY <1>1 DEF PlannedPhase, Phases, CompletionHook, AwaitingCompletion

(* Continuing a turn that has an iteration left and a new id to issue.     *)
LEMMA ContinueSound ==
    ASSUME NEW s \in State, DistinctIds(s), NextIsNew(s), IsActive(s),
           s.turn.iterations < MaxIterations, NEW grown,
           NEW t \in ContinueActiveTurn(s, grown)
    PROVE  Sound(t)
<1> DEFINE planned == [Issue(s) EXCEPT !.turn.phase = PlannedPhase(s)]
<1>1. Settled(Issue(s)) /\ IsActive(Issue(s)) /\ Issue(s).turn = s.turn
  BY IssueSound DEF IsActive
<1>2. /\ PlannedPhase(s) \in Phases
      /\ PlannedPhase(s).kind \in {"AwaitingCompletion", "PreLlmCall"}
  BY PlannedPhaseType
<1>3. /\ Settled(planned) /\ IsActive(planned)
      /\ planned.turn.phase = PlannedPhase(s)
      /\ planned.turn.iterations = s.turn.iterations
  BY <1>1, <1>2, PhaseUpdate
<1>4. Dispatching(planned)
  BY <1>2, <1>3 DEF Dispatching
<1>5. t \in DispatchAgent(planned, grown)
  BY DEF ContinueActiveTurn
<1> QED
  BY <1>4, <1>5, DispatchSound

(* A context that is not empty after the system prompt is seeded.          *)
LEMMA AppendTurnMessagesSound ==
    ASSUME NEW s, Settled(s), NEW messages \in Seq(Message), messages # <<>>
    PROVE  LET t == AppendTurnMessages(s, messages)
           IN  /\ Settled(t) /\ NextIsNew(t) /\ t.turn = s.turn
               /\ t.hooks = s.hooks
<1> DEFINE t == AppendTurnMessages(s, messages)
           context == EnsureSystemPrompt(s.context) \o messages
<1>1. s \in State /\ s.context \in Seq(Message) /\ Len(s.context) \in Nat
  BY DEF Settled, State
<1>2. Note("system") \in Message
  BY DEF Note, Message
<1>3. /\ EnsureSystemPrompt(s.context) \in Seq(Message)
      /\ Len(EnsureSystemPrompt(s.context)) >= Len(s.context)
  BY <1>1, <1>2 DEF EnsureSystemPrompt
<1>4. context \in Seq(Message) /\ Len(context) > Len(s.context)
  BY <1>1, <1>3
<1>5. t = [s EXCEPT !.context = context]
  BY DEF AppendTurnMessages
<1>6. t \in State /\ t.context = context /\ t.turn = s.turn /\ t.issued = s.issued
      /\ t.compactions = s.compactions /\ t.hooks = s.hooks
  BY <1>1, <1>4, <1>5 DEF State
<1> HIDE DEF t, context
<1>7. Settled(t)
  BY <1>1, <1>4, <1>6, SettledKept
<1>8. NextIsNew(t)
  BY <1>4, <1>6, GrownIsNew
<1> QED
  BY <1>6, <1>7, <1>8 DEF t

(* Committing the first messages of a turn and planning its completion.    *)
LEMMA CommitTurnSound ==
    ASSUME NEW s, Settled(s), NEW id \in Nat,
           NEW messages \in Seq(Message), messages # <<>>,
           NEW t \in CommitTurn(s, id, messages)
    PROVE  Sound(t)
<1> DEFINE filled == AppendTurnMessages(s, messages)
           turn == Active(id, PlannedPhase(filled), TRUE)
           started == [Issue(filled) EXCEPT !.turn = turn]
<1>1. Settled(filled) /\ NextIsNew(filled) /\ filled \in State /\ DistinctIds(filled)
  BY AppendTurnMessagesSound DEF Settled
<1>2. /\ PlannedPhase(filled) \in Phases
      /\ PlannedPhase(filled).kind \in {"AwaitingCompletion", "PreLlmCall"}
  BY <1>1, PlannedPhaseType
<1>3. Settled(Issue(filled)) /\ Issue(filled) \in State
  BY <1>1, IssueSound DEF Settled
<1>4. /\ turn \in ActiveTurns /\ turn.kind = "Active"
      /\ turn.phase = PlannedPhase(filled) /\ turn.iterations = 0
  BY <1>2 DEF Active, ActiveTurns, Queues
<1> HIDE DEF turn
<1>5. /\ started \in State /\ started.turn = turn
      /\ started.issued = Issue(filled).issued
      /\ started.compactions = Issue(filled).compactions
      /\ started.context = Issue(filled).context
  BY <1>3, <1>4 DEF State, Turns
<1>6. Len(started.context) >= Len(Issue(filled).context)
  BY <1>3, <1>5 DEF State
<1> HIDE DEF started
<1>7. Settled(started)
  BY <1>3, <1>5, <1>6, SettledKept
<1>8. Dispatching(started)
  BY <1>2, <1>4, <1>5, <1>7, IterationAssumption DEF Dispatching, IsActive
<1>9. t \in DispatchAgent(started, TRUE)
  BY DEF CommitTurn, started, turn
<1> QED
  BY <1>8, <1>9, DispatchSound

(* Starting a turn from a session at rest, through its hook or not.        *)
LEMMA StartTurnSound ==
    ASSUME NEW s, Settled(s), Resting(s), NEW id \in Nat,
           NEW msgs \in Seq(Nat), msgs # <<>>, NEW t \in StartTurn(s, id, msgs)
    PROVE  Sound(t)
<1> DEFINE phase == PreAgentHook(id, msgs, s.turn)
           turn == Active(id, phase, FALSE)
<1>1. s \in State
  BY DEF Settled
<1>2. CASE "PreAgentTurn" \in s.hooks
  <2>1. s.turn \in RestingTurns
    BY <1>1 DEF Resting, State, Turns, RestingTurns, CompactingTurns, ActiveTurns
  <2>2. phase \in Phases /\ phase.kind = "PreAgentTurn"
    BY <2>1 DEF PreAgentHook, Phases
  <2> HIDE DEF phase
  <2>3. turn \in ActiveTurns /\ turn.kind = "Active" /\ turn.phase = phase
        /\ turn.iterations = 0
    BY <2>2 DEF Active, ActiveTurns, Queues
  <2>4. t = [s EXCEPT !.turn = turn]
    BY <1>2 DEF StartTurn, phase
  <2> HIDE DEF turn
  <2>5. t \in State /\ t.turn = turn /\ t.issued = s.issued
        /\ t.compactions = s.compactions /\ t.context = s.context
    BY <1>1, <2>3, <2>4 DEF State, Turns
  <2>6. Len(t.context) >= Len(s.context)
    BY <1>1, <2>5 DEF State
  <2>7. Settled(t)
    BY <2>5, <2>6, SettledKept
  <2> QED
    BY <2>2, <2>3, <2>5, <2>7, IterationAssumption
       DEF Sound, IsCompacting, InPhase, IsActive, HasBudget
<1>3. CASE "PreAgentTurn" \notin s.hooks
  <2>1. Users(msgs) \in Seq(Message) /\ Len(Users(msgs)) = Len(msgs)
    BY UsersType
  <2>2. Users(msgs) # <<>>
    BY <2>1
  <2>3. t \in CommitTurn(s, id, Users(msgs))
    BY <1>3 DEF StartTurn
  <2> QED
    BY <2>1, <2>2, <2>3, CommitTurnSound
<1> QED
  BY <1>2, <1>3

(* Completing a turn, with its follow-up.                                  *)
LEMMA FinishCompletedTurnSound ==
    ASSUME NEW s, Settled(s), IsActive(s), NEW t \in FinishCompletedTurn(s)
    PROVE  Sound(t)
<1> DEFINE finished == FinishTurn(s, "Completed")
<1>1. Sound(finished) /\ Resting(finished) /\ Settled(finished)
  BY FinishTurnSound DEF Outcomes, Sound
<1>2. s.turn \in ActiveTurns
  BY ActiveTurn DEF Settled
<1>3. CASE s.turn.queued = NoQueue
  BY <1>1, <1>3 DEF FinishCompletedTurn
<1>4. CASE s.turn.queued # NoQueue
  <2>1. /\ s.turn.queued.id \in Nat /\ s.turn.queued.msgs \in Seq(Nat)
        /\ s.turn.queued.msgs # <<>>
    BY <1>2, <1>4 DEF ActiveTurns, Queues
  <2>2. t \in StartTurn(finished, s.turn.queued.id, s.turn.queued.msgs)
    BY <1>4 DEF FinishCompletedTurn
  <2> HIDE DEF finished
  <2> QED
    BY <1>1, <2>1, <2>2, StartTurnSound
<1> QED
  BY <1>3, <1>4

(* Completing with an answer: late input continues the turn instead.       *)
LEMMA CompleteOutputSound ==
    ASSUME NEW s, Settled(s), NextIsNew(s), IsActive(s), NEW t \in CompleteOutput(s)
    PROVE  Sound(t)
<1>1. s \in State /\ DistinctIds(s)
  BY DEF Settled
<1>2. CASE t \in FinishCompletedTurn(s)
  BY <1>2, FinishCompletedTurnSound
<1>3. CASE s.turn.iterations < MaxIterations /\ t \in ContinueActiveTurn(s, TRUE)
  BY <1>1, <1>3, ContinueSound
<1> QED
  BY <1>2, <1>3 DEF CompleteOutput

(* Marking notifications ready touches nothing else.                       *)
LEMMA MarkNotificationsReadySound ==
    ASSUME NEW s, Settled(s)
    PROVE  LET t == MarkNotificationsReady(s)
           IN  /\ Settled(t) /\ t.turn = s.turn /\ t.issued = s.issued
               /\ t.compactions = s.compactions /\ t.context = s.context
<1> DEFINE ready == (s.notesReady \/ s.pending # <<>>)
           t == [s EXCEPT !.notesReady = ready]
<1>1. s \in State /\ ready \in BOOLEAN
  BY DEF Settled, State
<1> HIDE DEF ready
<1>2. /\ t \in State /\ t.turn = s.turn /\ t.issued = s.issued
      /\ t.compactions = s.compactions /\ t.context = s.context
  BY <1>1 DEF State
<1>3. Len(t.context) >= Len(s.context)
  BY <1>1, <1>2 DEF State
<1>4. t = MarkNotificationsReady(s)
  BY DEF MarkNotificationsReady, ready
<1> HIDE DEF t
<1>5. Settled(t)
  BY <1>2, <1>3, SettledKept
<1> QED
  BY <1>2, <1>4, <1>5

(* Marking a boundary leaves the turn where it is.                         *)
LEMMA MarkModelInputReadySound ==
    ASSUME NEW s, Settled(s), IsActive(s)
    PROVE  LET t == MarkModelInputReady(s)
           IN  /\ Settled(t) /\ IsActive(t)
               /\ t.turn.iterations = s.turn.iterations
               /\ t.issued = s.issued
               /\ t.compactions = s.compactions /\ t.context = s.context
<1> DEFINE turn == [s.turn EXCEPT !.ready = TRUE]
           r == [s EXCEPT !.turn = turn]
<1>1. s \in State /\ s.turn \in ActiveTurns
  BY ActiveTurn DEF Settled
<1>2. /\ turn \in ActiveTurns /\ turn.kind = "Active"
      /\ turn.iterations = s.turn.iterations
  BY <1>1 DEF ActiveTurns
<1> HIDE DEF turn
<1>3. /\ r \in State /\ r.turn = turn /\ r.issued = s.issued
      /\ r.compactions = s.compactions /\ r.context = s.context
  BY <1>1, <1>2 DEF State, Turns
<1>4. Len(r.context) >= Len(s.context)
  BY <1>1, <1>3 DEF State
<1>5. MarkModelInputReady(s) = MarkNotificationsReady(r)
  BY DEF MarkModelInputReady, turn
<1> HIDE DEF r
<1>6. Settled(r)
  BY <1>3, <1>4, SettledKept
<1> QED
  BY <1>2, <1>3, <1>5, <1>6, MarkNotificationsReadySound DEF IsActive

(* Adding messages to the live context of an active turn.                  *)
LEMMA ContextGrows ==
    ASSUME NEW s, Settled(s), NEW messages \in Seq(Message)
    PROVE  LET t == [s EXCEPT !.context = s.context \o messages]
           IN  /\ Settled(t) /\ t.turn = s.turn /\ t.issued = s.issued
               /\ t.compactions = s.compactions
               /\ messages # <<>> => NextIsNew(t)
<1> DEFINE context == s.context \o messages
           t == [s EXCEPT !.context = context]
<1>1. s \in State /\ s.context \in Seq(Message)
  BY DEF Settled, State
<1>2. /\ context \in Seq(Message) /\ Len(context) >= Len(s.context)
      /\ messages # <<>> => Len(context) > Len(s.context)
  BY <1>1
<1>3. /\ t \in State /\ t.turn = s.turn /\ t.issued = s.issued
      /\ t.compactions = s.compactions /\ t.context = context
  BY <1>1, <1>2 DEF State
<1> HIDE DEF t, context
<1>4. Settled(t)
  BY <1>2, <1>3, SettledKept
<1>5. messages # <<>> => NextIsNew(t)
  BY <1>2, <1>3, GrownIsNew
<1> QED
  BY <1>3, <1>4, <1>5 DEF t, context

(* A batch whose calls have all finished.                                  *)
LEMMA ContinueAfterBatchSound ==
    ASSUME NEW s, Settled(s), IsActive(s), NEW list \in Seq(Calls), list # <<>>,
           NEW t \in ContinueAfterBatch(s, list)
    PROVE  Sound(t)
<1> DEFINE results == [s EXCEPT !.context = s.context \o ToolResults(list)]
           landed == MarkModelInputReady(results)
<1>1. ToolResults(list) \in Seq(Message) /\ ToolResults(list) # <<>>
  BY ToolResultsType
<1>2. /\ Settled(results) /\ results.turn = s.turn /\ NextIsNew(results)
      /\ IsActive(results)
  BY <1>1, ContextGrows DEF IsActive
<1> HIDE DEF results
<1>3. /\ Settled(landed) /\ IsActive(landed) /\ landed.issued = results.issued
      /\ landed.compactions = results.compactions
      /\ landed.context = results.context
  BY <1>2, MarkModelInputReadySound
<1> HIDE DEF landed
<1>4. NextIsNew(landed) /\ landed \in State /\ DistinctIds(landed)
  BY <1>2, <1>3 DEF NextIsNew, NextCompletionId, Settled
<1>5. landed.turn.iterations \in Nat
  BY <1>3, <1>4, ActiveTurn DEF ActiveTurns
<1>6. \/ t \in FinishCompletedTurn(landed)
      \/ landed.turn.iterations < MaxIterations /\ t \in ContinueActiveTurn(landed, TRUE)
  <2>1. CASE landed.turn.iterations >= MaxIterations
    BY <2>1 DEF ContinueAfterBatch, landed, results
  <2>2. CASE ~(landed.turn.iterations >= MaxIterations)
    <3>1. t \in ContinueActiveTurn(landed, TRUE)
      BY <2>2 DEF ContinueAfterBatch, landed, results
    <3> QED
      <4>1. landed.turn.iterations < MaxIterations
        BY <1>5, <2>2, IterationAssumption
      <4> QED
        BY <3>1, <4>1
  <2> QED
    BY <2>1, <2>2
<1> QED
  BY <1>3, <1>4, <1>6, FinishCompletedTurnSound, ContinueSound

(* A batch, with some of its calls still open or none.                     *)
LEMMA ApplyBatchSound ==
    ASSUME NEW s, Settled(s), IsActive(s), s.turn.iterations \in 1..MaxIterations,
           NEW list \in CallSeqs, list # <<>>, NEW open \in SUBSET Calls,
           NEW t \in ApplyBatch(s, list, open)
    PROVE  Sound(t)
<1> DEFINE phase == AwaitingToolBatch(list, open)
<1>1. CASE open = {}
  <2>1. list \in Seq(Calls) /\ t \in ContinueAfterBatch(s, list)
    BY <1>1, CallSeqsType DEF ApplyBatch
  <2> QED
    BY <2>1, ContinueAfterBatchSound
<1>2. CASE open # {}
  <2>1. phase \in Phases /\ phase.kind = "AwaitingToolBatch"
    BY DEF AwaitingToolBatch, Phases
  <2>2. t = [s EXCEPT !.turn.phase = phase]
    BY <1>2 DEF ApplyBatch
  <2> HIDE DEF phase
  <2>3. /\ Settled(t) /\ IsActive(t) /\ t.turn.phase = phase
        /\ t.turn.iterations = s.turn.iterations
    BY <2>1, <2>2, PhaseUpdate
  <2> QED
    BY <2>1, <2>3 DEF Sound, IsCompacting, InPhase, IsActive, HasBudget
<1> QED
  BY <1>1, <1>2

(* Accepting a completion.                                                 *)
LEMMA ResolveAcceptedSound ==
    ASSUME NEW s, Settled(s), IsActive(s), NEW list \in CallSeqs,
           NEW t \in ResolveAccepted(s, list)
    PROVE  Sound(t)
<1>1. s \in State /\ s.turn \in ActiveTurns /\ s.turn.iterations \in Nat
  BY ActiveTurn DEF Settled, ActiveTurns
<1>2. s.turn.iterations + 1 \in 1..MaxIterations
  <2>1. ~(s.turn.iterations + 1 > MaxIterations)
    BY DEF ResolveAccepted
  <2> QED
    BY <1>1, <2>1, IterationAssumption
<1>3. ReportedSizes(s) \subseteq BOOLEAN
  BY <1>1 DEF ReportedSizes, State
<1> DEFINE turn == [s.turn EXCEPT !.iterations = s.turn.iterations + 1]
           context == Append(s.context, AssistantMessage(list))
<1>4. PICK reported \in BOOLEAN : t \in Proceed(Accepted(s, list, reported), list)
  <2>1. ~(s.turn.iterations + 1 > MaxIterations)
    BY DEF ResolveAccepted
  <2> QED
    BY <1>3, <2>1 DEF ResolveAccepted
<1> DEFINE a == Accepted(s, list, reported)
<1>5. /\ turn \in ActiveTurns /\ turn.kind = "Active"
      /\ turn.iterations = s.turn.iterations + 1
  BY <1>1 DEF ActiveTurns
<1>6. /\ context \in Seq(Message) /\ Len(context) > Len(s.context)
  BY <1>1, AssistantMessageType DEF State
<1> HIDE DEF turn, context
<1>7. /\ a \in State /\ a.turn = turn /\ a.issued = s.issued
      /\ a.compactions = s.compactions /\ a.context = context
  <2>1. a = [s EXCEPT !.turn = turn, !.context = context,
                      !.reportedOver = reported]
    BY DEF turn, context, Accepted
  <2> HIDE DEF a
  <2> QED
    BY <1>1, <1>5, <1>6, <2>1 DEF State, Turns
<1>8. Len(a.context) >= Len(s.context)
  BY <1>1, <1>6, <1>7 DEF State
<1> HIDE DEF a
<1>9. Settled(a) /\ NextIsNew(a) /\ IsActive(a)
  BY <1>5, <1>6, <1>7, <1>8, SettledKept, GrownIsNew DEF IsActive
<1>10. CASE list = <<>>
  <2> DEFINE m == MarkModelInputReady(a)
  <2>1. t \in CompleteOutput(m)
    BY <1>4, <1>10 DEF a, Proceed
  <2>2. /\ Settled(m) /\ IsActive(m) /\ m.issued = a.issued
        /\ m.compactions = a.compactions /\ m.context = a.context
    BY <1>9, MarkModelInputReadySound
  <2> HIDE DEF m
  <2>3. NextIsNew(m)
    BY <1>9, <2>2 DEF NextIsNew, NextCompletionId
  <2> QED
    BY <2>1, <2>2, <2>3, CompleteOutputSound
<1>11. CASE list # <<>>
  <2>1. PICK open \in SUBSET ToSet(list) : t \in ApplyBatch(a, list, open)
    BY <1>4, <1>11 DEF a, Proceed
  <2>2. open \in SUBSET Calls
    BY <2>1, CallSeqsType DEF ToSet
  <2>3. a.turn.iterations \in 1..MaxIterations
    BY <1>2, <1>5, <1>7
  <2> QED
    BY <1>9, <1>11, <2>1, <2>2, <2>3, ApplyBatchSound
<1> QED
  BY <1>10, <1>11

(* A candidate that passed its post-LLM hook, or had none.                 *)
LEMMA ResolveAfterPostLlmSound ==
    ASSUME NEW s, Settled(s), IsActive(s), s.turn.iterations < MaxIterations,
           NEW id \in CompletionIds, NEW list \in CallSeqs,
           NEW t \in ResolveAfterPostLlm(s, id, list)
    PROVE  Sound(t)
<1> DEFINE phase == CompletionHook("PostAgentTurn", id, list)
<1>1. CASE t \in ResolveAccepted(s, list)
  BY <1>1, ResolveAcceptedSound
<1>2. CASE t = [s EXCEPT !.turn.phase = phase]
  <2>1. phase \in Phases /\ phase.kind = "PostAgentTurn"
    BY DEF CompletionHook, Phases
  <2> HIDE DEF phase
  <2>2. /\ Settled(t) /\ IsActive(t) /\ t.turn.phase = phase
        /\ t.turn.iterations = s.turn.iterations
    BY <1>2, <2>1, PhaseUpdate
  <2> QED
    BY <2>1, <2>2 DEF Sound, IsCompacting, InPhase, IsActive, HasBudget
<1> QED
  BY <1>1, <1>2 DEF ResolveAfterPostLlm

-----------------------------------------------------------------------------
(* Compaction.                                                             *)

(* Messages picked from a context by position are a sequence of messages.  *)
LEMMA ArrangedType ==
    ASSUME NEW context \in Seq(Message), NEW positions \in SUBSET DOMAIN context,
           NEW picked \in Arranged(context, positions)
    PROVE  picked \in Seq(Message)
<1> DEFINE n == Cardinality(positions)
<1>1. DOMAIN context = 1..Len(context) /\ Len(context) \in Nat
  OBVIOUS
<1>2. IsFiniteSet(1..Len(context))
  BY <1>1, FS_Interval
<1>3. IsFiniteSet(positions)
  BY <1>1, <1>2, FS_Subset
<1>4. n \in Nat
  BY <1>3, FS_CardinalityType
<1> HIDE DEF n
<1>5. PICK at \in [1..n -> positions] : picked = [k \in DOMAIN at |-> context[at[k]]]
  BY DEF Arranged, n
<1>6. \A k \in 1..n : context[at[k]] \in Message
  BY <1>1, <1>5
<1>7. picked = [k \in 1..n |-> context[at[k]]]
  BY <1>5
<1> QED
  BY <1>4, <1>6, <1>7

(* What a compaction keeps and what it removes are positions of the        *)
(* context.                                                                *)
LEMMA KeptPositionsType ==
    ASSUME NEW context, NEW keep \in KeptPositions(context)
    PROVE  keep \in SUBSET DOMAIN context
BY DEF KeptPositions, PositionsOf

(* After the context is replaced, the next id is new: its first component  *)
(* is larger than that of every id issued.                                 *)
LEMMA ReplaceContextSound ==
    ASSUME NEW s, Settled(s), AllBeforeCompaction(s),
           NEW kept \in Seq(Message), NEW removed \in Seq(Message)
    PROVE  LET t == ReplaceContext(s, kept, removed)
           IN  t \in State /\ DistinctIds(t) /\ NextIsNew(t) /\ Settled(t)
               /\ t.turn = s.turn
<1> DEFINE context == <<Note("system"), Note("preamble")>> \o kept \o <<Note("summary")>>
           archived == s.archived \o removed
           t == [s EXCEPT !.archived = archived, !.context = context,
                          !.reportedOver = FALSE]
<1>1. /\ s \in State /\ s.archived \in Seq(Message) /\ s.compactions \in Nat
      /\ s.issued \in Seq(CompletionIds) /\ DistinctIds(s)
  BY DEF Settled, State
<1>2. /\ Note("system") \in Message /\ Note("preamble") \in Message
      /\ Note("summary") \in Message
  BY DEF Note, Message
<1>3. context \in Seq(Message) /\ archived \in Seq(Message)
  BY <1>1, <1>2
<1>4. t = ReplaceContext(s, kept, removed)
  BY DEF ReplaceContext
<1> HIDE DEF context, archived
<1>5. /\ t \in State /\ t.turn = s.turn /\ t.issued = s.issued
      /\ t.compactions = s.compactions /\ t.context = context
  BY <1>1, <1>3 DEF State
<1> HIDE DEF t
<1>6. DistinctIds(t)
  BY <1>1, <1>5 DEF DistinctIds
<1>7. \A i \in DOMAIN s.issued : s.issued[i][1] \in Nat /\ s.issued[i][2] \in Nat
  BY <1>1 DEF CompletionIds
<1>8. NextIsNew(t)
  BY <1>1, <1>5, <1>7
     DEF AllBeforeCompaction, NextIsNew, Precedes, NextCompletionId
<1>9. NoneBeyond(t)
  BY <1>1, <1>5, <1>7
     DEF AllBeforeCompaction, NoneBeyond, Precedes, NextCompletionId
<1> QED
  BY <1>4, <1>5, <1>6, <1>8, <1>9 DEF Settled

(* A session at rest goes back to Idle.                                    *)
LEMMA BackToIdle ==
    ASSUME NEW s, Settled(s)
    PROVE  LET t == MarkNotificationsReady([s EXCEPT !.turn = Idle])
           IN  Sound(t)
<1> DEFINE i == [s EXCEPT !.turn = Idle]
           t == MarkNotificationsReady(i)
<1>1. s \in State
  BY DEF Settled
<1>2. Idle \in Turns /\ Idle.kind = "Idle"
  BY DEF Turns, RestingTurns, Idle
<1>3. /\ i \in State /\ i.turn = Idle /\ i.issued = s.issued
      /\ i.compactions = s.compactions /\ i.context = s.context
  BY <1>1, <1>2 DEF State
<1>4. Len(i.context) >= Len(s.context)
  BY <1>1, <1>3 DEF State
<1> HIDE DEF i
<1>5. Settled(i)
  BY <1>3, <1>4, SettledKept
<1>6. Settled(t) /\ t.turn = Idle
  BY <1>3, <1>5, MarkNotificationsReadySound
<1> HIDE DEF t
<1>7. Sound(t)
  BY <1>2, <1>6 DEF Sound, IsCompacting, InPhase, IsActive, HasBudget
<1> QED
  BY <1>7 DEF t, i

(* An accepted summary: the turn goes on, or the session is idle.          *)
LEMMA CompactionAcceptedSound ==
    ASSUME NEW s, Sound(s), IsCompacting(s), NEW keep \in KeptPositions(s.context),
           NEW t \in CompactionAccepted(s, keep)
    PROVE  Sound(t)
<1> DEFINE recorded == PositionsOf(s.context, {"user", "notice"})
<1>1. s \in State /\ Settled(s) /\ AllBeforeCompaction(s) /\ s.context \in Seq(Message)
  BY DEF Sound, Settled, State
<1>2. keep \in SUBSET DOMAIN s.context /\ recorded \ keep \in SUBSET DOMAIN s.context
  BY KeptPositionsType DEF PositionsOf
<1>3. PICK kept \in Arranged(s.context, keep),
           removed \in Arranged(s.context, recorded \ keep) :
              t \in CompactionResumes(ReplaceContext(s, kept, removed))
  BY DEF CompactionAccepted
<1> DEFINE r == ReplaceContext(s, kept, removed)
<1>4. kept \in Seq(Message) /\ removed \in Seq(Message)
  BY <1>1, <1>2, ArrangedType
<1>5. r \in State /\ DistinctIds(r) /\ NextIsNew(r) /\ Settled(r) /\ r.turn = s.turn
  BY <1>1, <1>4, ReplaceContextSound
<1>6. t \in CompactionResumes(r)
  BY <1>3
<1> HIDE DEF r
<1>7. CASE IsActive(r)
  <2> DEFINE m == MarkModelInputReady(r)
  <2>1. t \in ContinueActiveTurn(m, FALSE)
    BY <1>6, <1>7 DEF CompactionResumes
  <2>2. /\ Settled(m) /\ IsActive(m) /\ m.issued = r.issued
        /\ m.turn.iterations = r.turn.iterations
        /\ m.compactions = r.compactions /\ m.context = r.context
    BY <1>5, <1>7, MarkModelInputReadySound
  <2>3. s.turn.iterations < MaxIterations
    BY <1>5, <1>7 DEF IsActive, IsCompacting, InPhase, Sound, HasBudget
  <2> HIDE DEF m
  <2>4. NextIsNew(m) /\ m \in State /\ DistinctIds(m)
    BY <1>5, <2>2 DEF NextIsNew, NextCompletionId, Settled
  <2> QED
    BY <1>5, <2>1, <2>2, <2>3, <2>4, ContinueSound
<1>8. CASE ~IsActive(r)
  <2>1. t = MarkNotificationsReady([r EXCEPT !.turn = Idle])
    BY <1>6, <1>8 DEF CompactionResumes
  <2> QED
    BY <1>5, <2>1, BackToIdle
<1> QED
  BY <1>7, <1>8

(* A failed compaction.                                                    *)
LEMMA FailCompactionSound ==
    ASSUME NEW s, Settled(s)
    PROVE  Sound(FailCompaction(s))
<1>1. CASE IsActive(s)
  BY <1>1, FinishTurnSound DEF FailCompaction, Outcomes
<1>2. CASE ~IsActive(s)
  BY <1>2, BackToIdle DEF FailCompaction
<1> QED
  BY <1>1, <1>2

(* A rejected summary: one more attempt, or a failed compaction.           *)
LEMMA RejectSummarySound ==
    ASSUME NEW s, Sound(s), IsCompacting(s)
    PROVE  Sound(RejectSummary(s))
<1> DEFINE attempt == PendingCompaction(s).attempt + 1
<1>1. s \in State /\ Settled(s) /\ AllBeforeCompaction(s) /\ HasBudget(s)
  BY DEF Sound, Settled
<1>2. CASE PendingCompaction(s).attempt >= MaxSummaryRetries
  BY <1>1, <1>2, FailCompactionSound DEF RejectSummary
<1>3. CASE ~(PendingCompaction(s).attempt >= MaxSummaryRetries) /\ IsActive(s)
  <2> DEFINE phase == [s.turn.phase EXCEPT !.attempt = attempt]
             t == [s EXCEPT !.turn.phase = phase]
  <2>1. /\ s.turn \in ActiveTurns /\ s.turn.phase \in Phases
        /\ s.turn.phase.kind = "AwaitingCompaction"
    BY <1>1, <1>3, ActiveTurn DEF ActiveTurns, IsCompacting, InPhase, IsActive
  <2>2. s.turn.phase \in [kind : {"AwaitingCompaction"}, id : Nat, iterations : Nat,
                          compaction : Nat, attempt : Nat]
    BY <2>1 DEF Phases
  <2>3. attempt \in Nat
    BY <1>3, <2>2 DEF PendingCompaction
  <2> HIDE DEF attempt
  <2>4. phase \in Phases /\ phase.kind = "AwaitingCompaction"
    BY <2>2, <2>3 DEF Phases
  <2> HIDE DEF phase
  <2>5. /\ Settled(t) /\ IsActive(t) /\ t.turn.phase = phase
        /\ t.turn.iterations = s.turn.iterations
        /\ t.issued = s.issued /\ t.compactions = s.compactions
    BY <1>1, <1>3, <2>4, PhaseUpdate
  <2>6. RejectSummary(s) = t
    <3>1. t = [s EXCEPT !.turn.phase.attempt = attempt]
      BY <2>2 DEF phase
    <3> QED
      BY <1>3, <3>1 DEF RejectSummary, attempt
  <2> HIDE DEF t
  <2>7. AllBeforeCompaction(t)
    BY <1>1, <2>5 DEF AllBeforeCompaction
  <2>8. s.turn.iterations < MaxIterations
    BY <1>1, <1>3, <2>1 DEF HasBudget
  <2> QED
    BY <2>4, <2>5, <2>6, <2>7, <2>8 DEF Sound, HasBudget
<1>4. CASE ~(PendingCompaction(s).attempt >= MaxSummaryRetries) /\ ~IsActive(s)
  <2> DEFINE turn == [s.turn EXCEPT !.attempt = attempt]
             t == [s EXCEPT !.turn = turn]
  <2>1. s.turn \in CompactingTurns
    BY <1>1, <1>4 DEF IsCompacting, InPhase, IsActive, State, Turns, RestingTurns,
                      Idle, ActiveTurns
  <2>2. attempt \in Nat
    BY <1>4, <2>1 DEF PendingCompaction, CompactingTurns
  <2> HIDE DEF attempt
  <2>3. turn \in CompactingTurns /\ turn.kind = "Compacting"
    BY <2>1, <2>2 DEF CompactingTurns
  <2>4. RejectSummary(s) = t
    BY <1>4 DEF RejectSummary, attempt
  <2> HIDE DEF turn
  <2>5. /\ t \in State /\ t.turn = turn /\ t.issued = s.issued
        /\ t.compactions = s.compactions /\ t.context = s.context
    BY <1>1, <2>3 DEF State, Turns
  <2>6. Len(t.context) >= Len(s.context)
    BY <1>1, <2>5 DEF State
  <2> HIDE DEF t
  <2>7. Settled(t)
    BY <1>1, <2>5, <2>6, SettledKept
  <2>8. AllBeforeCompaction(t)
    BY <1>1, <2>5 DEF AllBeforeCompaction
  <2> QED
    BY <2>3, <2>4, <2>5, <2>7, <2>8 DEF Sound, HasBudget, IsActive
<1> QED
  BY <1>2, <1>3, <1>4

-----------------------------------------------------------------------------
(* Commands.                                                               *)

(* A command that leaves the phase, the iterations and the compaction      *)
(* where they are keeps the invariant.                                     *)
LEMMA QuietStep ==
    ASSUME NEW s, Sound(s), NEW t \in State, t.turn.kind = s.turn.kind,
           IsActive(s) => /\ t.turn.phase = s.turn.phase
                          /\ t.turn.iterations = s.turn.iterations,
           t.issued = s.issued, t.compactions = s.compactions,
           t.context = s.context
    PROVE  Sound(t)
<1>1. Settled(s) /\ Len(s.context) \in Nat
  BY SMTT(30) DEF Sound, Settled, State
<1>2. Len(t.context) >= Len(s.context)
  BY <1>1
<1>3. Settled(t)
  BY <1>1, <1>2, SettledKept
<1> QED
  BY <1>3 DEF Sound, IsCompacting, InPhase, IsActive, HasBudget, AllBeforeCompaction

(* Counting a message, and a turn, that the Runtime sends.                 *)
LEMMA SentType ==
    ASSUME NEW s \in State
    PROVE  /\ Sent(s) \in State /\ SentInNewTurn(s) \in State
           /\ \A t \in {Sent(s), SentInNewTurn(s)} :
                /\ t.turn = s.turn /\ t.issued = s.issued
                /\ t.compactions = s.compactions /\ t.context = s.context
           /\ s.sent + 1 \in Nat /\ s.turns + 1 \in Nat
<1>1. s.sent + 1 \in Nat /\ s.turns + 1 \in Nat
  BY DEF State
<1>2. Sent(s) \in State
  BY <1>1 DEF State, Sent
<1>3. SentInNewTurn(s) = [s EXCEPT !.sent = s.sent + 1, !.turns = s.turns + 1]
  BY DEF Sent, SentInNewTurn
<1>4. SentInNewTurn(s) \in State
  BY <1>1, <1>3 DEF State
<1>5. /\ Sent(s).turn = s.turn /\ Sent(s).issued = s.issued
      /\ Sent(s).compactions = s.compactions /\ Sent(s).context = s.context
  BY <1>1 DEF State, Sent
<1>6. LET t == SentInNewTurn(s)
      IN  /\ t.turn = s.turn /\ t.issued = s.issued
          /\ t.compactions = s.compactions /\ t.context = s.context
  BY <1>1, <1>3 DEF State
<1> QED
  BY <1>1, <1>2, <1>4, <1>5, <1>6

(* Counting keeps the invariant.                                           *)
LEMMA SentSound ==
    ASSUME NEW s, Sound(s)
    PROVE  Sound(Sent(s)) /\ Sound(SentInNewTurn(s))
<1>1. s \in State
  BY DEF Sound, Settled
<1>2. ASSUME NEW t \in {Sent(s), SentInNewTurn(s)}
      PROVE  Sound(t)
  <2>1. t \in State /\ t.turn = s.turn /\ t.issued = s.issued
        /\ t.compactions = s.compactions /\ t.context = s.context
    BY <1>1, SentType
  <2> QED
    BY <2>1, QuietStep
<1> QED
  BY <1>2

(* A message to a session at rest.                                         *)
LEMMA QueueAtRestStep == IInv /\ QueueAtRest => IInv'
<1> SUFFICES ASSUME IInv, QueueAtRest
             PROVE  Sound(core')
  BY DEF IInv
<1> DEFINE s == SentInNewTurn(core)
<1>1. Sound(s) /\ core \in State
  BY SentSound DEF IInv, Sound, Settled
<1>2. s.turn = core.turn /\ NewMessage \in Nat /\ NewTurn \in Nat
  BY <1>1, SentType DEF NewMessage, NewTurn
<1>3. core' \in StartTurn(s, NewTurn, <<NewMessage>>) /\ Resting(core)
  BY DEF QueueAtRest
<1> HIDE DEF s
<1>4. Settled(s) /\ Resting(s)
  BY <1>1, <1>2, <1>3 DEF Sound, Resting
<1>5. <<NewMessage>> \in Seq(Nat) /\ <<NewMessage>> # <<>>
  BY <1>2
<1> QED
  BY <1>2, <1>3, <1>4, <1>5, StartTurnSound

(* The first follow-up of a turn.                                          *)
LEMMA OpenFollowUpStep == IInv /\ OpenFollowUp => IInv'
<1> SUFFICES ASSUME IInv, OpenFollowUp
             PROVE  Sound(core')
  BY DEF IInv
<1> DEFINE s == SentInNewTurn(core)
           queued == QueuedTurn(NewTurn, <<NewMessage>>)
           turn == [core.turn EXCEPT !.queued = queued]
           t == [s EXCEPT !.turn = turn]
<1>1. core \in State /\ IsActive(core) /\ core.turn \in ActiveTurns
  BY ActiveTurn DEF IInv, Sound, Settled, OpenFollowUp
<1>2. /\ s \in State /\ s.turn = core.turn /\ s.issued = core.issued
      /\ s.compactions = core.compactions /\ s.context = core.context
      /\ NewMessage \in Nat /\ NewTurn \in Nat
  BY <1>1, SentType DEF NewMessage, NewTurn
<1>3. queued \in Queues
  <2>1. <<NewMessage>> \in Seq(Nat) \ {<<>>}
    BY <1>2
  <2> QED
    BY <1>2, <2>1 DEF QueuedTurn, Queues
<1>4. core' = t
  BY <1>2 DEF OpenFollowUp
<1> HIDE DEF s, queued
<1>5. /\ turn \in ActiveTurns /\ turn.phase = core.turn.phase
      /\ turn.iterations = core.turn.iterations /\ turn.kind = core.turn.kind
  BY <1>1, <1>3 DEF ActiveTurns
<1> HIDE DEF turn
<1>6. /\ t \in State /\ t.turn = turn /\ t.issued = s.issued
      /\ t.compactions = s.compactions /\ t.context = s.context
  BY <1>2, <1>5 DEF State, Turns
<1> HIDE DEF t
<1> QED
  BY <1>2, <1>4, <1>5, <1>6, QuietStep DEF IInv

(* One more message on the follow-up.                                      *)
LEMMA ExtendFollowUpStep == IInv /\ ExtendFollowUp => IInv'
<1> SUFFICES ASSUME IInv, ExtendFollowUp
             PROVE  Sound(core')
  BY DEF IInv
<1> DEFINE s == Sent(core)
           msgs == Append(core.turn.queued.msgs, NewMessage)
           queued == [core.turn.queued EXCEPT !.msgs = msgs]
           turn == [core.turn EXCEPT !.queued = queued]
           t == [s EXCEPT !.turn = turn]
<1>1. core \in State /\ IsActive(core) /\ core.turn \in ActiveTurns
  BY ActiveTurn DEF IInv, Sound, Settled, ExtendFollowUp
<1>2. /\ s \in State /\ s.turn = core.turn /\ s.issued = core.issued
      /\ s.compactions = core.compactions /\ s.context = core.context
      /\ NewMessage \in Nat
  BY <1>1, SentType DEF NewMessage
<1>3. core.turn.queued \in [kind : {"Pending"}, id : Nat, msgs : Seq(Nat) \ {<<>>}]
  BY <1>1 DEF ExtendFollowUp, ActiveTurns, Queues
<1>4. msgs \in Seq(Nat) \ {<<>>}
  BY <1>2, <1>3
<1>5. core' = t
  BY <1>2 DEF ExtendFollowUp
<1> HIDE DEF s, msgs
<1>6. queued \in Queues
  BY <1>3, <1>4 DEF Queues
<1> HIDE DEF queued
<1>7. /\ turn \in ActiveTurns /\ turn.phase = core.turn.phase
      /\ turn.iterations = core.turn.iterations /\ turn.kind = core.turn.kind
  BY <1>1, <1>6 DEF ActiveTurns
<1> HIDE DEF turn
<1>8. /\ t \in State /\ t.turn = turn /\ t.issued = s.issued
      /\ t.compactions = s.compactions /\ t.context = s.context
  BY <1>2, <1>7 DEF State, Turns
<1> HIDE DEF t
<1> QED
  BY <1>2, <1>5, <1>7, <1>8, QuietStep DEF IInv

(* A steering message.                                                     *)
LEMMA SteerStep == IInv /\ Steer => IInv'
<1> SUFFICES ASSUME IInv, Steer
             PROVE  Sound(core')
  BY DEF IInv
<1> DEFINE s == Sent(core)
           steer == Append(core.turn.steer, NewMessage)
           steered == Append(core.steered, NewMessage)
           turn == [core.turn EXCEPT !.steer = steer]
           t == [s EXCEPT !.turn = turn, !.steered = steered]
<1>1. core \in State /\ IsActive(core) /\ core.turn \in ActiveTurns
  BY ActiveTurn DEF IInv, Sound, Settled, Steer
<1>2. /\ s \in State /\ s.turn = core.turn /\ s.issued = core.issued
      /\ s.compactions = core.compactions /\ s.context = core.context
      /\ NewMessage \in Nat
  BY <1>1, SentType DEF NewMessage
<1>3. steer \in Seq(Nat) /\ steered \in Seq(Nat)
  BY <1>1, <1>2 DEF ActiveTurns, State
<1>4. core' = t
  BY <1>2 DEF Steer
<1> HIDE DEF s, steer, steered
<1>5. /\ turn \in ActiveTurns /\ turn.phase = core.turn.phase
      /\ turn.iterations = core.turn.iterations /\ turn.kind = core.turn.kind
  BY <1>1, <1>3 DEF ActiveTurns
<1> HIDE DEF turn
<1>6. /\ t \in State /\ t.turn = turn /\ t.issued = s.issued
      /\ t.compactions = s.compactions /\ t.context = s.context
  BY <1>2, <1>3, <1>5 DEF State, Turns
<1> HIDE DEF t
<1> QED
  BY <1>2, <1>4, <1>5, <1>6, QuietStep DEF IInv

(* A context message sets the session to Idle.                             *)
LEMMA ContextMessageStep == IInv /\ ContextMessage => IInv'
<1> SUFFICES ASSUME IInv, ContextMessage
             PROVE  Sound(core')
  BY DEF IInv
<1> DEFINE filled == AppendTurnMessages(core, <<Note("injected")>>)
           s == Sent(filled)
           t == [s EXCEPT !.turn = Idle]
<1>1. Settled(core)
  BY DEF IInv, Sound
<1>2. <<Note("injected")>> \in Seq(Message) /\ <<Note("injected")>> # <<>>
  BY DEF Note, Message
<1>3. Settled(filled) /\ filled \in State
  BY <1>1, <1>2, AppendTurnMessagesSound DEF Settled
<1> HIDE DEF filled
<1>4. s \in State /\ s.issued = filled.issued
      /\ s.compactions = filled.compactions /\ s.context = filled.context
  BY <1>3, SentType
<1>5. core' = t
  BY DEF ContextMessage, filled
<1> HIDE DEF s
<1>6. Idle \in Turns /\ Idle.kind = "Idle"
  BY DEF Turns, RestingTurns, Idle
<1>7. /\ t \in State /\ t.turn = Idle /\ t.issued = s.issued
      /\ t.compactions = s.compactions /\ t.context = s.context
  BY <1>4, <1>6 DEF State
<1>8. Len(t.context) >= Len(filled.context)
  BY <1>3, <1>4, <1>7 DEF State
<1> HIDE DEF t
<1>9. Settled(t)
  BY <1>3, <1>4, <1>7, <1>8, SettledKept
<1> QED
  BY <1>5, <1>6, <1>7, <1>9 DEF Sound, IsCompacting, InPhase, IsActive, HasBudget

(* A notification.                                                         *)
LEMMA ReceiveNotificationStep ==
    ASSUME NEW n \in Notifications
    PROVE  IInv /\ ReceiveNotification(n) => IInv'
<1> SUFFICES ASSUME IInv, ReceiveNotification(n)
             PROVE  Sound(core')
  BY DEF IInv
<1> DEFINE received == core.received \cup {n}
           pending == Append(core.pending, n)
           ready == core.notesReady \/ ArrivesAtBoundary(core)
           t == [core EXCEPT !.received = received, !.pending = pending,
                             !.notesReady = ready]
<1>1. core \in State
  BY DEF IInv, Sound, Settled
<1>2. received \in SUBSET Notifications /\ pending \in Seq(Notifications)
  BY <1>1 DEF State
<1>3. ready \in BOOLEAN
  <2>1. CASE IsActive(core)
    <3>1. core.turn.ready \in BOOLEAN
      BY <1>1, <2>1, ActiveTurn DEF ActiveTurns
    <3>2. core.notesReady \in BOOLEAN
      BY <1>1 DEF State
    <3> QED
      BY <2>1, <3>1, <3>2 DEF ArrivesAtBoundary
  <2>2. CASE ~IsActive(core)
    BY <1>1, <2>2 DEF State, ArrivesAtBoundary, Resting
  <2> QED
    BY <2>1, <2>2
<1>4. core' = t
  BY DEF ReceiveNotification
<1> HIDE DEF received, pending, ready
<1>5. /\ t \in State /\ t.turn = core.turn /\ t.issued = core.issued
      /\ t.compactions = core.compactions /\ t.context = core.context
  BY <1>1, <1>2, <1>3 DEF State
<1> HIDE DEF t
<1> QED
  BY <1>4, <1>5, QuietStep DEF IInv

(* A compaction asked for by the user.                                     *)
LEMMA ManualCompactionStep == IInv /\ ManualCompaction => IInv'
<1> SUFFICES ASSUME IInv, ManualCompaction
             PROVE  Sound(core')
  BY DEF IInv
<1> DEFINE counted == CountCompaction(core)
           turn == Compacting(counted.compactions, 0)
           t == [counted EXCEPT !.turn = turn]
<1>1. Settled(counted) /\ AllBeforeCompaction(counted) /\ counted \in State
  BY CountCompactionSound DEF IInv, Sound, Settled
<1>2. core' = t \/ core' = FailCompaction(counted)
  BY DEF ManualCompaction
<1> HIDE DEF counted
<1>3. turn \in CompactingTurns /\ turn.kind = "Compacting"
  BY <1>1 DEF Compacting, CompactingTurns, State
<1> HIDE DEF turn
<1>4. /\ t \in State /\ t.turn = turn /\ t.issued = counted.issued
      /\ t.compactions = counted.compactions /\ t.context = counted.context
  BY <1>1, <1>3 DEF State, Turns
<1>5. Len(t.context) >= Len(counted.context)
  BY <1>1, <1>4 DEF State
<1> HIDE DEF t
<1>6. Settled(t) /\ AllBeforeCompaction(t)
  BY <1>1, <1>4, <1>5, SettledKept DEF AllBeforeCompaction
<1>7. Sound(t)
  BY <1>3, <1>4, <1>6 DEF Sound, HasBudget, IsActive
<1> QED
  BY <1>1, <1>2, <1>7, FailCompactionSound

(* A new configuration.                                                    *)
LEMMA ReconfigureStep == IInv /\ Reconfigure => IInv'
<1> SUFFICES ASSUME IInv, Reconfigure
             PROVE  Sound(core')
  BY DEF IInv
<1>1. PICK hooks \in HookChoices : core' = [core EXCEPT !.hooks = hooks]
  BY DEF Reconfigure
<1>2. core \in State /\ hooks \in SUBSET HookPoints
  BY <1>1, HookAssumption DEF IInv, Sound, Settled
<1>3. /\ core' \in State /\ core'.turn = core.turn /\ core'.issued = core.issued
      /\ core'.compactions = core.compactions /\ core'.context = core.context
  BY <1>1, <1>2 DEF State
<1> QED
  BY <1>3, QuietStep DEF IInv

(* Synthetic results for the open calls of an abandoned batch.             *)
LEMMA CloseToolCallsSound ==
    ASSUME NEW s, Settled(s), IsActive(s)
    PROVE  Settled(CloseToolCalls(s)) /\ IsActive(CloseToolCalls(s))
<1>1. CASE s.turn.phase.kind = "AwaitingToolBatch"
  <2> DEFINE list == s.turn.phase.calls
             t == [s EXCEPT !.context = s.context \o ToolResults(list)]
  <2>1. list \in CallSeqs
    BY <1>1, ActiveTurn DEF Settled, ActiveTurns, Phases
  <2>2. ToolResults(list) \in Seq(Message)
    BY <2>1, CallSeqsType, ToolResultsType
  <2>3. Settled(t) /\ t.turn = s.turn
    BY <2>2, ContextGrows
  <2> QED
    BY <1>1, <2>3 DEF CloseToolCalls, IsActive
<1>2. CASE s.turn.phase.kind # "AwaitingToolBatch"
  BY <1>2 DEF CloseToolCalls
<1> QED
  BY <1>1, <1>2

(* A turn that is interrupted or failed from outside.                      *)
LEMMA AbandonStep == IInv /\ (Interrupt \/ FailTurn) => IInv'
<1> SUFFICES ASSUME IInv, Interrupt \/ FailTurn
             PROVE  Sound(core')
  BY DEF IInv
<1> DEFINE closed == CloseToolCalls(core)
<1>1. Settled(closed) /\ IsActive(closed)
  BY CloseToolCallsSound DEF IInv, Sound, Interrupt, FailTurn
<1>2. \/ core' = FinishTurn(closed, "Interrupted")
      \/ core' = FinishTurn(closed, "Failed")
  BY DEF Interrupt, FailTurn
<1> HIDE DEF closed
<1> QED
  BY <1>1, <1>2, FinishTurnSound DEF Outcomes

-----------------------------------------------------------------------------
(* Answers.                                                                *)

(* What the invariant says of a turn that waits in a phase.                *)
LEMMA Waiting ==
    ASSUME IInv, IsActive(core)
    PROVE  /\ Settled(core) /\ core \in State /\ core.turn \in ActiveTurns
           /\ core.turn.phase \in Phases
           /\ core.turn.iterations \in Nat
           /\ core.turn.phase.kind # "AwaitingToolBatch" =>
                 core.turn.iterations < MaxIterations
<1>1. core.turn \in ActiveTurns
  BY ActiveTurn DEF IInv, Sound, Settled
<1> QED
  BY <1>1 DEF IInv, Sound, Settled, HasBudget, ActiveTurns

(* An answer of the model.                                                 *)
LEMMA CompletionSucceededStep == IInv /\ CompletionSucceeded => IInv'
<1> SUFFICES ASSUME IInv, CompletionSucceeded
             PROVE  Sound(core')
  BY DEF IInv
<1> DEFINE id == core.turn.phase.completion
<1>1. /\ Settled(core) /\ IsActive(core) /\ core.turn.iterations < MaxIterations
      /\ core.turn.phase \in Phases /\ core.turn.phase.kind = "AwaitingCompletion"
  BY Waiting DEF CompletionSucceeded, InPhase
<1>2. id \in CompletionIds
  BY <1>1 DEF Phases
<1>3. PICK list \in CallSeqs :
        \/ core' = [core EXCEPT !.turn.phase = CompletionHook("PostLlmCall", id, list)]
        \/ core' \in ResolveAfterPostLlm(core, id, list)
  BY DEF CompletionSucceeded, CallSeqs
<1>4. CASE core' = [core EXCEPT !.turn.phase = CompletionHook("PostLlmCall", id, list)]
  <2> DEFINE phase == CompletionHook("PostLlmCall", id, list)
  <2>1. phase \in Phases /\ phase.kind = "PostLlmCall"
    BY <1>2 DEF CompletionHook, Phases
  <2> HIDE DEF phase
  <2>2. /\ Settled(core') /\ IsActive(core') /\ core'.turn.phase = phase
        /\ core'.turn.iterations = core.turn.iterations
    <3>1. core' = [core EXCEPT !.turn.phase = phase]
      BY <1>4 DEF phase
    <3> QED
      BY <1>1, <2>1, <3>1, PhaseUpdate
  <2> QED
    BY <1>1, <2>1, <2>2 DEF Sound, IsCompacting, InPhase, IsActive, HasBudget
<1>5. CASE core' \in ResolveAfterPostLlm(core, id, list)
  BY <1>1, <1>2, <1>5, ResolveAfterPostLlmSound
<1> QED
  BY <1>3, <1>4, <1>5

(* A completion, or a hook, that fails, and a hook that skips the turn.    *)
LEMMA EndingStep ==
    IInv /\ (CompletionFailed \/ PreLlmSkip \/ HookFailed) => IInv'
<1> SUFFICES ASSUME IInv, CompletionFailed \/ PreLlmSkip \/ HookFailed
             PROVE  Sound(core')
  BY DEF IInv
<1>1. Settled(core) /\ IsActive(core)
  BY DEF IInv, Sound, CompletionFailed, PreLlmSkip, HookFailed, InPhase, InCandidateHook
<1>2. core' \in {FinishTurn(core, "Failed"), FinishTurn(core, "Completed")}
  BY DEF CompletionFailed, PreLlmSkip, HookFailed
<1> QED
  BY <1>1, <1>2, FinishTurnSound DEF Outcomes

(* The end of one tool call.                                               *)
LEMMA FinishToolCallStep ==
    ASSUME NEW call \in Calls
    PROVE  IInv /\ FinishToolCall(call) => IInv'
<1> SUFFICES ASSUME IInv, FinishToolCall(call)
             PROVE  Sound(core')
  BY DEF IInv
<1> DEFINE list == core.turn.phase.calls
           open == core.turn.phase.open \ {call}
<1>1. /\ Settled(core) /\ IsActive(core) /\ core.turn.phase \in Phases
      /\ core.turn.phase.kind = "AwaitingToolBatch"
  BY Waiting DEF FinishToolCall, InPhase
<1>2. core.turn.iterations \in 1..MaxIterations
  BY <1>1 DEF IInv, Sound, HasBudget
<1>3. list \in CallSeqs /\ list # <<>> /\ open \in SUBSET Calls
  BY <1>1 DEF Phases
<1>4. core' \in ApplyBatch(core, list, open)
  BY DEF FinishToolCall
<1> QED
  BY <1>1, <1>2, <1>3, <1>4, ApplyBatchSound

(* Leaving the pre-agent hook: the turn starts after all, or never was.    *)
LEMMA RestoreSuspendedSound ==
    ASSUME IInv, InPhase(core, "PreAgentTurn")
    PROVE  /\ Sound(RestoreSuspendedTurn(core))
           /\ core.turn.phase.id \in Nat
           /\ ToSet(core.turn.phase.content) \in SUBSET Nat
<1> DEFINE t == RestoreSuspendedTurn(core)
           turn == core.turn.phase.suspended
<1>1. /\ core \in State /\ Settled(core) /\ core.turn.phase \in Phases
      /\ core.turn.phase.kind = "PreAgentTurn"
  BY Waiting DEF InPhase
<1>2. /\ core.turn.phase.id \in Nat /\ core.turn.phase.content \in Seq(Nat)
      /\ turn \in RestingTurns
  BY <1>1 DEF Phases
<1>3. ToSet(core.turn.phase.content) \in SUBSET Nat
  BY <1>2 DEF ToSet
<1>4. t = [core EXCEPT !.turn = turn]
  BY DEF RestoreSuspendedTurn
<1>5. turn.kind \in {"Idle", "Terminal"}
  BY <1>2 DEF RestingTurns, Idle
<1> HIDE DEF turn
<1>6. /\ t \in State /\ t.turn = turn /\ t.issued = core.issued
      /\ t.compactions = core.compactions /\ t.context = core.context
  BY <1>1, <1>2, <1>4 DEF State, Turns, turn
<1>7. Len(t.context) >= Len(core.context)
  BY <1>1, <1>6 DEF State
<1> HIDE DEF t
<1>8. Settled(t)
  BY <1>1, <1>6, <1>7, SettledKept
<1>9. Sound(t)
  BY <1>5, <1>6, <1>8 DEF Sound, IsCompacting, InPhase, IsActive, HasBudget
<1> QED
  BY <1>2, <1>3, <1>9 DEF t

(* The two answers of the pre-agent hook.                                  *)
LEMMA PreAgentStep == IInv /\ (PreAgentContinue \/ PreAgentSkip) => IInv'
<1> SUFFICES ASSUME IInv, PreAgentContinue \/ PreAgentSkip
             PROVE  Sound(core')
  BY DEF IInv
<1> DEFINE r == RestoreSuspendedTurn(core)
           opening == [kind |-> "user", ids |-> ToSet(core.turn.phase.content)]
<1>1. InPhase(core, "PreAgentTurn")
  BY DEF PreAgentContinue, PreAgentSkip
<1>2. Sound(r) /\ Settled(r) /\ core.turn.phase.id \in Nat /\ opening \in Message
  BY <1>1, RestoreSuspendedSound DEF Message, Sound
<1>3. core' = r \/ core' \in CommitTurn(r, core.turn.phase.id, <<opening>>)
  BY DEF PreAgentContinue, PreAgentSkip
<1> HIDE DEF r, opening
<1>4. <<opening>> \in Seq(Message) /\ <<opening>> # <<>>
  BY <1>2
<1> QED
  BY <1>2, <1>3, <1>4, CommitTurnSound

(* The pre-LLM hook lets the completion go, with or without a message.     *)
LEMMA PreLlmContinueStep == IInv /\ PreLlmContinue => IInv'
<1> SUFFICES ASSUME IInv, PreLlmContinue
             PROVE  Sound(core')
  BY DEF IInv
<1> DEFINE phase == AwaitingCompletion(core.turn.phase.completion)
<1>1. /\ Settled(core) /\ IsActive(core) /\ core.turn.iterations < MaxIterations
      /\ core.turn.phase \in Phases /\ core.turn.phase.kind = "PreLlmCall"
  BY Waiting DEF PreLlmContinue, InPhase
<1>2. phase \in Phases /\ phase.kind = "AwaitingCompletion"
  BY <1>1 DEF Phases, AwaitingCompletion
<1>3. Note("keyed") \in Message
  BY DEF Note, Message
<1>4. PICK keyed \in {<<>>, <<Note("keyed")>>} :
        core' \in DispatchAgent([core EXCEPT !.context = core.context \o keyed,
                                             !.turn.phase = phase], TRUE)
  BY DEF PreLlmContinue
<1>5. keyed \in Seq(Message)
  <2>1. <<>> \in Seq(Message) /\ <<Note("keyed")>> \in Seq(Message)
    BY <1>3
  <2> QED
    BY <1>4, <2>1
<1> DEFINE context == core.context \o keyed
           g == [core EXCEPT !.context = context]
           t == [g EXCEPT !.turn.phase = phase]
<1>6. Settled(g) /\ g.turn = core.turn /\ IsActive(g)
  BY <1>1, <1>5, ContextGrows DEF IsActive
<1>7. core \in State
  BY <1>1 DEF Settled
<1> HIDE DEF phase, context
<1>8. t = [core EXCEPT !.context = context, !.turn.phase = phase]
  BY <1>7 DEF State
<1>9. /\ Settled(t) /\ IsActive(t) /\ t.turn.phase = phase
      /\ t.turn.iterations = core.turn.iterations
  <2> HIDE DEF g
  <2> QED
    BY <1>2, <1>6, PhaseUpdate
<1> HIDE DEF g
<1>10. Dispatching(t)
  BY <1>1, <1>2, <1>9 DEF Dispatching
<1>11. core' \in DispatchAgent(t, TRUE)
  BY <1>4, <1>8 DEF context
<1> HIDE DEF t
<1> QED
  BY <1>10, <1>11, DispatchSound

(* A candidate that its hook accepts.                                      *)
LEMMA CandidateAcceptStep == IInv /\ (PostLlmAccept \/ PostAgentAccept) => IInv'
<1> SUFFICES ASSUME IInv, PostLlmAccept \/ PostAgentAccept
             PROVE  Sound(core')
  BY DEF IInv
<1> DEFINE id == core.turn.phase.completion
           list == core.turn.phase.calls
<1>1. /\ Settled(core) /\ IsActive(core) /\ core.turn.phase \in Phases
      /\ core.turn.phase.kind \in {"PostLlmCall", "PostAgentTurn"}
  BY Waiting DEF PostLlmAccept, PostAgentAccept, InPhase
<1>2. id \in CompletionIds /\ list \in CallSeqs /\ core.turn.iterations < MaxIterations
  BY <1>1, Waiting DEF Phases
<1>3. core' \in ResolveAfterPostLlm(core, id, list) \/ core' \in ResolveAccepted(core, list)
  BY DEF PostLlmAccept, PostAgentAccept
<1> QED
  BY <1>1, <1>2, <1>3, ResolveAfterPostLlmSound, ResolveAcceptedSound

(* One more iteration for an active turn.                                  *)
LEMMA IterationsUpdate ==
    ASSUME NEW s, Settled(s), IsActive(s)
    PROVE  LET t == [s EXCEPT !.turn.iterations = s.turn.iterations + 1]
           IN  /\ Settled(t) /\ IsActive(t)
               /\ t.turn.iterations = s.turn.iterations + 1
<1> DEFINE n == s.turn.iterations + 1
           turn == [s.turn EXCEPT !.iterations = n]
           t == [s EXCEPT !.turn = turn]
<1>1. s \in State /\ s.turn \in ActiveTurns
  BY ActiveTurn DEF Settled
<1>2. n \in Nat
  BY <1>1 DEF ActiveTurns
<1>3. t = [s EXCEPT !.turn.iterations = s.turn.iterations + 1]
  OBVIOUS
<1> HIDE DEF n
<1>4. turn \in ActiveTurns /\ turn.kind = "Active" /\ turn.iterations = n
  BY <1>1, <1>2 DEF ActiveTurns
<1> HIDE DEF turn
<1>5. /\ t \in State /\ t.turn = turn /\ t.issued = s.issued
      /\ t.compactions = s.compactions /\ t.context = s.context
  BY <1>1, <1>4 DEF State, Turns
<1>6. Len(t.context) >= Len(s.context)
  BY <1>1, <1>5 DEF State
<1> HIDE DEF t
<1>7. Settled(t)
  BY <1>5, <1>6, SettledKept
<1> QED
  BY <1>3, <1>4, <1>5, <1>7 DEF IsActive, n

(* A candidate that its hook sends back to the model.                      *)
LEMMA CandidateRetryStep == IInv /\ CandidateRetry => IInv'
<1> SUFFICES ASSUME IInv, CandidateRetry
             PROVE  Sound(core')
  BY DEF IInv
<1> DEFINE i == [core EXCEPT !.turn.iterations = core.turn.iterations + 1]
           context == Append(core.context, Note("feedback"))
           t == [i EXCEPT !.context = i.context \o <<Note("feedback")>>]
<1>1. Settled(core) /\ IsActive(core) /\ core \in State
  BY Waiting DEF CandidateRetry, InCandidateHook, InPhase
<1>2. /\ Settled(i) /\ IsActive(i)
      /\ i.turn.iterations = core.turn.iterations + 1
  BY <1>1, IterationsUpdate
<1>3. <<Note("feedback")>> \in Seq(Message) /\ <<Note("feedback")>> # <<>>
  BY DEF Note, Message
<1>4. i.context = core.context /\ core.context \in Seq(Message)
  BY <1>1 DEF State
<1>5. context = i.context \o <<Note("feedback")>>
  <2>1. Note("feedback") \in Message
    BY DEF Note, Message
  <2> HIDE DEF i
  <2> QED
    BY <1>4, <2>1
<1>6. t = [core EXCEPT !.turn.iterations = core.turn.iterations + 1,
                       !.context = context]
  BY <1>1, <1>5 DEF State
<1> HIDE DEF i
<1>7. Settled(t) /\ NextIsNew(t) /\ t.turn = i.turn
  BY <1>2, <1>3, ContextGrows
<1>8. core' \in ContinueActiveTurn(t, TRUE)
  BY <1>6 DEF CandidateRetry
<1>9. core.turn.iterations + 1 < MaxIterations
  BY DEF CandidateRetry
<1> HIDE DEF t, context
<1>10. t \in State /\ DistinctIds(t) /\ IsActive(t)
  BY <1>2, <1>7 DEF Settled, IsActive
<1> QED
  BY <1>2, <1>7, <1>8, <1>9, <1>10, ContinueSound

(* A candidate that its hook rejects.                                      *)
LEMMA CandidateRejectStep == IInv /\ CandidateReject => IInv'
<1> SUFFICES ASSUME IInv, CandidateReject
             PROVE  Sound(core')
  BY DEF IInv
<1> DEFINE t == [core EXCEPT !.turn.iterations = core.turn.iterations + 1]
<1>1. Settled(core) /\ IsActive(core)
  BY Waiting DEF CandidateReject, InCandidateHook, InPhase
<1>2. Settled(t) /\ IsActive(t)
  BY <1>1, IterationsUpdate
<1>3. core' = FinishTurn(t, "Rejected")
  BY DEF CandidateReject
<1> HIDE DEF t
<1> QED
  BY <1>2, <1>3, FinishTurnSound DEF Outcomes

(* The end of a compaction, or another attempt at it.                      *)
LEMMA CompactionStep ==
    IInv /\ (SummaryAccepted \/ SummaryRejected \/ CompactionFailed) => IInv'
<1> SUFFICES ASSUME IInv, SummaryAccepted \/ SummaryRejected \/ CompactionFailed
             PROVE  Sound(core')
  BY DEF IInv
<1>1. Sound(core) /\ Settled(core)
  BY DEF IInv, Sound
<1>2. CASE SummaryAccepted
  BY <1>1, <1>2, CompactionAcceptedSound DEF SummaryAccepted
<1>3. CASE SummaryRejected
  BY <1>1, <1>3, RejectSummarySound DEF SummaryRejected
<1>4. CASE CompactionFailed
  BY <1>1, <1>4, FailCompactionSound DEF CompactionFailed
<1> QED
  BY <1>2, <1>3, <1>4

-----------------------------------------------------------------------------
(* The theorems.                                                           *)

(* A new session satisfies the inductive invariant.                        *)
LEMMA InitSound == Init => IInv
<1> SUFFICES ASSUME Init
             PROVE  Sound(core)
  BY DEF IInv
<1>1. PICK hooks \in HookChoices :
        core = [turn |-> Idle, context |-> <<>>, archived |-> <<>>,
                compactions |-> 0, reportedOver |-> FALSE, lastFinished |-> 0,
                pending |-> <<>>, notesReady |-> FALSE, received |-> {},
                hooks |-> hooks, turns |-> 0, sent |-> 0, steered |-> <<>>,
                issued |-> <<>>]
  BY DEF Init
<1>2. Idle \in Turns /\ Idle.kind = "Idle" /\ hooks \in SUBSET HookPoints
  BY HookAssumption DEF Turns, RestingTurns, Idle
<1>3. /\ <<>> \in Seq(Message) /\ <<>> \in Seq(Notifications) /\ <<>> \in Seq(Nat)
      /\ <<>> \in Seq(CompletionIds) /\ {} \in SUBSET Notifications
  OBVIOUS
<1>4. core \in State
  BY <1>1, <1>2, <1>3 DEF State
<1>5. core.issued = <<>> /\ core.turn = Idle
  BY <1>1
<1>6. DOMAIN core.issued = {}
  BY <1>5
<1>7. Settled(core)
  BY <1>4, <1>6 DEF Settled, DistinctIds, NoneBeyond
<1> QED
  BY <1>2, <1>5, <1>7 DEF Sound, IsCompacting, InPhase, IsActive, HasBudget

(* Every step keeps it.                                                    *)
LEMMA NextSound == IInv /\ [Next]_vars => IInv'
<1> SUFFICES ASSUME IInv, [Next]_vars
             PROVE  IInv'
  OBVIOUS
<1>1. CASE UNCHANGED vars \/ LateInterrupt
  BY <1>1 DEF vars, LateInterrupt, IInv
<1>2. CASE QueueAtRest \/ OpenFollowUp \/ ExtendFollowUp \/ Steer \/ ContextMessage
  BY <1>2, QueueAtRestStep, OpenFollowUpStep, ExtendFollowUpStep, SteerStep,
     ContextMessageStep
<1>3. CASE \E n \in Notifications : ReceiveNotification(n)
  BY <1>3, ReceiveNotificationStep
<1>4. CASE ManualCompaction \/ Reconfigure \/ Interrupt \/ FailTurn
  BY <1>4, ManualCompactionStep, ReconfigureStep, AbandonStep
<1>5. CASE Answer
  <2>1. CASE CompletionSucceeded \/ CompletionFailed \/ PreLlmSkip \/ HookFailed
    BY <2>1, CompletionSucceededStep, EndingStep
  <2>2. CASE \E call \in Calls : FinishToolCall(call)
    BY <2>2, FinishToolCallStep
  <2>3. CASE PreAgentContinue \/ PreAgentSkip \/ PreLlmContinue
    BY <2>3, PreAgentStep, PreLlmContinueStep
  <2>4. CASE PostLlmAccept \/ PostAgentAccept \/ CandidateRetry \/ CandidateReject
    BY <2>4, CandidateAcceptStep, CandidateRetryStep, CandidateRejectStep
  <2>5. CASE SummaryAccepted \/ SummaryRejected \/ CompactionFailed
    BY <2>5, CompactionStep
  <2> QED
    BY <1>5, <2>1, <2>2, <2>3, <2>4, <2>5 DEF Answer
<1> QED
  BY <1>1, <1>2, <1>3, <1>4, <1>5 DEF Next

(* The inductive invariant holds in every reachable state.                 *)
THEOREM EngineSound == Spec => []IInv
  BY InitSound, NextSound, PTL DEF Spec

(* The engine state keeps its shape (HarnessState).                        *)
THEOREM TypeCorrect == Spec => []TypeOK
<1>1. IInv => TypeOK
  BY DEF IInv, Sound, Settled, TypeOK
<1> QED
  BY <1>1, EngineSound, PTL

(* No two completions of a session ever share an action id, whatever       *)
(* turns, interruptions and compactions lie between them                   *)
(* (action_id::completion, next_completion).                               *)
THEOREM CompletionIdsUnique == Spec => []CompletionIdsNeverReused
<1>1. IInv => CompletionIdsNeverReused
  BY DEF IInv, Sound, Settled, CompletionIdsNeverReused
<1> QED
  BY <1>1, EngineSound, PTL

(* A turn that waits has an iteration left for what it waits for           *)
(* (resolve_accepted, complete_output, apply_tool_batch_transition).       *)
THEOREM IterationsBudgeted == Spec => []IterationBudget
<1>1. IInv => IterationBudget
  BY DEF IInv, Sound, IterationBudget
<1> QED
  BY <1>1, EngineSound, PTL
-----------------------------------------------------------------------------
(* What every operator keeps of turns, notices and phases, and how it      *)
(* moves the turn.                                                         *)

(* Turns finish in the order of their identities.                          *)
Numbers(s) ==
    /\ s.lastFinished <= s.turns
    /\ s.turn.kind = "Terminal" => s.lastFinished = s.turn.id
    /\ IsActive(s) =>
          /\ s.lastFinished < s.turn.id
          /\ s.turn.id <= s.turns
          /\ s.turn.queued # NoQueue =>
                /\ s.turn.id < s.turn.queued.id
                /\ s.turn.queued.id <= s.turns

(* A ready notice has something to tell, and waits for no model input that *)
(* is not ready itself.                                                    *)
Notices(s) ==
    /\ s.notesReady => s.pending # <<>>
    /\ ToSet(s.pending) \subseteq s.received
    /\ IsActive(s) /\ s.turn.phase.kind # "PreAgentTurn" /\ ~s.turn.ready =>
          ~s.notesReady

(* A phase agrees with the turn it is a phase of.                          *)
Poised(s) ==
    /\ s.turn.kind = "Compacting" => s.turn.attempt <= MaxSummaryRetries
    /\ IsActive(s) =>
          LET phase == s.turn.phase
          IN  /\ phase.kind # "PreAgentTurn" => s.context # <<>>
              /\ phase.kind = "AwaitingCompletion" => ~s.turn.ready
              /\ phase.kind \in {"AwaitingCompletion", "PreLlmCall",
                                 "PostLlmCall", "PostAgentTurn"} =>
                    phase.completion \in ToSet(s.issued)
              /\ phase.kind = "PreAgentTurn" =>
                    /\ phase.id = s.turn.id
                    /\ phase.suspended # Idle =>
                          s.lastFinished = phase.suspended.id
              /\ phase.kind = "AwaitingCompaction" =>
                    /\ phase.id = s.turn.id
                    /\ phase.iterations = s.turn.iterations
                    /\ phase.attempt <= MaxSummaryRetries
              /\ phase.kind = "AwaitingToolBatch" =>
                    /\ phase.open # {}
                    /\ Last(s.context) = AssistantMessage(phase.calls)

Steady(s) == Numbers(s) /\ Notices(s) /\ Poised(s)

(* A turn in the middle of a step.                                         *)
Midway(s) == Settled(s) /\ IsActive(s) /\ Numbers(s) /\ Notices(s)

(* Where a turn may be after a step: it runs, it rests, it is at its hook. *)
Runs(t, id, last) ==
    /\ IsActive(t)
    /\ t.turn.phase.kind # "PreAgentTurn"
    /\ t.turn.id = id
    /\ t.lastFinished = last

Rests(t, id, outcome) == t.turn = Terminal(id, outcome) /\ t.lastFinished = id

Admitted(t, id, msgs, last) ==
    /\ InPhase(t, "PreAgentTurn")
    /\ t.turn.phase.content = msgs
    /\ t.turn.id = id
    /\ t.lastFinished = last

Proceeds(t, id, last) == Runs(t, id, last) \/ Rests(t, id, "Failed")

Starts(t, id, msgs, last) ==
    \/ Admitted(t, id, msgs, last)
    \/ Proceeds(t, id, last) /\ ToSet(Users(msgs)) \subseteq ToSet(t.context)

Completes(s, t) ==
    IF s.turn.queued = NoQueue THEN Rests(t, s.turn.id, "Completed")
    ELSE Starts(t, s.turn.queued.id, s.turn.queued.msgs, s.turn.id)

GoesOn(s, t) == Proceeds(t, s.turn.id, s.lastFinished) \/ Completes(s, t)

(* A completion in flight after a step is none of those issued before it.  *)
Planned(t, issued) ==
    InPhase(t, "AwaitingCompletion") => t.turn.phase.completion \notin ToSet(issued)

(* The messages of a sequence are among those of a longer one.             *)
LEMMA ConcatCarries ==
    ASSUME NEW S, NEW a \in Seq(S), NEW b \in Seq(S)
    PROVE  /\ ToSet(a) \subseteq ToSet(a \o b)
           /\ ToSet(b) \subseteq ToSet(a \o b)
           /\ a # <<>> => a \o b # <<>>
<1>1. /\ Len(a) \in Nat /\ Len(b) \in Nat /\ Len(a \o b) = Len(a) + Len(b)
      /\ DOMAIN a = 1..Len(a) /\ DOMAIN b = 1..Len(b)
      /\ DOMAIN (a \o b) = 1..Len(a) + Len(b)
  OBVIOUS
<1>2. \A i \in 1..Len(a) : i \in DOMAIN (a \o b) /\ (a \o b)[i] = a[i]
  BY <1>1
<1>3. \A i \in 1..Len(b) : /\ Len(a) + i \in DOMAIN (a \o b)
                           /\ (a \o b)[Len(a) + i] = b[i]
  BY <1>1
<1>4. a # <<>> => a \o b # <<>>
  OBVIOUS
<1> QED
  BY <1>1, <1>2, <1>3, <1>4 DEF ToSet

(* Finishing a turn records it.                                            *)
LEMMA FinishTurnSteady ==
    ASSUME NEW s, Midway(s), NEW outcome \in Outcomes
    PROVE  LET t == FinishTurn(s, outcome)
           IN  /\ Steady(t) /\ Settled(t) /\ Rests(t, s.turn.id, outcome)
               /\ Resting(t) /\ ToSet(s.context) \subseteq ToSet(t.context)
               /\ t.issued = s.issued /\ t.turns = s.turns
<1> DEFINE t == FinishTurn(s, outcome)
           context == s.context \o Users(s.turn.steer)
           turn == Terminal(s.turn.id, outcome)
<1>1. s \in State /\ s.turn \in ActiveTurns
  BY ActiveTurn DEF Midway, Settled
<1>2. Settled(t) /\ Resting(t)
  BY FinishTurnSound DEF Midway, Sound
<1>3. Users(s.turn.steer) \in Seq(Message) /\ s.context \in Seq(Message)
  BY <1>1, UsersType DEF ActiveTurns, State
<1>4. ToSet(s.context) \subseteq ToSet(context)
  BY <1>3, ConcatCarries
<1>5. t = [s EXCEPT !.context = context, !.lastFinished = s.turn.id, !.turn = turn]
  BY DEF FinishTurn
<1>6. turn.kind = "Terminal" /\ turn.id = s.turn.id
  BY DEF Terminal
<1> HIDE DEF t, context, turn
<1>7. /\ t.context = context /\ t.lastFinished = s.turn.id /\ t.turn = turn
      /\ t.issued = s.issued /\ t.turns = s.turns /\ t.pending = s.pending
      /\ t.notesReady = s.notesReady /\ t.received = s.received
  BY <1>1, <1>5 DEF State
<1>8. Numbers(t)
  BY <1>6, <1>7 DEF Midway, Numbers, IsActive
<1>9. Notices(t)
  BY <1>6, <1>7 DEF Midway, Notices, IsActive
<1>10. Poised(t)
  BY <1>6, <1>7 DEF Poised, IsActive
<1>11. Rests(t, s.turn.id, outcome)
  BY <1>7 DEF Rests, turn
<1> QED
  BY <1>2, <1>4, <1>7, <1>8, <1>9, <1>10, <1>11 DEF t, Steady

(* Facts about a turn in the middle of a step that only some components    *)
(* matter to.                                                              *)
LEMMA MidwayKept ==
    ASSUME NEW s, Midway(s), NEW t, Settled(t), IsActive(t),
           t.turn.id = s.turn.id, t.turn.queued = s.turn.queued,
           t.lastFinished = s.lastFinished, t.turns = s.turns, Notices(t)
    PROVE  Midway(t)
BY DEF Midway, Numbers, IsActive

(* Counting a compaction changes nothing else.                             *)
LEMMA CountCompactionSteady ==
    ASSUME NEW s, Midway(s)
    PROVE  LET t == CountCompaction(s)
           IN  /\ Midway(t) /\ t.turn = s.turn /\ t.context = s.context
               /\ t.lastFinished = s.lastFinished /\ t.turns = s.turns
               /\ t.issued = s.issued
<1> DEFINE t == CountCompaction(s)
<1>1. Settled(t) /\ t.turn = s.turn
  BY CountCompactionSound DEF Midway
<1>2. s \in State
  BY DEF Midway, Settled
<1>3. /\ t.context = s.context /\ t.lastFinished = s.lastFinished
      /\ t.turns = s.turns /\ t.issued = s.issued /\ t.pending = s.pending
      /\ t.notesReady = s.notesReady /\ t.received = s.received
  BY <1>2 DEF CountCompaction, State
<1> HIDE DEF t
<1>4. Notices(t) /\ IsActive(t)
  BY <1>1, <1>3 DEF Midway, Notices, IsActive
<1>5. Midway(t)
  BY <1>1, <1>3, <1>4, MidwayKept
<1> QED
  BY <1>1, <1>3, <1>5 DEF t

(* Late input is taken when it is ready, and after that none is ready.     *)
LEMMA TakeLateInputSteady ==
    ASSUME NEW s, Midway(s), Dispatching(s)
    PROVE  LET t == TakeLateInput(s)
           IN  /\ Midway(t) /\ t.turn.id = s.turn.id
               /\ t.turn.phase = s.turn.phase
               /\ t.turn.queued = s.turn.queued
               /\ ~t.turn.ready
               /\ t.lastFinished = s.lastFinished /\ t.turns = s.turns
               /\ t.issued = s.issued
               /\ ToSet(s.context) \subseteq ToSet(t.context)
               /\ s.context # <<>> => t.context # <<>>
<1> DEFINE late == LateInput(s)
           context == s.context \o late
           turn == [s.turn EXCEPT !.steer = <<>>, !.ready = FALSE]
           pending == IF s.notesReady THEN <<>> ELSE s.pending
           t == TakeLateInput(s)
<1>1. s \in State /\ s.turn \in ActiveTurns /\ IsActive(s)
  BY ActiveTurn DEF Dispatching, Settled
<1>2. late \in Seq(Message) /\ s.context \in Seq(Message)
  BY <1>1, LateInputType DEF State
<1>3. Dispatching(t) /\ Settled(t) /\ IsActive(t)
  BY TakeLateInputSound DEF Dispatching
<1>4. /\ ToSet(s.context) \subseteq ToSet(context)
      /\ s.context # <<>> => context # <<>>
  BY <1>2, ConcatCarries
<1>5. CASE ~s.turn.ready
  BY <1>5 DEF TakeLateInput
<1>6. CASE s.turn.ready
  <2>1. t = [s EXCEPT !.context = context, !.turn = turn, !.pending = pending,
                      !.notesReady = FALSE]
    BY <1>1, <1>6 DEF TakeLateInput, State, ActiveTurns
  <2>2. /\ turn.id = s.turn.id /\ turn.phase = s.turn.phase
        /\ turn.queued = s.turn.queued /\ turn.ready = FALSE /\ turn.kind = "Active"
    BY <1>1 DEF ActiveTurns
  <2>3. ToSet(pending) \subseteq ToSet(s.pending)
    BY DEF ToSet
  <2> HIDE DEF t, context, turn, pending
  <2>4. /\ t.context = context /\ t.turn = turn /\ t.pending = pending
        /\ t.notesReady = FALSE /\ t.received = s.received
        /\ t.lastFinished = s.lastFinished /\ t.turns = s.turns
        /\ t.issued = s.issued
    BY <1>1, <2>1 DEF State
  <2>5. Notices(t)
    BY <2>3, <2>4 DEF Midway, Notices
  <2>6. Midway(t)
    BY <1>3, <2>2, <2>4, <2>5, MidwayKept
  <2> QED
    BY <1>4, <2>2, <2>4, <2>6 DEF t
<1> QED
  BY <1>5, <1>6

(* The compaction check: the turn goes on as it was, waits, or has failed. *)
LEMMA PreflightSteady ==
    ASSUME NEW s, Midway(s), s.turn.phase.kind = "AwaitingCompletion",
           ~s.turn.ready, s.context # <<>>,
           s.turn.phase.completion \in ToSet(s.issued),
           NEW grown, NEW t \in Preflight(s, grown)
    PROVE  /\ Steady(t)
           /\ Proceeds(t, s.turn.id, s.lastFinished)
           /\ InPhase(t, "AwaitingCompletion") => t.turn.phase = s.turn.phase
           /\ ToSet(s.context) \subseteq ToSet(t.context)
<1> DEFINE counted == CountCompaction(s)
           phase == AwaitingCompaction(counted.turn, counted.compactions, 0)
<1>1. /\ Midway(counted) /\ counted.turn = s.turn /\ counted.context = s.context
      /\ counted.lastFinished = s.lastFinished
      /\ counted.turns = s.turns /\ counted.issued = s.issued
  BY CountCompactionSteady
<1>2. CASE t = s
  <2>1. Poised(s)
    BY DEF Poised, Midway, IsActive
  <2> QED
    BY <1>2, <2>1 DEF Midway, Steady, Proceeds, Runs
<1>3. CASE t = FinishTurn(counted, "Failed")
  <2>1. "Failed" \in Outcomes
    BY DEF Outcomes
  <2> HIDE DEF counted
  <2>2. /\ Steady(t) /\ Rests(t, counted.turn.id, "Failed") /\ Resting(t)
        /\ ToSet(counted.context) \subseteq ToSet(t.context)
    BY <1>1, <1>3, <2>1, FinishTurnSteady
  <2> QED
    BY <1>1, <2>2 DEF Proceeds, InPhase, IsActive, Resting
<1>4. CASE t = AwaitCompaction(counted, 0)
  <2>1. counted \in State /\ counted.turn \in ActiveTurns /\ IsActive(counted)
    BY <1>1, ActiveTurn DEF Midway, Settled
  <2>2. t = [counted EXCEPT !.turn.phase = phase]
    BY <1>4 DEF AwaitCompaction
  <2>3. /\ phase \in Phases /\ phase.kind = "AwaitingCompaction"
        /\ phase.id = counted.turn.id /\ phase.attempt = 0
        /\ phase.iterations = counted.turn.iterations
    BY <2>1 DEF State, ActiveTurns, Phases, AwaitingCompaction
  <2> HIDE DEF counted, phase
  <2> DEFINE turn == [counted.turn EXCEPT !.phase = phase]
  <2>4. Settled(t) /\ IsActive(t) /\ t.turn = turn
    BY <1>1, <2>1, <2>2, <2>3, PhaseUpdate, ZenonT(60) DEF Midway
  <2>5. /\ turn.phase = phase /\ turn.id = counted.turn.id
        /\ turn.queued = counted.turn.queued
        /\ turn.iterations = counted.turn.iterations
        /\ turn.ready = counted.turn.ready
    BY <2>1 DEF ActiveTurns
  <2> HIDE DEF turn
  <2>6. /\ t.context = counted.context /\ t.lastFinished = counted.lastFinished
        /\ t.turns = counted.turns /\ t.issued = counted.issued
        /\ t.pending = counted.pending /\ t.notesReady = counted.notesReady
        /\ t.received = counted.received
    BY <2>1, <2>2 DEF State
  <2>7. Notices(t)
    BY <1>1, <2>4, <2>5, <2>6 DEF Midway, Notices
  <2>8. Midway(t)
    BY <1>1, <2>4, <2>5, <2>6, <2>7, MidwayKept
  <2>9. Poised(t)
    BY <1>1, <2>3, <2>4, <2>5, <2>6 DEF Poised, IsActive, MaxSummaryRetries
  <2> QED
    BY <1>1, <2>3, <2>4, <2>5, <2>6, <2>8, <2>9
       DEF Midway, Steady, Proceeds, Runs, InPhase
<1> QED
  BY <1>2, <1>3, <1>4 DEF Preflight

(* A dispatch from a planned phase.                                        *)
LEMMA DispatchSteady ==
    ASSUME NEW s, Midway(s), Dispatching(s), s.context # <<>>,
           s.turn.phase.completion \in ToSet(s.issued),
           NEW grown, NEW t \in DispatchAgent(s, grown)
    PROVE  /\ Steady(t)
           /\ Proceeds(t, s.turn.id, s.lastFinished)
           /\ InPhase(t, "AwaitingCompletion") => t.turn.phase = s.turn.phase
           /\ ToSet(s.context) \subseteq ToSet(t.context)
<1>1. CASE s.turn.phase.kind = "AwaitingCompletion"
  <2> DEFINE taken == TakeLateInput(s)
  <2>1. /\ Midway(taken) /\ taken.turn.id = s.turn.id
        /\ taken.turn.phase = s.turn.phase /\ ~taken.turn.ready
        /\ taken.lastFinished = s.lastFinished
        /\ taken.issued = s.issued /\ taken.context # <<>>
        /\ ToSet(s.context) \subseteq ToSet(taken.context)
    BY TakeLateInputSteady
  <2>2. t \in Preflight(taken, grown \/ LateInput(s) # <<>>)
    BY <1>1 DEF DispatchAgent
  <2> HIDE DEF taken
  <2>3. /\ Steady(t)
        /\ Proceeds(t, taken.turn.id, taken.lastFinished)
        /\ InPhase(t, "AwaitingCompletion") => t.turn.phase = taken.turn.phase
        /\ ToSet(taken.context) \subseteq ToSet(t.context)
    BY <1>1, <2>1, <2>2, PreflightSteady
  <2> QED
    BY <2>1, <2>3
<1>2. CASE s.turn.phase.kind # "AwaitingCompletion"
  <2>1. t = s /\ s.turn.phase.kind = "PreLlmCall"
    BY <1>2 DEF DispatchAgent, Dispatching
  <2>2. Poised(s)
    BY <2>1 DEF Poised, Midway, IsActive
  <2> QED
    BY <2>1, <2>2 DEF Midway, Steady, Proceeds, Runs, InPhase
<1> QED
  BY <1>1, <1>2

(* The id a state plans is issued with it, and was not issued before.      *)
LEMMA IssuePlans ==
    ASSUME NEW s \in State, NextIsNew(s)
    PROVE  /\ PlannedPhase(s).completion \in ToSet(Issue(s).issued)
           /\ PlannedPhase(s).completion \notin ToSet(s.issued)
           /\ Issue(s).issued = Append(s.issued, NextCompletionId(s))
           /\ \A field \in {"lastFinished", "turns", "pending", "notesReady",
                            "received"} : Issue(s)[field] = s[field]
<1> DEFINE id == NextCompletionId(s)
<1>1. s.issued \in Seq(CompletionIds) /\ s.compactions \in Nat /\ Len(s.context) \in Nat
  BY DEF State
<1>2. id \in CompletionIds /\ id[1] \in Nat /\ id[2] \in Nat
  BY <1>1 DEF NextCompletionId, CompletionIds
<1>3. PlannedPhase(s).completion = id
  BY DEF PlannedPhase, CompletionHook, AwaitingCompletion
<1> HIDE DEF id
<1>4. /\ DOMAIN Append(s.issued, id) = 1..Len(s.issued)+1 /\ Len(s.issued) \in Nat
      /\ Append(s.issued, id)[Len(s.issued)+1] = id
  BY <1>1, <1>2
<1>5. id \in ToSet(Append(s.issued, id))
  BY <1>4 DEF ToSet
<1>6. \A i \in DOMAIN s.issued : s.issued[i][1] \in Nat /\ s.issued[i][2] \in Nat
  BY <1>1 DEF CompletionIds
<1>7. \A i \in DOMAIN s.issued : s.issued[i] # id
  BY <1>2, <1>6 DEF NextIsNew, Precedes, id
<1>8. id \notin ToSet(s.issued)
  BY <1>7 DEF ToSet
<1>9. Issue(s) = [s EXCEPT !.issued = Append(s.issued, id)]
  BY DEF Issue, id
<1>10. Issue(s).issued = Append(s.issued, id)
  BY <1>9 DEF State
<1>11. \A field \in {"lastFinished", "turns", "pending", "notesReady", "received"} :
          Issue(s)[field] = s[field]
  BY <1>9 DEF State
<1> QED
  BY <1>3, <1>5, <1>8, <1>10, <1>11 DEF id

(* The next completion of a turn.                                          *)
LEMMA ContinueSteady ==
    ASSUME NEW s, Midway(s), NextIsNew(s), s.turn.iterations < MaxIterations,
           s.turn.phase.kind # "PreAgentTurn", s.context # <<>>,
           NEW grown, NEW t \in ContinueActiveTurn(s, grown)
    PROVE  /\ Steady(t)
           /\ Proceeds(t, s.turn.id, s.lastFinished)
           /\ Planned(t, s.issued)
<1> DEFINE issue == Issue(s)
           phase == PlannedPhase(s)
           planned == [issue EXCEPT !.turn.phase = phase]
<1>1. s \in State /\ DistinctIds(s) /\ IsActive(s) /\ s.turn \in ActiveTurns
  BY ActiveTurn DEF Midway, Settled
<1>2. /\ Settled(issue) /\ IsActive(issue) /\ issue.turn = s.turn
      /\ issue.context = s.context /\ issue \in State
  BY <1>1, IssueSound DEF IsActive, Settled
<1>3. phase \in Phases /\ phase.kind \in {"AwaitingCompletion", "PreLlmCall"}
  BY <1>1, PlannedPhaseType
<1>4. phase.completion \in ToSet(issue.issued) /\ phase.completion \notin ToSet(s.issued)
  BY <1>1, IssuePlans
<1>5. \A field \in {"lastFinished", "turns", "pending", "notesReady", "received"} :
          issue[field] = s[field]
  BY <1>1, IssuePlans
<1>6. /\ issue.lastFinished = s.lastFinished /\ issue.turns = s.turns
      /\ issue.pending = s.pending /\ issue.notesReady = s.notesReady
      /\ issue.received = s.received
  BY <1>5
<1>7. t \in DispatchAgent(planned, grown)
  BY DEF ContinueActiveTurn
<1> DEFINE turn == [s.turn EXCEPT !.phase = phase]
<1> HIDE DEF issue, phase
<1>8. /\ Settled(planned) /\ IsActive(planned) /\ planned.turn = turn
      /\ planned.turn.phase = phase
      /\ planned.turn.iterations = s.turn.iterations
      /\ planned.issued = issue.issued /\ planned.context = s.context
  BY <1>2, <1>3, PhaseUpdate
<1>9. /\ turn.id = s.turn.id /\ turn.queued = s.turn.queued
      /\ turn.ready = s.turn.ready
  BY <1>1 DEF ActiveTurns
<1>10. /\ planned.lastFinished = s.lastFinished /\ planned.turns = s.turns
       /\ planned.pending = s.pending /\ planned.notesReady = s.notesReady
       /\ planned.received = s.received
  BY <1>2, <1>6 DEF State
<1> HIDE DEF planned, turn
<1>11. Notices(planned)
  BY <1>1, <1>8, <1>9, <1>10 DEF Midway, Notices
<1>12. Midway(planned)
  BY <1>8, <1>9, <1>10, <1>11, MidwayKept
<1>13. Dispatching(planned)
  BY <1>3, <1>8 DEF Dispatching
<1>14. /\ Steady(t)
       /\ Proceeds(t, planned.turn.id, planned.lastFinished)
       /\ InPhase(t, "AwaitingCompletion") => t.turn.phase = planned.turn.phase
  BY <1>4, <1>7, <1>8, <1>12, <1>13, DispatchSteady
<1> QED
  BY <1>4, <1>8, <1>9, <1>10, <1>14 DEF Planned

(* Committing the first messages of a turn.                                *)
LEMMA CommitTurnSteady ==
    ASSUME NEW s, Settled(s), Notices(s), NEW id \in Nat,
           s.lastFinished < id, id <= s.turns,
           NEW messages \in Seq(Message), messages # <<>>,
           NEW t \in CommitTurn(s, id, messages)
    PROVE  /\ Steady(t)
           /\ Proceeds(t, id, s.lastFinished)
           /\ Planned(t, s.issued)
           /\ ToSet(messages) \subseteq ToSet(t.context)
<1> DEFINE context == EnsureSystemPrompt(s.context) \o messages
           filled == AppendTurnMessages(s, messages)
           issue == Issue(filled)
           phase == PlannedPhase(filled)
           turn == Active(id, phase, TRUE)
           started == [issue EXCEPT !.turn = turn]
<1>1. /\ s \in State /\ Settled(filled) /\ NextIsNew(filled) /\ filled \in State
      /\ DistinctIds(filled)
  BY AppendTurnMessagesSound DEF Settled
<1>2. Note("system") \in Message /\ s.context \in Seq(Message)
  BY <1>1 DEF Note, Message, State
<1>3. EnsureSystemPrompt(s.context) \in Seq(Message)
  BY <1>2 DEF EnsureSystemPrompt
<1>4. ToSet(messages) \subseteq ToSet(context) /\ context # <<>>
  <2>1. ToSet(messages) \subseteq ToSet(context)
    BY <1>3, ConcatCarries
  <2>2. context # <<>>
    BY <1>3
  <2> QED
    BY <2>1, <2>2
<1>5. filled = [s EXCEPT !.context = context]
  BY DEF AppendTurnMessages
<1> HIDE DEF context
<1>6. /\ filled.context = context /\ filled.lastFinished = s.lastFinished
      /\ filled.turns = s.turns /\ filled.pending = s.pending
      /\ filled.notesReady = s.notesReady /\ filled.received = s.received
      /\ filled.issued = s.issued
  BY <1>1, <1>5 DEF State
<1>7. t \in DispatchAgent(started, TRUE)
  BY DEF CommitTurn
<1> HIDE DEF filled
<1>8. /\ Settled(issue) /\ issue.context = context /\ issue \in State
  BY <1>1, <1>6, IssueSound DEF Settled
<1>9. phase \in Phases /\ phase.kind \in {"AwaitingCompletion", "PreLlmCall"}
  BY <1>1, PlannedPhaseType
<1>10. phase.completion \in ToSet(issue.issued) /\ phase.completion \notin ToSet(s.issued)
  BY <1>1, <1>6, IssuePlans
<1>11. \A field \in {"lastFinished", "turns", "pending", "notesReady", "received"} :
          issue[field] = filled[field]
  BY <1>1, IssuePlans
<1>12. /\ issue.lastFinished = s.lastFinished /\ issue.turns = s.turns
       /\ issue.pending = s.pending /\ issue.notesReady = s.notesReady
       /\ issue.received = s.received
  BY <1>6, <1>11
<1> HIDE DEF issue, phase
<1>13. /\ turn \in ActiveTurns /\ turn.kind = "Active" /\ turn.id = id
       /\ turn.phase = phase /\ turn.iterations = 0 /\ turn.ready = TRUE
       /\ turn.queued = NoQueue
  BY <1>9 DEF Active, ActiveTurns, Queues
<1> HIDE DEF turn
<1>14. /\ started \in State /\ started.turn = turn
       /\ started.issued = issue.issued
       /\ started.compactions = issue.compactions
       /\ started.context = context
       /\ started.lastFinished = s.lastFinished /\ started.turns = s.turns
       /\ started.pending = s.pending /\ started.notesReady = s.notesReady
       /\ started.received = s.received
  BY <1>8, <1>12, <1>13 DEF State, Turns
<1>15. Len(started.context) >= Len(issue.context)
  BY <1>8, <1>14 DEF State
<1> HIDE DEF started
<1>16. Settled(started) /\ IsActive(started)
  BY <1>8, <1>13, <1>14, <1>15, SettledKept DEF IsActive
<1>17. s.lastFinished \in Nat /\ s.turns \in Nat
  BY <1>1 DEF State
<1>18. Numbers(started)
  BY <1>13, <1>14, <1>17 DEF Numbers
<1>19. Notices(started)
  BY <1>13, <1>14 DEF Notices
<1>20. Dispatching(started)
  BY <1>9, <1>13, <1>14, <1>16, IterationAssumption DEF Dispatching
<1>21. Midway(started)
  BY <1>16, <1>18, <1>19 DEF Midway
<1>22. /\ Steady(t)
       /\ Proceeds(t, started.turn.id, started.lastFinished)
       /\ InPhase(t, "AwaitingCompletion") => t.turn.phase = started.turn.phase
       /\ ToSet(started.context) \subseteq ToSet(t.context)
  BY <1>4, <1>7, <1>10, <1>13, <1>14, <1>20, <1>21, DispatchSteady
<1> QED
  BY <1>4, <1>10, <1>13, <1>14, <1>22 DEF Planned

(* Starting a turn.                                                        *)
LEMMA StartTurnSteady ==
    ASSUME NEW s, Settled(s), Resting(s), Numbers(s), Notices(s), NEW id \in Nat,
           s.lastFinished < id, id <= s.turns,
           NEW msgs \in Seq(Nat), msgs # <<>>, NEW t \in StartTurn(s, id, msgs)
    PROVE  /\ Steady(t)
           /\ Starts(t, id, msgs, s.lastFinished)
           /\ Planned(t, s.issued)
<1> DEFINE phase == PreAgentHook(id, msgs, s.turn)
           turn == Active(id, phase, FALSE)
<1>1. s \in State
  BY DEF Settled
<1>2. CASE "PreAgentTurn" \in s.hooks
  <2>1. s.turn \in RestingTurns
    BY <1>1 DEF Resting, State, Turns, RestingTurns, CompactingTurns, ActiveTurns
  <2>2. s.turn # Idle => s.lastFinished = s.turn.id
    BY <2>1 DEF Numbers, RestingTurns
  <2>3. /\ phase.kind = "PreAgentTurn" /\ phase.id = id /\ phase.content = msgs
        /\ phase.suspended = s.turn
    BY DEF PreAgentHook
  <2>4. t = [s EXCEPT !.turn = turn]
    BY <1>2 DEF StartTurn
  <2> HIDE DEF phase
  <2>5. turn.kind = "Active" /\ turn.id = id /\ turn.phase = phase
        /\ turn.queued = NoQueue
    BY DEF Active
  <2> HIDE DEF turn
  <2>6. /\ t.turn = turn /\ t.issued = s.issued /\ t.context = s.context
        /\ t.lastFinished = s.lastFinished /\ t.turns = s.turns
        /\ t.pending = s.pending /\ t.notesReady = s.notesReady
        /\ t.received = s.received
    BY <1>1, <2>4 DEF State
  <2>7. Numbers(t)
    BY <2>5, <2>6 DEF Numbers
  <2>8. Notices(t)
    BY <2>3, <2>5, <2>6 DEF Notices
  <2>9. Poised(t)
    BY <2>2, <2>3, <2>5, <2>6 DEF Poised, IsActive
  <2>10. Admitted(t, id, msgs, s.lastFinished)
    BY <2>3, <2>5, <2>6 DEF Admitted, InPhase, IsActive
  <2>11. Planned(t, s.issued)
    BY <2>3, <2>5, <2>6 DEF Planned, InPhase
  <2> QED
    BY <2>7, <2>8, <2>9, <2>10, <2>11 DEF Steady, Starts
<1>3. CASE "PreAgentTurn" \notin s.hooks
  <2>1. Users(msgs) \in Seq(Message) /\ Len(Users(msgs)) = Len(msgs)
    BY UsersType
  <2>2. Users(msgs) # <<>>
    BY <2>1
  <2>3. t \in CommitTurn(s, id, Users(msgs))
    BY <1>3 DEF StartTurn
  <2> QED
    BY <2>1, <2>2, <2>3, CommitTurnSteady DEF Starts
<1> QED
  BY <1>2, <1>3

(* Completing a turn, with its follow-up.                                  *)
LEMMA FinishCompletedTurnSteady ==
    ASSUME NEW s, Midway(s), NEW t \in FinishCompletedTurn(s)
    PROVE  Steady(t) /\ Completes(s, t) /\ Planned(t, s.issued)
<1> DEFINE finished == FinishTurn(s, "Completed")
<1>1. /\ Steady(finished) /\ Settled(finished) /\ Resting(finished)
      /\ Rests(finished, s.turn.id, "Completed")
      /\ finished.issued = s.issued /\ finished.turns = s.turns
  <2>1. "Completed" \in Outcomes
    BY DEF Outcomes
  <2> QED
    BY <2>1, FinishTurnSteady
<1>2. s.turn \in ActiveTurns
  BY ActiveTurn DEF Midway, Settled
<1>3. CASE s.turn.queued = NoQueue
  <2>1. t = finished
    BY <1>3 DEF FinishCompletedTurn
  <2> HIDE DEF finished
  <2>2. Planned(t, s.issued)
    BY <1>1, <2>1 DEF Planned, InPhase, IsActive, Resting
  <2> QED
    BY <1>1, <1>3, <2>1, <2>2 DEF Completes
<1>4. CASE s.turn.queued # NoQueue
  <2> DEFINE id == s.turn.queued.id
             msgs == s.turn.queued.msgs
  <2>1. id \in Nat /\ msgs \in Seq(Nat) /\ msgs # <<>>
    BY <1>2, <1>4 DEF ActiveTurns, Queues
  <2>2. t \in StartTurn(finished, id, msgs)
    BY <1>4 DEF FinishCompletedTurn
  <2>3. s.turn.id < id /\ id <= s.turns
    BY <1>4 DEF Midway, Numbers
  <2> HIDE DEF finished
  <2>4. finished.lastFinished = s.turn.id
    BY <1>1 DEF Rests
  <2> HIDE DEF id, msgs
  <2>5. Steady(t) /\ Starts(t, id, msgs, s.turn.id) /\ Planned(t, s.issued)
    BY <1>1, <2>1, <2>2, <2>3, <2>4, StartTurnSteady DEF Steady
  <2> QED
    BY <1>4, <2>5 DEF Completes, id, msgs
<1> QED
  BY <1>3, <1>4

(* Completing with an answer.                                              *)
LEMMA CompleteOutputSteady ==
    ASSUME NEW s, Midway(s), NextIsNew(s), s.context # <<>>,
           s.turn.phase.kind # "PreAgentTurn", NEW t \in CompleteOutput(s)
    PROVE  Steady(t) /\ GoesOn(s, t) /\ Planned(t, s.issued)
<1>1. CASE t \in FinishCompletedTurn(s)
  BY <1>1, FinishCompletedTurnSteady DEF GoesOn
<1>2. CASE s.turn.iterations < MaxIterations /\ t \in ContinueActiveTurn(s, TRUE)
  BY <1>2, ContinueSteady DEF GoesOn
<1> QED
  BY <1>1, <1>2 DEF CompleteOutput

(* Marking a boundary changes what is ready, and nothing else.             *)
LEMMA MarkModelInputReadySteady ==
    ASSUME NEW s, Midway(s)
    PROVE  LET t == MarkModelInputReady(s)
           IN  /\ Midway(t) /\ t.turn.id = s.turn.id
               /\ t.turn.queued = s.turn.queued
               /\ t.turn.phase = s.turn.phase
               /\ t.turn.iterations = s.turn.iterations
               /\ t.lastFinished = s.lastFinished /\ t.turns = s.turns
               /\ t.issued = s.issued /\ t.context = s.context
               /\ NextIsNew(s) => NextIsNew(t)
<1> DEFINE turn == [s.turn EXCEPT !.ready = TRUE]
           ready == s.notesReady \/ s.pending # <<>>
           r == [s EXCEPT !.turn = turn]
           t == MarkModelInputReady(s)
<1>1. s \in State /\ s.turn \in ActiveTurns /\ IsActive(s)
  BY ActiveTurn DEF Midway, Settled
<1>2. /\ Settled(t) /\ IsActive(t) /\ t.issued = s.issued
      /\ t.compactions = s.compactions /\ t.context = s.context
  BY MarkModelInputReadySound DEF Midway
<1>3. /\ turn.id = s.turn.id /\ turn.queued = s.turn.queued /\ turn.ready = TRUE
      /\ turn.phase = s.turn.phase /\ turn.iterations = s.turn.iterations
  BY <1>1 DEF ActiveTurns
<1>4. r.notesReady = s.notesReady /\ r.pending = s.pending
  BY <1>1 DEF State
<1>5. t = [r EXCEPT !.notesReady = ready]
  BY <1>4 DEF MarkModelInputReady, MarkNotificationsReady
<1> HIDE DEF turn, ready, t
<1>6. /\ t.turn = turn /\ t.pending = s.pending /\ t.received = s.received
      /\ t.lastFinished = s.lastFinished /\ t.turns = s.turns
      /\ t.notesReady = ready
  BY <1>1, <1>5 DEF State
<1>7. Notices(t)
  BY <1>3, <1>6 DEF Midway, Notices, ready
<1>8. Midway(t)
  BY <1>2, <1>3, <1>6, <1>7, MidwayKept
<1>9. NextIsNew(s) => NextIsNew(t)
  BY <1>2 DEF NextIsNew, NextCompletionId
<1> QED
  BY <1>2, <1>3, <1>6, <1>8, <1>9 DEF t

(* Adding messages to the context in the middle of a step.                 *)
LEMMA ContextGrowsSteady ==
    ASSUME NEW s, Midway(s), NEW messages \in Seq(Message)
    PROVE  LET t == [s EXCEPT !.context = s.context \o messages]
           IN  /\ Midway(t) /\ t.turn = s.turn
               /\ t.lastFinished = s.lastFinished /\ t.issued = s.issued
               /\ t.context = s.context \o messages
               /\ messages # <<>> => NextIsNew(t) /\ t.context # <<>>
               /\ s.context # <<>> => t.context # <<>>
<1> DEFINE context == s.context \o messages
           t == [s EXCEPT !.context = context]
<1>1. s \in State /\ s.context \in Seq(Message)
  BY DEF Midway, Settled, State
<1>2. /\ Settled(t) /\ t.turn = s.turn
      /\ messages # <<>> => NextIsNew(t)
  BY ContextGrows DEF Midway
<1>3. /\ messages # <<>> => context # <<>>
      /\ s.context # <<>> => context # <<>>
  BY <1>1
<1> HIDE DEF context
<1>4. /\ t.context = context /\ t.lastFinished = s.lastFinished
      /\ t.turns = s.turns /\ t.pending = s.pending /\ t.issued = s.issued
      /\ t.notesReady = s.notesReady /\ t.received = s.received
  BY <1>1 DEF State
<1> HIDE DEF t
<1>5. Notices(t) /\ IsActive(t)
  BY <1>2, <1>4 DEF Midway, Notices, IsActive
<1>6. Midway(t)
  BY <1>2, <1>4, <1>5, MidwayKept
<1> QED
  BY <1>2, <1>3, <1>4, <1>6 DEF t, context

(* Moving a turn that has started to another phase.                        *)
LEMMA PhaseSteady ==
    ASSUME NEW s, Midway(s), s.turn.phase.kind # "PreAgentTurn",
           NEW phase \in Phases, phase.kind # "PreAgentTurn"
    PROVE  LET t == [s EXCEPT !.turn.phase = phase]
           IN  /\ Midway(t) /\ t.turn.phase = phase
               /\ t.turn.id = s.turn.id /\ t.turn.queued = s.turn.queued
               /\ t.turn.iterations = s.turn.iterations
               /\ t.turn.ready = s.turn.ready
               /\ t.lastFinished = s.lastFinished /\ t.issued = s.issued
               /\ t.context = s.context
               /\ Runs(t, s.turn.id, s.lastFinished)
<1> DEFINE turn == [s.turn EXCEPT !.phase = phase]
           t == [s EXCEPT !.turn.phase = phase]
<1>1. s \in State /\ s.turn \in ActiveTurns /\ Settled(s) /\ IsActive(s)
  BY ActiveTurn DEF Midway, Settled
<1>2. /\ Settled(t) /\ IsActive(t) /\ t.turn = turn /\ t.issued = s.issued
      /\ t.context = s.context /\ t.turn.phase = phase
  BY <1>1, PhaseUpdate
<1>3. /\ turn.id = s.turn.id /\ turn.queued = s.turn.queued
      /\ turn.ready = s.turn.ready /\ turn.iterations = s.turn.iterations
  BY <1>1 DEF ActiveTurns
<1> HIDE DEF turn
<1>4. /\ t.lastFinished = s.lastFinished
      /\ t.turns = s.turns /\ t.pending = s.pending
      /\ t.notesReady = s.notesReady /\ t.received = s.received
  BY <1>1 DEF State
<1> HIDE DEF t
<1>5. Notices(t)
  BY <1>2, <1>3, <1>4 DEF Midway, Notices, IsActive
<1>6. Midway(t)
  BY <1>2, <1>3, <1>4, <1>5, MidwayKept
<1> QED
  BY <1>2, <1>3, <1>4, <1>6 DEF Runs, t

(* What a turn does next depends on its identity, its queue and the turn   *)
(* that finished last.                                                     *)
LEMMA GoesOnFrom ==
    ASSUME NEW s, NEW m, NEW t, m.turn.id = s.turn.id,
           m.turn.queued = s.turn.queued, m.lastFinished = s.lastFinished,
           GoesOn(m, t)
    PROVE  GoesOn(s, t)
BY DEF GoesOn, Completes

(* A batch whose calls have all finished.                                  *)
LEMMA ContinueAfterBatchSteady ==
    ASSUME NEW s, Midway(s), s.turn.phase.kind # "PreAgentTurn",
           NEW list \in Seq(Calls), list # <<>>,
           NEW t \in ContinueAfterBatch(s, list)
    PROVE  Steady(t) /\ GoesOn(s, t) /\ Planned(t, s.issued)
<1> DEFINE results == [s EXCEPT !.context = s.context \o ToolResults(list)]
           landed == MarkModelInputReady(results)
<1>1. ToolResults(list) \in Seq(Message) /\ ToolResults(list) # <<>>
  BY ToolResultsType
<1>2. /\ Midway(results) /\ results.turn = s.turn /\ NextIsNew(results)
      /\ results.lastFinished = s.lastFinished /\ results.issued = s.issued
      /\ results.context # <<>>
  BY <1>1, ContextGrowsSteady
<1>3. \/ landed.turn.iterations >= MaxIterations /\ t \in FinishCompletedTurn(landed)
      \/ ~(landed.turn.iterations >= MaxIterations) /\ t \in ContinueActiveTurn(landed, TRUE)
  BY DEF ContinueAfterBatch
<1> HIDE DEF results
<1>4. /\ Midway(landed) /\ landed.turn.id = s.turn.id
      /\ landed.turn.queued = s.turn.queued /\ landed.turn.phase = s.turn.phase
      /\ landed.lastFinished = s.lastFinished /\ landed.issued = s.issued
      /\ landed.context # <<>> /\ NextIsNew(landed)
  BY <1>2, MarkModelInputReadySteady
<1> HIDE DEF landed
<1>5. landed.turn.iterations \in Nat
  BY <1>4, ActiveTurn DEF Midway, Settled, ActiveTurns
<1>6. Steady(t) /\ GoesOn(landed, t) /\ Planned(t, landed.issued)
  <2>1. CASE t \in FinishCompletedTurn(landed)
    BY <1>4, <2>1, FinishCompletedTurnSteady DEF GoesOn
  <2>2. CASE /\ ~(landed.turn.iterations >= MaxIterations)
             /\ t \in ContinueActiveTurn(landed, TRUE)
    <3>1. landed.turn.iterations < MaxIterations
      BY <1>5, <2>2, IterationAssumption
    <3> QED
      BY <1>4, <2>2, <3>1, ContinueSteady DEF GoesOn
  <2> QED
    BY <1>3, <2>1, <2>2
<1> QED
  BY <1>4, <1>6, GoesOnFrom

(* A batch, with some of its calls still open or none.                     *)
LEMMA ApplyBatchSteady ==
    ASSUME NEW s, Midway(s), s.turn.phase.kind # "PreAgentTurn",
           NEW list \in CallSeqs, list # <<>>, NEW open \in SUBSET Calls,
           s.context # <<>>, Last(s.context) = AssistantMessage(list),
           NEW t \in ApplyBatch(s, list, open)
    PROVE  Steady(t) /\ GoesOn(s, t) /\ Planned(t, s.issued)
<1> DEFINE phase == AwaitingToolBatch(list, open)
<1>1. CASE open = {}
  <2>1. list \in Seq(Calls) /\ t \in ContinueAfterBatch(s, list)
    BY <1>1, CallSeqsType DEF ApplyBatch
  <2> QED
    BY <2>1, ContinueAfterBatchSteady
<1>2. CASE open # {}
  <2>1. /\ phase \in Phases /\ phase.kind = "AwaitingToolBatch"
        /\ phase.open = open /\ phase.calls = list
    BY DEF AwaitingToolBatch, Phases
  <2>2. t = [s EXCEPT !.turn.phase = phase]
    BY <1>2 DEF ApplyBatch
  <2> HIDE DEF phase
  <2>3. /\ Midway(t) /\ t.turn.phase = phase /\ t.context = s.context
        /\ Runs(t, s.turn.id, s.lastFinished)
    <3>1. phase.kind # "PreAgentTurn"
      BY <2>1
    <3> QED
      BY <2>1, <2>2, <3>1, PhaseSteady
  <2>4. Poised(t)
    BY <1>2, <2>1, <2>3 DEF Poised, Midway, IsActive
  <2> QED
    BY <2>1, <2>3, <2>4 DEF Steady, Midway, GoesOn, Proceeds, Planned, InPhase
<1> QED
  BY <1>1, <1>2

(* An accepted completion counts as an iteration and grows the context.    *)
LEMMA AcceptedSteady ==
    ASSUME NEW s, Midway(s), NEW list \in CallSeqs, NEW reported \in BOOLEAN
    PROVE  LET a == Accepted(s, list, reported)
           IN  /\ Midway(a) /\ NextIsNew(a)
               /\ a.turn.id = s.turn.id /\ a.turn.queued = s.turn.queued
               /\ a.turn.phase = s.turn.phase
               /\ a.turn.iterations = s.turn.iterations + 1
               /\ a.lastFinished = s.lastFinished /\ a.issued = s.issued
               /\ a.context # <<>>
               /\ Last(a.context) = AssistantMessage(list)
<1>1. s \in State /\ s.turn \in ActiveTurns /\ s.turn.iterations \in Nat
  BY ActiveTurn DEF Midway, Settled, ActiveTurns
<1> DEFINE n == s.turn.iterations + 1
           turn == [s.turn EXCEPT !.iterations = n]
           message == AssistantMessage(list)
           context == Append(s.context, message)
           a == Accepted(s, list, reported)
<1>2. n \in Nat
  BY <1>1
<1>3. message \in Message /\ s.context \in Seq(Message)
  BY <1>1, AssistantMessageType DEF State
<1>4. a = [s EXCEPT !.turn = turn, !.context = context, !.reportedOver = reported]
  BY DEF Accepted
<1> HIDE DEF n
<1>5. /\ turn \in ActiveTurns /\ turn.kind = "Active" /\ turn.id = s.turn.id
      /\ turn.queued = s.turn.queued /\ turn.phase = s.turn.phase
      /\ turn.ready = s.turn.ready /\ turn.iterations = n
  BY <1>1, <1>2 DEF ActiveTurns
<1> HIDE DEF turn, message
<1>6. /\ context \in Seq(Message) /\ Len(context) > Len(s.context)
      /\ context # <<>> /\ Len(context) = Len(s.context) + 1
      /\ context[Len(s.context) + 1] = message
      /\ Len(s.context) \in Nat
  BY <1>3
<1> HIDE DEF context, a
<1>7. /\ a \in State /\ a.turn = turn /\ a.issued = s.issued
      /\ a.compactions = s.compactions /\ a.context = context
      /\ a.lastFinished = s.lastFinished /\ a.turns = s.turns
      /\ a.pending = s.pending /\ a.notesReady = s.notesReady
      /\ a.received = s.received
  BY <1>1, <1>4, <1>5, <1>6 DEF State, Turns
<1>8. Len(a.context) >= Len(s.context)
  BY <1>6, <1>7
<1>9. Settled(a) /\ NextIsNew(a) /\ IsActive(a)
  BY <1>5, <1>6, <1>7, <1>8, SettledKept, GrownIsNew DEF IsActive, Midway
<1>10. Notices(a)
  BY <1>5, <1>7, <1>9 DEF Notices, Midway
<1>11. Midway(a)
  BY <1>5, <1>7, <1>9, <1>10, MidwayKept
<1>12. Last(a.context) = message
  BY <1>6, <1>7 DEF Last
<1> QED
  BY <1>5, <1>6, <1>7, <1>9, <1>11, <1>12 DEF a, n, message

(* What an accepted completion goes on from.                               *)
LEMMA ResolveAcceptedPicks ==
    ASSUME NEW s, Midway(s), NEW list \in CallSeqs,
           NEW t \in ResolveAccepted(s, list)
    PROVE  \E reported \in BOOLEAN : t \in Proceed(Accepted(s, list, reported), list)
<1>1. s \in State
  BY DEF Midway, Settled
<1>2. ReportedSizes(s) \subseteq BOOLEAN
  BY <1>1 DEF ReportedSizes, State
<1>3. ~(s.turn.iterations + 1 > MaxIterations)
  BY DEF ResolveAccepted
<1> QED
  BY <1>2, <1>3 DEF ResolveAccepted

(* Accepting a completion.                                                 *)
LEMMA ResolveAcceptedSteady ==
    ASSUME NEW s, Midway(s), s.turn.phase.kind # "PreAgentTurn",
           NEW list \in CallSeqs, NEW t \in ResolveAccepted(s, list)
    PROVE  Steady(t) /\ GoesOn(s, t) /\ Planned(t, s.issued)
<1>1. PICK reported \in BOOLEAN : t \in Proceed(Accepted(s, list, reported), list)
  BY ResolveAcceptedPicks
<1> DEFINE a == Accepted(s, list, reported)
<1>2. /\ Midway(a) /\ NextIsNew(a) /\ a.turn.id = s.turn.id
      /\ a.turn.queued = s.turn.queued /\ a.turn.phase = s.turn.phase
      /\ a.lastFinished = s.lastFinished /\ a.issued = s.issued
      /\ a.context # <<>> /\ Last(a.context) = AssistantMessage(list)
  BY AcceptedSteady
<1>3. Steady(t) /\ GoesOn(a, t) /\ Planned(t, a.issued)
  <2>1. CASE list = <<>>
    <3> DEFINE m == MarkModelInputReady(a)
    <3>1. t \in CompleteOutput(m)
      BY <1>1, <2>1 DEF Proceed
    <3> HIDE DEF a
    <3>2. /\ Midway(m) /\ m.turn.id = a.turn.id /\ m.turn.queued = a.turn.queued
          /\ m.turn.phase = a.turn.phase
          /\ m.lastFinished = a.lastFinished /\ m.issued = a.issued
          /\ m.context = a.context /\ NextIsNew(m)
      BY <1>2, MarkModelInputReadySteady
    <3> HIDE DEF m
    <3>3. Steady(t) /\ GoesOn(m, t) /\ Planned(t, m.issued)
      BY <1>2, <3>1, <3>2, CompleteOutputSteady
    <3> QED
      BY <3>2, <3>3, GoesOnFrom
  <2>2. CASE list # <<>>
    <3>1. PICK open \in SUBSET ToSet(list) : t \in ApplyBatch(a, list, open)
      BY <1>1, <2>2 DEF Proceed
    <3>2. open \in SUBSET Calls
      BY <3>1, CallSeqsType DEF ToSet
    <3> HIDE DEF a
    <3> QED
      BY <1>2, <2>2, <3>1, <3>2, ApplyBatchSteady
  <2> QED
    BY <2>1, <2>2
<1> HIDE DEF a
<1> QED
  BY <1>2, <1>3, GoesOnFrom

(* A candidate that passed its post-LLM hook, or had none.                 *)
LEMMA ResolveAfterPostLlmSteady ==
    ASSUME NEW s, Midway(s), s.turn.phase.kind # "PreAgentTurn", s.context # <<>>,
           NEW id \in CompletionIds, id \in ToSet(s.issued),
           NEW list \in CallSeqs, NEW t \in ResolveAfterPostLlm(s, id, list)
    PROVE  Steady(t) /\ GoesOn(s, t) /\ Planned(t, s.issued)
<1> DEFINE phase == CompletionHook("PostAgentTurn", id, list)
<1>1. CASE t \in ResolveAccepted(s, list)
  BY <1>1, ResolveAcceptedSteady
<1>2. CASE t = [s EXCEPT !.turn.phase = phase]
  <2>1. phase \in Phases /\ phase.kind = "PostAgentTurn" /\ phase.completion = id
    BY DEF CompletionHook, Phases
  <2> HIDE DEF phase
  <2>2. /\ Midway(t) /\ t.turn.phase = phase /\ t.context = s.context
        /\ t.issued = s.issued /\ Runs(t, s.turn.id, s.lastFinished)
    <3>1. phase.kind # "PreAgentTurn"
      BY <2>1
    <3> QED
      BY <1>2, <2>1, <3>1, PhaseSteady, ZenonT(60)
  <2>3. Poised(t)
    BY <2>1, <2>2 DEF Poised, Midway, IsActive
  <2> QED
    BY <2>1, <2>2, <2>3 DEF Steady, Midway, GoesOn, Proceeds, Planned, InPhase
<1> QED
  BY <1>1, <1>2 DEF ResolveAfterPostLlm

(* The session goes back to Idle.                                          *)
LEMMA BackToIdleSteady ==
    ASSUME NEW s \in State, Numbers(s), Notices(s)
    PROVE  LET t == MarkNotificationsReady([s EXCEPT !.turn = Idle])
           IN  Steady(t) /\ t.turn = Idle /\ t.lastFinished = s.lastFinished
<1> DEFINE i == [s EXCEPT !.turn = Idle]
           ready == s.notesReady \/ s.pending # <<>>
           t == MarkNotificationsReady(i)
<1>1. i.notesReady = s.notesReady /\ i.pending = s.pending
  BY DEF State
<1>2. t = [s EXCEPT !.turn = Idle, !.notesReady = ready]
  BY <1>1 DEF MarkNotificationsReady, State
<1> HIDE DEF ready, t
<1>3. /\ t.turn = Idle /\ t.notesReady = ready /\ t.pending = s.pending
      /\ t.received = s.received /\ t.lastFinished = s.lastFinished
      /\ t.turns = s.turns
  BY <1>2 DEF State
<1>4. t.turn.kind = "Idle"
  BY <1>3 DEF Idle
<1>5. Numbers(t)
  BY <1>3, <1>4 DEF Numbers, IsActive
<1>6. Notices(t)
  BY <1>3, <1>4 DEF Notices, IsActive, ready
<1>7. Poised(t)
  BY <1>4 DEF Poised, IsActive
<1> QED
  BY <1>3, <1>5, <1>6, <1>7 DEF Steady, t

(* The end of a compaction leaves a session that was at rest idle.         *)
Idles(s, t) == ~IsActive(s) /\ t.turn = Idle /\ t.lastFinished = s.lastFinished

(* An accepted summary.                                                    *)
LEMMA CompactionAcceptedSteady ==
    ASSUME NEW s, Sound(s), Steady(s), IsCompacting(s),
           NEW keep \in KeptPositions(s.context),
           NEW t \in CompactionAccepted(s, keep)
    PROVE  /\ Steady(t)
           /\ \/ IsActive(s) /\ Proceeds(t, s.turn.id, s.lastFinished)
              \/ Idles(s, t)
<1> DEFINE recorded == PositionsOf(s.context, {"user", "notice"})
<1>1. s \in State /\ Settled(s) /\ AllBeforeCompaction(s) /\ s.context \in Seq(Message)
  BY DEF Sound, Settled, State
<1>2. keep \in SUBSET DOMAIN s.context /\ recorded \ keep \in SUBSET DOMAIN s.context
  BY KeptPositionsType DEF PositionsOf
<1>3. PICK kept \in Arranged(s.context, keep),
           removed \in Arranged(s.context, recorded \ keep) :
              t \in CompactionResumes(ReplaceContext(s, kept, removed))
  BY DEF CompactionAccepted
<1> DEFINE context == <<Note("system"), Note("preamble")>> \o kept \o <<Note("summary")>>
           archived == s.archived \o removed
           r == ReplaceContext(s, kept, removed)
<1>4. kept \in Seq(Message) /\ removed \in Seq(Message)
  BY <1>1, <1>2, ArrangedType
<1>5. r \in State /\ NextIsNew(r) /\ Settled(r) /\ r.turn = s.turn
  BY <1>1, <1>4, ReplaceContextSound
<1>6. t \in CompactionResumes(r)
  BY <1>3
<1>7. context # <<>>
  <2>1. /\ Note("system") \in Message /\ Note("preamble") \in Message
        /\ Note("summary") \in Message
    BY DEF Note, Message
  <2> QED
    BY <1>4, <2>1
<1>8. r = [s EXCEPT !.archived = archived, !.context = context, !.reportedOver = FALSE]
  BY DEF ReplaceContext
<1> HIDE DEF r, context, archived
<1>9. /\ r.context = context /\ r.lastFinished = s.lastFinished /\ r.turns = s.turns
      /\ r.pending = s.pending /\ r.notesReady = s.notesReady
      /\ r.received = s.received
  BY <1>1, <1>8 DEF State
<1>10. Numbers(r) /\ Notices(r)
  BY <1>5, <1>9 DEF Steady, Numbers, Notices, IsActive
<1>11. CASE IsActive(s)
  <2> DEFINE m == MarkModelInputReady(r)
  <2>1. IsActive(r) /\ Midway(r)
    BY <1>5, <1>10, <1>11 DEF IsActive, Midway
  <2>2. t \in ContinueActiveTurn(m, FALSE)
    BY <1>6, <2>1 DEF CompactionResumes
  <2>3. s.turn.iterations < MaxIterations /\ s.turn.phase.kind = "AwaitingCompaction"
    BY <1>11 DEF IsActive, IsCompacting, InPhase, Sound, HasBudget
  <2>4. /\ Midway(m) /\ m.turn.id = r.turn.id /\ m.turn.phase = r.turn.phase
        /\ m.turn.iterations = r.turn.iterations
        /\ m.lastFinished = r.lastFinished
        /\ m.context = r.context /\ NextIsNew(m)
    BY <1>5, <2>1, MarkModelInputReadySteady
  <2> HIDE DEF m
  <2>5. Steady(t) /\ Proceeds(t, m.turn.id, m.lastFinished)
    BY <1>5, <1>7, <1>9, <2>2, <2>3, <2>4, ContinueSteady
  <2> QED
    BY <1>5, <1>9, <1>11, <2>4, <2>5
<1>12. CASE ~IsActive(s)
  <2>1. t = MarkNotificationsReady([r EXCEPT !.turn = Idle])
    BY <1>5, <1>6, <1>12 DEF CompactionResumes, IsActive
  <2>2. Steady(t) /\ t.turn = Idle /\ t.lastFinished = r.lastFinished
    BY <1>5, <1>10, <2>1, BackToIdleSteady
  <2> QED
    BY <1>9, <1>12, <2>2 DEF Idles
<1> QED
  BY <1>11, <1>12

(* A failed compaction.                                                    *)
LEMMA FailCompactionSteady ==
    ASSUME NEW s, Settled(s), Numbers(s), Notices(s)
    PROVE  LET t == FailCompaction(s)
           IN  /\ Steady(t)
               /\ \/ IsActive(s) /\ Rests(t, s.turn.id, "Failed")
                  \/ Idles(s, t)
<1> DEFINE t == FailCompaction(s)
<1>1. CASE IsActive(s)
  <2>1. Midway(s) /\ "Failed" \in Outcomes
    BY <1>1 DEF Midway, Outcomes
  <2>2. t = FinishTurn(s, "Failed")
    BY <1>1 DEF FailCompaction
  <2> QED
    BY <1>1, <2>1, <2>2, FinishTurnSteady
<1>2. CASE ~IsActive(s)
  <2>1. t = MarkNotificationsReady([s EXCEPT !.turn = Idle]) /\ s \in State
    BY <1>2 DEF FailCompaction, Settled
  <2> QED
    BY <1>2, <2>1, BackToIdleSteady DEF Idles
<1> QED
  BY <1>1, <1>2

(* A rejected summary: one more attempt, of the attempts that are allowed. *)
LEMMA RejectSummarySteady ==
    ASSUME NEW s, Sound(s), Steady(s), IsCompacting(s)
    PROVE  LET t == RejectSummary(s)
           IN  /\ Steady(t)
               /\ \/ IsActive(s) /\ Proceeds(t, s.turn.id, s.lastFinished)
                  \/ Idles(s, t)
                  \/ /\ ~IsActive(s) /\ ~IsActive(t)
                     /\ t.lastFinished = s.lastFinished
<1> DEFINE attempt == PendingCompaction(s).attempt + 1
           t == RejectSummary(s)
<1>1. s \in State /\ Settled(s) /\ Numbers(s) /\ Notices(s)
  BY DEF Sound, Settled, Steady
<1>2. CASE PendingCompaction(s).attempt >= MaxSummaryRetries
  <2>1. t = FailCompaction(s)
    BY <1>2 DEF RejectSummary
  <2> QED
    BY <1>1, <2>1, FailCompactionSteady DEF Proceeds
<1>3. CASE ~(PendingCompaction(s).attempt >= MaxSummaryRetries) /\ IsActive(s)
  <2> DEFINE phase == [s.turn.phase EXCEPT !.attempt = attempt]
             u == [s EXCEPT !.turn.phase = phase]
  <2>1. /\ s.turn \in ActiveTurns /\ s.turn.phase \in Phases
        /\ s.turn.phase.kind = "AwaitingCompaction"
    BY <1>1, <1>3, ActiveTurn DEF ActiveTurns, IsCompacting, InPhase, IsActive
  <2>2. s.turn.phase \in [kind : {"AwaitingCompaction"}, id : Nat, iterations : Nat,
                          compaction : Nat, attempt : Nat]
    BY <2>1 DEF Phases
  <2>3. attempt \in Nat /\ attempt <= MaxSummaryRetries
    BY <1>3, <2>2 DEF PendingCompaction, MaxSummaryRetries
  <2>4. u = [s EXCEPT !.turn.phase.attempt = attempt]
    BY <2>2
  <2>5. t = u
    BY <1>3, <2>4 DEF RejectSummary
  <2> HIDE DEF attempt
  <2>6. /\ phase \in Phases /\ phase.kind = "AwaitingCompaction"
        /\ phase.id = s.turn.phase.id /\ phase.iterations = s.turn.phase.iterations
        /\ phase.attempt = attempt
    BY <2>2, <2>3 DEF Phases
  <2> HIDE DEF phase
  <2>7. phase.kind # "PreAgentTurn" /\ s.turn.phase.kind # "PreAgentTurn" /\ Midway(s)
    BY <1>1, <1>3, <2>1, <2>6 DEF Midway
  <2>8. /\ Midway(u) /\ u.turn.phase = phase /\ u.turn.id = s.turn.id
        /\ u.turn.iterations = s.turn.iterations /\ u.context = s.context
        /\ Runs(u, s.turn.id, s.lastFinished)
    BY <2>6, <2>7, PhaseSteady
  <2> HIDE DEF t, u
  <2>9. Poised(u)
    BY <1>3, <2>1, <2>3, <2>6, <2>8 DEF Poised, Midway, Steady, IsActive
  <2> QED
    BY <1>3, <2>5, <2>8, <2>9 DEF Midway, Steady, Proceeds, t
<1>4. CASE ~(PendingCompaction(s).attempt >= MaxSummaryRetries) /\ ~IsActive(s)
  <2> DEFINE turn == [s.turn EXCEPT !.attempt = attempt]
             u == [s EXCEPT !.turn = turn]
  <2>1. s.turn \in CompactingTurns
    BY <1>1, <1>4 DEF IsCompacting, InPhase, IsActive, State, Turns, RestingTurns,
                      Idle, ActiveTurns
  <2>2. attempt \in Nat /\ attempt <= MaxSummaryRetries
    BY <1>4, <2>1 DEF PendingCompaction, CompactingTurns, MaxSummaryRetries
  <2>3. t = u
    BY <1>4 DEF RejectSummary
  <2> HIDE DEF attempt, t
  <2>4. turn.kind = "Compacting" /\ turn.attempt = attempt
    BY <2>1 DEF CompactingTurns
  <2> HIDE DEF turn
  <2>5. /\ u.turn = turn /\ u.lastFinished = s.lastFinished /\ u.turns = s.turns
        /\ u.pending = s.pending /\ u.notesReady = s.notesReady
        /\ u.received = s.received
    BY <1>1 DEF State
  <2> HIDE DEF u
  <2>6. ~IsActive(u)
    BY <2>4, <2>5 DEF IsActive
  <2>7. Numbers(u)
    BY <1>1, <2>4, <2>5, <2>6 DEF Numbers
  <2>8. Notices(u)
    BY <1>1, <2>5, <2>6 DEF Notices
  <2>9. Poised(u)
    BY <2>2, <2>4, <2>5, <2>6 DEF Poised
  <2> QED
    BY <1>4, <2>3, <2>5, <2>6, <2>7, <2>8, <2>9 DEF Steady, t
<1> QED
  BY <1>2, <1>3, <1>4

-----------------------------------------------------------------------------
(* How each action moves the turn.                                         *)

(* The ways from one state to the next: the turn stays, nobody runs, a new *)
(* turn starts, a running turn goes on, one is admitted or withdrawn, one  *)
(* ends before its time.                                                   *)
Moves(s, t) ==
    \/ /\ IsActive(s) /\ IsActive(t)
       /\ t.turn.id = s.turn.id
       /\ t.turn.phase = s.turn.phase
       /\ t.lastFinished = s.lastFinished
    \/ ~IsActive(s) /\ ~IsActive(t) /\ t.lastFinished = s.lastFinished
    \/ /\ Resting(s)
       /\ \E id \in Nat, msgs \in Seq(Nat) :
             id > s.lastFinished /\ Starts(t, id, msgs, s.lastFinished)
    \/ IsActive(s) /\ ~InPhase(s, "PreAgentTurn") /\ GoesOn(s, t)
    \/ InPhase(s, "PreAgentTurn") /\ Proceeds(t, s.turn.id, s.lastFinished)
    \/ InPhase(s, "PreAgentTurn") /\ Resting(t) /\ t.lastFinished = s.lastFinished
    \/ /\ IsActive(s)
       /\ \E outcome \in Outcomes :
             /\ Rests(t, s.turn.id, outcome)
             /\ outcome = "Completed" => InPhase(s, "PreLlmCall")

(* The completion in flight is still in flight after the step.             *)
StillInFlight(s, t) ==
    /\ InPhase(s, "AwaitingCompletion")
    /\ t.turn.kind = "Active"
    /\ t.turn.phase = s.turn.phase

Advances(s, t) ==
    Steady(t) /\ Moves(s, t) /\ (StillInFlight(s, t) => t.context = s.context)

(* What the invariants say of an active turn between two steps.            *)
LEMMA BetweenSteps ==
    ASSUME IInv, Steady(core)
    PROVE  /\ core \in State /\ Settled(core) /\ Numbers(core) /\ Notices(core)
           /\ Poised(core)
           /\ IsActive(core) => /\ Midway(core)
                                /\ core.turn \in ActiveTurns
                                /\ core.turn.phase \in Phases
<1>1. core \in State /\ Settled(core) /\ Numbers(core) /\ Notices(core) /\ Poised(core)
  BY DEF IInv, Sound, Settled, Steady
<1> QED
  BY <1>1, ActiveTurn DEF Midway, ActiveTurns

(* A command that leaves the phase of the turn where it is.                *)
LEMMA QuietAdvance ==
    ASSUME NEW s, Steady(s), NEW t, t.lastFinished = s.lastFinished,
           t.context = s.context, t.issued = s.issued,
           \/ t.turn = s.turn
           \/ /\ IsActive(s) /\ t.turn.kind = s.turn.kind
              /\ t.turn.id = s.turn.id /\ t.turn.phase = s.turn.phase
              /\ t.turn.iterations = s.turn.iterations
              /\ t.turn.ready = s.turn.ready,
           Numbers(t), Notices(t)
    PROVE  Advances(s, t)
<1>1. t.turn.kind = s.turn.kind
  OBVIOUS
<1>2. Poised(t)
  BY <1>1 DEF Steady, Poised, IsActive
<1>3. Moves(s, t)
  BY <1>1 DEF Moves, IsActive
<1> QED
  BY <1>2, <1>3 DEF Advances, Steady

(* What counting a message, and a turn, leaves alone.                      *)
LEMMA SentKeeps ==
    ASSUME NEW s \in State
    PROVE  /\ \A t \in {Sent(s), SentInNewTurn(s)} :
                 /\ t.lastFinished = s.lastFinished /\ t.pending = s.pending
                 /\ t.notesReady = s.notesReady /\ t.received = s.received
           /\ Sent(s).turns = s.turns /\ SentInNewTurn(s).turns = s.turns + 1
<1>1. SentInNewTurn(s) = [s EXCEPT !.sent = s.sent + 1, !.turns = s.turns + 1]
  BY DEF Sent, SentInNewTurn
<1>2. /\ SentInNewTurn(s).lastFinished = s.lastFinished
      /\ SentInNewTurn(s).pending = s.pending
      /\ SentInNewTurn(s).notesReady = s.notesReady
      /\ SentInNewTurn(s).received = s.received
      /\ SentInNewTurn(s).turns = s.turns + 1
  BY <1>1 DEF State
<1>3. /\ Sent(s).lastFinished = s.lastFinished /\ Sent(s).pending = s.pending
      /\ Sent(s).notesReady = s.notesReady /\ Sent(s).received = s.received
      /\ Sent(s).turns = s.turns
  BY DEF State, Sent
<1> QED
  BY <1>2, <1>3

(* A message to a session at rest starts the next turn.                    *)
LEMMA QueueAtRestAdvance ==
    ASSUME IInv, Steady(core), QueueAtRest PROVE Advances(core, core')
<1> DEFINE s == SentInNewTurn(core)
<1>1. /\ core \in State /\ Settled(core) /\ Numbers(core) /\ Notices(core)
      /\ Resting(core)
  BY BetweenSteps DEF QueueAtRest
<1>2. /\ s.turn = core.turn /\ NewMessage \in Nat /\ NewTurn \in Nat
      /\ NewTurn = core.turns + 1
      /\ s.lastFinished = core.lastFinished /\ s.turns = core.turns + 1
      /\ s.pending = core.pending /\ s.notesReady = core.notesReady
      /\ s.received = core.received /\ s.issued = core.issued
  BY <1>1, SentType, SentKeeps DEF NewMessage, NewTurn
<1>3. Settled(s)
  BY SentSound DEF IInv, Sound
<1>4. core' \in StartTurn(s, NewTurn, <<NewMessage>>)
  BY DEF QueueAtRest
<1> HIDE DEF s
<1>5. core.lastFinished \in Nat /\ core.turns \in Nat
  BY <1>1 DEF State
<1>6. Resting(s) /\ Numbers(s) /\ Notices(s)
  BY <1>1, <1>2, <1>5 DEF Resting, Numbers, Notices, IsActive
<1>7. core.lastFinished < NewTurn /\ NewTurn <= s.turns
  BY <1>1, <1>2, <1>5 DEF Numbers
<1>8. <<NewMessage>> \in Seq(Nat) /\ <<NewMessage>> # <<>>
  BY <1>2
<1>9. Steady(core') /\ Starts(core', NewTurn, <<NewMessage>>, core.lastFinished)
  BY <1>2, <1>3, <1>4, <1>6, <1>7, <1>8, StartTurnSteady
<1>10. Moves(core, core')
  BY <1>1, <1>2, <1>5, <1>7, <1>8, <1>9 DEF Moves
<1>11. ~StillInFlight(core, core')
  BY <1>1 DEF StillInFlight, InPhase, IsActive, Resting
<1> QED
  BY <1>9, <1>10, <1>11 DEF Advances

(* The first follow-up of a turn takes the next identity.                  *)
LEMMA OpenFollowUpAdvance ==
    ASSUME IInv, Steady(core), OpenFollowUp PROVE Advances(core, core')
<1> DEFINE s == SentInNewTurn(core)
           queued == QueuedTurn(NewTurn, <<NewMessage>>)
           turn == [core.turn EXCEPT !.queued = queued]
<1>1. /\ core \in State /\ IsActive(core) /\ core.turn \in ActiveTurns
      /\ Numbers(core) /\ Notices(core)
  BY BetweenSteps DEF OpenFollowUp
<1>2. /\ s \in State /\ s.turn = core.turn /\ s.context = core.context
      /\ s.issued = core.issued /\ NewTurn = core.turns + 1
      /\ s.lastFinished = core.lastFinished /\ s.turns = core.turns + 1
      /\ s.pending = core.pending /\ s.notesReady = core.notesReady
      /\ s.received = core.received
  BY <1>1, SentType, SentKeeps DEF NewTurn
<1>3. queued.id = NewTurn
  BY DEF QueuedTurn
<1>4. core' = [s EXCEPT !.turn = turn]
  BY <1>2 DEF OpenFollowUp
<1> HIDE DEF s, queued
<1>5. /\ turn.kind = core.turn.kind /\ turn.id = core.turn.id
      /\ turn.phase = core.turn.phase /\ turn.ready = core.turn.ready
      /\ turn.iterations = core.turn.iterations /\ turn.queued = queued
  BY <1>1 DEF ActiveTurns
<1> HIDE DEF turn
<1>6. /\ core'.turn = turn /\ core'.context = core.context
      /\ core'.issued = core.issued /\ core'.lastFinished = core.lastFinished
      /\ core'.turns = core.turns + 1 /\ core'.pending = core.pending
      /\ core'.notesReady = core.notesReady /\ core'.received = core.received
  BY <1>2, <1>4 DEF State
<1>7. core.turns \in Nat /\ core.turn.id \in Nat /\ core.lastFinished \in Nat
  BY <1>1 DEF State, ActiveTurns
<1>8. Numbers(core')
  BY <1>1, <1>2, <1>3, <1>5, <1>6, <1>7 DEF Numbers, IsActive
<1>9. Notices(core')
  BY <1>1, <1>5, <1>6 DEF Notices, IsActive
<1> QED
  BY <1>1, <1>5, <1>6, <1>8, <1>9, QuietAdvance

(* One more message on the follow-up keeps its identity.                   *)
LEMMA ExtendFollowUpAdvance ==
    ASSUME IInv, Steady(core), ExtendFollowUp PROVE Advances(core, core')
<1> DEFINE s == Sent(core)
           msgs == Append(core.turn.queued.msgs, NewMessage)
           queued == [core.turn.queued EXCEPT !.msgs = msgs]
           turn == [core.turn EXCEPT !.queued = queued]
<1>1. /\ core \in State /\ IsActive(core) /\ core.turn \in ActiveTurns
      /\ Numbers(core) /\ Notices(core) /\ core.turn.queued # NoQueue
  BY BetweenSteps DEF ExtendFollowUp
<1>2. /\ s \in State /\ s.turn = core.turn /\ s.context = core.context
      /\ s.issued = core.issued
      /\ s.lastFinished = core.lastFinished /\ s.turns = core.turns
      /\ s.pending = core.pending /\ s.notesReady = core.notesReady
      /\ s.received = core.received
  BY <1>1, SentType, SentKeeps
<1>3. core.turn.queued \in [kind : {"Pending"}, id : Nat, msgs : Seq(Nat) \ {<<>>}]
  BY <1>1 DEF ActiveTurns, Queues
<1>4. core' = [s EXCEPT !.turn = turn]
  BY <1>2 DEF ExtendFollowUp
<1> HIDE DEF s, msgs
<1>5. queued.id = core.turn.queued.id
  BY <1>3
<1> HIDE DEF queued
<1>6. /\ turn.kind = core.turn.kind /\ turn.id = core.turn.id
      /\ turn.phase = core.turn.phase /\ turn.ready = core.turn.ready
      /\ turn.iterations = core.turn.iterations /\ turn.queued = queued
  BY <1>1 DEF ActiveTurns
<1> HIDE DEF turn
<1>7. /\ core'.turn = turn /\ core'.context = core.context
      /\ core'.issued = core.issued /\ core'.lastFinished = core.lastFinished
      /\ core'.turns = core.turns /\ core'.pending = core.pending
      /\ core'.notesReady = core.notesReady /\ core'.received = core.received
  BY <1>2, <1>4 DEF State
<1>8. Numbers(core')
  BY <1>1, <1>5, <1>6, <1>7 DEF Numbers, IsActive
<1>9. Notices(core')
  BY <1>1, <1>6, <1>7 DEF Notices, IsActive
<1> QED
  BY <1>1, <1>6, <1>7, <1>8, <1>9, QuietAdvance

(* Steering waits on the turn.                                             *)
LEMMA SteerAdvance ==
    ASSUME IInv, Steady(core), Steer PROVE Advances(core, core')
<1> DEFINE s == Sent(core)
           steer == Append(core.turn.steer, NewMessage)
           steered == Append(core.steered, NewMessage)
           turn == [core.turn EXCEPT !.steer = steer]
<1>1. /\ core \in State /\ IsActive(core) /\ core.turn \in ActiveTurns
      /\ Numbers(core) /\ Notices(core)
  BY BetweenSteps DEF Steer
<1>2. /\ s \in State /\ s.turn = core.turn /\ s.context = core.context
      /\ s.issued = core.issued
      /\ s.lastFinished = core.lastFinished /\ s.turns = core.turns
      /\ s.pending = core.pending /\ s.notesReady = core.notesReady
      /\ s.received = core.received
  BY <1>1, SentType, SentKeeps
<1>3. core' = [s EXCEPT !.turn = turn, !.steered = steered]
  BY <1>2 DEF Steer
<1> HIDE DEF s, steer, steered
<1>4. /\ turn.kind = core.turn.kind /\ turn.id = core.turn.id
      /\ turn.phase = core.turn.phase /\ turn.ready = core.turn.ready
      /\ turn.iterations = core.turn.iterations /\ turn.queued = core.turn.queued
  BY <1>1 DEF ActiveTurns
<1> HIDE DEF turn
<1>5. /\ core'.turn = turn /\ core'.context = core.context
      /\ core'.issued = core.issued /\ core'.lastFinished = core.lastFinished
      /\ core'.turns = core.turns /\ core'.pending = core.pending
      /\ core'.notesReady = core.notesReady /\ core'.received = core.received
  BY <1>2, <1>3 DEF State
<1>6. Numbers(core')
  BY <1>1, <1>4, <1>5 DEF Numbers, IsActive
<1>7. Notices(core')
  BY <1>1, <1>4, <1>5 DEF Notices, IsActive
<1> QED
  BY <1>1, <1>4, <1>5, <1>6, <1>7, QuietAdvance

(* A context message sets the session to Idle.                             *)
LEMMA ContextMessageAdvance ==
    ASSUME IInv, Steady(core), ContextMessage PROVE Advances(core, core')
<1> DEFINE context == EnsureSystemPrompt(core.context) \o <<Note("injected")>>
<1>1. /\ core \in State /\ Resting(core) /\ Numbers(core) /\ Notices(core)
  BY BetweenSteps DEF ContextMessage
<1>2. core' = [core EXCEPT !.context = context, !.sent = core.sent + 1, !.turn = Idle]
  BY <1>1 DEF ContextMessage, AppendTurnMessages, Sent, State
<1> HIDE DEF context
<1>3. /\ core'.turn = Idle /\ core'.lastFinished = core.lastFinished
      /\ core'.turns = core.turns /\ core'.pending = core.pending
      /\ core'.notesReady = core.notesReady /\ core'.received = core.received
  BY <1>1, <1>2 DEF State
<1>4. core'.turn.kind = "Idle" /\ ~IsActive(core) /\ ~IsActive(core')
  BY <1>1, <1>3 DEF Idle, IsActive, Resting
<1>5. Numbers(core')
  BY <1>1, <1>3, <1>4 DEF Numbers
<1>6. Notices(core')
  BY <1>1, <1>3, <1>4 DEF Notices
<1>7. Poised(core')
  BY <1>4 DEF Poised
<1>8. Moves(core, core') /\ ~StillInFlight(core, core')
  BY <1>3, <1>4 DEF Moves, StillInFlight, InPhase
<1> QED
  BY <1>5, <1>6, <1>7, <1>8 DEF Advances, Steady

(* A notification is marked ready only where the model input is.           *)
LEMMA ReceiveNotificationAdvance ==
    ASSUME IInv, Steady(core), NEW n \in Notifications, ReceiveNotification(n)
    PROVE  Advances(core, core')
<1> DEFINE received == core.received \cup {n}
           pending == Append(core.pending, n)
           ready == core.notesReady \/ ArrivesAtBoundary(core)
<1>1. /\ core \in State /\ Numbers(core) /\ Notices(core)
      /\ core.pending \in Seq(Notifications)
  BY BetweenSteps DEF State
<1>2. core' = [core EXCEPT !.received = received, !.pending = pending,
                           !.notesReady = ready]
  BY DEF ReceiveNotification
<1>3. pending # <<>> /\ ToSet(pending) \subseteq ToSet(core.pending) \cup {n}
  <2>1. /\ Len(pending) = Len(core.pending) + 1 /\ Len(core.pending) \in Nat
        /\ DOMAIN pending = 1..Len(core.pending) + 1
        /\ DOMAIN core.pending = 1..Len(core.pending)
        /\ pending[Len(core.pending) + 1] = n
        /\ \A i \in 1..Len(core.pending) : pending[i] = core.pending[i]
    BY <1>1
  <2>2. \A i \in DOMAIN pending : i \in DOMAIN core.pending \/ pending[i] = n
    BY <2>1
  <2>3. pending # <<>>
    BY <1>1
  <2> QED
    BY <2>1, <2>2, <2>3 DEF ToSet
<1>4. /\ IsActive(core) /\ core.turn.phase.kind # "PreAgentTurn" /\ ~core.turn.ready =>
            ~ready
  BY <1>1 DEF Notices, ArrivesAtBoundary
<1> HIDE DEF received, pending, ready
<1>5. /\ core'.turn = core.turn /\ core'.context = core.context
      /\ core'.issued = core.issued /\ core'.lastFinished = core.lastFinished
      /\ core'.turns = core.turns /\ core'.pending = pending
      /\ core'.notesReady = ready /\ core'.received = received
  BY <1>1, <1>2 DEF State
<1>6. Numbers(core')
  BY <1>1, <1>5 DEF Numbers, IsActive
<1>7. Notices(core')
  BY <1>1, <1>3, <1>4, <1>5 DEF Notices, IsActive, received
<1> QED
  BY <1>5, <1>6, <1>7, QuietAdvance

(* A compaction asked for by the user.                                     *)
LEMMA ManualCompactionAdvance ==
    ASSUME IInv, Steady(core), ManualCompaction PROVE Advances(core, core')
<1> DEFINE counted == CountCompaction(core)
           turn == Compacting(counted.compactions, 0)
<1>1. /\ core \in State /\ Settled(core) /\ Resting(core) /\ ~IsActive(core)
      /\ Numbers(core) /\ Notices(core)
  BY BetweenSteps DEF ManualCompaction, Resting, IsActive
<1>2. Settled(counted) /\ counted.turn = core.turn
  BY <1>1, CountCompactionSound
<1>3. /\ counted.lastFinished = core.lastFinished /\ counted.turns = core.turns
      /\ counted.pending = core.pending
      /\ counted.notesReady = core.notesReady /\ counted.received = core.received
  BY <1>1 DEF CountCompaction, State
<1>4. \/ core' = [counted EXCEPT !.turn = turn]
      \/ core' = FailCompaction(counted)
  BY DEF ManualCompaction
<1>5. turn.kind = "Compacting" /\ turn.attempt = 0
  BY DEF Compacting
<1> HIDE DEF counted, turn
<1>6. Numbers(counted) /\ Notices(counted) /\ ~IsActive(counted)
  BY <1>1, <1>2, <1>3 DEF Numbers, Notices, IsActive
<1>7. CASE core' = [counted EXCEPT !.turn = turn]
  <2>1. /\ core'.turn = turn /\ core'.lastFinished = core.lastFinished
        /\ core'.turns = core.turns /\ core'.pending = core.pending
        /\ core'.notesReady = core.notesReady /\ core'.received = core.received
    BY <1>2, <1>3, <1>7 DEF Settled, State
  <2>2. ~IsActive(core')
    BY <1>5, <2>1 DEF IsActive
  <2>3. Numbers(core')
    BY <1>1, <1>5, <2>1, <2>2 DEF Numbers
  <2>4. Notices(core')
    BY <1>1, <2>1, <2>2 DEF Notices
  <2>5. Poised(core')
    BY <1>5, <2>1, <2>2 DEF Poised, MaxSummaryRetries
  <2>6. Moves(core, core') /\ ~StillInFlight(core, core')
    BY <1>1, <2>1, <2>2 DEF Moves, StillInFlight, InPhase
  <2> QED
    BY <2>3, <2>4, <2>5, <2>6 DEF Advances, Steady
<1>8. CASE core' = FailCompaction(counted)
  <2>1. Steady(core') /\ Idles(counted, core')
    BY <1>2, <1>6, <1>8, FailCompactionSteady
  <2>2. ~IsActive(core') /\ core'.lastFinished = core.lastFinished
    BY <1>3, <2>1 DEF Idles, Idle, IsActive
  <2>3. Moves(core, core') /\ ~StillInFlight(core, core')
    BY <1>1, <2>2 DEF Moves, StillInFlight, InPhase
  <2> QED
    BY <2>1, <2>3 DEF Advances
<1> QED
  BY <1>4, <1>7, <1>8

(* A new configuration.                                                    *)
LEMMA ReconfigureAdvance ==
    ASSUME IInv, Steady(core), Reconfigure PROVE Advances(core, core')
<1>1. core \in State /\ Numbers(core) /\ Notices(core)
  BY BetweenSteps
<1>2. PICK hooks \in HookChoices : core' = [core EXCEPT !.hooks = hooks]
  BY DEF Reconfigure
<1>3. /\ core'.turn = core.turn /\ core'.context = core.context
      /\ core'.issued = core.issued /\ core'.lastFinished = core.lastFinished
      /\ core'.turns = core.turns /\ core'.pending = core.pending
      /\ core'.notesReady = core.notesReady /\ core'.received = core.received
  BY <1>1, <1>2 DEF State
<1>4. Numbers(core') /\ Notices(core')
  BY <1>1, <1>3 DEF Numbers, Notices, IsActive
<1> QED
  BY <1>3, <1>4, QuietAdvance

(* A turn that ends before its time.                                       *)
LEMMA EarlyEnd ==
    ASSUME NEW s, Midway(s), IsActive(core), s.turn.id = core.turn.id,
           NEW outcome \in Outcomes,
           outcome = "Completed" => InPhase(core, "PreLlmCall"),
           core' = FinishTurn(s, outcome)
    PROVE  Advances(core, core')
<1>1. Steady(core') /\ Rests(core', s.turn.id, outcome) /\ Resting(core')
  BY FinishTurnSteady
<1>2. Moves(core, core')
  BY <1>1 DEF Moves
<1>3. ~StillInFlight(core, core')
  BY <1>1 DEF StillInFlight, Resting
<1> QED
  BY <1>1, <1>2, <1>3 DEF Advances

(* A turn that is interrupted or failed from outside.                      *)
LEMMA AbandonAdvance ==
    ASSUME IInv, Steady(core), Interrupt \/ FailTurn
    PROVE  Advances(core, core')
<1> DEFINE closed == CloseToolCalls(core)
<1>1. IsActive(core) /\ Midway(core) /\ core.turn.phase \in Phases
  BY BetweenSteps DEF Interrupt, FailTurn
<1>2. Midway(closed) /\ closed.turn = core.turn
  <2>1. CASE core.turn.phase.kind = "AwaitingToolBatch"
    <3> DEFINE list == core.turn.phase.calls
    <3>1. ToolResults(list) \in Seq(Message)
      BY <1>1, <2>1, CallSeqsType, ToolResultsType DEF Phases
    <3>2. closed = [core EXCEPT !.context = core.context \o ToolResults(list)]
      BY <2>1 DEF CloseToolCalls
    <3> QED
      BY <1>1, <3>1, <3>2, ContextGrowsSteady
  <2>2. CASE core.turn.phase.kind # "AwaitingToolBatch"
    BY <1>1, <2>2 DEF CloseToolCalls
  <2> QED
    BY <2>1, <2>2
<1>3. \/ core' = FinishTurn(closed, "Interrupted")
      \/ core' = FinishTurn(closed, "Failed")
  BY DEF Interrupt, FailTurn
<1>4. /\ "Interrupted" \in Outcomes /\ "Failed" \in Outcomes
      /\ "Interrupted" # "Completed" /\ "Failed" # "Completed"
  BY DEF Outcomes
<1> HIDE DEF closed
<1> QED
  BY <1>1, <1>2, <1>3, <1>4, EarlyEnd

(* A turn that goes on from an answer: where it is in flight afterwards,   *)
(* it is with an id that was not issued before.                            *)
LEMMA GoingOn ==
    ASSUME IInv, Steady(core), IsActive(core), ~InPhase(core, "PreAgentTurn"),
           Steady(core'), GoesOn(core, core'), Planned(core', core.issued)
    PROVE  Advances(core, core')
<1>1. Moves(core, core')
  BY DEF Moves
<1>2. InPhase(core, "AwaitingCompletion") =>
        core.turn.phase.completion \in ToSet(core.issued)
  BY DEF Steady, Poised, InPhase
<1>3. ~StillInFlight(core, core')
  BY <1>2 DEF StillInFlight, Planned, InPhase, IsActive
<1> QED
  BY <1>1, <1>3 DEF Advances

(* An answer of the model.                                                 *)
LEMMA CompletionSucceededAdvance ==
    ASSUME IInv, Steady(core), CompletionSucceeded PROVE Advances(core, core')
<1> DEFINE id == core.turn.phase.completion
<1>1. /\ IsActive(core) /\ Midway(core) /\ core.turn.phase \in Phases
      /\ core.turn.phase.kind = "AwaitingCompletion" /\ Poised(core)
  BY BetweenSteps DEF CompletionSucceeded, InPhase
<1>2. id \in CompletionIds
  BY <1>1 DEF Phases
<1>3. id \in ToSet(core.issued) /\ core.context # <<>>
  BY <1>1 DEF Poised
<1>4. core.turn.phase.kind # "PreAgentTurn" /\ ~InPhase(core, "PreAgentTurn")
  BY <1>1 DEF InPhase
<1>5. PICK list \in CallSeqs :
        \/ core' = [core EXCEPT !.turn.phase = CompletionHook("PostLlmCall", id, list)]
        \/ core' \in ResolveAfterPostLlm(core, id, list)
  BY DEF CompletionSucceeded, CallSeqs
<1>6. CASE core' = [core EXCEPT !.turn.phase = CompletionHook("PostLlmCall", id, list)]
  <2> DEFINE phase == CompletionHook("PostLlmCall", id, list)
  <2>1. /\ phase \in Phases /\ phase.kind = "PostLlmCall"
        /\ phase.completion = id
    BY <1>2 DEF CompletionHook, Phases
  <2>2. core' = [core EXCEPT !.turn.phase = phase]
    BY <1>6
  <2> HIDE DEF phase, id
  <2>3. phase.kind # "PreAgentTurn"
    BY <2>1
  <2>4. /\ Midway(core') /\ core'.turn.phase = phase
        /\ core'.context = core.context /\ core'.issued = core.issued
        /\ Runs(core', core.turn.id, core.lastFinished)
    BY <1>1, <1>4, <2>1, <2>2, <2>3, PhaseSteady
  <2>5. Poised(core')
    BY <1>3, <2>1, <2>4 DEF Poised, Midway, IsActive
  <2> QED
    BY <1>1, <1>4, <2>1, <2>4, <2>5, GoingOn
       DEF Midway, Steady, GoesOn, Proceeds, Planned, InPhase
<1>7. CASE core' \in ResolveAfterPostLlm(core, id, list)
  <2> HIDE DEF id
  <2> QED
    BY <1>1, <1>2, <1>3, <1>4, <1>7, ResolveAfterPostLlmSteady, GoingOn
<1> QED
  BY <1>5, <1>6, <1>7

(* A completion, or a hook, that fails, and a hook that skips the turn.    *)
LEMMA EndingAdvance ==
    ASSUME IInv, Steady(core), CompletionFailed \/ PreLlmSkip \/ HookFailed
    PROVE  Advances(core, core')
<1>1. IsActive(core) /\ Midway(core)
  BY BetweenSteps DEF CompletionFailed, PreLlmSkip, HookFailed, InPhase, InCandidateHook
<1>2. \/ core' = FinishTurn(core, "Failed")
      \/ InPhase(core, "PreLlmCall") /\ core' = FinishTurn(core, "Completed")
  BY DEF CompletionFailed, PreLlmSkip, HookFailed
<1>3. /\ "Completed" \in Outcomes /\ "Failed" \in Outcomes
      /\ "Failed" # "Completed"
  BY DEF Outcomes
<1> QED
  BY <1>1, <1>2, <1>3, EarlyEnd

(* The end of one tool call.                                               *)
LEMMA FinishToolCallAdvance ==
    ASSUME IInv, Steady(core), NEW call \in Calls, FinishToolCall(call)
    PROVE  Advances(core, core')
<1> DEFINE list == core.turn.phase.calls
           open == core.turn.phase.open \ {call}
<1>1. /\ IsActive(core) /\ Midway(core) /\ core.turn.phase \in Phases
      /\ core.turn.phase.kind = "AwaitingToolBatch" /\ Poised(core)
  BY BetweenSteps DEF FinishToolCall, InPhase
<1>2. list \in CallSeqs /\ list # <<>> /\ open \in SUBSET Calls
  BY <1>1 DEF Phases
<1>3. /\ core.context # <<>> /\ Last(core.context) = AssistantMessage(list)
      /\ core.turn.phase.kind # "PreAgentTurn" /\ ~InPhase(core, "PreAgentTurn")
  BY <1>1 DEF Poised, InPhase
<1>4. core' \in ApplyBatch(core, list, open)
  BY DEF FinishToolCall
<1> HIDE DEF list, open
<1> QED
  BY <1>1, <1>2, <1>3, <1>4, ApplyBatchSteady, GoingOn

(* The session that the pre-agent hook suspended.                          *)
LEMMA SuspendedRestored ==
    ASSUME IInv, Steady(core), InPhase(core, "PreAgentTurn")
    PROVE  LET r == RestoreSuspendedTurn(core)
           IN  /\ Settled(r) /\ Resting(r) /\ Numbers(r) /\ Notices(r)
               /\ r.lastFinished = core.lastFinished
               /\ r.lastFinished < core.turn.id /\ core.turn.id <= r.turns
               /\ core.turn.id \in Nat /\ core.turn.phase.id = core.turn.id
<1> DEFINE r == RestoreSuspendedTurn(core)
           turn == core.turn.phase.suspended
           id == core.turn.phase.id
<1>1. IsActive(core)
  BY DEF InPhase
<1>2. /\ core \in State /\ Midway(core) /\ Numbers(core) /\ Notices(core)
      /\ core.turn.phase \in Phases /\ Poised(core)
      /\ core.turn.phase.kind = "PreAgentTurn" /\ core.turn \in ActiveTurns
  BY <1>1, BetweenSteps DEF InPhase
<1>3. Settled(r) /\ id \in Nat
  BY <1>1, RestoreSuspendedSound DEF Sound, IInv
<1>4. /\ turn \in RestingTurns /\ id = core.turn.id
      /\ turn # Idle => core.lastFinished = turn.id
  BY <1>1, <1>2 DEF Phases, Poised
<1>5. r = [core EXCEPT !.turn = turn]
  BY DEF RestoreSuspendedTurn
<1> HIDE DEF r, turn, id
<1>6. turn.kind \in {"Idle", "Terminal"} /\ (turn.kind = "Terminal" => turn # Idle)
  BY <1>4 DEF RestingTurns, Idle
<1>7. /\ r.turn = turn /\ r.lastFinished = core.lastFinished
      /\ r.turns = core.turns /\ r.pending = core.pending
      /\ r.notesReady = core.notesReady /\ r.received = core.received
  BY <1>2, <1>5 DEF State
<1>8. Resting(r) /\ ~IsActive(r) /\ r.turn.kind # "Compacting"
  BY <1>6, <1>7 DEF Resting, IsActive
<1>9. Numbers(r)
  BY <1>2, <1>4, <1>6, <1>7, <1>8 DEF Numbers
<1>10. Notices(r)
  BY <1>2, <1>7, <1>8 DEF Notices
<1>11. r.lastFinished < id /\ id <= r.turns
  BY <1>1, <1>2, <1>4, <1>7 DEF Numbers
<1> QED
  BY <1>3, <1>4, <1>7, <1>8, <1>9, <1>10, <1>11 DEF r, id

(* The hook lets the turn start.                                           *)
LEMMA PreAgentContinueSteady ==
    ASSUME IInv, Steady(core), PreAgentContinue
    PROVE  Steady(core') /\ Proceeds(core', core.turn.id, core.lastFinished)
<1> DEFINE r == RestoreSuspendedTurn(core)
           opening == [kind |-> "user", ids |-> ToSet(core.turn.phase.content)]
<1>1. InPhase(core, "PreAgentTurn")
  BY DEF PreAgentContinue
<1>2. opening \in Message
  BY <1>1, RestoreSuspendedSound DEF Message, Sound, IInv
<1>3. core' \in CommitTurn(r, core.turn.phase.id, <<opening>>)
  BY DEF PreAgentContinue
<1>4. /\ Settled(r) /\ Numbers(r) /\ Notices(r)
      /\ r.lastFinished = core.lastFinished
      /\ r.lastFinished < core.turn.id /\ core.turn.id <= r.turns
      /\ core.turn.id \in Nat /\ core.turn.phase.id = core.turn.id
  BY <1>1, SuspendedRestored
<1> HIDE DEF r, opening
<1>5. <<opening>> \in Seq(Message) /\ <<opening>> # <<>>
  BY <1>2
<1>6. Steady(core') /\ Proceeds(core', core.turn.id, r.lastFinished)
  BY <1>3, <1>4, <1>5, CommitTurnSteady
<1> QED
  BY <1>4, <1>6

(* Leaving the pre-agent hook: the turn starts after all, or never was.    *)
LEMMA PreAgentAdvance ==
    ASSUME IInv, Steady(core), PreAgentContinue \/ PreAgentSkip
    PROVE  Advances(core, core')
<1>1. InPhase(core, "PreAgentTurn") /\ core.turn.phase.kind = "PreAgentTurn"
  BY DEF PreAgentContinue, PreAgentSkip, InPhase
<1>2. ~StillInFlight(core, core')
  BY <1>1 DEF StillInFlight, InPhase
<1>3. CASE PreAgentContinue
  BY <1>1, <1>2, <1>3, PreAgentContinueSteady DEF Moves, Advances
<1>4. CASE PreAgentSkip
  <2>1. core' = RestoreSuspendedTurn(core)
    BY <1>4 DEF PreAgentSkip
  <2>2. /\ Resting(core') /\ Numbers(core') /\ Notices(core')
        /\ core'.lastFinished = core.lastFinished
    BY <1>1, <2>1, SuspendedRestored
  <2>3. Poised(core')
    BY <2>2 DEF Poised, Resting, IsActive
  <2> QED
    BY <1>1, <1>2, <2>2, <2>3 DEF Advances, Steady, Moves
<1> QED
  BY <1>3, <1>4

(* The pre-LLM hook lets the completion go, with or without a message.     *)
LEMMA PreLlmContinueAdvance ==
    ASSUME IInv, Steady(core), PreLlmContinue PROVE Advances(core, core')
<1> DEFINE phase == AwaitingCompletion(core.turn.phase.completion)
<1>1. /\ core \in State /\ IsActive(core) /\ Midway(core) /\ Poised(core)
      /\ core.turn.phase \in Phases /\ core.turn.phase.kind = "PreLlmCall"
      /\ core.turn.iterations < MaxIterations
  BY BetweenSteps, Waiting DEF PreLlmContinue, InPhase
<1>2. /\ phase \in Phases /\ phase.kind = "AwaitingCompletion"
      /\ phase.completion = core.turn.phase.completion
  BY <1>1 DEF Phases, AwaitingCompletion
<1>3. /\ core.context # <<>>
      /\ core.turn.phase.completion \in ToSet(core.issued)
      /\ core.turn.phase.kind # "PreAgentTurn" /\ ~InPhase(core, "PreAgentTurn")
  BY <1>1 DEF Poised, InPhase
<1>4. PICK keyed \in {<<>>, <<Note("keyed")>>} :
        core' \in DispatchAgent([core EXCEPT !.context = core.context \o keyed,
                                             !.turn.phase = phase], TRUE)
  BY DEF PreLlmContinue
<1>5. keyed \in Seq(Message)
  <2>1. <<>> \in Seq(Message) /\ <<Note("keyed")>> \in Seq(Message)
    BY DEF Note, Message
  <2> QED
    BY <1>4, <2>1
<1> DEFINE context == core.context \o keyed
           g == [core EXCEPT !.context = context]
           t == [g EXCEPT !.turn.phase = phase]
<1>6. /\ Midway(g) /\ g.turn = core.turn /\ g.lastFinished = core.lastFinished
      /\ g.issued = core.issued /\ g.context # <<>>
  BY <1>1, <1>3, <1>5, ContextGrowsSteady
<1> HIDE DEF phase, context
<1>7. t = [core EXCEPT !.context = context, !.turn.phase = phase]
  BY <1>1 DEF State
<1>8. core' \in DispatchAgent(t, TRUE)
  BY <1>4, <1>7 DEF context
<1>9. phase.kind # "PreAgentTurn" /\ g.turn.phase.kind # "PreAgentTurn"
  BY <1>2, <1>3, <1>6
<1> HIDE DEF g
<1>10. /\ Midway(t) /\ t.turn.phase = phase /\ t.turn.id = core.turn.id
       /\ t.turn.iterations = core.turn.iterations
       /\ t.lastFinished = core.lastFinished /\ t.issued = core.issued
       /\ t.context # <<>>
  <2>1. /\ Midway(t) /\ t.turn.phase = phase /\ t.turn.id = g.turn.id
        /\ t.turn.iterations = g.turn.iterations
        /\ t.lastFinished = g.lastFinished /\ t.issued = g.issued
        /\ t.context = g.context
    BY <1>2, <1>6, <1>9, PhaseSteady, ZenonT(60)
  <2> HIDE DEF t
  <2> QED
    BY <1>6, <2>1
<1> HIDE DEF t
<1>11. Dispatching(t)
  BY <1>1, <1>2, <1>10 DEF Dispatching, Midway
<1>12. Steady(core') /\ Proceeds(core', core.turn.id, core.lastFinished)
  BY <1>2, <1>3, <1>8, <1>10, <1>11, DispatchSteady
<1>13. Moves(core, core')
  BY <1>1, <1>3, <1>12 DEF Moves, GoesOn
<1>14. ~StillInFlight(core, core')
  BY <1>1 DEF StillInFlight, InPhase
<1> QED
  BY <1>12, <1>13, <1>14 DEF Advances

(* What the invariants say of a turn that waits for a candidate's hook.    *)
LEMMA AtCandidateHook ==
    ASSUME IInv, Steady(core), InCandidateHook(core)
    PROVE  /\ core \in State /\ IsActive(core) /\ Midway(core)
           /\ core.turn.phase \in Phases
           /\ core.turn.phase.kind \in {"PostLlmCall", "PostAgentTurn"}
           /\ core.turn.phase.kind # "PreAgentTurn"
           /\ ~InPhase(core, "PreAgentTurn") /\ ~InPhase(core, "AwaitingCompletion")
           /\ core.turn.phase.completion \in ToSet(core.issued)
           /\ core.turn.phase.completion \in CompletionIds
           /\ core.turn.phase.calls \in CallSeqs
           /\ core.context # <<>>
<1>1. /\ core \in State /\ IsActive(core) /\ Midway(core) /\ Poised(core)
      /\ core.turn.phase \in Phases
      /\ core.turn.phase.kind \in {"PostLlmCall", "PostAgentTurn"}
  BY BetweenSteps DEF InCandidateHook, InPhase
<1>2. core.turn.phase.completion \in CompletionIds /\ core.turn.phase.calls \in CallSeqs
  BY <1>1 DEF Phases
<1> QED
  BY <1>1, <1>2 DEF Poised, InPhase

(* A candidate that its hook accepts.                                      *)
LEMMA CandidateAcceptAdvance ==
    ASSUME IInv, Steady(core), PostLlmAccept \/ PostAgentAccept
    PROVE  Advances(core, core')
<1> DEFINE id == core.turn.phase.completion
           list == core.turn.phase.calls
<1>1. InCandidateHook(core)
  BY DEF PostLlmAccept, PostAgentAccept, InCandidateHook
<1>2. core' \in ResolveAfterPostLlm(core, id, list) \/ core' \in ResolveAccepted(core, list)
  BY DEF PostLlmAccept, PostAgentAccept
<1>3. Steady(core') /\ GoesOn(core, core') /\ Planned(core', core.issued)
  <2>1. CASE core' \in ResolveAfterPostLlm(core, id, list)
    BY <1>1, <2>1, AtCandidateHook, ResolveAfterPostLlmSteady
  <2>2. CASE core' \in ResolveAccepted(core, list)
    BY <1>1, <2>2, AtCandidateHook, ResolveAcceptedSteady
  <2> QED
    BY <1>2, <2>1, <2>2
<1> QED
  BY <1>1, <1>3, AtCandidateHook, GoingOn

(* One more iteration in the middle of a step.                             *)
LEMMA IterationsSteady ==
    ASSUME NEW s, Midway(s)
    PROVE  LET t == [s EXCEPT !.turn.iterations = s.turn.iterations + 1]
           IN  /\ Midway(t) /\ t.turn.id = s.turn.id
               /\ t.turn.phase = s.turn.phase
               /\ t.turn.iterations = s.turn.iterations + 1
               /\ t.lastFinished = s.lastFinished /\ t.issued = s.issued
               /\ t.context = s.context
<1> DEFINE turn == [s.turn EXCEPT !.iterations = s.turn.iterations + 1]
           t == [s EXCEPT !.turn.iterations = s.turn.iterations + 1]
<1>1. s \in State /\ s.turn \in ActiveTurns
  BY ActiveTurn DEF Midway, Settled
<1>2. /\ Settled(t) /\ IsActive(t)
      /\ t.turn.iterations = s.turn.iterations + 1
  BY IterationsUpdate DEF Midway
<1>3. t = [s EXCEPT !.turn = turn]
  OBVIOUS
<1>4. /\ turn.id = s.turn.id /\ turn.phase = s.turn.phase
      /\ turn.queued = s.turn.queued /\ turn.ready = s.turn.ready
  BY <1>1 DEF ActiveTurns
<1> HIDE DEF turn, t
<1>5. /\ t.turn = turn /\ t.lastFinished = s.lastFinished /\ t.issued = s.issued
      /\ t.context = s.context /\ t.turns = s.turns /\ t.pending = s.pending
      /\ t.notesReady = s.notesReady /\ t.received = s.received
  BY <1>1, <1>3 DEF State
<1>6. Notices(t)
  BY <1>4, <1>5 DEF Midway, Notices, IsActive
<1>7. Midway(t)
  BY <1>2, <1>4, <1>5, <1>6, MidwayKept
<1> QED
  BY <1>2, <1>4, <1>5, <1>7 DEF t

(* A candidate that its hook sends back to the model.                      *)
LEMMA CandidateRetryAdvance ==
    ASSUME IInv, Steady(core), CandidateRetry PROVE Advances(core, core')
<1> DEFINE i == [core EXCEPT !.turn.iterations = core.turn.iterations + 1]
           context == Append(core.context, Note("feedback"))
           t == [i EXCEPT !.context = i.context \o <<Note("feedback")>>]
<1>1. InCandidateHook(core) /\ core.turn.iterations + 1 < MaxIterations
  BY DEF CandidateRetry
<1>2. Midway(core) /\ core \in State /\ IsActive(core)
  BY <1>1, AtCandidateHook
<1>3. Note("feedback") \in Message
  BY DEF Note, Message
<1>4. <<Note("feedback")>> \in Seq(Message) /\ <<Note("feedback")>> # <<>>
  BY <1>3
<1>5. /\ Midway(i) /\ i.turn.id = core.turn.id /\ i.turn.phase = core.turn.phase
      /\ i.turn.iterations = core.turn.iterations + 1
      /\ i.lastFinished = core.lastFinished /\ i.issued = core.issued
      /\ i.context = core.context
  BY <1>2, IterationsSteady
<1>6. context = i.context \o <<Note("feedback")>>
  <2>1. core.context \in Seq(Message)
    BY <1>2 DEF State
  <2> HIDE DEF i
  <2> QED
    BY <1>3, <1>5, <2>1
<1>7. t = [core EXCEPT !.turn.iterations = core.turn.iterations + 1,
                       !.context = context]
  BY <1>2, <1>6 DEF State
<1> HIDE DEF i
<1>8. /\ Midway(t) /\ NextIsNew(t) /\ t.turn = i.turn
      /\ t.lastFinished = core.lastFinished /\ t.issued = core.issued
      /\ t.context # <<>>
  BY <1>4, <1>5, ContextGrowsSteady
<1>9. core' \in ContinueActiveTurn(t, TRUE)
  BY <1>7 DEF CandidateRetry
<1> HIDE DEF t, context
<1>10. t.turn.phase.kind # "PreAgentTurn"
  BY <1>1, <1>5, <1>8, AtCandidateHook
<1>11. /\ Steady(core') /\ Proceeds(core', t.turn.id, t.lastFinished)
       /\ Planned(core', t.issued)
  BY <1>1, <1>5, <1>8, <1>9, <1>10, ContinueSteady
<1>12. GoesOn(core, core') /\ Planned(core', core.issued)
  BY <1>5, <1>8, <1>11 DEF GoesOn
<1> QED
  BY <1>1, <1>11, <1>12, AtCandidateHook, GoingOn

(* A candidate that its hook rejects.                                      *)
LEMMA CandidateRejectAdvance ==
    ASSUME IInv, Steady(core), CandidateReject PROVE Advances(core, core')
<1> DEFINE i == [core EXCEPT !.turn.iterations = core.turn.iterations + 1]
<1>1. IsActive(core) /\ Midway(core)
  BY AtCandidateHook DEF CandidateReject
<1>2. Midway(i) /\ i.turn.id = core.turn.id
  BY <1>1, IterationsSteady
<1>3. core' = FinishTurn(i, "Rejected")
  BY DEF CandidateReject
<1>4. "Rejected" \in Outcomes /\ "Rejected" # "Completed"
  BY DEF Outcomes
<1> HIDE DEF i
<1> QED
  BY <1>1, <1>2, <1>3, <1>4, EarlyEnd

(* The end of a compaction, or another attempt at it.                      *)
LEMMA CompactionAdvance ==
    ASSUME IInv, Steady(core), SummaryAccepted \/ SummaryRejected \/ CompactionFailed
    PROVE  Advances(core, core')
<1>1. /\ Sound(core) /\ Settled(core) /\ Numbers(core) /\ Notices(core)
      /\ IsCompacting(core)
  BY BetweenSteps DEF IInv, SummaryAccepted, SummaryRejected, CompactionFailed
<1>2. IsActive(core) => core.turn.phase.kind = "AwaitingCompaction"
  BY <1>1 DEF IsCompacting, InPhase, IsActive
<1>3. ~InPhase(core, "PreAgentTurn") /\ ~StillInFlight(core, core')
  BY <1>2 DEF InPhase, StillInFlight
<1>4. /\ Steady(core')
      /\ \/ IsActive(core) /\ Proceeds(core', core.turn.id, core.lastFinished)
         \/ Idles(core, core')
         \/ /\ ~IsActive(core) /\ ~IsActive(core')
            /\ core'.lastFinished = core.lastFinished
  <2>1. CASE SummaryAccepted
    BY <1>1, <2>1, CompactionAcceptedSteady DEF SummaryAccepted
  <2>2. CASE SummaryRejected
    BY <1>1, <2>2, RejectSummarySteady DEF SummaryRejected
  <2>3. CASE CompactionFailed
    BY <1>1, <2>3, FailCompactionSteady DEF CompactionFailed, Proceeds
  <2> QED
    BY <2>1, <2>2, <2>3
<1>5. Idles(core, core') => /\ ~IsActive(core) /\ ~IsActive(core')
                            /\ core'.lastFinished = core.lastFinished
  BY DEF Idles, Idle, IsActive
<1>6. Moves(core, core')
  BY <1>3, <1>4, <1>5 DEF Moves, GoesOn
<1> QED
  BY <1>3, <1>4, <1>6 DEF Advances

(* A new session is steady.                                                *)
LEMMA InitSteady == Init => Steady(core)
<1> SUFFICES ASSUME Init
             PROVE  Steady(core)
  OBVIOUS
<1>1. /\ core.turn = Idle /\ core.lastFinished = 0 /\ core.turns = 0
      /\ core.pending = <<>> /\ core.notesReady = FALSE /\ core.received = {}
  BY DEF Init
<1>2. core.turn.kind = "Idle"
  BY <1>1 DEF Idle
<1>3. ToSet(core.pending) = {}
  BY <1>1 DEF ToSet
<1> QED
  BY <1>1, <1>2, <1>3 DEF Steady, Numbers, Notices, Poised, IsActive

(* Every step advances.                                                    *)
LEMMA NextAdvances ==
    ASSUME IInv, Steady(core), Next PROVE Advances(core, core')
<1>1. CASE LateInterrupt
  <2>1. core' = core
    BY <1>1 DEF LateInterrupt
  <2>2. Numbers(core') /\ Notices(core')
    BY <2>1 DEF Steady
  <2> QED
    BY <2>1, <2>2, QuietAdvance
<1>2. CASE QueueAtRest \/ OpenFollowUp \/ ExtendFollowUp \/ Steer \/ ContextMessage
  BY <1>2, QueueAtRestAdvance, OpenFollowUpAdvance, ExtendFollowUpAdvance,
     SteerAdvance, ContextMessageAdvance
<1>3. CASE \E n \in Notifications : ReceiveNotification(n)
  BY <1>3, ReceiveNotificationAdvance
<1>4. CASE ManualCompaction \/ Reconfigure \/ Interrupt \/ FailTurn
  BY <1>4, ManualCompactionAdvance, ReconfigureAdvance, AbandonAdvance
<1>5. CASE Answer
  <2>1. CASE CompletionSucceeded \/ CompletionFailed \/ PreLlmSkip \/ HookFailed
    BY <2>1, CompletionSucceededAdvance, EndingAdvance
  <2>2. CASE \E call \in Calls : FinishToolCall(call)
    BY <2>2, FinishToolCallAdvance
  <2>3. CASE PreAgentContinue \/ PreAgentSkip \/ PreLlmContinue
    BY <2>3, PreAgentAdvance, PreLlmContinueAdvance
  <2>4. CASE PostLlmAccept \/ PostAgentAccept \/ CandidateRetry \/ CandidateReject
    BY <2>4, CandidateAcceptAdvance, CandidateRetryAdvance, CandidateRejectAdvance
  <2>5. CASE SummaryAccepted \/ SummaryRejected \/ CompactionFailed
    BY <2>5, CompactionAdvance
  <2> QED
    BY <1>5, <2>1, <2>2, <2>3, <2>4, <2>5 DEF Answer
<1> QED
  BY <1>1, <1>2, <1>3, <1>4, <1>5 DEF Next

(* The strengthening of IInv that the theorems below rest on.              *)
SteadyInv == IInv /\ Steady(core)

LEMMA SteadyAlways == Spec => []SteadyInv
<1>1. Init => SteadyInv
  BY InitSound, InitSteady DEF SteadyInv
<1>2. SteadyInv /\ [Next]_vars => SteadyInv'
  <2> SUFFICES ASSUME SteadyInv, [Next]_vars
               PROVE  SteadyInv'
    OBVIOUS
  <2>1. IInv'
    BY NextSound DEF SteadyInv
  <2>2. CASE Next
    BY <2>1, <2>2, NextAdvances DEF SteadyInv, Advances
  <2>3. CASE UNCHANGED vars
    BY <2>1, <2>3 DEF SteadyInv, vars
  <2> QED
    BY <2>2, <2>3
<1> QED
  BY <1>1, <1>2, PTL DEF Spec

(* No reachable state is one a checkpoint would refuse, when it is written *)
(* or when the session is restored from it (validate_restored_state).      *)
THEOREM CheckpointableHolds == Spec => []Checkpointable
<1>1. SteadyInv => Checkpointable
  <2> SUFFICES ASSUME SteadyInv
               PROVE  Checkpointable
    OBVIOUS
  <2>1. /\ core \in State /\ Numbers(core) /\ Notices(core) /\ Poised(core)
        /\ IsActive(core) => core.turn.phase \in Phases
    BY BetweenSteps DEF SteadyInv
  <2>2. core.turn.kind = "Terminal" => core.lastFinished = core.turn.id
    BY <2>1 DEF Numbers
  <2>3. IsActive(core) /\ core.context = <<>> => InPhase(core, "PreAgentTurn")
    BY <2>1 DEF Poised, InPhase
  <2>4. InPhase(core, "AwaitingCompaction") =>
          /\ core.turn.phase.id = core.turn.id
          /\ core.turn.phase.iterations = core.turn.iterations
    BY <2>1 DEF Poised, InPhase
  <2>5. InPhase(core, "PreAgentTurn") /\ core.turn.phase.suspended # Idle =>
          core.lastFinished = core.turn.phase.suspended.id
    BY <2>1 DEF Poised, InPhase
  <2>6. InPhase(core, "AwaitingToolBatch") =>
          /\ core.turn.phase.open # {}
          /\ Last(core.context) = AssistantMessage(core.turn.phase.calls)
    BY <2>1 DEF Poised, InPhase
  <2>7. IsCompacting(core) => PendingCompaction(core).attempt <= MaxSummaryRetries
    BY <2>1 DEF Poised, IsCompacting, InPhase, PendingCompaction, IsActive
  <2> QED
    BY <2>1, <2>2, <2>3, <2>4, <2>5, <2>6, <2>7 DEF Checkpointable, Notices
<1> QED
  BY <1>1, SteadyAlways, PTL

(* No completion is in flight while the model has not seen a notice that   *)
(* was marked for delivery (mark_notifications_ready, take_late_input).    *)
THEOREM ReadyNoticesNotSkippedHolds == Spec => []ReadyNoticesNotSkipped
<1>1. SteadyInv => ReadyNoticesNotSkipped
  BY DEF SteadyInv, Steady, Poised, Notices, ReadyNoticesNotSkipped, InPhase
<1> QED
  BY <1>1, SteadyAlways, PTL

(* The context a completion was built from does not change while the       *)
(* completion is in flight, whatever the Runtime sends meanwhile.          *)
THEOREM ContextFrozenHolds == Spec => ContextFrozenInFlight
<1> DEFINE Frozen ==
      /\ InPhase(core, "AwaitingCompletion")
      /\ core'.turn.kind = "Active"
      /\ core'.turn.phase = core.turn.phase
      => core'.context = core.context
<1>1. SteadyInv /\ [Next]_vars => [Frozen]_vars
  <2> SUFFICES ASSUME SteadyInv, Next
               PROVE  Frozen
    OBVIOUS
  <2>1. Advances(core, core')
    BY NextAdvances DEF SteadyInv
  <2> QED
    BY <2>1 DEF Advances, StillInFlight
<1>2. [][Frozen]_vars <=> ContextFrozenInFlight
  BY DEF ContextFrozenInFlight
<1> HIDE DEF Frozen
<1> QED
  BY <1>1, <1>2, SteadyAlways, PTL DEF Spec

(* A follow-up starts in the step that completes its turn, with all its    *)
(* messages, unless the turn did not complete or was skipped by its        *)
(* pre-LLM hook (finish_completed_turn, apply_completion_finish).          *)
THEOREM FollowUpHandedOver == Spec => FollowUpHandoff
<1> DEFINE Handed ==
      /\ IsActive(core)
      /\ core.turn.queued # NoQueue
      /\ core'.lastFinished \in {core.turn.id, core.turn.queued.id}
      => \/ FollowUpStarted(core', core.turn.queued)
         \/ core'.turn.outcome \in Outcomes \ {"Completed"}
         \/ InPhase(core, "PreLlmCall")
<1>1. SteadyInv /\ [Next]_vars => [Handed]_vars
  <2> SUFFICES ASSUME SteadyInv, Next, IsActive(core), core.turn.queued # NoQueue,
                      core'.lastFinished \in {core.turn.id, core.turn.queued.id},
                      ~InPhase(core, "PreLlmCall")
               PROVE  \/ FollowUpStarted(core', core.turn.queued)
                      \/ core'.turn.outcome \in Outcomes \ {"Completed"}
    OBVIOUS
  <2> DEFINE id == core.turn.queued.id
             msgs == core.turn.queued.msgs
  <2>1. Moves(core, core')
    BY NextAdvances DEF SteadyInv, Advances
  <2>2. /\ core \in State /\ core.turn \in ActiveTurns
        /\ core.lastFinished < core.turn.id /\ core.turn.id < id
        /\ core.lastFinished \in Nat /\ core.turn.id \in Nat
    BY BetweenSteps DEF SteadyInv, Numbers, State, ActiveTurns
  <2>3. id \in Nat /\ msgs \in Seq(Nat)
    BY <2>2 DEF ActiveTurns, Queues
  <2>4. core'.lastFinished # core.lastFinished
    BY <2>2, <2>3
  <2>5. "Failed" \in Outcomes \ {"Completed"}
    BY DEF Outcomes
  <2>6. ASSUME NEW turn, NEW outcome \in Outcomes \ {"Completed"},
               Rests(core', turn, outcome)
        PROVE  core'.turn.outcome \in Outcomes \ {"Completed"}
    BY <2>6 DEF Rests, Terminal
  <2>7. CASE \E outcome \in Outcomes :
               /\ Rests(core', core.turn.id, outcome)
               /\ outcome = "Completed" => InPhase(core, "PreLlmCall")
    BY <2>6, <2>7
  <2>8. CASE InPhase(core, "PreAgentTurn") /\ Proceeds(core', core.turn.id, core.lastFinished)
    BY <2>4, <2>5, <2>6, <2>8 DEF Proceeds, Runs
  <2>9. CASE GoesOn(core, core')
    <3>1. CASE Proceeds(core', core.turn.id, core.lastFinished)
      BY <2>4, <2>5, <2>6, <3>1 DEF Proceeds, Runs
    <3>2. CASE Starts(core', id, msgs, core.turn.id)
      <4>1. CASE Admitted(core', id, msgs, core.turn.id)
        BY <4>1 DEF Admitted, FollowUpStarted, InPhase, IsActive
      <4>2. CASE /\ Proceeds(core', id, core.turn.id)
                 /\ ToSet(Users(msgs)) \subseteq ToSet(core'.context)
        <5>1. ASSUME NEW m \in ToSet(msgs)
              PROVE  User(m) \in ToSet(core'.context)
          <6>1. PICK i \in DOMAIN msgs : msgs[i] = m
            BY DEF ToSet
          <6>2. i \in DOMAIN Users(msgs) /\ Users(msgs)[i] = User(m)
            BY <6>1 DEF Users
          <6> QED
            BY <4>2, <6>2 DEF ToSet
        <5>2. core'.turn.kind \in {"Active", "Terminal"} /\ core'.turn.id = id
          BY <4>2 DEF Proceeds, Runs, Rests, Terminal, IsActive
        <5>3. ~InPhase(core', "PreAgentTurn")
          BY <4>2 DEF Proceeds, Runs, Rests, Terminal, InPhase, IsActive
        <5> QED
          BY <5>1, <5>2, <5>3 DEF FollowUpStarted
      <4> QED
        BY <3>2, <4>1, <4>2 DEF Starts
    <3> QED
      BY <2>9, <3>1, <3>2 DEF GoesOn, Completes
  <2> QED
    BY <2>1, <2>4, <2>7, <2>8, <2>9 DEF Moves, Resting, IsActive
<1>2. [][Handed]_vars <=> FollowUpHandoff
  BY DEF FollowUpHandoff
<1> HIDE DEF Handed
<1> QED
  BY <1>1, <1>2, SteadyAlways, PTL DEF Spec

(* Where a turn is after it started, as its Runtime sees it.               *)
LEMMA Seen ==
    /\ InPhase(core, "PreAgentTurn") =>
          Mode = "Admitting" /\ RunningTurn = core.turn.id
    /\ IsActive(core) /\ core.turn.phase.kind # "PreAgentTurn" =>
          Mode = "Running" /\ RunningTurn = core.turn.id
    /\ Resting(core) => Mode = "Idle" /\ RunningTurn = 0
    /\ ~IsActive(core) /\ ~Resting(core) => Mode = "Compacting" /\ RunningTurn = 0
BY DEF Mode, RunningTurn, InPhase, IsActive, Resting

(* The same, after a step.                                                 *)
LEMMA SeenNext ==
    /\ InPhase(core', "PreAgentTurn") =>
          Mode' = "Admitting" /\ RunningTurn' = core'.turn.id
    /\ IsActive(core') /\ core'.turn.phase.kind # "PreAgentTurn" =>
          Mode' = "Running" /\ RunningTurn' = core'.turn.id
    /\ Resting(core') => Mode' = "Idle" /\ RunningTurn' = 0
    /\ ~IsActive(core') /\ ~Resting(core') => Mode' = "Compacting" /\ RunningTurn' = 0
BY DEF Mode, RunningTurn, InPhase, IsActive, Resting

(* What a turn that proceeds, or starts, shows its Runtime.                *)
LEMMA ProceedsSeen ==
    ASSUME NEW id, NEW last, Proceeds(core', id, last)
    PROVE  \/ Mode' = "Running" /\ RunningTurn' = id /\ core'.lastFinished = last
           \/ Mode' = "Idle" /\ RunningTurn' = 0 /\ core'.lastFinished = id
<1>1. CASE Runs(core', id, last)
  BY <1>1, SeenNext DEF Runs
<1>2. CASE Rests(core', id, "Failed")
  BY <1>2, SeenNext DEF Rests, Resting, Terminal
<1> QED
  BY <1>1, <1>2 DEF Proceeds

LEMMA StartsSeen ==
    ASSUME NEW id, NEW msgs, NEW last, Starts(core', id, msgs, last)
    PROVE  \/ /\ Mode' \in {"Admitting", "Running"}
              /\ RunningTurn' = id /\ core'.lastFinished = last
           \/ Mode' = "Idle" /\ RunningTurn' = 0 /\ core'.lastFinished = id
<1>1. CASE Admitted(core', id, msgs, last)
  BY <1>1, SeenNext DEF Admitted
<1>2. CASE Proceeds(core', id, last)
  BY <1>2, ProceedsSeen
<1> QED
  BY <1>1, <1>2 DEF Starts

(* Every step of the engine is a step of the lifecycle, or changes nothing *)
(* its Runtime sees.                                                       *)
LEMMA StepsRefine ==
    ASSUME SteadyInv, Next
    PROVE  Lifecycle!Next \/ UNCHANGED Lifecycle!vars
<1> DEFINE Unchanged == /\ Mode' = Mode /\ RunningTurn' = RunningTurn
                        /\ core'.lastFinished = core.lastFinished
<1>1. Moves(core, core')
  BY NextAdvances DEF SteadyInv, Advances
<1>2. /\ core \in State /\ core.lastFinished \in Nat
      /\ IsActive(core) =>
            /\ core.turn \in ActiveTurns /\ core.turn.id \in Nat
            /\ core.lastFinished < core.turn.id
  BY BetweenSteps DEF SteadyInv, Numbers, State, ActiveTurns
<1>3. Unchanged => UNCHANGED Lifecycle!vars
  BY DEF Lifecycle!vars
<1>4. IsActive(core) => /\ Mode \in {"Admitting", "Running"}
                        /\ RunningTurn = core.turn.id
  BY Seen DEF InPhase
<1>5. CASE /\ IsActive(core) /\ IsActive(core')
           /\ core'.turn.id = core.turn.id
           /\ core'.turn.phase = core.turn.phase
           /\ core'.lastFinished = core.lastFinished
  <2>1. InPhase(core', "PreAgentTurn") <=> InPhase(core, "PreAgentTurn")
    BY <1>5 DEF InPhase
  <2>2. Unchanged
    BY <1>5, <2>1, Seen, SeenNext DEF InPhase
  <2> QED
    BY <1>3, <2>2
<1>6. CASE /\ ~IsActive(core) /\ ~IsActive(core')
           /\ core'.lastFinished = core.lastFinished
  <2>1. /\ Mode \in {"Idle", "Compacting"} /\ RunningTurn = 0
        /\ Mode' \in {"Idle", "Compacting"} /\ RunningTurn' = 0
    BY <1>6, Seen, SeenNext
  <2>2. Unchanged \/ Lifecycle!Compact \/ Lifecycle!EndCompaction
    BY <1>6, <2>1 DEF Lifecycle!Compact, Lifecycle!EndCompaction
  <2> QED
    BY <1>3, <2>2 DEF Lifecycle!Next
<1>7. CASE /\ Resting(core)
           /\ \E id \in Nat, msgs \in Seq(Nat) :
                 /\ id > core.lastFinished
                 /\ Starts(core', id, msgs, core.lastFinished)
  <2>1. PICK id \in Nat, msgs \in Seq(Nat) :
                 /\ id > core.lastFinished
                 /\ Starts(core', id, msgs, core.lastFinished)
    BY <1>7
  <2>2. Mode = "Idle" /\ RunningTurn = 0
    BY <1>7, Seen
  <2>3. Lifecycle!Begin \/ Lifecycle!FailAtOnce
    BY <2>1, <2>2, StartsSeen DEF Lifecycle!Begin, Lifecycle!FailAtOnce
  <2> QED
    BY <2>3 DEF Lifecycle!Next
<1>8. CASE IsActive(core) /\ ~InPhase(core, "PreAgentTurn") /\ GoesOn(core, core')
  <2>1. Mode = "Running" /\ RunningTurn = core.turn.id
    BY <1>8, Seen DEF InPhase
  <2>2. CASE Proceeds(core', core.turn.id, core.lastFinished)
    <3>1. Unchanged \/ Lifecycle!Finish
      BY <2>1, <2>2, ProceedsSeen DEF Lifecycle!Finish
    <3> QED
      BY <1>3, <3>1 DEF Lifecycle!Next
  <2>3. CASE core.turn.queued = NoQueue /\ Rests(core', core.turn.id, "Completed")
    <3>1. Mode' = "Idle" /\ RunningTurn' = 0 /\ core'.lastFinished = core.turn.id
      BY <2>3, SeenNext DEF Rests, Resting, Terminal
    <3>2. Lifecycle!Finish
      BY <2>1, <3>1 DEF Lifecycle!Finish
    <3> QED
      BY <3>2 DEF Lifecycle!Next
  <2>4. CASE /\ core.turn.queued # NoQueue
             /\ Starts(core', core.turn.queued.id, core.turn.queued.msgs, core.turn.id)
    <3> DEFINE id == core.turn.queued.id
    <3>1. core.turn.id < id /\ id \in Nat /\ core.turn.id \in Nat
      BY <1>2, <1>8, <2>4, BetweenSteps DEF SteadyInv, Numbers, ActiveTurns, Queues
    <3>2. \/ /\ Mode' \in {"Admitting", "Running"}
             /\ RunningTurn' = id /\ core'.lastFinished = core.turn.id
          \/ Mode' = "Idle" /\ RunningTurn' = 0 /\ core'.lastFinished = id
      BY <2>4, StartsSeen
    <3> HIDE DEF id
    <3>3. Lifecycle!HandOver \/ Lifecycle!FailAtOnce
      BY <2>1, <3>1, <3>2 DEF Lifecycle!HandOver, Lifecycle!FailAtOnce
    <3> QED
      BY <3>3 DEF Lifecycle!Next
  <2> QED
    BY <1>8, <2>2, <2>3, <2>4 DEF GoesOn, Completes
<1>9. CASE /\ InPhase(core, "PreAgentTurn")
           /\ Proceeds(core', core.turn.id, core.lastFinished)
  <2>1. Mode = "Admitting" /\ RunningTurn = core.turn.id
    BY <1>9, Seen
  <2>2. Lifecycle!Admit \/ Lifecycle!Finish
    BY <1>9, <2>1, ProceedsSeen DEF Lifecycle!Admit, Lifecycle!Finish
  <2> QED
    BY <2>2 DEF Lifecycle!Next
<1>10. CASE /\ InPhase(core, "PreAgentTurn") /\ Resting(core')
            /\ core'.lastFinished = core.lastFinished
  <2>1. Lifecycle!Withdraw
    BY <1>10, Seen, SeenNext DEF Lifecycle!Withdraw
  <2> QED
    BY <2>1 DEF Lifecycle!Next
<1>11. CASE /\ IsActive(core)
            /\ \E outcome \in Outcomes :
                 /\ Rests(core', core.turn.id, outcome)
                 /\ outcome = "Completed" => InPhase(core, "PreLlmCall")
  <2>1. Mode' = "Idle" /\ RunningTurn' = 0 /\ core'.lastFinished = core.turn.id
    BY <1>11, SeenNext DEF Rests, Resting, Terminal
  <2>2. Lifecycle!Finish
    BY <1>4, <1>11, <2>1 DEF Lifecycle!Finish
  <2> QED
    BY <2>2 DEF Lifecycle!Next
<1> QED
  BY <1>1, <1>5, <1>6, <1>7, <1>8, <1>9, <1>10, <1>11 DEF Moves

(* The engine implements the lifecycle its Runtime relies on: one turn at  *)
(* a time, each finished at most once and in order, none lost (turn_view,  *)
(* finish_turn, finish_completed_turn).                                    *)
THEOREM LifecycleHolds == Spec => LifecycleRefined
<1>1. Init => Lifecycle!Init
  <2> SUFFICES ASSUME Init
               PROVE  Lifecycle!Init
    OBVIOUS
  <2>1. core.turn = Idle /\ core.lastFinished = 0
    BY DEF Init
  <2>2. Resting(core)
    BY <2>1 DEF Resting, Idle
  <2> QED
    BY <2>1, <2>2, Seen DEF Lifecycle!Init
<1>2. SteadyInv /\ [Next]_vars => [Lifecycle!Next]_(Lifecycle!vars)
  <2>1. CASE Next
    BY <2>1, StepsRefine
  <2>2. CASE UNCHANGED vars
    <3>1. core' = core
      BY <2>2 DEF vars
    <3>2. Mode' = Mode /\ RunningTurn' = RunningTurn
      BY <3>1 DEF Mode, RunningTurn
    <3> QED
      BY <3>1, <3>2 DEF Lifecycle!vars
  <2> QED
    BY <2>1, <2>2
<1> QED
  BY <1>1, <1>2, SteadyAlways, PTL DEF Spec, LifecycleRefined, Lifecycle!Spec

-----------------------------------------------------------------------------
(* What the transcript tells of steering, notices and calls.               *)

(* The steering in S that a sequence of messages has.                      *)
Said(q, S) == {m \in S : \E i \in DOMAIN q : q[i] = User(m)}

NoticesOf(q, n) == {i \in DOMAIN q : q[i].kind = "notice" /\ n \in q[i].ids}

Told(q) == {n \in Notifications : NoticesOf(q, n) # {}}

(* Steering stands alone in its message and in the order of its numbers,   *)
(* and a notification is told once.                                        *)
Orderly(q, S) ==
    /\ \A i \in DOMAIN q : q[i].kind = "user" /\ q[i].ids \cap S # {} =>
          \E m \in S : q[i] = User(m)
    /\ \A i, j \in DOMAIN q : \A m, n \in S :
          i < j /\ q[i] = User(m) /\ q[j] = User(n) => m < n
    /\ \A n \in Notifications : \A i, j \in NoticesOf(q, n) : i = j

Within(q, n) == \A i \in DOMAIN q : q[i].kind = "user" => q[i].ids \subseteq 1..n

Rising(q) == \A i, j \in DOMAIN q : i < j => q[i] < q[j]

Before(A, B) == \A m \in A, n \in B : m < n

(* Messages that tell of nothing that is to be told once.                  *)
Plain(q, S, n) ==
    \A i \in DOMAIN q : /\ q[i].kind # "notice"
                        /\ q[i].kind = "user" => q[i].ids \subseteq (1..n) \ S

(* Messages none of which asks for results.                                *)
CallFree(q) == \A i \in DOMAIN q : q[i].kind # "calls"

(* Where the messages of two sequences are in the sequence of both.        *)
LEMMA JoinIndex ==
    ASSUME NEW x \in Seq(Message), NEW y \in Seq(Message)
    PROVE  /\ x \o y \in Seq(Message)
           /\ \A i \in DOMAIN x : /\ i \in DOMAIN (x \o y) /\ (x \o y)[i] = x[i]
                                  /\ i \in Nat /\ i <= Len(x)
           /\ \A j \in DOMAIN y : /\ Len(x) + j \in DOMAIN (x \o y) /\ j \in Nat
                                  /\ (x \o y)[Len(x) + j] = y[j] /\ j > 0
           /\ \A i \in DOMAIN (x \o y) :
                 \/ i \in DOMAIN x
                 \/ \E j \in DOMAIN y : i = Len(x) + j
           /\ Len(x) \in Nat /\ Len(y) \in Nat /\ Len(x \o y) = Len(x) + Len(y)
<1>1. /\ Len(x) \in Nat /\ Len(y) \in Nat
      /\ DOMAIN x = 1..Len(x) /\ DOMAIN y = 1..Len(y)
      /\ DOMAIN (x \o y) = 1..Len(x)+Len(y)
      /\ x \o y \in Seq(Message) /\ Len(x \o y) = Len(x) + Len(y)
      /\ \A i \in 1..Len(x)+Len(y) :
            (x \o y)[i] = IF i <= Len(x) THEN x[i] ELSE y[i - Len(x)]
  OBVIOUS
<1>2. \A i \in DOMAIN x : /\ i \in DOMAIN (x \o y) /\ (x \o y)[i] = x[i]
                          /\ i \in Nat /\ i <= Len(x)
  BY <1>1
<1>3. ASSUME NEW j \in DOMAIN y
      PROVE  /\ Len(x) + j \in DOMAIN (x \o y) /\ j \in Nat
             /\ (x \o y)[Len(x) + j] = y[j] /\ j > 0
  <2>1. j \in 1..Len(y) /\ Len(x) + j \in 1..Len(x)+Len(y)
        /\ ~(Len(x) + j <= Len(x)) /\ (Len(x) + j) - Len(x) = j
    BY <1>1
  <2> QED
    BY <1>1, <2>1
<1>4. ASSUME NEW i \in DOMAIN (x \o y), i \notin DOMAIN x
      PROVE  \E j \in DOMAIN y : i = Len(x) + j
  <2>1. i - Len(x) \in 1..Len(y) /\ i = Len(x) + (i - Len(x))
    BY <1>1, <1>4
  <2> QED
    BY <1>1, <2>1
<1> QED
  BY <1>1, <1>2, <1>3, <1>4

LEMMA JoinAssociative ==
    ASSUME NEW x \in Seq(Message), NEW y \in Seq(Message), NEW z \in Seq(Message)
    PROVE  (x \o y) \o z = x \o (y \o z)
BY ConcatAssociative

(* What two sequences tell together.                                       *)
LEMMA JoinTells ==
    ASSUME NEW x \in Seq(Message), NEW y \in Seq(Message)
    PROVE  /\ \A S : Said(x \o y, S) = Said(x, S) \cup Said(y, S)
           /\ Told(x \o y) = Told(x) \cup Told(y)
           /\ \A N : Within(x, N) /\ Within(y, N) => Within(x \o y, N)
<1> DEFINE z == x \o y
<1>1. /\ \A i \in DOMAIN x : i \in DOMAIN z /\ z[i] = x[i]
      /\ \A j \in DOMAIN y : Len(x) + j \in DOMAIN z /\ z[Len(x) + j] = y[j]
      /\ \A i \in DOMAIN z : i \in DOMAIN x \/ \E j \in DOMAIN y : i = Len(x) + j
  BY JoinIndex
<1> HIDE DEF z
<1>2. \A S : Said(z, S) = Said(x, S) \cup Said(y, S)
  <2>1. \A m : (\E i \in DOMAIN z : z[i] = User(m)) <=>
               (\E i \in DOMAIN x : x[i] = User(m)) \/ (\E j \in DOMAIN y : y[j] = User(m))
    BY <1>1
  <2> QED
    BY <2>1 DEF Said
<1>3. \A n : NoticesOf(z, n) # {} <=> NoticesOf(x, n) # {} \/ NoticesOf(y, n) # {}
  BY <1>1 DEF NoticesOf
<1>4. Told(z) = Told(x) \cup Told(y)
  BY <1>3 DEF Told
<1>5. \A N : Within(x, N) /\ Within(y, N) => Within(z, N)
  BY <1>1 DEF Within
<1> QED
  BY <1>2, <1>4, <1>5 DEF z

(* Two orderly sequences in their order are orderly.                       *)
LEMMA JoinOrderly ==
    ASSUME NEW x \in Seq(Message), NEW y \in Seq(Message), NEW S \in SUBSET Nat,
           Orderly(x, S), Orderly(y, S), Before(Said(x, S), Said(y, S)),
           Told(x) \cap Told(y) = {}
    PROVE  Orderly(x \o y, S)
<1> DEFINE z == x \o y
           l == Len(x)
<1>1. /\ \A i \in DOMAIN x : i \in DOMAIN z /\ z[i] = x[i] /\ i \in Nat /\ i <= l
      /\ \A j \in DOMAIN y : l + j \in DOMAIN z /\ z[l + j] = y[j] /\ j \in Nat /\ j > 0
      /\ \A i \in DOMAIN z : i \in DOMAIN x \/ \E j \in DOMAIN y : i = l + j
      /\ l \in Nat
  BY JoinIndex, SMTT(30)
<1> HIDE DEF z, l
<1>2. ASSUME NEW i \in DOMAIN z, z[i].kind = "user", z[i].ids \cap S # {}
      PROVE  \E m \in S : z[i] = User(m)
  <2>1. CASE i \in DOMAIN x
    <3>1. z[i] = x[i]
      BY <1>1, <2>1
    <3> QED
      BY <1>2, <2>1, <3>1 DEF Orderly
  <2>2. CASE \E j \in DOMAIN y : i = l + j
    <3>1. PICK j \in DOMAIN y : z[i] = y[j]
      BY <1>1, <2>2
    <3> QED
      BY <1>2, <3>1 DEF Orderly
  <2> QED
    BY <1>1, <2>1, <2>2
<1>3. ASSUME NEW i \in DOMAIN z, NEW j \in DOMAIN z, NEW m \in S, NEW n \in S,
             i < j, z[i] = User(m), z[j] = User(n)
      PROVE  m < n
  <2>1. CASE i \in DOMAIN x /\ j \in DOMAIN x
    BY <1>1, <1>3, <2>1 DEF Orderly
  <2>2. CASE i \in DOMAIN x /\ \E k \in DOMAIN y : j = l + k
    <3>1. m \in Said(x, S) /\ n \in Said(y, S)
      BY <1>1, <1>3, <2>2 DEF Said
    <3> QED
      BY <3>1 DEF Before
  <2>3. CASE (\E h \in DOMAIN y : i = l + h) /\ j \in DOMAIN x
    BY <1>1, <1>3, <2>3
  <2>4. CASE (\E h \in DOMAIN y : i = l + h) /\ \E k \in DOMAIN y : j = l + k
    <3>1. PICK h \in DOMAIN y, k \in DOMAIN y : i = l + h /\ j = l + k
      BY <2>4
    <3>2. h < k /\ y[h] = User(m) /\ y[k] = User(n)
      BY <1>1, <1>3, <3>1
    <3> QED
      BY <3>2 DEF Orderly
  <2> QED
    BY <1>1, <2>1, <2>2, <2>3, <2>4
<1>4. ASSUME NEW n \in Notifications, NEW i \in NoticesOf(z, n), NEW j \in NoticesOf(z, n)
      PROVE  i = j
  <2>1. /\ i \in DOMAIN z /\ z[i].kind = "notice" /\ n \in z[i].ids
        /\ j \in DOMAIN z /\ z[j].kind = "notice" /\ n \in z[j].ids
    BY DEF NoticesOf
  <2>2. \A k \in DOMAIN z : z[k].kind = "notice" /\ n \in z[k].ids =>
           \/ k \in NoticesOf(x, n) /\ n \in Told(x)
           \/ (\E g \in NoticesOf(y, n) : k = l + g) /\ n \in Told(y)
    BY <1>1 DEF NoticesOf, Told
  <2>3. CASE i \in NoticesOf(x, n) /\ j \in NoticesOf(x, n)
    BY <2>3 DEF Orderly
  <2>4. CASE /\ \E g \in NoticesOf(y, n) : i = l + g
             /\ \E h \in NoticesOf(y, n) : j = l + h
    <3>1. PICK g \in NoticesOf(y, n), h \in NoticesOf(y, n) : i = l + g /\ j = l + h
      BY <2>4
    <3>2. g = h
      BY <3>1 DEF Orderly
    <3> QED
      BY <3>1, <3>2
  <2>5. ~(n \in Told(x) /\ n \in Told(y))
    OBVIOUS
  <2> QED
    BY <2>1, <2>2, <2>3, <2>4, <2>5
<1>5. /\ \A i \in DOMAIN z : z[i].kind = "user" /\ z[i].ids \cap S # {} =>
            \E m \in S : z[i] = User(m)
      /\ \A i, j \in DOMAIN z : \A m, n \in S :
            i < j /\ z[i] = User(m) /\ z[j] = User(n) => m < n
      /\ \A n \in Notifications : \A i, j \in NoticesOf(z, n) : i = j
  BY <1>2, <1>3, <1>4
<1> QED
  BY <1>5 DEF Orderly, z

(* Plain messages tell of nothing.                                         *)
LEMMA PlainTells ==
    ASSUME NEW q, NEW S, NEW N, Plain(q, S, N)
    PROVE  Orderly(q, S) /\ Said(q, S) = {} /\ Told(q) = {} /\ Within(q, N)
<1>1. \A i \in DOMAIN q : q[i].kind # "notice"
  BY DEF Plain
<1>2. \A i \in DOMAIN q : q[i].kind = "user" => q[i].ids \cap S = {} /\ q[i].ids \subseteq 1..N
  BY DEF Plain
<1>3. \A m : User(m).kind = "user" /\ m \in User(m).ids
  BY DEF User
<1>4. \A i \in DOMAIN q : \A m \in S : q[i] # User(m)
  BY <1>2, <1>3
<1>5. \A n : NoticesOf(q, n) = {}
  BY <1>1 DEF NoticesOf
<1> QED
  BY <1>2, <1>4, <1>5 DEF Orderly, Said, Told, Within

(* The messages of pending steering.                                       *)
LEMMA UsersTell ==
    ASSUME NEW u \in Seq(Nat), Rising(u), NEW S, ToSet(u) \subseteq S,
           NEW N, S \subseteq 1..N
    PROVE  /\ Orderly(Users(u), S) /\ Said(Users(u), S) = ToSet(u)
           /\ Told(Users(u)) = {} /\ Within(Users(u), N)
<1> DEFINE q == Users(u)
<1>1. DOMAIN q = DOMAIN u /\ \A i \in DOMAIN u : q[i] = User(u[i])
  BY DEF Users
<1>2. \A m : User(m).kind = "user" /\ User(m).ids = {m} /\ User(m).kind # "notice"
  BY DEF User
<1>3. \A m, n : User(m) = User(n) => m = n
  BY <1>2, ZenonT(60)
<1>4. \A i \in DOMAIN u : u[i] \in S /\ u[i] \in ToSet(u) /\ u[i] \in 1..N
  BY DEF ToSet
<1>5. \A m \in ToSet(u) : \E i \in DOMAIN u : u[i] = m
  BY DEF ToSet
<1> HIDE DEF q
<1>6. \A n : NoticesOf(q, n) = {}
  BY <1>1, <1>2 DEF NoticesOf
<1>7. \A i \in DOMAIN q : \E m \in S : q[i] = User(m)
  BY <1>1, <1>4
<1>8. \A i, j \in DOMAIN q : \A m, n \in S :
         i < j /\ q[i] = User(m) /\ q[j] = User(n) => m < n
  BY <1>1, <1>3 DEF Rising
<1>9. Orderly(q, S)
  BY <1>6, <1>7, <1>8 DEF Orderly
<1>10. Said(q, S) = ToSet(u)
  <2>1. Said(q, S) \subseteq ToSet(u)
    BY <1>1, <1>3, <1>4 DEF Said
  <2>2. ToSet(u) \subseteq Said(q, S)
    BY <1>1, <1>4, <1>5 DEF Said
  <2> QED
    BY <2>1, <2>2
<1>11. Told(q) = {} /\ Within(q, N)
  BY <1>1, <1>2, <1>4, <1>6 DEF Told, Within
<1> QED
  BY <1>9, <1>10, <1>11 DEF q

(* The notice of some notifications.                                       *)
LEMMA NoticeTells ==
    ASSUME NEW P \in SUBSET Notifications, NEW S, NEW N
    PROVE  LET q == <<[kind |-> "notice", ids |-> P]>>
           IN  Orderly(q, S) /\ Said(q, S) = {} /\ Told(q) = P /\ Within(q, N)
<1> DEFINE q == <<[kind |-> "notice", ids |-> P]>>
<1>1. DOMAIN q = {1} /\ q[1].kind = "notice" /\ q[1].ids = P
  OBVIOUS
<1>2. \A m : User(m).kind # "notice"
  BY DEF User
<1>3. q[1].kind # "user"
  BY <1>1
<1> HIDE DEF q
<1>4. \A n : NoticesOf(q, n) = IF n \in P THEN {1} ELSE {}
  BY <1>1 DEF NoticesOf
<1>5. \A m \in S : q[1] # User(m)
  BY <1>1, <1>2
<1>6. Told(q) = P
  BY <1>4 DEF Told
<1>7. Orderly(q, S)
  <2>1. \A n \in Notifications : \A i, j \in NoticesOf(q, n) : i = j
    BY <1>4
  <2> QED
    BY <1>1, <1>3, <1>5, <2>1 DEF Orderly
<1> QED
  BY <1>1, <1>3, <1>5, <1>6, <1>7 DEF Said, Within, q

(* Messages picked from a context in its order tell what they told there.  *)
LEMMA ArrangedTells ==
    ASSUME NEW context \in Seq(Message), NEW K \in SUBSET DOMAIN context,
           NEW picked \in Arranged(context, K)
    PROVE  /\ \A k \in DOMAIN picked : \E i \in K : picked[k] = context[i]
           /\ \A S : Orderly(context, S) => Orderly(picked, S)
           /\ \A S : Said(picked, S) = {m \in S : \E i \in K : context[i] = User(m)}
           /\ Told(picked) = {n \in Notifications : NoticesOf(context, n) \cap K # {}}
           /\ \A N : Within(context, N) => Within(picked, N)
<1> DEFINE n == Cardinality(K)
<1>1. DOMAIN context = 1..Len(context) /\ Len(context) \in Nat
  OBVIOUS
<1>2. IsFiniteSet(K)
  <2>1. IsFiniteSet(1..Len(context))
    BY <1>1, FS_Interval
  <2> QED
    BY <1>1, <2>1, FS_Subset
<1>3. n \in Nat /\ Cardinality(1..n) = n
  BY <1>2, FS_CardinalityType, FS_Interval
<1> HIDE DEF n
<1>4. PICK at \in [1..n -> K] :
         /\ picked = [k \in DOMAIN at |-> context[at[k]]]
         /\ \A j, k \in DOMAIN at : j < k => at[j] < at[k]
  BY DEF Arranged, n
<1>5. /\ DOMAIN at = 1..n /\ DOMAIN picked = 1..n
      /\ \A k \in 1..n : picked[k] = context[at[k]] /\ at[k] \in K /\ at[k] \in Nat
  BY <1>1, <1>4
<1>6. \A j, k \in 1..n : at[j] = at[k] => j = k
  <2> SUFFICES ASSUME NEW j \in 1..n, NEW k \in 1..n, at[j] = at[k], j # k
               PROVE  FALSE
    OBVIOUS
  <2>1. j < k \/ k < j
    BY <1>3
  <2> QED
    BY <1>4, <1>5, <2>1
<1>7. at \in Injection(1..n, K)
  BY <1>4, <1>5, <1>6 DEF Injection, IsInjective
<1>8. at \in Surjection(1..n, K)
  BY <1>2, <1>3, <1>7, FS_Injection DEF n
<1>9. \A i \in K : \E k \in 1..n : at[k] = i
  BY <1>5, <1>8 DEF Surjection
<1>10. \A S : Orderly(context, S) => Orderly(picked, S)
  <2> SUFFICES ASSUME NEW S, Orderly(context, S)
               PROVE  Orderly(picked, S)
    OBVIOUS
  <2>1. \A i \in DOMAIN picked : picked[i].kind = "user" /\ picked[i].ids \cap S # {} =>
           \E m \in S : picked[i] = User(m)
    BY <1>5 DEF Orderly
  <2>2. \A i, j \in DOMAIN picked : \A m, o \in S :
           i < j /\ picked[i] = User(m) /\ picked[j] = User(o) => m < o
    BY <1>4, <1>5 DEF Orderly
  <2>3. \A o \in Notifications : \A i, j \in NoticesOf(picked, o) : i = j
    <3> SUFFICES ASSUME NEW o \in Notifications, NEW i \in NoticesOf(picked, o),
                        NEW j \in NoticesOf(picked, o)
                 PROVE  i = j
      OBVIOUS
    <3>1. i \in 1..n /\ j \in 1..n
      BY <1>5 DEF NoticesOf
    <3>2. at[i] \in NoticesOf(context, o) /\ at[j] \in NoticesOf(context, o)
      BY <1>5, <3>1 DEF NoticesOf
    <3>3. at[i] = at[j]
      BY <3>2 DEF Orderly
    <3> QED
      BY <1>6, <3>1, <3>3
  <2> QED
    BY <2>1, <2>2, <2>3 DEF Orderly
<1>11. \A S : Said(picked, S) = {m \in S : \E i \in K : context[i] = User(m)}
  <2>1. \A m : (\E k \in DOMAIN picked : picked[k] = User(m)) <=>
               (\E i \in K : context[i] = User(m))
    BY <1>5, <1>9
  <2> QED
    BY <2>1 DEF Said
<1>12. Told(picked) = {o \in Notifications : NoticesOf(context, o) \cap K # {}}
  <2>1. ASSUME NEW o
        PROVE  NoticesOf(picked, o) # {} <=> NoticesOf(context, o) \cap K # {}
    <3>1. \A k \in NoticesOf(picked, o) : at[k] \in NoticesOf(context, o) \cap K
      BY <1>5 DEF NoticesOf
    <3>2. \A i \in NoticesOf(context, o) \cap K : \E k \in 1..n : at[k] = i /\ k \in NoticesOf(picked, o)
      BY <1>5, <1>9 DEF NoticesOf
    <3> QED
      BY <3>1, <3>2
  <2> QED
    BY <2>1 DEF Told
<1>13. \A N : Within(context, N) => Within(picked, N)
  BY <1>5 DEF Within
<1>14. \A k \in DOMAIN picked : \E i \in K : picked[k] = context[i]
  BY <1>5
<1> QED
  BY <1>10, <1>11, <1>12, <1>13, <1>14

(* The results of a list of calls stand behind the message of the calls.   *)
AnsweredAt(q, i) ==
    LET n == Cardinality(q[i].ids)
    IN  /\ n \in Nat \ {0} /\ i + n <= Len(q)
        /\ \A k \in i+1 .. i+n : q[k].kind = "tool"
        /\ UNION {q[k].ids : k \in i+1 .. i+n} = q[i].ids

Complete(q) == \A i \in DOMAIN q : q[i].kind = "calls" => AnsweredAt(q, i)

(* What is added at the end leaves the answers where they are.             *)
LEMMA AnsweredStill ==
    ASSUME NEW x \in Seq(Message), NEW y \in Seq(Message), NEW i \in DOMAIN x,
           AnsweredAt(x, i)
    PROVE  AnsweredAt(x \o y, i)
<1> DEFINE z == x \o y
<1>1. /\ \A k \in DOMAIN x : z[k] = x[k]
      /\ Len(x) \in Nat /\ Len(y) \in Nat /\ Len(z) = Len(x) + Len(y)
  BY JoinIndex
<1>2. DOMAIN x = 1..Len(x)
  OBVIOUS
<1>3. PICK n : n = Cardinality(x[i].ids)
  OBVIOUS
<1>4. /\ n \in Nat \ {0} /\ i + n <= Len(x)
      /\ \A k \in i+1 .. i+n : x[k].kind = "tool"
      /\ UNION {x[k].ids : k \in i+1 .. i+n} = x[i].ids
  BY <1>3 DEF AnsweredAt
<1>5. i+1 .. i+n \subseteq DOMAIN x /\ i \in Nat
  BY <1>1, <1>2, <1>4
<1> HIDE DEF z
<1>6. \A k \in i+1 .. i+n : z[k] = x[k]
  BY <1>1, <1>5
<1>7. UNION {z[k].ids : k \in i+1 .. i+n} = UNION {x[k].ids : k \in i+1 .. i+n}
  BY <1>6
<1>8. z[i] = x[i] /\ i + n <= Len(z)
  BY <1>1, <1>4, <1>5
<1> QED
  BY <1>3, <1>4, <1>6, <1>7, <1>8 DEF AnsweredAt, z

LEMMA CompleteGrows ==
    ASSUME NEW x \in Seq(Message), NEW y \in Seq(Message), Complete(x),
           \A j \in DOMAIN y : y[j].kind # "calls"
    PROVE  Complete(x \o y)
<1> DEFINE z == x \o y
<1> SUFFICES ASSUME NEW i \in DOMAIN z, z[i].kind = "calls"
             PROVE  AnsweredAt(z, i)
  BY DEF Complete
<1>1. CASE i \in DOMAIN x
  <2>1. z[i] = x[i]
    BY <1>1, JoinIndex
  <2> QED
    BY <1>1, <2>1, AnsweredStill DEF Complete
<1>2. CASE \E j \in DOMAIN y : i = Len(x) + j
  <2>1. PICK j \in DOMAIN y : z[i] = y[j]
    BY <1>2, JoinIndex, SMTT(30)
  <2> QED
    BY <2>1
<1> QED
  BY <1>1, <1>2, JoinIndex

(* A list of calls has as many calls as it is long.                        *)
LEMMA CallsCounted ==
    ASSUME NEW list \in CallSeqs
    PROVE  Cardinality(ToSet(list)) = Len(list)
<1>1. list \in Seq(Calls)
  BY CallSeqsType
<1>2. IsInjective(list)
  BY CallAssumption DEF CallSeqs, IsInjective
<1>3. Len(list) \in Nat /\ DOMAIN list = 1..Len(list)
  BY <1>1
<1>4. list \in [1..Len(list) -> ToSet(list)]
  BY <1>1, <1>3 DEF ToSet
<1>5. \A c \in ToSet(list) : \E i \in 1..Len(list) : list[i] = c
  BY <1>3 DEF ToSet
<1>6. list \in Bijection(1..Len(list), ToSet(list))
  BY <1>2, <1>4, <1>5 DEF Bijection, Injection, Surjection
<1>7. ExistsBijection(1..Len(list), ToSet(list))
  BY <1>6 DEF ExistsBijection
<1> QED
  BY <1>3, <1>7, FS_Interval, FS_Bijection, SMTT(30)

(* A batch that has ended, however it did.                                 *)
LEMMA CompleteBatch ==
    ASSUME NEW x \in Seq(Message), Complete(x), NEW list \in CallSeqs, list # <<>>
    PROVE  Complete(Append(x, AssistantMessage(list)) \o ToolResults(list))
<1> DEFINE y == ToolResults(list)
           w == Append(x, AssistantMessage(list))
           z == w \o y
<1>1. list \in Seq(Calls) /\ AssistantMessage(list) \in Message
  BY CallSeqsType, AssistantMessageType
<1>2. /\ y \in Seq(Message) /\ Len(y) = Len(list)
      /\ DOMAIN y = DOMAIN list
      /\ \A j \in DOMAIN list : y[j].kind = "tool" /\ y[j].ids = {list[j]}
  BY <1>1, ToolResultsType DEF ToolResults
<1>3. AssistantMessage(list).ids = ToSet(list)
  BY DEF AssistantMessage
<1>4. PICK m \in Message : m = AssistantMessage(list)
  BY <1>1
<1>5. PICK l : l = Len(x)
  OBVIOUS
<1>6. PICK n : n = Len(list)
  OBVIOUS
<1>7. /\ w \in Seq(Message) /\ l \in Nat /\ Len(w) = l + 1 /\ DOMAIN w = 1..l+1
      /\ w[l+1] = m /\ \A i \in 1..l : w[i] = x[i]
      /\ DOMAIN x = 1..l
  BY <1>1, <1>4, <1>5
<1>8. n \in Nat \ {0} /\ DOMAIN list = 1..n /\ Cardinality(ToSet(list)) = n
  <2>1. Len(list) \in Nat /\ DOMAIN list = 1..Len(list) /\ Len(list) # 0
    BY <1>1
  <2> QED
    BY <1>6, <2>1, CallsCounted
<1>9. w = x \o <<m>>
  BY <1>1, <1>4
<1> HIDE DEF y, w, z
<1>10. /\ z \in Seq(Message) /\ Len(z) = l + 1 + n
       /\ \A i \in DOMAIN w : z[i] = w[i]
       /\ \A j \in DOMAIN y : z[l + 1 + j] = y[j]
       /\ \A i \in DOMAIN z : i \in DOMAIN w \/ \E j \in DOMAIN y : i = l + 1 + j
  <2>1. /\ w \o y \in Seq(Message) /\ Len(w \o y) = Len(w) + Len(y)
        /\ \A i \in DOMAIN w : (w \o y)[i] = w[i]
        /\ \A j \in DOMAIN y : (w \o y)[Len(w) + j] = y[j]
        /\ \A i \in DOMAIN (w \o y) :
              i \in DOMAIN w \/ \E j \in DOMAIN y : i = Len(w) + j
    <3>1. w \in Seq(Message) /\ y \in Seq(Message)
      BY <1>2, <1>7
    <3> QED
      BY <3>1, JoinIndex, ZenonT(60)
  <2>2. Len(w) = l + 1 /\ Len(y) = n /\ z = w \o y
    BY <1>2, <1>6, <1>7 DEF z
  <2> QED
    BY <2>1, <2>2, SMTT(30)
<1> SUFFICES ASSUME NEW i \in DOMAIN z, z[i].kind = "calls"
             PROVE  AnsweredAt(z, i)
  BY DEF Complete, z, y, w
<1>11. CASE i \in DOMAIN x
  <2>1. z[i] = x[i]
    BY <1>7, <1>10, <1>11
  <2>2. AnsweredAt(x, i)
    BY <1>11, <2>1 DEF Complete
  <2>3. AnsweredAt(w, i)
    <3>1. <<m>> \in Seq(Message)
      OBVIOUS
    <3> QED
      BY <1>9, <1>11, <2>2, <3>1, AnsweredStill
  <2>4. i \in DOMAIN w
    BY <1>7, <1>11
  <2> QED
    BY <1>2, <1>7, <2>3, <2>4, AnsweredStill DEF z
<1>12. CASE i = l + 1
  <2>1. z[i].ids = ToSet(list) /\ l + 1 \in DOMAIN w
    BY <1>3, <1>4, <1>7, <1>10, <1>12
  <2>2. \A k \in i+1 .. i+n : k - i \in DOMAIN list /\ k = l + 1 + (k - i)
    BY <1>7, <1>8, <1>12
  <2>3. \A k \in i+1 .. i+n : z[k] = y[k - i]
    BY <1>2, <1>10, <2>2
  <2>4. \A k \in i+1 .. i+n : z[k].kind = "tool" /\ z[k].ids = {list[k - i]}
    BY <1>2, <2>2, <2>3
  <2>5. UNION {z[k].ids : k \in i+1 .. i+n} = ToSet(list)
    <3>1. \A k \in i+1 .. i+n : z[k].ids \subseteq ToSet(list)
      BY <2>2, <2>4 DEF ToSet
    <3>2. \A c \in ToSet(list) : \E k \in i+1 .. i+n : c \in z[k].ids
      <4> SUFFICES ASSUME NEW j \in DOMAIN list
                   PROVE  \E k \in i+1 .. i+n : list[j] \in z[k].ids
        BY DEF ToSet
      <4>1. i + j \in i+1 .. i+n /\ (i + j) - i = j
        BY <1>7, <1>8, <1>12
      <4> QED
        BY <2>4, <4>1
    <3> QED
      BY <3>1, <3>2
  <2>6. i + n <= Len(z)
    BY <1>10, <1>12, <1>7, <1>8
  <2> QED
    BY <1>8, <2>1, <2>4, <2>5, <2>6 DEF AnsweredAt
<1>13. CASE \E j \in DOMAIN y : i = l + 1 + j
  BY <1>2, <1>10, <1>13
<1> QED
  BY <1>7, <1>10, <1>11, <1>12, <1>13

(* The steering acknowledged so far is told in order: what compaction      *)
(* removed, then the context, then what is pending on the turn.            *)
Accounted(steered, sent, archived, context, pends) ==
    LET S == ToSet(steered)
    IN  /\ Rising(steered) /\ S \subseteq 1..sent
        /\ Rising(pends) /\ ToSet(pends) \subseteq S
        /\ Orderly(archived, S) /\ Orderly(context, S)
        /\ Within(archived, sent) /\ Within(context, sent)
        /\ Before(Said(archived, S), Said(context, S))
        /\ Before(Said(archived, S) \cup Said(context, S), ToSet(pends))
        /\ S \subseteq Said(archived, S) \cup Said(context, S) \cup ToSet(pends)

(* A notification received is pending or told, and told in one place.      *)
Reported(received, pending, archived, context) ==
    /\ IsInjective(pending) /\ ToSet(pending) \subseteq received
    /\ Told(archived) \cap Told(context) = {}
    /\ Told(archived) \cup Told(context) = received \ ToSet(pending)

(* Messages that tell nothing are added.                                   *)
LEMMA PlainAdded ==
    ASSUME NEW steered \in Seq(Nat), NEW sent, NEW archived, NEW pends,
           NEW received, NEW pending,
           NEW context \in Seq(Message), NEW y \in Seq(Message),
           Accounted(steered, sent, archived, context, pends),
           Reported(received, pending, archived, context),
           Plain(y, ToSet(steered), sent)
    PROVE  /\ Accounted(steered, sent, archived, context \o y, pends)
           /\ Reported(received, pending, archived, context \o y)
<1> DEFINE S == ToSet(steered)
<1>1. Orderly(y, S) /\ Said(y, S) = {} /\ Told(y) = {} /\ Within(y, sent)
  BY PlainTells
<1>2. /\ Said(context \o y, S) = Said(context, S) \cup Said(y, S)
      /\ Told(context \o y) = Told(context) \cup Told(y)
      /\ Within(context, sent) /\ Within(y, sent) => Within(context \o y, sent)
  BY JoinTells
<1>3. S \in SUBSET Nat
  BY DEF ToSet
<1>4. Orderly(context, S)
  BY DEF Accounted
<1>5. Before(Said(context, S), Said(y, S)) /\ Told(context) \cap Told(y) = {}
  BY <1>1 DEF Before
<1> HIDE DEF S
<1>6. Orderly(context \o y, S)
  BY <1>1, <1>3, <1>4, <1>5, JoinOrderly
<1>7. Said(context \o y, S) = Said(context, S) /\ Told(context \o y) = Told(context)
  BY <1>1, <1>2
<1> QED
  BY <1>1, <1>2, <1>6, <1>7 DEF Accounted, Reported, S

(* Pending steering enters the context.                                    *)
LEMMA SteeringAdded ==
    ASSUME NEW steered \in Seq(Nat), NEW sent, NEW archived, NEW pends \in Seq(Nat),
           NEW received, NEW pending, NEW context \in Seq(Message),
           Accounted(steered, sent, archived, context, pends),
           Reported(received, pending, archived, context)
    PROVE  /\ Accounted(steered, sent, archived, context \o Users(pends), <<>>)
           /\ Reported(received, pending, archived, context \o Users(pends))
<1> DEFINE S == ToSet(steered)
           y == Users(pends)
<1>1. y \in Seq(Message)
  BY UsersType
<1>2. Rising(pends) /\ ToSet(pends) \subseteq S /\ S \subseteq 1..sent
  BY DEF Accounted
<1>3. Orderly(y, S) /\ Said(y, S) = ToSet(pends) /\ Told(y) = {} /\ Within(y, sent)
  BY <1>2, UsersTell
<1> HIDE DEF y
<1>4. /\ Said(context \o y, S) = Said(context, S) \cup Said(y, S)
      /\ Told(context \o y) = Told(context) \cup Told(y)
      /\ Within(context, sent) /\ Within(y, sent) => Within(context \o y, sent)
  BY <1>1, JoinTells
<1>5. S \in SUBSET Nat
  BY DEF ToSet
<1>6. /\ Orderly(context, S)
      /\ Before(Said(archived, S), Said(context, S))
      /\ Before(Said(archived, S) \cup Said(context, S), ToSet(pends))
      /\ S \subseteq Said(archived, S) \cup Said(context, S) \cup ToSet(pends)
  BY DEF Accounted
<1> HIDE DEF S
<1>7. Before(Said(context, S), Said(y, S)) /\ Told(context) \cap Told(y) = {}
  BY <1>3, <1>6 DEF Before
<1>8. Orderly(context \o y, S)
  BY <1>1, <1>3, <1>5, <1>6, <1>7, JoinOrderly
<1>9. /\ Before(Said(archived, S), Said(context \o y, S))
      /\ S \subseteq Said(archived, S) \cup Said(context \o y, S)
  BY <1>3, <1>4, <1>6 DEF Before
<1>10. ToSet(<<>>) = {} /\ Rising(<<>>)
  BY DEF ToSet, Rising
<1>11. /\ ToSet(<<>>) \subseteq S
       /\ Before(Said(archived, S) \cup Said(context \o y, S), ToSet(<<>>))
       /\ S \subseteq Said(archived, S) \cup Said(context \o y, S) \cup ToSet(<<>>)
  BY <1>9, <1>10 DEF Before
<1>12. Told(context \o y) = Told(context)
  BY <1>3, <1>4
<1> QED
  BY <1>3, <1>4, <1>8, <1>9, <1>10, <1>11, <1>12 DEF Accounted, Reported, S, y

(* Pending notifications are told in one notice.                           *)
LEMMA NoticeAdded ==
    ASSUME NEW steered \in Seq(Nat), NEW sent, NEW archived, NEW pends,
           NEW received \in SUBSET Notifications, NEW pending,
           NEW context \in Seq(Message),
           Accounted(steered, sent, archived, context, pends),
           Reported(received, pending, archived, context)
    PROVE  LET y == <<[kind |-> "notice", ids |-> ToSet(pending)]>>
           IN  /\ Accounted(steered, sent, archived, context \o y, pends)
               /\ Reported(received, <<>>, archived, context \o y)
<1> DEFINE S == ToSet(steered)
           P == ToSet(pending)
           message == [kind |-> "notice", ids |-> P]
           y == <<message>>
<1>1. P \subseteq received /\ Told(archived) \cap Told(context) = {}
      /\ Told(archived) \cup Told(context) = received \ P
  BY DEF Reported
<1>2. P \in SUBSET Notifications
  BY <1>1
<1>3. Orderly(y, S) /\ Said(y, S) = {} /\ Told(y) = P /\ Within(y, sent)
  BY <1>2, NoticeTells
<1>4. message \in Message
  BY <1>2 DEF Message
<1>5. y \in Seq(Message)
  BY <1>4
<1> HIDE DEF y, message, P
<1>6. /\ Said(context \o y, S) = Said(context, S) \cup Said(y, S)
      /\ Told(context \o y) = Told(context) \cup Told(y)
      /\ Within(context, sent) /\ Within(y, sent) => Within(context \o y, sent)
  BY <1>5, JoinTells
<1>7. S \in SUBSET Nat
  BY DEF ToSet
<1>8. Orderly(context, S)
  BY DEF Accounted
<1> HIDE DEF S
<1>9. Before(Said(context, S), Said(y, S)) /\ Told(context) \cap Told(y) = {}
  BY <1>1, <1>3 DEF Before
<1>10. Orderly(context \o y, S)
  BY <1>3, <1>5, <1>7, <1>8, <1>9, JoinOrderly
<1>11. Said(context \o y, S) = Said(context, S)
  BY <1>3, <1>6
<1>12. Accounted(steered, sent, archived, context \o y, pends)
  BY <1>3, <1>6, <1>10, <1>11 DEF Accounted, S
<1>13. ToSet(<<>>) = {} /\ IsInjective(<<>>)
  BY DEF ToSet, IsInjective
<1>14. /\ Told(archived) \cap Told(context \o y) = {}
       /\ Told(archived) \cup Told(context \o y) = received \ ToSet(<<>>)
  BY <1>1, <1>3, <1>6, <1>13
<1>15. Reported(received, <<>>, archived, context \o y)
  BY <1>13, <1>14 DEF Reported
<1> QED
  BY <1>12, <1>15 DEF y, message, P

(* One more message is sent.                                               *)
LEMMA MessageSent ==
    ASSUME NEW steered, NEW sent \in Nat, NEW archived, NEW context, NEW pends,
           Accounted(steered, sent, archived, context, pends)
    PROVE  Accounted(steered, sent + 1, archived, context, pends)
<1>1. 1..sent \subseteq 1..sent+1
  OBVIOUS
<1>2. \A q : Within(q, sent) => Within(q, sent + 1)
  BY <1>1 DEF Within
<1> QED
  BY <1>1, <1>2 DEF Accounted

(* An element is added to a sequence.                                      *)
LEMMA AppendSet ==
    ASSUME NEW q \in Seq(Nat), NEW m \in Nat
    PROVE  ToSet(Append(q, m)) = ToSet(q) \cup {m}
<1> DEFINE z == Append(q, m)
<1>1. /\ Len(q) \in Nat /\ DOMAIN q = 1..Len(q) /\ DOMAIN z = 1..Len(q)+1
      /\ z[Len(q)+1] = m /\ \A i \in DOMAIN q : z[i] = q[i]
  OBVIOUS
<1>2. \A i \in DOMAIN z : i \in DOMAIN q \/ i = Len(q) + 1
  BY <1>1
<1> HIDE DEF z
<1>3. ToSet(z) \subseteq ToSet(q) \cup {m}
  BY <1>1, <1>2 DEF ToSet
<1>4. DOMAIN q \subseteq DOMAIN z /\ Len(q)+1 \in DOMAIN z
  BY <1>1
<1>5. ToSet(q) \cup {m} \subseteq ToSet(z)
  BY <1>1, <1>4 DEF ToSet
<1> QED
  BY <1>3, <1>5 DEF z

(* A sequence of numbers that grows at its end.                            *)
LEMMA RisingGrows ==
    ASSUME NEW q \in Seq(Nat), NEW m \in Nat, Rising(q), \A k \in ToSet(q) : k < m
    PROVE  Rising(Append(q, m)) /\ ToSet(Append(q, m)) = ToSet(q) \cup {m}
<1> DEFINE z == Append(q, m)
<1>1. /\ Len(q) \in Nat /\ DOMAIN q = 1..Len(q) /\ DOMAIN z = 1..Len(q)+1
      /\ z[Len(q)+1] = m /\ \A i \in DOMAIN q : z[i] = q[i]
  OBVIOUS
<1>2. \A i \in DOMAIN q : q[i] < m
  BY DEF ToSet
<1>3. \A i \in DOMAIN z : i \in DOMAIN q \/ i = Len(q) + 1
  BY <1>1
<1> HIDE DEF z
<1>4. Rising(z)
  BY <1>1, <1>2, <1>3, SMTT(30) DEF Rising
<1> QED
  BY <1>4, AppendSet DEF z

(* Steering is accepted and pends on the turn.                             *)
LEMMA SteeringAccepted ==
    ASSUME NEW steered \in Seq(Nat), NEW sent \in Nat, NEW archived, NEW context,
           NEW pends \in Seq(Nat),
           Accounted(steered, sent, archived, context, pends)
    PROVE  Accounted(Append(steered, sent + 1), sent + 1, archived, context,
                     Append(pends, sent + 1))
<1> DEFINE S == ToSet(steered)
           T == ToSet(Append(steered, sent + 1))
<1>1. Accounted(steered, sent + 1, archived, context, pends)
  BY MessageSent
<1>2. /\ S \subseteq 1..sent /\ ToSet(pends) \subseteq S
      /\ Rising(steered) /\ Rising(pends)
      /\ Orderly(archived, S) /\ Orderly(context, S)
      /\ Within(archived, sent) /\ Within(context, sent)
      /\ Before(Said(archived, S), Said(context, S))
      /\ Before(Said(archived, S) \cup Said(context, S), ToSet(pends))
      /\ S \subseteq Said(archived, S) \cup Said(context, S) \cup ToSet(pends)
  BY DEF Accounted
<1>3. /\ \A k \in S : k < sent + 1 /\ k \in Nat
      /\ \A k \in ToSet(pends) : k < sent + 1
  BY <1>2
<1>4. /\ Rising(Append(steered, sent + 1)) /\ T = S \cup {sent + 1}
      /\ Rising(Append(pends, sent + 1))
      /\ ToSet(Append(pends, sent + 1)) = ToSet(pends) \cup {sent + 1}
  BY <1>2, <1>3, RisingGrows
<1> HIDE DEF S, T
<1>5. sent + 1 \notin 1..sent
  OBVIOUS
<1>6. ASSUME NEW q, Within(q, sent), Orderly(q, S)
      PROVE  Orderly(q, T) /\ Said(q, T) = Said(q, S)
  <2>1. \A m : User(m).kind = "user" /\ User(m).ids = {m}
    BY DEF User
  <2>2. \A i \in DOMAIN q : q[i].kind = "user" => sent + 1 \notin q[i].ids
    BY <1>5, <1>6 DEF Within
  <2>3. \A i \in DOMAIN q : q[i] # User(sent + 1)
    BY <2>1, <2>2
  <2>4. Said(q, T) = Said(q, S)
    BY <1>4, <2>3 DEF Said
  <2>5. \A i \in DOMAIN q : q[i].kind = "user" /\ q[i].ids \cap T # {} =>
           q[i].ids \cap S # {}
    BY <1>4, <2>2
  <2>6. \A i \in DOMAIN q : q[i].kind = "user" /\ q[i].ids \cap T # {} =>
           \E m \in T : q[i] = User(m)
    BY <1>4, <1>6, <2>5 DEF Orderly
  <2>7. \A i, j \in DOMAIN q : \A m, n \in T :
           i < j /\ q[i] = User(m) /\ q[j] = User(n) => m < n
    BY <1>4, <1>6, <2>3 DEF Orderly
  <2> QED
    BY <1>6, <2>4, <2>6, <2>7 DEF Orderly
<1>7. /\ Orderly(archived, T) /\ Orderly(context, T)
      /\ Said(archived, T) = Said(archived, S) /\ Said(context, T) = Said(context, S)
  BY <1>2, <1>6
<1>8. /\ T \subseteq 1..sent+1
      /\ ToSet(Append(pends, sent + 1)) \subseteq T
      /\ T \subseteq Said(archived, T) \cup Said(context, T)
                       \cup ToSet(Append(pends, sent + 1))
  <2>1. 1..sent+1 = 1..sent \cup {sent + 1}
    OBVIOUS
  <2> QED
    BY <1>2, <1>4, <1>7, <2>1
<1>9. Said(archived, S) \cup Said(context, S) \subseteq S
  BY DEF Said
<1>10. Before(Said(archived, T) \cup Said(context, T), ToSet(Append(pends, sent + 1)))
  BY <1>2, <1>3, <1>4, <1>7, <1>9 DEF Before
<1>11. Within(archived, sent + 1) /\ Within(context, sent + 1)
  BY <1>1 DEF Accounted
<1> QED
  BY <1>2, <1>4, <1>7, <1>8, <1>10, <1>11 DEF Accounted, T

(* A notification arrives.                                                 *)
LEMMA NotificationAdded ==
    ASSUME NEW received, NEW pending \in Seq(Notifications), NEW archived, NEW context,
           NEW n \in Notifications, n \notin received,
           Reported(received, pending, archived, context)
    PROVE  Reported(received \cup {n}, Append(pending, n), archived, context)
<1> DEFINE z == Append(pending, n)
<1>1. /\ Len(pending) \in Nat /\ DOMAIN pending = 1..Len(pending)
      /\ DOMAIN z = 1..Len(pending)+1
      /\ z[Len(pending)+1] = n /\ \A i \in DOMAIN pending : z[i] = pending[i]
  OBVIOUS
<1>2. \A i \in DOMAIN z : i \in DOMAIN pending \/ i = Len(pending) + 1
  BY <1>1
<1>3. DOMAIN pending \subseteq DOMAIN z /\ Len(pending)+1 \in DOMAIN z
  BY <1>1
<1> HIDE DEF z
<1>4. ToSet(z) \subseteq ToSet(pending) \cup {n}
  BY <1>1, <1>2 DEF ToSet
<1>5. ToSet(pending) \cup {n} \subseteq ToSet(z)
  BY <1>1, <1>3 DEF ToSet
<1>6. ToSet(z) = ToSet(pending) \cup {n}
  BY <1>4, <1>5
<1>7. \A i \in DOMAIN pending : pending[i] # n
  BY DEF Reported, ToSet
<1>8. \A i, j \in DOMAIN pending : pending[i] = pending[j] => i = j
  BY DEF Reported, IsInjective
<1>9. IsInjective(z)
  BY <1>1, <1>2, <1>7, <1>8 DEF IsInjective
<1> QED
  BY <1>6, <1>9 DEF Reported, z

(* A compaction moves the steering and the notices it does not keep to the *)
(* archive, and leaves no call behind.                                     *)
LEMMA CompactionTells ==
    ASSUME NEW steered \in Seq(Nat), NEW sent, NEW archived \in Seq(Message),
           NEW pends, NEW received, NEW pending,
           NEW context \in Seq(Message), NEW keep, NEW kept, NEW removed,
           keep \in KeptPositions(context), kept \in Arranged(context, keep),
           removed \in Arranged(context,
                         PositionsOf(context, {"user", "notice"}) \ keep),
           Accounted(steered, sent, archived, context, pends),
           Reported(received, pending, archived, context)
    PROVE  LET replaced == <<Note("system"), Note("preamble")>> \o kept
                           \o <<Note("summary")>>
           IN  /\ Accounted(steered, sent, archived \o removed, replaced, pends)
               /\ Reported(received, pending, archived \o removed, replaced)
               /\ Complete(replaced)
<1> DEFINE S == ToSet(steered)
           users == PositionsOf(context, {"user"})
           rest == PositionsOf(context, {"user", "notice"}) \ keep
           head == <<Note("system"), Note("preamble")>>
           tail == <<Note("summary")>>
           old == archived \o removed
           front == head \o kept
           new == front \o tail
<1> HIDE DEF head, tail, old, front, new
<1>1. DOMAIN context \subseteq Nat
  OBVIOUS
<1>2. PICK oldest \in Nat : keep = {i \in users : i >= oldest}
  <2>1. users \subseteq Nat /\ 0 \in Nat
    BY <1>1 DEF PositionsOf
  <2> QED
    BY <2>1 DEF KeptPositions
<1>3. /\ keep \in SUBSET DOMAIN context /\ rest \in SUBSET DOMAIN context
      /\ \A i \in keep : context[i].kind = "user"
      /\ \A i \in rest : context[i].kind \in {"user", "notice"}
      /\ \A i \in DOMAIN context : context[i].kind = "user" => i \in keep \/ i \in rest
      /\ \A i \in DOMAIN context : context[i].kind = "notice" => i \in rest
  <2>1. /\ keep \subseteq users
        /\ \A i \in users : i \in DOMAIN context /\ context[i].kind = "user"
    BY <1>2 DEF PositionsOf
  <2> QED
    BY <2>1 DEF PositionsOf
<1>4. \A i \in keep, j \in rest : context[j].kind = "user" => j < i
  <2> SUFFICES ASSUME NEW i \in keep, NEW j \in rest, context[j].kind = "user"
               PROVE  j < i
    OBVIOUS
  <2>1. i \in Nat /\ j \in Nat /\ i >= oldest
    BY <1>1, <1>2, <1>3
  <2>2. j \in users
    BY <1>3 DEF PositionsOf
  <2>3. ~(j >= oldest)
    BY <1>2, <2>2
  <2> QED
    BY <2>1, <2>3
<1>5. /\ Orderly(archived, S) /\ Orderly(context, S)
      /\ Within(archived, sent) /\ Within(context, sent)
      /\ Before(Said(archived, S), Said(context, S))
      /\ Before(Said(archived, S) \cup Said(context, S), ToSet(pends))
      /\ S \subseteq Said(archived, S) \cup Said(context, S) \cup ToSet(pends)
  BY DEF Accounted
<1>6. /\ Told(archived) \cap Told(context) = {}
      /\ Told(archived) \cup Told(context) = received \ ToSet(pending)
  BY DEF Reported
<1>7. S \in SUBSET Nat
  BY DEF ToSet
<1>8. kept \in Seq(Message) /\ removed \in Seq(Message)
  BY <1>3, ArrangedType
<1> HIDE DEF S, users, rest
<1>9. removed \in Arranged(context, rest)
  BY DEF rest
<1>10. /\ \A k \in DOMAIN kept : \E i \in keep : kept[k] = context[i]
       /\ Orderly(kept, S) /\ Within(kept, sent)
       /\ Said(kept, S) = {m \in S : \E i \in keep : context[i] = User(m)}
       /\ Told(kept) = {n \in Notifications : NoticesOf(context, n) \cap keep # {}}
  BY <1>3, <1>5, ArrangedTells
<1>11. /\ Orderly(removed, S) /\ Within(removed, sent)
       /\ Said(removed, S) = {m \in S : \E i \in rest : context[i] = User(m)}
       /\ Told(removed) = {n \in Notifications : NoticesOf(context, n) \cap rest # {}}
  BY <1>3, <1>5, <1>9, ArrangedTells
<1>12. \A m : User(m).kind = "user"
  BY DEF User
<1>13. Said(context, S) = Said(removed, S) \cup Said(kept, S)
  <2>1. \A m : (\E i \in DOMAIN context : context[i] = User(m)) <=>
               (\E i \in rest : context[i] = User(m)) \/ (\E i \in keep : context[i] = User(m))
    BY <1>3, <1>12
  <2> QED
    BY <1>10, <1>11, <2>1 DEF Said
<1>14. Told(kept) = {} /\ Told(removed) = Told(context)
  <2>1. \A n : NoticesOf(context, n) \cap keep = {}
    BY <1>3 DEF NoticesOf
  <2>2. \A n : NoticesOf(context, n) \cap rest = NoticesOf(context, n)
    BY <1>3 DEF NoticesOf
  <2> QED
    BY <1>10, <1>11, <2>1, <2>2 DEF Told
<1>15. Before(Said(removed, S), Said(kept, S))
  <2> SUFFICES ASSUME NEW m \in Said(removed, S), NEW n \in Said(kept, S)
               PROVE  m < n
    BY DEF Before
  <2>1. PICK j \in rest : context[j] = User(m) /\ m \in S
    BY <1>11
  <2>2. PICK i \in keep : context[i] = User(n) /\ n \in S
    BY <1>10
  <2>3. j < i /\ j \in DOMAIN context /\ i \in DOMAIN context
    BY <1>3, <1>4, <1>12, <2>1
  <2> QED
    BY <1>5, <2>1, <2>2, <2>3 DEF Orderly
<1>16. /\ Before(Said(archived, S), Said(removed, S))
       /\ Before(Said(archived, S), Said(kept, S))
       /\ Told(archived) \cap Told(removed) = {}
  BY <1>5, <1>6, <1>13, <1>14 DEF Before
<1>17. Orderly(old, S)
  BY <1>5, <1>7, <1>8, <1>11, <1>16, JoinOrderly DEF old
<1>18. /\ Said(old, S) = Said(archived, S) \cup Said(removed, S)
       /\ Told(old) = Told(archived) \cup Told(removed)
       /\ (Within(archived, sent) /\ Within(removed, sent) => Within(old, sent))
  <2>1. removed \in Seq(Message)
    BY <1>8
  <2>2. /\ Said(archived \o removed, S) = Said(archived, S) \cup Said(removed, S)
        /\ Told(archived \o removed) = Told(archived) \cup Told(removed)
        /\ (Within(archived, sent) /\ Within(removed, sent) => Within(archived \o removed, sent))
    BY <2>1, JoinTells
  <2> QED
    BY <2>2 DEF old
<1>19. /\ head \in Seq(Message) /\ tail \in Seq(Message)
       /\ DOMAIN head = {1, 2} /\ DOMAIN tail = {1}
       /\ head[1].kind = "system" /\ head[2].kind = "preamble"
       /\ tail[1].kind = "summary"
  BY DEF Note, Message, head, tail
<1>20. Plain(head, S, sent) /\ Plain(tail, S, sent)
  BY <1>19 DEF Plain
<1>21. /\ Orderly(head, S) /\ Said(head, S) = {} /\ Told(head) = {} /\ Within(head, sent)
       /\ Orderly(tail, S) /\ Said(tail, S) = {} /\ Told(tail) = {} /\ Within(tail, sent)
  BY <1>20, PlainTells
<1>22. front \in Seq(Message)
  BY <1>8, <1>19 DEF front
<1>23. /\ Said(front, S) = Said(head, S) \cup Said(kept, S)
       /\ Told(front) = Told(head) \cup Told(kept)
       /\ Within(head, sent) /\ Within(kept, sent) => Within(front, sent)
  BY <1>8, <1>19, JoinTells DEF front
<1>24. Before(Said(head, S), Said(kept, S)) /\ Told(head) \cap Told(kept) = {}
  BY <1>21 DEF Before
<1>25. Orderly(front, S)
  BY <1>7, <1>8, <1>10, <1>19, <1>21, <1>24, JoinOrderly DEF front
<1>26. \A k \in DOMAIN kept : kept[k].kind # "calls"
  BY <1>3, <1>10
<1>27. Complete(head)
  BY <1>19 DEF Complete
<1>28. Complete(front)
  BY <1>8, <1>19, <1>26, <1>27, CompleteGrows DEF front
<1>29. /\ Said(new, S) = Said(front, S) \cup Said(tail, S)
       /\ Told(new) = Told(front) \cup Told(tail)
       /\ Within(front, sent) /\ Within(tail, sent) => Within(new, sent)
  BY <1>19, <1>22, JoinTells DEF new
<1>30. Before(Said(front, S), Said(tail, S)) /\ Told(front) \cap Told(tail) = {}
  BY <1>21 DEF Before
<1>31. Orderly(new, S)
  BY <1>7, <1>19, <1>21, <1>22, <1>25, <1>30, JoinOrderly DEF new
<1>32. Complete(new)
  <2>1. \A k \in DOMAIN tail : tail[k].kind # "calls"
    BY <1>19
  <2> QED
    BY <1>19, <1>22, <1>28, <2>1, CompleteGrows DEF new
<1>33. Said(new, S) = Said(kept, S) /\ Told(new) = {}
  BY <1>14, <1>21, <1>23, <1>29
<1>34. Before(Said(old, S), Said(new, S))
  BY <1>15, <1>16, <1>18, <1>33 DEF Before
<1>35. Said(old, S) \cup Said(new, S) = Said(archived, S) \cup Said(context, S)
  BY <1>13, <1>18, <1>33
<1>36. Within(old, sent) /\ Within(new, sent)
  BY <1>5, <1>10, <1>11, <1>18, <1>21, <1>23, <1>29
<1>37. Accounted(steered, sent, old, new, pends)
  BY <1>5, <1>17, <1>31, <1>34, <1>35, <1>36 DEF Accounted, S
<1>38. Told(old) \cap Told(new) = {} /\ Told(old) \cup Told(new) = received \ ToSet(pending)
  BY <1>6, <1>14, <1>18, <1>33
<1>39. Reported(received, pending, old, new)
  BY <1>38 DEF Reported
<1> QED
  BY <1>32, <1>37, <1>39 DEF old, new, front, head, tail

-----------------------------------------------------------------------------
(* The ledger of a state.                                                  *)

(* Steering that is pending on the turn.                                   *)
Pends(s) == IF IsActive(s) THEN s.turn.steer ELSE <<>>

(* Messages that wait to open a turn.                                      *)
Held(s) ==
    (IF IsActive(s) /\ s.turn.queued # NoQueue THEN ToSet(s.turn.queued.msgs) ELSE {})
    \cup (IF InPhase(s, "PreAgentTurn") THEN ToSet(s.turn.phase.content) ELSE {})

Reserved(s, held) == held \subseteq (1..s.sent) \ ToSet(s.steered)

Ledger(s) ==
    /\ Accounted(s.steered, s.sent, s.archived, s.context, Pends(s))
    /\ Reported(s.received, s.pending, s.archived, s.context)
    /\ Reserved(s, Held(s))
    /\ InPhase(s, "PreAgentTurn") => Pends(s) = <<>>

(* The state may go on to a model call: no call lacks its result.          *)
Kept(s) == Ledger(s) /\ Complete(s.context)

(* Only the calls of the batch in progress lack their results.             *)
Opened(context, list) ==
    \E x \in Seq(Message) : Complete(x) /\ context = Append(x, AssistantMessage(list))

Answered(s) ==
    IF InPhase(s, "AwaitingToolBatch") THEN Opened(s.context, s.turn.phase.calls)
    ELSE Complete(s.context)

Filed(s) == Ledger(s) /\ Answered(s)

(* A state that writes nothing into the ledger but its context.            *)
Carries(s, t) ==
    /\ t.archived = s.archived /\ t.steered = s.steered /\ t.sent = s.sent
    /\ t.received = s.received /\ t.pending = s.pending
    /\ Pends(t) = Pends(s) /\ Held(t) \subseteq Held(s)
    /\ InPhase(t, "PreAgentTurn") => Pends(t) = <<>>

LEMMA CarriedOver ==
    ASSUME NEW s, NEW t, Carries(s, t), t.context = s.context
    PROVE  /\ Ledger(s) => Ledger(t)
           /\ Kept(s) => Kept(t)
<1>1. Reserved(s, Held(s)) => Reserved(t, Held(t))
  BY DEF Reserved, Carries
<1>2. Ledger(s) => Ledger(t)
  BY <1>1 DEF Ledger, Carries
<1> QED
  BY <1>2 DEF Kept

(* Messages that tell nothing are added to the context.                    *)
LEMMA PlainCarried ==
    ASSUME NEW s \in State, NEW t, Carries(s, t), Kept(s),
           NEW y \in Seq(Message), t.context = s.context \o y,
           Plain(y, ToSet(s.steered), s.sent), CallFree(y)
    PROVE  Kept(t)
<1>1. s.context \in Seq(Message) /\ s.steered \in Seq(Nat)
  BY DEF State
<1>2. /\ Accounted(s.steered, s.sent, s.archived, s.context, Pends(s))
      /\ Reported(s.received, s.pending, s.archived, s.context)
      /\ Reserved(s, Held(s)) /\ Complete(s.context)
  BY DEF Kept, Ledger
<1>3. /\ Accounted(s.steered, s.sent, s.archived, s.context \o y, Pends(s))
      /\ Reported(s.received, s.pending, s.archived, s.context \o y)
  BY <1>1, <1>2, PlainAdded
<1>4. \A i \in DOMAIN y : y[i].kind # "calls"
  BY DEF CallFree
<1>5. Complete(s.context \o y)
  BY <1>1, <1>2, <1>4, CompleteGrows
<1>6. Reserved(t, Held(t))
  BY <1>2 DEF Reserved, Carries
<1> QED
  BY <1>3, <1>5, <1>6 DEF Kept, Ledger, Carries

(* A new value of an active turn that leaves its input alone.              *)
LEMMA TurnCarried ==
    ASSUME NEW s \in State, IsActive(s), NEW turn, turn.kind = "Active",
           turn.steer = s.turn.steer, turn.queued = s.turn.queued,
           turn.phase.kind # "PreAgentTurn",
           NEW t, t = [s EXCEPT !.turn = turn]
    PROVE  Carries(s, t) /\ t.context = s.context /\ t.turn = turn
<1>1. /\ t.turn = turn /\ t.archived = s.archived /\ t.steered = s.steered
      /\ t.sent = s.sent /\ t.received = s.received /\ t.pending = s.pending
      /\ t.context = s.context
  BY DEF State
<1>2. IsActive(t) /\ ~InPhase(t, "PreAgentTurn")
  BY <1>1 DEF IsActive, InPhase
<1>3. Pends(t) = Pends(s)
  BY <1>1, <1>2 DEF Pends
<1>4. Held(t) \subseteq Held(s)
  BY <1>1, <1>2 DEF Held
<1> QED
  BY <1>1, <1>2, <1>3, <1>4 DEF Carries

LEMMA PhaseCarried ==
    ASSUME NEW s \in State, IsActive(s), NEW phase, phase.kind # "PreAgentTurn",
           NEW t, t = [s EXCEPT !.turn.phase = phase]
    PROVE  Carries(s, t) /\ t.context = s.context
<1> DEFINE turn == [s.turn EXCEPT !.phase = phase]
<1>1. s.turn \in ActiveTurns
  BY ActiveTurn
<1>2. /\ turn.kind = "Active" /\ turn.steer = s.turn.steer
      /\ turn.queued = s.turn.queued /\ turn.phase = phase
  BY <1>1 DEF ActiveTurns
<1>3. t = [s EXCEPT !.turn = turn]
  OBVIOUS
<1> HIDE DEF turn
<1> QED
  BY <1>2, <1>3, TurnCarried

LEMMA KeptFiled ==
    ASSUME NEW s, Kept(s), ~InPhase(s, "AwaitingToolBatch")
    PROVE  Filed(s)
BY DEF Kept, Filed, Answered

(* Steering still pending when a turn finishes goes to the context.        *)
LEMMA FinishTurnKept ==
    ASSUME NEW s, Settled(s), IsActive(s), Kept(s), NEW outcome
    PROVE  LET t == FinishTurn(s, outcome)
           IN  /\ Kept(t) /\ Filed(t) /\ Pends(t) = <<>>
               /\ t.sent = s.sent /\ t.steered = s.steered
<1> DEFINE t == FinishTurn(s, outcome)
           turn == Terminal(s.turn.id, outcome)
           y == Users(s.turn.steer)
           context == s.context \o y
<1>1. s \in State /\ s.turn \in ActiveTurns
  BY ActiveTurn DEF Settled
<1>2. /\ s.context \in Seq(Message) /\ s.steered \in Seq(Nat)
      /\ s.turn.steer \in Seq(Nat)
  BY <1>1 DEF State, ActiveTurns
<1>3. y \in Seq(Message) /\ \A i \in DOMAIN y : y[i].kind # "calls"
  BY <1>2, UsersType DEF Users, User
<1>4. Pends(s) = s.turn.steer
  BY DEF Pends
<1>5. /\ Accounted(s.steered, s.sent, s.archived, s.context, s.turn.steer)
      /\ Reported(s.received, s.pending, s.archived, s.context)
      /\ Complete(s.context)
  BY <1>4 DEF Kept, Ledger
<1>6. /\ Accounted(s.steered, s.sent, s.archived, context, <<>>)
      /\ Reported(s.received, s.pending, s.archived, context)
  BY <1>2, <1>5, SteeringAdded
<1>7. Complete(context)
  BY <1>2, <1>3, <1>5, CompleteGrows
<1>8. turn.kind = "Terminal"
  BY DEF Terminal
<1>9. t = [s EXCEPT !.context = context, !.lastFinished = s.turn.id, !.turn = turn]
  BY DEF FinishTurn
<1> HIDE DEF t, turn, context
<1>10. /\ t.turn = turn /\ t.archived = s.archived /\ t.steered = s.steered
       /\ t.sent = s.sent /\ t.received = s.received /\ t.pending = s.pending
       /\ t.context = context
  BY <1>1, <1>9 DEF State
<1>11. ~IsActive(t)
  BY <1>8, <1>10 DEF IsActive
<1>12. Pends(t) = <<>> /\ Held(t) = {} /\ ~InPhase(t, "PreAgentTurn")
       /\ ~InPhase(t, "AwaitingToolBatch")
  BY <1>11 DEF Pends, Held, InPhase
<1>13. Kept(t)
  BY <1>6, <1>7, <1>10, <1>12 DEF Kept, Ledger, Reserved
<1>14. Filed(t)
  BY <1>12, <1>13, KeptFiled
<1> QED
  BY <1>10, <1>12, <1>13, <1>14 DEF t

(* Late input enters the context, all of it and once.                      *)
LEMMA TakeLateInputKept ==
    ASSUME NEW s, Settled(s), IsActive(s), Kept(s), s.turn.phase.kind # "PreAgentTurn"
    PROVE  Kept(TakeLateInput(s))
<1> DEFINE users == Users(s.turn.steer)
           notice == ReadyNotice(s)
           turn == [s.turn EXCEPT !.steer = <<>>, !.ready = FALSE]
           pending == IF s.notesReady THEN <<>> ELSE s.pending
           context == s.context \o (users \o notice)
           t == TakeLateInput(s)
<1>1. s \in State /\ s.turn \in ActiveTurns
  BY ActiveTurn DEF Settled
<1>2. /\ s.context \in Seq(Message) /\ s.steered \in Seq(Nat)
      /\ s.turn.steer \in Seq(Nat) /\ s.received \in SUBSET Notifications
      /\ s.pending \in Seq(Notifications)
  BY <1>1 DEF State, ActiveTurns
<1>3. CASE ~s.turn.ready
  BY <1>3 DEF TakeLateInput
<1>4. CASE s.turn.ready
  <2>1. users \in Seq(Message) /\ \A i \in DOMAIN users : users[i].kind # "calls"
    BY <1>2, UsersType DEF Users, User
  <2>2. Pends(s) = s.turn.steer
    BY DEF Pends
  <2>3. /\ Accounted(s.steered, s.sent, s.archived, s.context, s.turn.steer)
        /\ Reported(s.received, s.pending, s.archived, s.context)
        /\ Complete(s.context) /\ Reserved(s, Held(s))
    BY <2>2 DEF Kept, Ledger
  <2> DEFINE told == s.context \o users
  <2>4. /\ Accounted(s.steered, s.sent, s.archived, told, <<>>)
        /\ Reported(s.received, s.pending, s.archived, told)
    BY <1>2, <2>3, SteeringAdded
  <2>5. told \in Seq(Message) /\ Complete(told)
    BY <1>2, <2>1, <2>3, CompleteGrows
  <2> HIDE DEF users
  <2>6. notice \in Seq(Message) /\ context = told \o notice
    <3>1. ToSet(s.pending) \subseteq Notifications
      BY <1>2 DEF ToSet
    <3>2. [kind |-> "notice", ids |-> ToSet(s.pending)] \in Message
      BY <3>1 DEF Message
    <3>3. notice \in Seq(Message)
      BY <3>2 DEF ReadyNotice
    <3> HIDE DEF notice
    <3>4. (s.context \o users) \o notice = s.context \o (users \o notice)
      BY <1>2, <2>1, <3>3, JoinAssociative
    <3> QED
      BY <3>3, <3>4
  <2> HIDE DEF context, told
  <2>7. /\ Accounted(s.steered, s.sent, s.archived, context, <<>>)
        /\ Reported(s.received, pending, s.archived, context)
        /\ Complete(context)
    <3>1. CASE s.notesReady /\ s.pending # <<>>
      <4> DEFINE q == <<[kind |-> "notice", ids |-> ToSet(s.pending)]>>
      <4>1. notice = q /\ pending = <<>>
        BY <3>1 DEF ReadyNotice
      <4>2. /\ Accounted(s.steered, s.sent, s.archived, told \o q, <<>>)
            /\ Reported(s.received, <<>>, s.archived, told \o q)
        BY <1>2, <2>4, <2>5, NoticeAdded
      <4>3. \A i \in DOMAIN q : q[i].kind # "calls"
        OBVIOUS
      <4>4. q \in Seq(Message)
        BY <2>6, <4>1
      <4> HIDE DEF q
      <4>5. Complete(told \o q)
        BY <2>5, <4>3, <4>4, CompleteGrows
      <4> QED
        BY <2>6, <4>1, <4>2, <4>5
    <3>2. CASE ~(s.notesReady /\ s.pending # <<>>)
      <4>1. notice = <<>> /\ pending = s.pending
        BY <3>2 DEF ReadyNotice
      <4>2. context = told
        BY <2>5, <2>6, <4>1
      <4> QED
        BY <2>4, <2>5, <4>1, <4>2
    <3> QED
      BY <3>1, <3>2
  <2>8. t = [s EXCEPT !.context = context, !.turn = turn, !.pending = pending,
                      !.notesReady = FALSE]
    BY <1>1, <1>4 DEF TakeLateInput, LateInput, State, ActiveTurns, context, users
  <2>9. /\ turn.kind = "Active" /\ turn.steer = <<>>
        /\ turn.queued = s.turn.queued /\ turn.phase = s.turn.phase
    BY <1>1 DEF ActiveTurns
  <2> HIDE DEF t, turn, pending, notice
  <2>10. /\ t.turn = turn /\ t.archived = s.archived /\ t.steered = s.steered
         /\ t.sent = s.sent /\ t.received = s.received /\ t.pending = pending
         /\ t.context = context
    BY <1>1, <2>8 DEF State
  <2>11. IsActive(t) /\ Pends(t) = <<>> /\ ~InPhase(t, "PreAgentTurn")
    BY <2>9, <2>10 DEF IsActive, Pends, InPhase
  <2>12. Held(t) \subseteq Held(s)
    BY <2>9, <2>10, <2>11 DEF Held
  <2>13. Reserved(t, Held(t))
    BY <2>3, <2>10, <2>12 DEF Reserved
  <2> QED
    BY <2>7, <2>10, <2>11, <2>13 DEF Kept, Ledger, t
<1> QED
  BY <1>3, <1>4

(* The compaction check writes nothing, unless the turn fails.             *)
LEMMA PreflightKept ==
    ASSUME NEW s, Settled(s), IsActive(s), Kept(s),
           s.turn.phase.kind = "AwaitingCompletion",
           NEW grown, NEW t \in Preflight(s, grown)
    PROVE  Filed(t)
<1> DEFINE counted == CountCompaction(s)
           phase == AwaitingCompaction(counted.turn, counted.compactions, 0)
<1>1. s \in State /\ ~InPhase(s, "AwaitingToolBatch")
  BY DEF Settled, InPhase
<1>2. /\ Settled(counted) /\ counted.turn = s.turn /\ IsActive(counted)
      /\ counted \in State
  BY CountCompactionSound DEF IsActive, Settled
<1>3. /\ counted.archived = s.archived /\ counted.steered = s.steered
      /\ counted.sent = s.sent /\ counted.received = s.received
      /\ counted.pending = s.pending /\ counted.context = s.context
  BY <1>1 DEF CountCompaction, State
<1>4. CASE t = s
  BY <1>1, <1>4, KeptFiled
<1> HIDE DEF counted
<1>5. ~InPhase(counted, "PreAgentTurn") /\ Held(counted) = Held(s)
      /\ Pends(counted) = Pends(s)
  BY <1>2 DEF InPhase, Held, Pends, IsActive
<1>6. Carries(s, counted)
  BY <1>3, <1>5 DEF Carries
<1>7. Kept(counted)
  BY <1>3, <1>6, CarriedOver
<1>8. CASE t = FinishTurn(counted, "Failed")
  BY <1>2, <1>7, <1>8, FinishTurnKept
<1>9. CASE t = AwaitCompaction(counted, 0)
  <2>1. phase.kind = "AwaitingCompaction" /\ phase \in Phases
    BY <1>2, ActiveTurn DEF State, ActiveTurns, Phases, AwaitingCompaction
  <2>2. t = [counted EXCEPT !.turn.phase = phase]
    BY <1>9 DEF AwaitCompaction
  <2> HIDE DEF phase
  <2>3. phase.kind # "PreAgentTurn"
    BY <2>1
  <2>4. Carries(counted, t) /\ t.context = counted.context
    BY <1>2, <2>2, <2>3, PhaseCarried
  <2>5. t.turn.phase = phase
    BY <1>2, <2>1, <2>2, PhaseUpdate
  <2> QED
    BY <1>7, <2>1, <2>4, <2>5, CarriedOver, KeptFiled DEF InPhase
<1> QED
  BY <1>4, <1>8, <1>9 DEF Preflight, counted

(* A dispatch writes the late input, if any.                               *)
LEMMA DispatchKept ==
    ASSUME NEW s, Dispatching(s), Kept(s),
           NEW grown, NEW t \in DispatchAgent(s, grown)
    PROVE  Filed(t)
<1>1. Settled(s) /\ IsActive(s) /\ s.turn.phase.kind # "PreAgentTurn"
      /\ ~InPhase(s, "AwaitingToolBatch")
  BY DEF Dispatching, InPhase
<1>2. CASE s.turn.phase.kind = "AwaitingCompletion"
  <2> DEFINE taken == TakeLateInput(s)
  <2>1. Kept(taken)
    BY <1>1, TakeLateInputKept
  <2>2. Dispatching(taken)
    BY TakeLateInputSound
  <2>3. t \in Preflight(taken, grown \/ LateInput(s) # <<>>)
    BY <1>2 DEF DispatchAgent
  <2>4. taken.turn.phase = s.turn.phase
    <3>1. s \in State /\ s.turn \in ActiveTurns
      BY <1>1, ActiveTurn DEF Settled
    <3> QED
      BY <3>1 DEF TakeLateInput, State, ActiveTurns
  <2> HIDE DEF taken
  <2> QED
    BY <1>2, <2>1, <2>2, <2>3, <2>4, PreflightKept DEF Dispatching
<1>3. CASE s.turn.phase.kind # "AwaitingCompletion"
  BY <1>1, <1>3, KeptFiled DEF DispatchAgent
<1> QED
  BY <1>2, <1>3

(* Issuing an id writes nothing into the ledger.                           *)
LEMMA IssueKept ==
    ASSUME NEW s \in State, ~InPhase(s, "PreAgentTurn")
    PROVE  Carries(s, Issue(s)) /\ Issue(s).context = s.context
<1> DEFINE t == Issue(s)
<1>1. /\ t.turn = s.turn /\ t.archived = s.archived /\ t.steered = s.steered
      /\ t.sent = s.sent /\ t.received = s.received /\ t.pending = s.pending
      /\ t.context = s.context
  BY DEF Issue, State
<1> HIDE DEF t
<1>2. Held(t) = Held(s) /\ Pends(t) = Pends(s) /\ ~InPhase(t, "PreAgentTurn")
  BY <1>1 DEF InPhase, Held, Pends, IsActive
<1> QED
  BY <1>1, <1>2 DEF Carries, t

(* Continuing a turn.                                                      *)
LEMMA ContinueKept ==
    ASSUME NEW s \in State, DistinctIds(s), NextIsNew(s), IsActive(s),
           s.turn.iterations < MaxIterations, Kept(s),
           s.turn.phase.kind # "PreAgentTurn",
           NEW grown, NEW t \in ContinueActiveTurn(s, grown)
    PROVE  Filed(t)
<1> DEFINE issue == Issue(s)
           phase == PlannedPhase(s)
           planned == [issue EXCEPT !.turn.phase = phase]
<1>1. Settled(issue) /\ IsActive(issue) /\ issue.turn = s.turn
  BY IssueSound DEF IsActive
<1>2. phase \in Phases /\ phase.kind \in {"AwaitingCompletion", "PreLlmCall"}
  BY PlannedPhaseType
<1>3. Carries(s, issue) /\ issue.context = s.context
  BY IssueKept DEF InPhase
<1>4. t \in DispatchAgent(planned, grown)
  BY DEF ContinueActiveTurn
<1> HIDE DEF issue, phase
<1>5. Kept(issue) /\ phase.kind # "PreAgentTurn" /\ issue \in State
  BY <1>1, <1>2, <1>3, CarriedOver DEF Settled
<1>6. /\ Settled(planned) /\ IsActive(planned) /\ planned.turn.phase = phase
      /\ planned.turn.iterations = s.turn.iterations
  BY <1>1, <1>2, PhaseUpdate
<1>7. Carries(issue, planned) /\ planned.context = issue.context
  BY <1>1, <1>5, PhaseCarried
<1> HIDE DEF planned
<1>8. Kept(planned)
  BY <1>5, <1>7, CarriedOver
<1>9. Dispatching(planned)
  BY <1>2, <1>6 DEF Dispatching
<1> QED
  BY <1>4, <1>8, <1>9, DispatchKept

(* Messages of a turn, behind the system prompt.                           *)
LEMMA TurnMessagesKept ==
    ASSUME NEW s, Settled(s), ~InPhase(s, "PreAgentTurn"), Kept(s),
           NEW messages \in Seq(Message),
           Plain(messages, ToSet(s.steered), s.sent), CallFree(messages)
    PROVE  LET t == AppendTurnMessages(s, messages)
           IN  Kept(t) /\ Carries(s, t)
<1> DEFINE prompt == IF s.context = <<>> THEN <<Note("system")>> ELSE <<>>
           y == prompt \o messages
           context == EnsureSystemPrompt(s.context) \o messages
           t == AppendTurnMessages(s, messages)
<1>1. s \in State /\ s.context \in Seq(Message)
  BY DEF Settled, State
<1>2. Note("system") \in Message /\ Note("system").kind = "system"
  BY DEF Note, Message
<1>3. /\ prompt \in Seq(Message)
      /\ \A i \in DOMAIN prompt : prompt[i].kind = "system"
  BY <1>2
<1>4. EnsureSystemPrompt(s.context) = s.context \o prompt
  <2>1. CASE s.context = <<>>
    <3>1. EnsureSystemPrompt(s.context) = <<Note("system")>> /\ prompt = <<Note("system")>>
      BY <2>1 DEF EnsureSystemPrompt
    <3>2. <<>> \o prompt = prompt
      BY <1>3
    <3> QED
      BY <2>1, <3>1, <3>2
  <2>2. CASE s.context # <<>>
    <3>1. EnsureSystemPrompt(s.context) = s.context /\ prompt = <<>>
      BY <2>2 DEF EnsureSystemPrompt
    <3>2. s.context \o <<>> = s.context
      BY <1>1
    <3> QED
      BY <3>1, <3>2
  <2> QED
    BY <2>1, <2>2
<1>5. t = [s EXCEPT !.context = context]
  BY DEF AppendTurnMessages
<1> HIDE DEF prompt, t
<1>6. y \in Seq(Message) /\ context = s.context \o y
  <2>1. (s.context \o prompt) \o messages = s.context \o (prompt \o messages)
    BY <1>1, <1>3, JoinAssociative
  <2> QED
    BY <1>3, <1>4, <2>1
<1>7. \A i \in DOMAIN y : y[i].kind = "system" \/ \E j \in DOMAIN messages : y[i] = messages[j]
  <2>1. /\ \A i \in DOMAIN prompt : (prompt \o messages)[i] = prompt[i]
        /\ \A j \in DOMAIN messages : (prompt \o messages)[Len(prompt) + j] = messages[j]
        /\ \A i \in DOMAIN (prompt \o messages) :
              i \in DOMAIN prompt \/ \E j \in DOMAIN messages : i = Len(prompt) + j
    BY <1>3, JoinIndex
  <2> QED
    BY <1>3, <2>1
<1> HIDE DEF y, context
<1>8. Plain(y, ToSet(s.steered), s.sent) /\ CallFree(y)
  BY <1>7 DEF Plain, CallFree
<1>9. /\ t.turn = s.turn /\ t.archived = s.archived /\ t.steered = s.steered
      /\ t.sent = s.sent /\ t.received = s.received /\ t.pending = s.pending
      /\ t.context = context
  BY <1>1, <1>5 DEF State
<1>10. Held(t) = Held(s) /\ Pends(t) = Pends(s) /\ ~InPhase(t, "PreAgentTurn")
  BY <1>9 DEF InPhase, Held, Pends, IsActive
<1>11. Carries(s, t)
  BY <1>9, <1>10 DEF Carries
<1>12. t.context = s.context \o y
  BY <1>6, <1>9
<1> QED
  BY <1>1, <1>6, <1>8, <1>11, <1>12, PlainCarried DEF t

(* The messages of a turn that were held for it.                           *)
LEMMA HeldMessages ==
    ASSUME NEW s, NEW msgs, Reserved(s, ToSet(msgs))
    PROVE  /\ Plain(Users(msgs), ToSet(s.steered), s.sent)
           /\ Plain(<<[kind |-> "user", ids |-> ToSet(msgs)]>>, ToSet(s.steered), s.sent)
           /\ CallFree(Users(msgs))
           /\ CallFree(<<[kind |-> "user", ids |-> ToSet(msgs)]>>)
<1>1. /\ DOMAIN Users(msgs) = DOMAIN msgs
      /\ \A i \in DOMAIN msgs : /\ Users(msgs)[i].kind = "user"
                                /\ Users(msgs)[i].ids = {msgs[i]}
                                /\ msgs[i] \in ToSet(msgs)
  BY DEF Users, User, ToSet
<1>2. ToSet(msgs) \subseteq (1..s.sent) \ ToSet(s.steered)
  BY DEF Reserved
<1>3. Plain(Users(msgs), ToSet(s.steered), s.sent)
  BY <1>1, <1>2 DEF Plain
<1>4. Plain(<<[kind |-> "user", ids |-> ToSet(msgs)]>>, ToSet(s.steered), s.sent)
  BY <1>2 DEF Plain
<1>5. CallFree(Users(msgs))
  BY <1>1 DEF CallFree
<1>6. CallFree(<<[kind |-> "user", ids |-> ToSet(msgs)]>>)
  BY DEF CallFree
<1> QED
  BY <1>3, <1>4, <1>5, <1>6

(* Nothing is pending on a session at rest.                                *)
LEMMA RestHolds ==
    ASSUME NEW s, Resting(s)
    PROVE  /\ ~IsActive(s) /\ Pends(s) = <<>> /\ Held(s) = {}
           /\ ~InPhase(s, "PreAgentTurn") /\ ~InPhase(s, "AwaitingToolBatch")
<1>1. ~IsActive(s)
  BY DEF Resting, IsActive
<1> QED
  BY <1>1 DEF Pends, Held, InPhase

(* The first messages of a turn.                                           *)
LEMMA CommitTurnKept ==
    ASSUME NEW s, Settled(s), Resting(s), Kept(s), NEW id \in Nat,
           NEW messages \in Seq(Message), messages # <<>>,
           Plain(messages, ToSet(s.steered), s.sent), CallFree(messages),
           NEW t \in CommitTurn(s, id, messages)
    PROVE  Filed(t)
<1> DEFINE filled == AppendTurnMessages(s, messages)
           issue == Issue(filled)
           phase == PlannedPhase(filled)
           turn == Active(id, phase, TRUE)
           started == [issue EXCEPT !.turn = turn]
<1>1. /\ Settled(filled) /\ NextIsNew(filled) /\ filled \in State
      /\ DistinctIds(filled) /\ filled.turn = s.turn
  BY AppendTurnMessagesSound DEF Settled
<1>2. Pends(s) = <<>> /\ ~InPhase(s, "PreAgentTurn")
  BY RestHolds
<1>3. Kept(filled) /\ Carries(s, filled)
  BY <1>2, TurnMessagesKept
<1>4. t \in DispatchAgent(started, TRUE)
  BY DEF CommitTurn
<1> HIDE DEF filled
<1>5. Settled(issue) /\ issue \in State
  BY <1>1, IssueSound DEF Settled
<1>6. phase \in Phases /\ phase.kind \in {"AwaitingCompletion", "PreLlmCall"}
  BY <1>1, PlannedPhaseType
<1>7. ~InPhase(filled, "PreAgentTurn") /\ Pends(filled) = <<>>
  BY <1>1, <1>2, <1>3 DEF Carries, InPhase, IsActive
<1>8. Carries(filled, issue) /\ issue.context = filled.context
  BY <1>1, <1>7, IssueKept
<1> HIDE DEF issue, phase
<1>9. Kept(issue) /\ Pends(issue) = <<>>
  BY <1>3, <1>7, <1>8, CarriedOver DEF Carries
<1>10. /\ turn \in ActiveTurns /\ turn.kind = "Active" /\ turn.phase = phase
       /\ turn.iterations = 0 /\ turn.steer = <<>> /\ turn.queued = NoQueue
  BY <1>6 DEF Active, ActiveTurns, Queues
<1> HIDE DEF turn
<1>11. /\ started \in State /\ started.turn = turn
       /\ started.issued = issue.issued
       /\ started.compactions = issue.compactions
       /\ started.context = issue.context /\ started.archived = issue.archived
       /\ started.steered = issue.steered /\ started.sent = issue.sent
       /\ started.received = issue.received /\ started.pending = issue.pending
  BY <1>5, <1>10 DEF State, Turns
<1>12. Len(started.context) >= Len(issue.context)
  BY <1>5, <1>11 DEF State
<1> HIDE DEF started
<1>13. Settled(started) /\ IsActive(started)
  BY <1>5, <1>10, <1>11, <1>12, SettledKept DEF IsActive
<1>14. Dispatching(started)
  BY <1>6, <1>10, <1>11, <1>13, IterationAssumption DEF Dispatching
<1>15. /\ Pends(started) = <<>> /\ ~InPhase(started, "PreAgentTurn")
       /\ Held(started) = {}
  BY <1>6, <1>10, <1>11 DEF Pends, InPhase, Held
<1>16. Kept(started)
  BY <1>9, <1>11, <1>15 DEF Kept, Ledger, Reserved
<1> QED
  BY <1>4, <1>14, <1>16, DispatchKept

(* The messages of a turn that starts are not steering.                    *)
LEMMA StartTurnKept ==
    ASSUME NEW s, Settled(s), Resting(s), Kept(s), NEW id \in Nat,
           NEW msgs \in Seq(Nat), msgs # <<>>, Reserved(s, ToSet(msgs)),
           NEW t \in StartTurn(s, id, msgs)
    PROVE  Filed(t)
<1> DEFINE phase == PreAgentHook(id, msgs, s.turn)
           turn == Active(id, phase, FALSE)
<1>1. s \in State /\ Pends(s) = <<>>
  BY RestHolds DEF Settled
<1>2. CASE "PreAgentTurn" \in s.hooks
  <2>1. phase.kind = "PreAgentTurn" /\ phase.content = msgs
    BY DEF PreAgentHook
  <2>2. t = [s EXCEPT !.turn = turn]
    BY <1>2 DEF StartTurn
  <2> HIDE DEF phase
  <2>3. turn.kind = "Active" /\ turn.phase = phase /\ turn.steer = <<>>
        /\ turn.queued = NoQueue
    BY DEF Active
  <2> HIDE DEF turn
  <2>4. /\ t.turn = turn /\ t.context = s.context /\ t.archived = s.archived
        /\ t.steered = s.steered /\ t.sent = s.sent
        /\ t.received = s.received /\ t.pending = s.pending
    BY <1>1, <2>2 DEF State
  <2>5. /\ Pends(t) = <<>> /\ Held(t) = ToSet(msgs)
        /\ ~InPhase(t, "AwaitingToolBatch")
    BY <2>1, <2>3, <2>4 DEF Pends, Held, InPhase, IsActive
  <2>6. Kept(t)
    BY <1>1, <2>4, <2>5 DEF Kept, Ledger, Reserved
  <2> QED
    BY <2>5, <2>6, KeptFiled
<1>3. CASE "PreAgentTurn" \notin s.hooks
  <2>1. Users(msgs) \in Seq(Message) /\ Len(Users(msgs)) = Len(msgs)
    BY UsersType
  <2>2. Users(msgs) # <<>>
    BY <2>1
  <2>3. t \in CommitTurn(s, id, Users(msgs))
    BY <1>3 DEF StartTurn
  <2>4. Plain(Users(msgs), ToSet(s.steered), s.sent) /\ CallFree(Users(msgs))
    BY HeldMessages
  <2> QED
    BY <2>1, <2>2, <2>3, <2>4, CommitTurnKept
<1> QED
  BY <1>2, <1>3

(* A turn that completes hands its pending steering to the context before  *)
(* its follow-up starts.                                                   *)
LEMMA FinishCompletedTurnKept ==
    ASSUME NEW s, Settled(s), IsActive(s), Kept(s), NEW t \in FinishCompletedTurn(s)
    PROVE  Filed(t)
<1> DEFINE finished == FinishTurn(s, "Completed")
<1>1. Settled(finished) /\ Resting(finished)
  BY FinishTurnSound DEF Outcomes, Sound
<1>2. /\ Kept(finished) /\ Filed(finished)
      /\ finished.sent = s.sent /\ finished.steered = s.steered
  BY FinishTurnKept
<1>3. s.turn \in ActiveTurns
  BY ActiveTurn DEF Settled
<1>4. CASE s.turn.queued = NoQueue
  BY <1>2, <1>4 DEF FinishCompletedTurn
<1>5. CASE s.turn.queued # NoQueue
  <2> DEFINE id == s.turn.queued.id
             msgs == s.turn.queued.msgs
  <2>1. id \in Nat /\ msgs \in Seq(Nat) /\ msgs # <<>>
    BY <1>3, <1>5 DEF ActiveTurns, Queues
  <2>2. t \in StartTurn(finished, id, msgs)
    BY <1>5 DEF FinishCompletedTurn
  <2>3. ToSet(msgs) \subseteq Held(s)
    BY <1>5 DEF Held
  <2> HIDE DEF finished, id, msgs
  <2>4. Reserved(finished, ToSet(msgs))
    BY <1>2, <2>3 DEF Kept, Ledger, Reserved
  <2> QED
    BY <1>1, <1>2, <2>1, <2>2, <2>4, StartTurnKept
<1> QED
  BY <1>4, <1>5

(* Completing with an answer.                                              *)
LEMMA CompleteOutputKept ==
    ASSUME NEW s, Settled(s), NextIsNew(s), IsActive(s), Kept(s),
           s.turn.phase.kind # "PreAgentTurn", NEW t \in CompleteOutput(s)
    PROVE  Filed(t)
<1>1. s \in State /\ DistinctIds(s)
  BY DEF Settled
<1>2. CASE t \in FinishCompletedTurn(s)
  BY <1>2, FinishCompletedTurnKept
<1>3. CASE s.turn.iterations < MaxIterations /\ t \in ContinueActiveTurn(s, TRUE)
  BY <1>1, <1>3, ContinueKept
<1> QED
  BY <1>2, <1>3 DEF CompleteOutput

(* Marking writes nothing into the ledger.                                 *)
LEMMA MarkNotificationsReadyKept ==
    ASSUME NEW s \in State, ~InPhase(s, "PreAgentTurn")
    PROVE  LET t == MarkNotificationsReady(s)
           IN  Carries(s, t) /\ t.context = s.context /\ t.turn = s.turn
<1> DEFINE t == MarkNotificationsReady(s)
<1>1. /\ t.turn = s.turn /\ t.archived = s.archived /\ t.steered = s.steered
      /\ t.sent = s.sent /\ t.received = s.received /\ t.pending = s.pending
      /\ t.context = s.context
  BY DEF MarkNotificationsReady, State
<1> HIDE DEF t
<1>2. Held(t) = Held(s) /\ Pends(t) = Pends(s) /\ ~InPhase(t, "PreAgentTurn")
  BY <1>1 DEF InPhase, Held, Pends, IsActive
<1> QED
  BY <1>1, <1>2 DEF Carries, t

LEMMA MarkModelInputReadyKept ==
    ASSUME NEW s, Settled(s), IsActive(s), s.turn.phase.kind # "PreAgentTurn", Kept(s)
    PROVE  LET t == MarkModelInputReady(s)
           IN  Kept(t) /\ t.turn.phase = s.turn.phase
<1> DEFINE turn == [s.turn EXCEPT !.ready = TRUE]
           r == [s EXCEPT !.turn = turn]
           t == MarkModelInputReady(s)
<1>1. s \in State /\ s.turn \in ActiveTurns
  BY ActiveTurn DEF Settled
<1>2. /\ turn \in ActiveTurns /\ turn.kind = "Active"
      /\ turn.steer = s.turn.steer /\ turn.queued = s.turn.queued
      /\ turn.phase = s.turn.phase
  BY <1>1 DEF ActiveTurns
<1>3. t = MarkNotificationsReady(r)
  BY DEF MarkModelInputReady
<1> HIDE DEF turn
<1>4. r \in State
  BY <1>1, <1>2 DEF State, Turns
<1>5. turn.phase.kind # "PreAgentTurn"
  BY <1>2
<1> HIDE DEF r
<1>6. Carries(s, r) /\ r.context = s.context /\ r.turn = turn
  <2>1. r = [s EXCEPT !.turn = turn]
    BY DEF r
  <2> QED
    BY <1>1, <1>2, <1>5, <2>1, TurnCarried
<1>7. Kept(r)
  BY <1>6, CarriedOver
<1>8. ~InPhase(r, "PreAgentTurn")
  BY <1>5, <1>6 DEF InPhase
<1>9. Carries(r, t) /\ t.context = r.context /\ t.turn = r.turn
  BY <1>3, <1>4, <1>8, MarkNotificationsReadyKept
<1> HIDE DEF t
<1>10. Kept(t) /\ t.turn.phase = s.turn.phase
  BY <1>2, <1>6, <1>7, <1>9, CarriedOver
<1> QED
  BY <1>10 DEF t

(* A turn that waits for something else than a batch.                      *)
LEMMA PhaseFiled ==
    ASSUME NEW s, Settled(s), IsActive(s), Kept(s), NEW phase \in Phases,
           phase.kind \notin {"PreAgentTurn", "AwaitingToolBatch"},
           NEW t, t = [s EXCEPT !.turn.phase = phase]
    PROVE  Filed(t)
<1>1. t.turn.phase = phase
  BY PhaseUpdate
<1>2. s \in State /\ phase.kind # "PreAgentTurn"
  BY DEF Settled
<1>3. Carries(s, t) /\ t.context = s.context
  BY <1>2, PhaseCarried
<1>4. Kept(t) /\ ~InPhase(t, "AwaitingToolBatch")
  BY <1>1, <1>3, CarriedOver DEF InPhase
<1> QED
  BY <1>4, KeptFiled

(* Messages that tell nothing are written, calls among them.               *)
LEMMA LedgerGrows ==
    ASSUME NEW s \in State, NEW t, Carries(s, t), Ledger(s),
           NEW y \in Seq(Message), t.context = s.context \o y,
           Plain(y, ToSet(s.steered), s.sent)
    PROVE  Ledger(t)
<1>1. s.context \in Seq(Message) /\ s.steered \in Seq(Nat)
  BY DEF State
<1>2. /\ Accounted(s.steered, s.sent, s.archived, s.context, Pends(s))
      /\ Reported(s.received, s.pending, s.archived, s.context)
      /\ Reserved(s, Held(s))
  BY DEF Ledger
<1>3. /\ Accounted(s.steered, s.sent, s.archived, s.context \o y, Pends(s))
      /\ Reported(s.received, s.pending, s.archived, s.context \o y)
  BY <1>1, <1>2, PlainAdded
<1>4. Reserved(t, Held(t))
  BY <1>2 DEF Reserved, Carries
<1> QED
  BY <1>3, <1>4 DEF Ledger, Carries

(* A new context for an active turn that has started.                      *)
LEMMA ContextCarried ==
    ASSUME NEW s \in State, ~InPhase(s, "PreAgentTurn"), NEW context,
           NEW t, t = [s EXCEPT !.context = context]
    PROVE  Carries(s, t) /\ t.context = context /\ t.turn = s.turn
<1>1. /\ t.turn = s.turn /\ t.archived = s.archived /\ t.steered = s.steered
      /\ t.sent = s.sent /\ t.received = s.received /\ t.pending = s.pending
      /\ t.context = context
  BY DEF State
<1>2. Held(t) = Held(s) /\ Pends(t) = Pends(s) /\ ~InPhase(t, "PreAgentTurn")
  BY <1>1 DEF InPhase, Held, Pends, IsActive
<1> QED
  BY <1>1, <1>2 DEF Carries

(* The results of a batch complete its calls.                              *)
LEMMA BatchClosed ==
    ASSUME NEW s \in State, ~InPhase(s, "PreAgentTurn"), Ledger(s),
           NEW list \in CallSeqs, list # <<>>, Opened(s.context, list),
           NEW t, t = [s EXCEPT !.context = s.context \o ToolResults(list)]
    PROVE  Kept(t)
<1> DEFINE y == ToolResults(list)
           context == s.context \o y
<1>1. y \in Seq(Message)
  BY CallSeqsType, ToolResultsType
<1>2. Plain(y, ToSet(s.steered), s.sent)
  BY DEF Plain, ToolResults
<1>3. Complete(context)
  <2>1. PICK x \in Seq(Message) :
          Complete(x) /\ s.context = Append(x, AssistantMessage(list))
    BY DEF Opened
  <2>2. Complete(Append(x, AssistantMessage(list)) \o ToolResults(list))
    BY <2>1, CompleteBatch
  <2> QED
    BY <2>1, <2>2
<1>4. t = [s EXCEPT !.context = context]
  OBVIOUS
<1> HIDE DEF context, y
<1>5. Carries(s, t) /\ t.context = context
  <2>1. s \in State /\ ~InPhase(s, "PreAgentTurn")
    OBVIOUS
  <2> QED
    BY ONLY <1>4, <2>1, ContextCarried
<1>6. Ledger(t)
  BY <1>1, <1>2, <1>5, LedgerGrows DEF context
<1> QED
  BY <1>3, <1>5, <1>6 DEF Kept

(* A batch whose calls have all finished.                                  *)
LEMMA ContinueAfterBatchKept ==
    ASSUME NEW s, Settled(s), IsActive(s), s.turn.phase.kind # "PreAgentTurn",
           Ledger(s), NEW list \in CallSeqs, list # <<>>, Opened(s.context, list),
           NEW t \in ContinueAfterBatch(s, list)
    PROVE  Filed(t)
<1> DEFINE results == [s EXCEPT !.context = s.context \o ToolResults(list)]
           landed == MarkModelInputReady(results)
<1>1. ToolResults(list) \in Seq(Message) /\ ToolResults(list) # <<>>
  BY CallSeqsType, ToolResultsType
<1>2. /\ Settled(results) /\ results.turn = s.turn /\ NextIsNew(results)
      /\ IsActive(results)
  BY <1>1, ContextGrows DEF IsActive
<1>3. s \in State /\ ~InPhase(s, "PreAgentTurn")
  BY DEF Settled, InPhase
<1>4. Kept(results)
  <2>1. results = [s EXCEPT !.context = s.context \o ToolResults(list)]
    OBVIOUS
  <2> HIDE DEF results
  <2> QED
    BY <1>3, <2>1, BatchClosed
<1>5. \/ landed.turn.iterations >= MaxIterations /\ t \in FinishCompletedTurn(landed)
      \/ ~(landed.turn.iterations >= MaxIterations) /\ t \in ContinueActiveTurn(landed, TRUE)
  BY DEF ContinueAfterBatch
<1> HIDE DEF results
<1>6. /\ Settled(landed) /\ IsActive(landed) /\ landed.issued = results.issued
      /\ landed.compactions = results.compactions
      /\ landed.context = results.context
  BY <1>2, MarkModelInputReadySound
<1>7. Kept(landed) /\ landed.turn.phase = s.turn.phase
  BY <1>2, <1>4, MarkModelInputReadyKept
<1> HIDE DEF landed
<1>8. NextIsNew(landed) /\ landed \in State /\ DistinctIds(landed)
  BY <1>2, <1>6 DEF NextIsNew, NextCompletionId, Settled
<1>9. landed.turn.iterations \in Nat
  BY <1>6, <1>8, ActiveTurn DEF ActiveTurns
<1>10. CASE t \in FinishCompletedTurn(landed)
  BY <1>6, <1>7, <1>10, FinishCompletedTurnKept
<1>11. CASE /\ ~(landed.turn.iterations >= MaxIterations)
            /\ t \in ContinueActiveTurn(landed, TRUE)
  <2>1. landed.turn.iterations < MaxIterations
    BY <1>9, <1>11, IterationAssumption
  <2> QED
    BY <1>6, <1>7, <1>8, <1>11, <2>1, ContinueKept
<1> QED
  BY <1>5, <1>10, <1>11

(* A batch, with some of its calls still open or none.                     *)
LEMMA ApplyBatchKept ==
    ASSUME NEW s, Settled(s), IsActive(s), s.turn.phase.kind # "PreAgentTurn",
           Ledger(s), NEW list \in CallSeqs, list # <<>>, Opened(s.context, list),
           NEW open \in SUBSET Calls, NEW t \in ApplyBatch(s, list, open)
    PROVE  Filed(t)
<1> DEFINE phase == AwaitingToolBatch(list, open)
<1>1. CASE open = {}
  <2>1. t \in ContinueAfterBatch(s, list)
    BY <1>1 DEF ApplyBatch
  <2> QED
    BY <2>1, ContinueAfterBatchKept
<1>2. CASE open # {}
  <2>1. phase \in Phases /\ phase.kind = "AwaitingToolBatch" /\ phase.calls = list
    BY DEF AwaitingToolBatch, Phases
  <2>2. t = [s EXCEPT !.turn.phase = phase]
    BY <1>2 DEF ApplyBatch
  <2> HIDE DEF phase
  <2>3. t.turn.phase = phase /\ IsActive(t)
    BY <2>1, <2>2, PhaseUpdate
  <2>4. s \in State /\ phase.kind # "PreAgentTurn"
    BY <2>1 DEF Settled
  <2>5. Carries(s, t) /\ t.context = s.context
    BY <2>2, <2>4, PhaseCarried
  <2>6. Ledger(t)
    BY <2>5, CarriedOver
  <2>7. Answered(t)
    BY <2>1, <2>3, <2>5 DEF Answered, InPhase
  <2> QED
    BY <2>6, <2>7 DEF Filed
<1> QED
  BY <1>1, <1>2

(* Accepting a completion writes its answer, or opens its batch.           *)
LEMMA ResolveAcceptedKept ==
    ASSUME NEW s, Settled(s), IsActive(s), s.turn.phase.kind # "PreAgentTurn",
           Kept(s), NEW list \in CallSeqs, NEW t \in ResolveAccepted(s, list)
    PROVE  Filed(t)
<1>1. s \in State /\ s.turn \in ActiveTurns /\ s.turn.iterations \in Nat
  BY ActiveTurn DEF Settled, ActiveTurns
<1>2. ReportedSizes(s) \subseteq BOOLEAN
  BY <1>1 DEF ReportedSizes, State
<1>3. PICK reported \in BOOLEAN : t \in Proceed(Accepted(s, list, reported), list)
  <2>1. ~(s.turn.iterations + 1 > MaxIterations)
    BY DEF ResolveAccepted
  <2> QED
    BY <1>2, <2>1 DEF ResolveAccepted
<1> DEFINE n == s.turn.iterations + 1
           turn == [s.turn EXCEPT !.iterations = n]
           message == AssistantMessage(list)
           y == <<message>>
           context == Append(s.context, message)
           a == Accepted(s, list, reported)
<1>4. n \in Nat
  BY <1>1
<1>5. message \in Message /\ s.context \in Seq(Message)
  BY <1>1, AssistantMessageType DEF State
<1>6. /\ message.kind \in {"assistant", "calls"}
      /\ list = <<>> => message.kind = "assistant"
  BY DEF AssistantMessage, Note
<1>7. a = [s EXCEPT !.turn = turn, !.context = context, !.reportedOver = reported]
  BY DEF Accepted
<1> HIDE DEF n
<1>8. /\ turn \in ActiveTurns /\ turn.kind = "Active"
      /\ turn.queued = s.turn.queued /\ turn.phase = s.turn.phase
      /\ turn.steer = s.turn.steer
  BY <1>1, <1>4 DEF ActiveTurns
<1> HIDE DEF turn, message
<1>9. /\ context \in Seq(Message) /\ Len(context) > Len(s.context)
      /\ context = s.context \o y /\ y \in Seq(Message)
  BY <1>5
<1>10. Plain(y, ToSet(s.steered), s.sent)
  BY <1>6 DEF Plain
<1> HIDE DEF context, a, y
<1>11. /\ a \in State /\ a.turn = turn /\ a.issued = s.issued
       /\ a.compactions = s.compactions /\ a.context = context
       /\ a.archived = s.archived /\ a.steered = s.steered /\ a.sent = s.sent
       /\ a.pending = s.pending /\ a.received = s.received
  BY <1>1, <1>7, <1>8, <1>9 DEF State, Turns
<1>12. Len(a.context) >= Len(s.context)
  BY <1>1, <1>9, <1>11 DEF State
<1>13. Settled(a) /\ NextIsNew(a) /\ IsActive(a)
  BY <1>8, <1>9, <1>11, <1>12, SettledKept, GrownIsNew DEF IsActive
<1>14. /\ Held(a) \subseteq Held(s) /\ Pends(a) = Pends(s)
       /\ ~InPhase(a, "PreAgentTurn") /\ a.turn.phase.kind # "PreAgentTurn"
  BY <1>8, <1>11, <1>13 DEF InPhase, Held, Pends
<1>15. Carries(s, a)
  BY <1>11, <1>14 DEF Carries
<1>16. Ledger(s) /\ Complete(s.context)
  BY DEF Kept
<1>17. Ledger(a)
  BY <1>1, <1>9, <1>10, <1>11, <1>15, <1>16, LedgerGrows
<1>18. CASE list = <<>>
  <2> DEFINE m == MarkModelInputReady(a)
  <2>1. t \in CompleteOutput(m)
    BY <1>3, <1>18 DEF a, Proceed
  <2>2. Complete(a.context)
    <3>1. \A i \in DOMAIN y : y[i].kind # "calls"
      BY <1>6, <1>18 DEF y
    <3> QED
      BY <1>5, <1>9, <1>11, <1>16, <3>1, CompleteGrows
  <2>3. Kept(a)
    BY <1>17, <2>2 DEF Kept
  <2>4. /\ Settled(m) /\ IsActive(m) /\ m.issued = a.issued
        /\ m.compactions = a.compactions /\ m.context = a.context
    BY <1>13, MarkModelInputReadySound
  <2>5. Kept(m) /\ m.turn.phase = a.turn.phase
    BY <1>13, <1>14, <2>3, MarkModelInputReadyKept
  <2> HIDE DEF m
  <2>6. NextIsNew(m)
    BY <1>13, <2>4 DEF NextIsNew, NextCompletionId
  <2> QED
    BY <1>14, <2>1, <2>4, <2>5, <2>6, CompleteOutputKept
<1>19. CASE list # <<>>
  <2>1. PICK open \in SUBSET ToSet(list) : t \in ApplyBatch(a, list, open)
    BY <1>3, <1>19 DEF a, Proceed
  <2>2. open \in SUBSET Calls
    BY <2>1, CallSeqsType DEF ToSet
  <2>3. Opened(a.context, list)
    <3>1. a.context = Append(s.context, AssistantMessage(list))
      BY <1>11 DEF context, message
    <3> QED
      BY <1>5, <1>16, <3>1 DEF Opened
  <2> QED
    BY <1>13, <1>14, <1>17, <1>19, <2>1, <2>2, <2>3, ApplyBatchKept
<1> QED
  BY <1>18, <1>19

(* A candidate that passed its post-LLM hook, or had none.                 *)
LEMMA ResolveAfterPostLlmKept ==
    ASSUME NEW s, Settled(s), IsActive(s), s.turn.phase.kind # "PreAgentTurn",
           Kept(s), NEW id \in CompletionIds, NEW list \in CallSeqs,
           NEW t \in ResolveAfterPostLlm(s, id, list)
    PROVE  Filed(t)
<1> DEFINE phase == CompletionHook("PostAgentTurn", id, list)
<1>1. CASE t \in ResolveAccepted(s, list)
  BY <1>1, ResolveAcceptedKept
<1>2. CASE t = [s EXCEPT !.turn.phase = phase]
  <2>1. phase \in Phases /\ phase.kind = "PostAgentTurn"
    BY DEF CompletionHook, Phases
  <2> HIDE DEF phase
  <2> QED
    BY <1>2, <2>1, PhaseFiled
<1> QED
  BY <1>1, <1>2 DEF ResolveAfterPostLlm

(* The session goes back to Idle.                                          *)
LEMMA BackToIdleKept ==
    ASSUME NEW s \in State, ~IsActive(s), Kept(s)
    PROVE  Filed(MarkNotificationsReady([s EXCEPT !.turn = Idle]))
<1> DEFINE i == [s EXCEPT !.turn = Idle]
           t == MarkNotificationsReady(i)
<1>1. Idle \in Turns /\ Idle.kind = "Idle"
  BY DEF Turns, RestingTurns, Idle
<1>2. /\ i \in State /\ i.turn = Idle /\ i.context = s.context
      /\ i.archived = s.archived /\ i.steered = s.steered /\ i.sent = s.sent
      /\ i.received = s.received /\ i.pending = s.pending
  BY <1>1 DEF State
<1> HIDE DEF i
<1>3. Resting(i)
  BY <1>1, <1>2 DEF Resting
<1>4. /\ Pends(i) = <<>> /\ Held(i) = {} /\ Pends(s) = <<>>
      /\ ~InPhase(i, "PreAgentTurn")
  BY <1>3, RestHolds DEF Pends
<1>5. Kept(i)
  BY <1>2, <1>4 DEF Kept, Ledger, Reserved
<1>6. Carries(i, t) /\ t.context = i.context /\ t.turn = i.turn
  BY <1>2, <1>4, MarkNotificationsReadyKept
<1> HIDE DEF t
<1>7. Kept(t)
  BY <1>5, <1>6, CarriedOver
<1>8. ~InPhase(t, "AwaitingToolBatch")
  BY <1>1, <1>2, <1>6 DEF InPhase, IsActive
<1> QED
  BY <1>7, <1>8, KeptFiled DEF t, i

(* A compaction files what it removes before what it keeps.                *)
LEMMA ReplaceContextKept ==
    ASSUME NEW s, Settled(s), AllBeforeCompaction(s), Kept(s),
           ~InPhase(s, "PreAgentTurn"),
           NEW keep, NEW kept, NEW removed,
           keep \in KeptPositions(s.context), kept \in Arranged(s.context, keep),
           removed \in Arranged(s.context,
                         PositionsOf(s.context, {"user", "notice"}) \ keep)
    PROVE  LET r == ReplaceContext(s, kept, removed)
           IN  /\ Kept(r) /\ r \in State /\ DistinctIds(r) /\ NextIsNew(r)
               /\ Settled(r) /\ r.turn = s.turn
<1> DEFINE context == <<Note("system"), Note("preamble")>> \o kept \o <<Note("summary")>>
           archived == s.archived \o removed
           r == ReplaceContext(s, kept, removed)
<1>1. /\ s \in State /\ s.context \in Seq(Message) /\ s.archived \in Seq(Message)
      /\ s.steered \in Seq(Nat)
  BY DEF Settled, State
<1>2. keep \in SUBSET DOMAIN s.context
      /\ PositionsOf(s.context, {"user", "notice"}) \ keep \in SUBSET DOMAIN s.context
  BY KeptPositionsType DEF PositionsOf
<1>3. kept \in Seq(Message) /\ removed \in Seq(Message)
  BY <1>1, <1>2, ArrangedType
<1>4. /\ r \in State /\ DistinctIds(r) /\ NextIsNew(r) /\ Settled(r)
      /\ r.turn = s.turn
  BY <1>3, ReplaceContextSound
<1>5. /\ Accounted(s.steered, s.sent, s.archived, s.context, Pends(s))
      /\ Reported(s.received, s.pending, s.archived, s.context)
      /\ Reserved(s, Held(s))
  BY DEF Kept, Ledger
<1>6. /\ Accounted(s.steered, s.sent, archived, context, Pends(s))
      /\ Reported(s.received, s.pending, archived, context)
      /\ Complete(context)
  BY <1>1, <1>5, CompactionTells
<1>7. r = [s EXCEPT !.archived = archived, !.context = context, !.reportedOver = FALSE]
  BY DEF ReplaceContext
<1> HIDE DEF r, context, archived
<1>8. /\ r.context = context /\ r.archived = archived /\ r.steered = s.steered
      /\ r.sent = s.sent /\ r.received = s.received /\ r.pending = s.pending
  BY <1>1, <1>7 DEF State
<1>9. /\ Pends(r) = Pends(s) /\ Held(r) = Held(s) /\ ~InPhase(r, "PreAgentTurn")
  BY <1>4 DEF Pends, Held, InPhase, IsActive
<1>10. Kept(r)
  BY <1>5, <1>6, <1>8, <1>9 DEF Kept, Ledger, Reserved
<1> QED
  BY <1>4, <1>10 DEF r

(* A session that compacts has started its turn, if it has one, and waits  *)
(* for no calls.                                                           *)
LEMMA CompactingKept ==
    ASSUME NEW s, IsCompacting(s), Filed(s)
    PROVE  Kept(s) /\ ~InPhase(s, "PreAgentTurn")
<1>1. ~InPhase(s, "PreAgentTurn") /\ ~InPhase(s, "AwaitingToolBatch")
  BY DEF IsCompacting, InPhase, IsActive
<1> QED
  BY <1>1 DEF Filed, Answered, Kept

(* An accepted summary: the turn goes on, or the session is idle.          *)
LEMMA CompactionAcceptedKept ==
    ASSUME NEW s, Sound(s), IsCompacting(s), Filed(s),
           NEW keep, keep \in KeptPositions(s.context),
           NEW t \in CompactionAccepted(s, keep)
    PROVE  Filed(t)
<1> DEFINE recorded == PositionsOf(s.context, {"user", "notice"})
<1>1. s \in State /\ Settled(s) /\ AllBeforeCompaction(s)
  BY DEF Sound, Settled
<1>2. Kept(s) /\ ~InPhase(s, "PreAgentTurn")
  BY CompactingKept
<1>3. PICK kept \in Arranged(s.context, keep),
           removed \in Arranged(s.context, recorded \ keep) :
              t \in CompactionResumes(ReplaceContext(s, kept, removed))
  BY DEF CompactionAccepted
<1> DEFINE r == ReplaceContext(s, kept, removed)
<1>4. /\ Kept(r) /\ r \in State /\ DistinctIds(r) /\ NextIsNew(r) /\ Settled(r)
      /\ r.turn = s.turn
  BY <1>1, <1>2, <1>3, ReplaceContextKept
<1>5. t \in CompactionResumes(r)
  BY <1>3
<1> HIDE DEF r
<1>6. CASE IsActive(r)
  <2> DEFINE m == MarkModelInputReady(r)
  <2>1. t \in ContinueActiveTurn(m, FALSE)
    BY <1>5, <1>6 DEF CompactionResumes
  <2>2. /\ Settled(m) /\ IsActive(m) /\ m.issued = r.issued
        /\ m.turn.iterations = r.turn.iterations
        /\ m.compactions = r.compactions /\ m.context = r.context
    BY <1>4, <1>6, MarkModelInputReadySound
  <2>3. s.turn.iterations < MaxIterations
    BY <1>4, <1>6 DEF IsActive, IsCompacting, InPhase, Sound, HasBudget
  <2>4. r.turn.phase.kind # "PreAgentTurn"
    BY <1>2, <1>4, <1>6 DEF InPhase, IsActive
  <2>5. Kept(m) /\ m.turn.phase = r.turn.phase
    BY <1>4, <1>6, <2>4, MarkModelInputReadyKept
  <2> HIDE DEF m
  <2>6. NextIsNew(m) /\ m \in State /\ DistinctIds(m)
    BY <1>4, <2>2 DEF NextIsNew, NextCompletionId, Settled
  <2> QED
    BY <1>4, <2>1, <2>2, <2>3, <2>4, <2>5, <2>6, ContinueKept
<1>7. CASE ~IsActive(r)
  <2>1. t = MarkNotificationsReady([r EXCEPT !.turn = Idle])
    BY <1>5, <1>7 DEF CompactionResumes
  <2> QED
    BY <1>4, <1>7, <2>1, BackToIdleKept
<1> QED
  BY <1>6, <1>7

(* A failed compaction.                                                    *)
LEMMA FailCompactionKept ==
    ASSUME NEW s, Settled(s), Kept(s)
    PROVE  Filed(FailCompaction(s))
<1>1. CASE IsActive(s)
  BY <1>1, FinishTurnKept DEF FailCompaction
<1>2. CASE ~IsActive(s)
  <2>1. s \in State
    BY DEF Settled
  <2>2. FailCompaction(s) = MarkNotificationsReady([s EXCEPT !.turn = Idle])
    BY <1>2 DEF FailCompaction
  <2> QED
    BY <1>2, <2>1, <2>2, BackToIdleKept
<1> QED
  BY <1>1, <1>2

(* A rejected summary: one more attempt, or a failed compaction.           *)
LEMMA RejectSummaryKept ==
    ASSUME NEW s, Sound(s), IsCompacting(s), Filed(s)
    PROVE  Filed(RejectSummary(s))
<1> DEFINE attempt == PendingCompaction(s).attempt + 1
<1>1. s \in State /\ Settled(s) /\ Kept(s)
  BY CompactingKept DEF Sound, Settled
<1>2. CASE PendingCompaction(s).attempt >= MaxSummaryRetries
  BY <1>1, <1>2, FailCompactionKept DEF RejectSummary
<1>3. CASE ~(PendingCompaction(s).attempt >= MaxSummaryRetries) /\ IsActive(s)
  <2> DEFINE phase == [s.turn.phase EXCEPT !.attempt = attempt]
             t == [s EXCEPT !.turn.phase = phase]
  <2>1. /\ s.turn \in ActiveTurns /\ s.turn.phase \in Phases
        /\ s.turn.phase.kind = "AwaitingCompaction"
    BY <1>1, <1>3, ActiveTurn DEF ActiveTurns, IsCompacting, InPhase, IsActive
  <2>2. s.turn.phase \in [kind : {"AwaitingCompaction"}, id : Nat, iterations : Nat,
                          compaction : Nat, attempt : Nat]
    BY <2>1 DEF Phases
  <2>3. attempt \in Nat
    BY <1>3, <2>2 DEF PendingCompaction
  <2>4. RejectSummary(s) = t
    <3>1. t = [s EXCEPT !.turn.phase.attempt = attempt]
      BY <2>2
    <3> QED
      BY <1>3, <3>1 DEF RejectSummary
  <2> HIDE DEF attempt
  <2>5. phase \in Phases /\ phase.kind = "AwaitingCompaction"
    BY <2>2, <2>3 DEF Phases
  <2>6. t = [s EXCEPT !.turn.phase = phase]
    OBVIOUS
  <2> HIDE DEF phase, t
  <2>7. Filed(t)
    BY <1>1, <1>3, <2>5, <2>6, PhaseFiled
  <2> QED
    BY <2>4, <2>7
<1>4. CASE ~(PendingCompaction(s).attempt >= MaxSummaryRetries) /\ ~IsActive(s)
  <2> DEFINE turn == [s.turn EXCEPT !.attempt = attempt]
             t == [s EXCEPT !.turn = turn]
  <2>1. s.turn \in CompactingTurns
    BY <1>1, <1>4 DEF IsCompacting, InPhase, IsActive, State, Turns, RestingTurns,
                      Idle, ActiveTurns
  <2>2. RejectSummary(s) = t
    BY <1>4 DEF RejectSummary
  <2> HIDE DEF attempt
  <2>3. turn.kind = "Compacting"
    BY <2>1 DEF CompactingTurns
  <2> HIDE DEF turn
  <2>4. /\ t.turn = turn /\ t.context = s.context /\ t.archived = s.archived
        /\ t.steered = s.steered /\ t.sent = s.sent
        /\ t.received = s.received /\ t.pending = s.pending
    BY <1>1 DEF State
  <2> HIDE DEF t
  <2>5. /\ ~IsActive(t) /\ Pends(t) = Pends(s) /\ Held(t) = {}
        /\ ~InPhase(t, "PreAgentTurn") /\ ~InPhase(t, "AwaitingToolBatch")
    BY <1>4, <2>3, <2>4 DEF IsActive, Pends, Held, InPhase
  <2>6. Carries(s, t)
    BY <2>4, <2>5 DEF Carries
  <2>7. Kept(t)
    BY <1>1, <2>4, <2>6, CarriedOver
  <2> QED
    BY <2>2, <2>5, <2>7, KeptFiled
<1> QED
  BY <1>2, <1>3, <1>4

(* An abandoned batch gets its results.                                    *)
LEMMA CloseToolCallsKept ==
    ASSUME NEW s, Settled(s), IsActive(s), Filed(s)
    PROVE  Kept(CloseToolCalls(s))
<1>1. CASE s.turn.phase.kind = "AwaitingToolBatch"
  <2> DEFINE list == s.turn.phase.calls
             t == CloseToolCalls(s)
  <2>1. list \in CallSeqs /\ list # <<>> /\ s \in State
    BY <1>1, ActiveTurn DEF Settled, ActiveTurns, Phases
  <2>2. t = [s EXCEPT !.context = s.context \o ToolResults(list)]
    BY <1>1 DEF CloseToolCalls
  <2>3. Ledger(s) /\ Opened(s.context, list) /\ ~InPhase(s, "PreAgentTurn")
    BY <1>1 DEF Filed, Answered, InPhase
  <2> HIDE DEF list, t
  <2>4. Kept(t)
    BY <2>1, <2>2, <2>3, BatchClosed
  <2> QED
    BY <2>4 DEF t
<1>2. CASE s.turn.phase.kind # "AwaitingToolBatch"
  <2>1. Kept(s)
    BY <1>2 DEF Filed, Answered, Kept, InPhase
  <2> QED
    BY <1>2, <2>1 DEF CloseToolCalls
<1> QED
  BY <1>1, <1>2

-----------------------------------------------------------------------------
(* What each action keeps of the ledger.                                   *)

(* Only a batch in progress keeps a state from going on.                   *)
LEMMA FiledKept ==
    ASSUME NEW s, Filed(s), ~InPhase(s, "AwaitingToolBatch")
    PROVE  Kept(s)
BY DEF Filed, Answered, Kept

(* The calls are answered as long as the context and the phase stay.       *)
LEMMA AnsweredOn ==
    ASSUME NEW s, Answered(s), NEW t, t.context = s.context,
           t.turn.kind = s.turn.kind,
           IsActive(s) => t.turn.phase = s.turn.phase
    PROVE  Answered(t)
BY DEF Answered, InPhase, IsActive

(* A state that differs by a message sent.                                 *)
LEMMA SentLedger ==
    ASSUME NEW s \in State, Ledger(s), NEW t,
           t.turn = s.turn, t.sent = s.sent + 1, t.context = s.context,
           t.archived = s.archived, t.steered = s.steered,
           t.received = s.received, t.pending = s.pending
    PROVE  Ledger(t) /\ Reserved(t, {s.sent + 1}) /\ Held(t) = Held(s)
<1>1. s.sent \in Nat /\ s.steered \in Seq(Nat)
  BY DEF State
<1>2. /\ Held(t) = Held(s) /\ Pends(t) = Pends(s)
      /\ InPhase(t, "PreAgentTurn") = InPhase(s, "PreAgentTurn")
  BY DEF Held, Pends, InPhase, IsActive
<1>3. /\ Accounted(s.steered, s.sent, s.archived, s.context, Pends(s))
      /\ Reported(s.received, s.pending, s.archived, s.context)
      /\ Reserved(s, Held(s))
  BY DEF Ledger
<1>4. Accounted(s.steered, s.sent + 1, s.archived, s.context, Pends(s))
  BY <1>1, <1>3, MessageSent
<1>5. ToSet(s.steered) \subseteq 1..s.sent
  BY <1>3 DEF Accounted
<1>6. Reserved(t, Held(t)) /\ Reserved(t, {s.sent + 1})
  BY <1>1, <1>2, <1>3, <1>5 DEF Reserved
<1>7. Ledger(t)
  BY <1>2, <1>3, <1>4, <1>6 DEF Ledger
<1> QED
  BY <1>2, <1>6, <1>7

(* A message that is sent is new.                                          *)
LEMMA SentKept ==
    ASSUME NEW s \in State, Ledger(s)
    PROVE  \A t \in {Sent(s), SentInNewTurn(s)} :
              /\ Ledger(t) /\ Reserved(t, {s.sent + 1}) /\ Held(t) = Held(s)
              /\ t.turn = s.turn /\ t.sent = s.sent + 1
              /\ t.context = s.context /\ t.archived = s.archived
              /\ t.steered = s.steered /\ t.received = s.received
              /\ t.pending = s.pending
<1> SUFFICES ASSUME NEW t \in {Sent(s), SentInNewTurn(s)}
             PROVE  /\ Ledger(t) /\ Reserved(t, {s.sent + 1}) /\ Held(t) = Held(s)
                    /\ t.turn = s.turn /\ t.sent = s.sent + 1
                    /\ t.context = s.context /\ t.archived = s.archived
                    /\ t.steered = s.steered /\ t.received = s.received
                    /\ t.pending = s.pending
  OBVIOUS
<1>1. SentInNewTurn(s) = [s EXCEPT !.sent = s.sent + 1, !.turns = s.turns + 1]
  BY DEF Sent, SentInNewTurn
<1>2. CASE t = Sent(s)
  <2>1. /\ t.turn = s.turn /\ t.sent = s.sent + 1
        /\ t.context = s.context /\ t.archived = s.archived
        /\ t.steered = s.steered /\ t.received = s.received
        /\ t.pending = s.pending
    BY <1>2 DEF Sent, State
  <2> QED
    BY <2>1, SentLedger
<1>3. CASE t = SentInNewTurn(s)
  <2>1. /\ t.turn = s.turn /\ t.sent = s.sent + 1
        /\ t.context = s.context /\ t.archived = s.archived
        /\ t.steered = s.steered /\ t.received = s.received
        /\ t.pending = s.pending
    BY <1>1, <1>3 DEF State
  <2> QED
    BY <2>1, SentLedger
<1> QED
  BY <1>2, <1>3

(* A message to a session at rest starts the next turn.                    *)
LEMMA QueueAtRestFiled ==
    ASSUME IInv, Filed(core), QueueAtRest PROVE Filed(core')
<1> DEFINE s == SentInNewTurn(core)
           msgs == <<NewMessage>>
<1>1. core \in State /\ Resting(core) /\ Kept(core)
  BY FiledKept, RestHolds DEF IInv, Sound, Settled, QueueAtRest
<1>2. Settled(s)
  BY SentSound DEF IInv, Sound
<1>3. /\ Ledger(s) /\ Reserved(s, {core.sent + 1})
      /\ s.turn = core.turn /\ s.context = core.context
  BY <1>1, SentKept DEF Kept
<1>4. core' \in StartTurn(s, NewTurn, msgs)
  BY DEF QueueAtRest
<1>5. NewMessage \in Nat /\ NewTurn \in Nat /\ NewMessage = core.sent + 1
  BY <1>1 DEF State, NewMessage, NewTurn
<1> HIDE DEF s
<1>6. msgs \in Seq(Nat) /\ msgs # <<>> /\ ToSet(msgs) = {core.sent + 1}
  BY <1>5 DEF ToSet
<1>7. Resting(s) /\ Kept(s)
  BY <1>1, <1>3 DEF Resting, Kept
<1> HIDE DEF msgs
<1> QED
  BY <1>2, <1>3, <1>4, <1>5, <1>6, <1>7, StartTurnKept

(* The first message of a follow-up is held for the next turn.             *)
LEMMA OpenFollowUpFiled ==
    ASSUME IInv, Filed(core), OpenFollowUp PROVE Filed(core')
<1> DEFINE s == SentInNewTurn(core)
           queued == QueuedTurn(NewTurn, <<NewMessage>>)
           turn == [core.turn EXCEPT !.queued = queued]
<1>1. /\ core \in State /\ IsActive(core) /\ core.turn \in ActiveTurns
      /\ core.turn.queued = NoQueue /\ Ledger(core) /\ Answered(core)
  BY ActiveTurn DEF IInv, Sound, Settled, Filed, OpenFollowUp
<1>2. /\ Ledger(s) /\ Reserved(s, {core.sent + 1}) /\ Held(s) = Held(core)
      /\ s.turn = core.turn /\ s.sent = core.sent + 1
      /\ s.context = core.context /\ s.archived = core.archived
      /\ s.steered = core.steered /\ s.received = core.received
      /\ s.pending = core.pending
  BY <1>1, SentKept
<1>3. ToSet(queued.msgs) = {core.sent + 1}
  BY DEF QueuedTurn, ToSet, NewMessage
<1>4. core' = [s EXCEPT !.turn = turn] /\ s \in State
  BY <1>1, <1>2, SentType DEF OpenFollowUp
<1> HIDE DEF s, queued
<1>5. /\ turn.kind = "Active" /\ turn.phase = core.turn.phase
      /\ turn.steer = core.turn.steer /\ turn.queued = queued
  BY <1>1 DEF ActiveTurns
<1> HIDE DEF turn
<1>6. /\ core'.turn = turn /\ core'.sent = s.sent /\ core'.context = s.context
      /\ core'.archived = s.archived /\ core'.steered = s.steered
      /\ core'.received = s.received /\ core'.pending = s.pending
  BY <1>4 DEF State
<1>7. /\ Pends(core') = Pends(s)
      /\ InPhase(core', "PreAgentTurn") => InPhase(s, "PreAgentTurn")
  BY <1>1, <1>2, <1>5, <1>6 DEF Pends, InPhase, IsActive
<1>8. Held(core') \subseteq Held(s) \cup {core.sent + 1}
  BY <1>1, <1>2, <1>3, <1>5, <1>6 DEF Held, InPhase, IsActive
<1>9. Reserved(core', Held(core'))
  BY <1>2, <1>6, <1>8 DEF Ledger, Reserved
<1>10. Ledger(core')
  BY <1>2, <1>6, <1>7, <1>9 DEF Ledger
<1>11. Answered(core')
  BY <1>1, <1>2, <1>5, <1>6, AnsweredOn DEF IsActive
<1> QED
  BY <1>10, <1>11 DEF Filed

(* So is every other message of it.                                        *)
LEMMA ExtendFollowUpFiled ==
    ASSUME IInv, Filed(core), ExtendFollowUp PROVE Filed(core')
<1> DEFINE s == Sent(core)
           msgs == Append(core.turn.queued.msgs, NewMessage)
           queued == [core.turn.queued EXCEPT !.msgs = msgs]
           turn == [core.turn EXCEPT !.queued = queued]
<1>1. /\ core \in State /\ IsActive(core) /\ core.turn \in ActiveTurns
      /\ core.turn.queued # NoQueue /\ Ledger(core) /\ Answered(core)
  BY ActiveTurn DEF IInv, Sound, Settled, Filed, ExtendFollowUp
<1>2. /\ Ledger(s) /\ Reserved(s, {core.sent + 1}) /\ Held(s) = Held(core)
      /\ s.turn = core.turn /\ s.sent = core.sent + 1
      /\ s.context = core.context /\ s.archived = core.archived
      /\ s.steered = core.steered /\ s.received = core.received
      /\ s.pending = core.pending
  BY <1>1, SentKept
<1>3. core.turn.queued \in [kind : {"Pending"}, id : Nat, msgs : Seq(Nat) \ {<<>>}]
  BY <1>1 DEF ActiveTurns, Queues
<1>4. ToSet(msgs) = ToSet(core.turn.queued.msgs) \cup {core.sent + 1}
  <2>1. core.turn.queued.msgs \in Seq(Nat) /\ NewMessage = core.sent + 1
    BY <1>3 DEF NewMessage
  <2> QED
    BY <1>1, <2>1, AppendSet DEF State
<1>5. core' = [s EXCEPT !.turn = turn] /\ s \in State
  BY <1>1, <1>2, SentType DEF ExtendFollowUp
<1> HIDE DEF s, msgs
<1>6. queued.msgs = msgs
  BY <1>3
<1> HIDE DEF queued
<1>7. /\ turn.kind = "Active" /\ turn.phase = core.turn.phase
      /\ turn.steer = core.turn.steer /\ turn.queued = queued
  BY <1>1 DEF ActiveTurns
<1> HIDE DEF turn
<1>8. /\ core'.turn = turn /\ core'.sent = s.sent /\ core'.context = s.context
      /\ core'.archived = s.archived /\ core'.steered = s.steered
      /\ core'.received = s.received /\ core'.pending = s.pending
  BY <1>5 DEF State
<1>9. /\ Pends(core') = Pends(s)
      /\ InPhase(core', "PreAgentTurn") => InPhase(s, "PreAgentTurn")
  BY <1>1, <1>2, <1>7, <1>8 DEF Pends, InPhase, IsActive
<1>10. Held(core') \subseteq Held(s) \cup {core.sent + 1}
  <2>1. ToSet(core.turn.queued.msgs) \subseteq Held(s)
    BY <1>1, <1>2 DEF Held
  <2>2. InPhase(core', "PreAgentTurn") =>
           ToSet(core'.turn.phase.content) \subseteq Held(s)
    BY <1>1, <1>2, <1>7, <1>8 DEF Held, InPhase, IsActive
  <2>3. Held(core') \subseteq ToSet(msgs) \cup
           (IF InPhase(core', "PreAgentTurn")
            THEN ToSet(core'.turn.phase.content) ELSE {})
    BY <1>6, <1>7, <1>8 DEF Held
  <2> QED
    BY <1>4, <2>1, <2>2, <2>3
<1>11. Reserved(core', Held(core'))
  BY <1>2, <1>8, <1>10 DEF Ledger, Reserved
<1>12. Ledger(core')
  BY <1>2, <1>8, <1>9, <1>11 DEF Ledger
<1>13. Answered(core')
  BY <1>1, <1>2, <1>7, <1>8, AnsweredOn DEF IsActive
<1> QED
  BY <1>12, <1>13 DEF Filed

(* Steering is pending from the moment it is accepted.                     *)
LEMMA SteerFiled ==
    ASSUME IInv, Filed(core), Steer PROVE Filed(core')
<1> DEFINE s == Sent(core)
           steer == Append(core.turn.steer, NewMessage)
           steered == Append(core.steered, NewMessage)
           turn == [core.turn EXCEPT !.steer = steer]
<1>1. /\ core \in State /\ IsActive(core) /\ core.turn \in ActiveTurns
      /\ ~InPhase(core, "PreAgentTurn") /\ Ledger(core) /\ Answered(core)
  BY ActiveTurn DEF IInv, Sound, Settled, Filed, Steer
<1>2. /\ Held(s) = Held(core) /\ s.turn = core.turn /\ s.sent = core.sent + 1
      /\ s.context = core.context /\ s.archived = core.archived
      /\ s.steered = core.steered /\ s.received = core.received
      /\ s.pending = core.pending
  BY <1>1, SentKept
<1>3. core' = [s EXCEPT !.turn = turn, !.steered = steered] /\ s \in State
  BY <1>1, <1>2, SentType DEF Steer
<1>4. /\ core.steered \in Seq(Nat) /\ core.sent \in Nat
      /\ core.turn.steer \in Seq(Nat) /\ Pends(core) = core.turn.steer
  BY <1>1 DEF State, ActiveTurns, Pends
<1>5. Accounted(core.steered, core.sent, core.archived, core.context, core.turn.steer)
  BY <1>1, <1>4 DEF Ledger
<1>6. Accounted(steered, core.sent + 1, core.archived, core.context, steer)
  BY <1>4, <1>5, SteeringAccepted DEF NewMessage
<1>7. ToSet(steered) = ToSet(core.steered) \cup {core.sent + 1}
  BY <1>4, AppendSet DEF NewMessage
<1> HIDE DEF s, steer, steered
<1>8. /\ turn.kind = "Active" /\ turn.phase = core.turn.phase
      /\ turn.steer = steer /\ turn.queued = core.turn.queued
  BY <1>1 DEF ActiveTurns
<1> HIDE DEF turn
<1>9. /\ core'.turn = turn /\ core'.sent = core.sent + 1
      /\ core'.context = core.context /\ core'.archived = core.archived
      /\ core'.steered = steered /\ core'.received = core.received
      /\ core'.pending = core.pending
  BY <1>2, <1>3 DEF State
<1>10. /\ Pends(core') = steer /\ ~InPhase(core', "PreAgentTurn")
       /\ Held(core') = Held(core)
  BY <1>1, <1>8, <1>9 DEF Pends, Held, InPhase, IsActive
<1>11. Reserved(core', Held(core'))
  <2>1. Held(core) \subseteq (1..core.sent) \ ToSet(core.steered)
    BY <1>1 DEF Ledger, Reserved
  <2> QED
    BY <1>4, <1>7, <1>9, <1>10, <2>1 DEF Reserved
<1>12. Ledger(core')
  BY <1>1, <1>6, <1>9, <1>10, <1>11 DEF Ledger
<1>13. Answered(core')
  BY <1>1, <1>8, <1>9, AnsweredOn DEF IsActive
<1> QED
  BY <1>12, <1>13 DEF Filed

(* A context message is nobody's steering.                                 *)
LEMMA ContextMessageFiled ==
    ASSUME IInv, Filed(core), ContextMessage PROVE Filed(core')
<1> DEFINE messages == <<Note("injected")>>
           filled == AppendTurnMessages(core, messages)
           s == Sent(filled)
<1>1. Settled(core) /\ Resting(core) /\ Kept(core)
  BY FiledKept, RestHolds DEF IInv, Sound, ContextMessage
<1>2. messages \in Seq(Message) /\ messages # <<>>
  BY DEF Note, Message
<1>3. Plain(messages, ToSet(core.steered), core.sent) /\ CallFree(messages)
  BY DEF Plain, CallFree, Note
<1>4. core' = [s EXCEPT !.turn = Idle]
  BY DEF ContextMessage
<1> HIDE DEF messages
<1>5. Settled(filled) /\ filled \in State /\ filled.turn = core.turn
  BY <1>1, <1>2, AppendTurnMessagesSound DEF Settled
<1>6. Kept(filled)
  BY <1>1, <1>2, <1>3, RestHolds, TurnMessagesKept
<1> HIDE DEF filled
<1>7. /\ Ledger(s) /\ s.turn = core.turn /\ s.context = filled.context
      /\ s \in State
  BY <1>5, <1>6, SentKept, SentType DEF Kept
<1> HIDE DEF s
<1>8. Idle.kind = "Idle"
  BY DEF Idle
<1>9. /\ core'.turn = Idle /\ core'.context = s.context
      /\ core'.archived = s.archived /\ core'.steered = s.steered
      /\ core'.sent = s.sent /\ core'.received = s.received
      /\ core'.pending = s.pending
  BY <1>4, <1>7 DEF State
<1>10. Resting(core') /\ Resting(s)
  BY <1>1, <1>7, <1>8, <1>9 DEF Resting
<1>11. /\ Pends(core') = <<>> /\ Held(core') = {} /\ Pends(s) = <<>>
       /\ ~InPhase(core', "PreAgentTurn") /\ ~InPhase(core', "AwaitingToolBatch")
  BY <1>10, RestHolds
<1>12. Ledger(core')
  BY <1>7, <1>9, <1>11 DEF Ledger, Reserved
<1>13. Kept(core')
  BY <1>6, <1>7, <1>9, <1>12 DEF Kept
<1> QED
  BY <1>11, <1>13, KeptFiled

(* A notification is pending from the moment it arrives.                   *)
LEMMA ReceiveNotificationFiled ==
    ASSUME IInv, Filed(core), NEW n \in Notifications, ReceiveNotification(n)
    PROVE  Filed(core')
<1> DEFINE received == core.received \cup {n}
           pending == Append(core.pending, n)
           ready == core.notesReady \/ ArrivesAtBoundary(core)
<1>1. core \in State /\ Ledger(core) /\ Answered(core) /\ n \notin core.received
  BY DEF IInv, Sound, Settled, Filed, ReceiveNotification
<1>2. core.pending \in Seq(Notifications)
  BY <1>1 DEF State
<1>3. Reported(core.received, core.pending, core.archived, core.context)
  BY <1>1 DEF Ledger
<1>4. Reported(received, pending, core.archived, core.context)
  BY <1>1, <1>2, <1>3, NotificationAdded
<1>5. core' = [core EXCEPT !.received = received, !.pending = pending,
                           !.notesReady = ready]
  BY DEF ReceiveNotification
<1> HIDE DEF received, pending, ready
<1>6. /\ core'.turn = core.turn /\ core'.context = core.context
      /\ core'.archived = core.archived /\ core'.steered = core.steered
      /\ core'.sent = core.sent /\ core'.received = received
      /\ core'.pending = pending
  BY <1>1, <1>5 DEF State
<1>7. /\ Pends(core') = Pends(core) /\ Held(core') = Held(core)
      /\ InPhase(core', "PreAgentTurn") => InPhase(core, "PreAgentTurn")
  BY <1>6 DEF Pends, Held, InPhase, IsActive
<1>8. Ledger(core')
  BY <1>1, <1>4, <1>6, <1>7 DEF Ledger, Reserved
<1>9. Answered(core')
  BY <1>1, <1>6, AnsweredOn
<1> QED
  BY <1>8, <1>9 DEF Filed

(* A compaction asked for by the user.                                     *)
LEMMA ManualCompactionFiled ==
    ASSUME IInv, Filed(core), ManualCompaction PROVE Filed(core')
<1> DEFINE counted == CountCompaction(core)
           turn == Compacting(counted.compactions, 0)
           t == [counted EXCEPT !.turn = turn]
<1>1. core \in State /\ Resting(core) /\ Kept(core)
  BY FiledKept, RestHolds DEF IInv, Sound, Settled, ManualCompaction
<1>2. Settled(counted) /\ counted \in State /\ counted.turn = core.turn
  BY CountCompactionSound DEF IInv, Sound, Settled
<1>3. /\ counted.archived = core.archived /\ counted.steered = core.steered
      /\ counted.sent = core.sent /\ counted.received = core.received
      /\ counted.pending = core.pending /\ counted.context = core.context
  BY <1>1 DEF CountCompaction, State
<1>4. core' = t \/ core' = FailCompaction(counted)
  BY DEF ManualCompaction
<1> HIDE DEF counted
<1>5. Resting(counted)
  BY <1>1, <1>2 DEF Resting
<1>6. /\ Pends(core) = <<>> /\ Pends(counted) = <<>> /\ Held(counted) = {}
      /\ ~InPhase(counted, "PreAgentTurn")
  BY <1>1, <1>5, RestHolds
<1>7. Kept(counted)
  BY <1>1, <1>3, <1>6 DEF Kept, Ledger, Reserved
<1>8. turn.kind = "Compacting"
  BY DEF Compacting
<1> HIDE DEF turn
<1>9. /\ t.turn = turn /\ t.archived = counted.archived
      /\ t.steered = counted.steered /\ t.sent = counted.sent
      /\ t.received = counted.received /\ t.pending = counted.pending
      /\ t.context = counted.context
  BY <1>2 DEF State
<1> HIDE DEF t
<1>10. /\ Pends(t) = <<>> /\ Held(t) = {} /\ ~InPhase(t, "PreAgentTurn")
       /\ ~InPhase(t, "AwaitingToolBatch")
  BY <1>8, <1>9 DEF Pends, Held, InPhase, IsActive
<1>11. Kept(t)
  BY <1>6, <1>7, <1>9, <1>10 DEF Kept, Ledger, Reserved
<1> QED
  BY <1>2, <1>4, <1>7, <1>10, <1>11, KeptFiled, FailCompactionKept

(* A new configuration.                                                    *)
LEMMA ReconfigureFiled ==
    ASSUME IInv, Filed(core), Reconfigure PROVE Filed(core')
<1>1. PICK hooks \in HookChoices : core' = [core EXCEPT !.hooks = hooks]
  BY DEF Reconfigure
<1>2. core \in State /\ Ledger(core) /\ Answered(core)
  BY DEF IInv, Sound, Settled, Filed
<1>3. /\ core'.turn = core.turn /\ core'.context = core.context
      /\ core'.archived = core.archived /\ core'.steered = core.steered
      /\ core'.sent = core.sent /\ core'.received = core.received
      /\ core'.pending = core.pending
  BY <1>1, <1>2 DEF State
<1>4. /\ Pends(core') = Pends(core) /\ Held(core') = Held(core)
      /\ InPhase(core', "PreAgentTurn") => InPhase(core, "PreAgentTurn")
  BY <1>3 DEF Pends, Held, InPhase, IsActive
<1>5. Ledger(core')
  BY <1>2, <1>3, <1>4 DEF Ledger, Reserved
<1>6. Answered(core')
  BY <1>2, <1>3, AnsweredOn
<1> QED
  BY <1>5, <1>6 DEF Filed

(* A turn that is abandoned keeps its steering and closes its calls.       *)
LEMMA AbandonFiled ==
    ASSUME IInv, Filed(core), Interrupt \/ FailTurn PROVE Filed(core')
<1> DEFINE closed == CloseToolCalls(core)
<1>1. Settled(core) /\ IsActive(core)
  BY DEF IInv, Sound, Interrupt, FailTurn
<1>2. Settled(closed) /\ IsActive(closed) /\ Kept(closed)
  BY <1>1, CloseToolCallsSound, CloseToolCallsKept
<1>3. \/ core' = FinishTurn(closed, "Interrupted")
      \/ core' = FinishTurn(closed, "Failed")
  BY DEF Interrupt, FailTurn
<1> HIDE DEF closed
<1> QED
  BY <1>2, <1>3, FinishTurnKept

(* What the ledger says of a turn that waits in a phase.                   *)
LEMMA WaitingKept ==
    ASSUME IInv, Filed(core), IsActive(core),
           core.turn.phase.kind \notin {"PreAgentTurn", "AwaitingToolBatch"}
    PROVE  /\ Settled(core) /\ core \in State /\ Kept(core)
           /\ core.turn.phase \in Phases
           /\ core.turn.phase.kind # "PreAgentTurn"
           /\ core.turn.iterations < MaxIterations
<1>1. ~InPhase(core, "AwaitingToolBatch")
  BY DEF InPhase
<1> QED
  BY <1>1, Waiting, FiledKept

(* An answer of the model.                                                 *)
LEMMA CompletionSucceededFiled ==
    ASSUME IInv, Filed(core), CompletionSucceeded PROVE Filed(core')
<1> DEFINE id == core.turn.phase.completion
<1>1. IsActive(core) /\ core.turn.phase.kind = "AwaitingCompletion"
  BY DEF CompletionSucceeded, InPhase
<1>2. /\ Settled(core) /\ Kept(core) /\ core.turn.phase \in Phases
      /\ core.turn.phase.kind # "PreAgentTurn"
  BY <1>1, WaitingKept
<1>3. id \in CompletionIds
  BY <1>1, <1>2 DEF Phases
<1>4. PICK list \in CallSeqs :
        \/ core' = [core EXCEPT !.turn.phase = CompletionHook("PostLlmCall", id, list)]
        \/ core' \in ResolveAfterPostLlm(core, id, list)
  BY DEF CompletionSucceeded, CallSeqs
<1>5. CASE core' = [core EXCEPT !.turn.phase = CompletionHook("PostLlmCall", id, list)]
  <2> DEFINE phase == CompletionHook("PostLlmCall", id, list)
  <2>1. phase \in Phases /\ phase.kind = "PostLlmCall"
    BY <1>3 DEF CompletionHook, Phases
  <2>2. core' = [core EXCEPT !.turn.phase = phase]
    BY <1>5
  <2> HIDE DEF phase
  <2> QED
    BY <1>1, <1>2, <2>1, <2>2, PhaseFiled
<1>6. CASE core' \in ResolveAfterPostLlm(core, id, list)
  BY <1>1, <1>2, <1>3, <1>6, ResolveAfterPostLlmKept
<1> QED
  BY <1>4, <1>5, <1>6

(* A completion, or a hook, that fails, and a hook that skips the turn.    *)
LEMMA EndingFiled ==
    ASSUME IInv, Filed(core), CompletionFailed \/ PreLlmSkip \/ HookFailed
    PROVE  Filed(core')
<1>1. IsActive(core) /\ core.turn.phase.kind \in {"AwaitingCompletion", "PreLlmCall",
                                                  "PostLlmCall", "PostAgentTurn"}
  BY DEF CompletionFailed, PreLlmSkip, HookFailed, InPhase, InCandidateHook
<1>2. Settled(core) /\ Kept(core)
  BY <1>1, WaitingKept
<1>3. core' \in {FinishTurn(core, "Failed"), FinishTurn(core, "Completed")}
  BY DEF CompletionFailed, PreLlmSkip, HookFailed
<1> QED
  BY <1>1, <1>2, <1>3, FinishTurnKept

(* The end of one tool call.                                               *)
LEMMA FinishToolCallFiled ==
    ASSUME IInv, Filed(core), NEW call \in Calls, FinishToolCall(call)
    PROVE  Filed(core')
<1> DEFINE list == core.turn.phase.calls
           open == core.turn.phase.open \ {call}
<1>1. /\ Settled(core) /\ IsActive(core) /\ core.turn.phase \in Phases
      /\ core.turn.phase.kind = "AwaitingToolBatch"
  BY Waiting DEF FinishToolCall, InPhase
<1>2. list \in CallSeqs /\ list # <<>> /\ open \in SUBSET Calls
  BY <1>1 DEF Phases
<1>3. Ledger(core) /\ Opened(core.context, list) /\ core.turn.phase.kind # "PreAgentTurn"
  BY <1>1 DEF Filed, Answered, InPhase
<1>4. core' \in ApplyBatch(core, list, open)
  BY DEF FinishToolCall
<1> HIDE DEF list, open
<1> QED
  BY <1>1, <1>2, <1>3, <1>4, ApplyBatchKept

(* The two answers of the pre-agent hook: the messages held for the turn   *)
(* open it, or are dropped with it.                                        *)
LEMMA PreAgentFiled ==
    ASSUME IInv, Filed(core), PreAgentContinue \/ PreAgentSkip PROVE Filed(core')
<1> DEFINE r == RestoreSuspendedTurn(core)
           msgs == core.turn.phase.content
           opening == [kind |-> "user", ids |-> ToSet(msgs)]
           turn == core.turn.phase.suspended
<1>1. InPhase(core, "PreAgentTurn")
  BY DEF PreAgentContinue, PreAgentSkip
<1>2. /\ core \in State /\ core.turn.phase \in Phases /\ IsActive(core)
      /\ core.turn.phase.kind = "PreAgentTurn"
  BY <1>1, Waiting DEF InPhase
<1>3. Settled(r) /\ core.turn.phase.id \in Nat /\ opening \in Message
  BY <1>1, RestoreSuspendedSound DEF Message, Sound
<1>4. core' = r \/ core' \in CommitTurn(r, core.turn.phase.id, <<opening>>)
  BY DEF PreAgentContinue, PreAgentSkip
<1>5. turn.kind \in {"Idle", "Terminal"}
  BY <1>2 DEF Phases, RestingTurns, Idle
<1>6. r = [core EXCEPT !.turn = turn]
  BY DEF RestoreSuspendedTurn
<1> HIDE DEF r, turn
<1>7. /\ r.turn = turn /\ r.context = core.context /\ r.archived = core.archived
      /\ r.steered = core.steered /\ r.sent = core.sent
      /\ r.received = core.received /\ r.pending = core.pending
  BY <1>2, <1>6 DEF State
<1>8. Resting(r)
  BY <1>5, <1>7 DEF Resting
<1>9. /\ Pends(r) = <<>> /\ Held(r) = {} /\ ~InPhase(r, "PreAgentTurn")
      /\ ~InPhase(r, "AwaitingToolBatch")
  BY <1>8, RestHolds
<1>10. ~InPhase(core, "AwaitingToolBatch")
  BY <1>2 DEF InPhase
<1>11. Kept(core) /\ Pends(core) = <<>>
  BY <1>1, <1>10, FiledKept DEF Filed, Ledger
<1>12. Kept(r)
  BY <1>7, <1>9, <1>11 DEF Kept, Ledger, Reserved
<1>13. Reserved(r, ToSet(msgs))
  <2>1. ToSet(msgs) \subseteq Held(core)
    BY <1>1 DEF Held
  <2> QED
    BY <1>7, <1>11, <2>1 DEF Kept, Ledger, Reserved
<1>14. Plain(<<opening>>, ToSet(r.steered), r.sent) /\ CallFree(<<opening>>)
  <2> HIDE DEF msgs
  <2> QED
    BY <1>13, HeldMessages
<1> HIDE DEF opening
<1>15. <<opening>> \in Seq(Message) /\ <<opening>> # <<>>
  BY <1>3
<1>16. Filed(r)
  BY <1>9, <1>12, KeptFiled
<1> QED
  BY <1>3, <1>4, <1>8, <1>12, <1>14, <1>15, <1>16, CommitTurnKept

(* The pre-LLM hook lets the completion go, with or without a message.     *)
LEMMA PreLlmContinueFiled ==
    ASSUME IInv, Filed(core), PreLlmContinue PROVE Filed(core')
<1> DEFINE phase == AwaitingCompletion(core.turn.phase.completion)
<1>1. IsActive(core) /\ core.turn.phase.kind = "PreLlmCall"
  BY DEF PreLlmContinue, InPhase
<1>2. /\ Settled(core) /\ core \in State /\ Kept(core)
      /\ core.turn.phase \in Phases /\ core.turn.iterations < MaxIterations
  BY <1>1, WaitingKept
<1>3. phase \in Phases /\ phase.kind = "AwaitingCompletion"
  BY <1>1, <1>2 DEF Phases, AwaitingCompletion
<1>4. PICK keyed \in {<<>>, <<Note("keyed")>>} :
        core' \in DispatchAgent([core EXCEPT !.context = core.context \o keyed,
                                             !.turn.phase = phase], TRUE)
  BY DEF PreLlmContinue
<1>5. keyed \in Seq(Message)
  <2>1. Note("keyed") \in Message
    BY DEF Note, Message
  <2>2. <<>> \in Seq(Message) /\ <<Note("keyed")>> \in Seq(Message)
    BY <2>1
  <2> QED
    BY <1>4, <2>2
<1>6. \A i \in DOMAIN keyed : keyed[i].kind = "keyed"
  BY <1>4 DEF Note
<1>7. Plain(keyed, ToSet(core.steered), core.sent) /\ CallFree(keyed)
  BY <1>6 DEF Plain, CallFree
<1> DEFINE context == core.context \o keyed
           g == [core EXCEPT !.context = context]
           t == [g EXCEPT !.turn.phase = phase]
<1>8. Settled(g) /\ g.turn = core.turn /\ IsActive(g)
  BY <1>1, <1>2, <1>5, ContextGrows DEF IsActive
<1> HIDE DEF phase, context
<1>9. t = [core EXCEPT !.context = context, !.turn.phase = phase]
  BY <1>2 DEF State
<1>10. core' \in DispatchAgent(t, TRUE)
  BY <1>4, <1>9 DEF context
<1>11. Kept(g)
  <2>1. ~InPhase(core, "PreAgentTurn")
    BY <1>1 DEF InPhase
  <2>2. g = [core EXCEPT !.context = context]
    OBVIOUS
  <2> HIDE DEF g
  <2>3. Carries(core, g) /\ g.context = context
    BY <1>2, <2>1, <2>2, ContextCarried
  <2>4. g.context = core.context \o keyed
    BY <2>3 DEF context
  <2> QED
    BY <1>2, <1>5, <1>7, <2>3, <2>4, PlainCarried
<1>12. t = [g EXCEPT !.turn.phase = phase] /\ g \in State
  BY <1>8 DEF Settled
<1> HIDE DEF t, g
<1>13. /\ Settled(t) /\ IsActive(t) /\ t.turn.phase = phase
       /\ t.turn.iterations = g.turn.iterations
  BY <1>3, <1>8, <1>12, PhaseUpdate
<1>14. phase.kind # "PreAgentTurn"
  BY <1>3
<1>15. Carries(g, t) /\ t.context = g.context
  BY <1>8, <1>12, <1>14, PhaseCarried
<1>16. Kept(t)
  BY <1>11, <1>15, CarriedOver
<1>17. Dispatching(t)
  BY <1>2, <1>3, <1>8, <1>13 DEF Dispatching
<1> QED
  BY <1>10, <1>16, <1>17, DispatchKept

(* A candidate that its hook accepts.                                      *)
LEMMA CandidateAcceptFiled ==
    ASSUME IInv, Filed(core), PostLlmAccept \/ PostAgentAccept PROVE Filed(core')
<1> DEFINE id == core.turn.phase.completion
           list == core.turn.phase.calls
<1>1. IsActive(core) /\ core.turn.phase.kind \in {"PostLlmCall", "PostAgentTurn"}
  BY DEF PostLlmAccept, PostAgentAccept, InPhase
<1>2. /\ Settled(core) /\ Kept(core) /\ core.turn.phase \in Phases
      /\ core.turn.phase.kind # "PreAgentTurn"
  BY <1>1, WaitingKept
<1>3. id \in CompletionIds /\ list \in CallSeqs
  BY <1>1, <1>2 DEF Phases
<1>4. core' \in ResolveAfterPostLlm(core, id, list) \/ core' \in ResolveAccepted(core, list)
  BY DEF PostLlmAccept, PostAgentAccept
<1> HIDE DEF id, list
<1> QED
  BY <1>1, <1>2, <1>3, <1>4, ResolveAfterPostLlmKept, ResolveAcceptedKept

(* One more iteration writes nothing into the ledger.                      *)
LEMMA IterationsKept ==
    ASSUME NEW s, Settled(s), IsActive(s), s.turn.phase.kind # "PreAgentTurn", Kept(s)
    PROVE  LET t == [s EXCEPT !.turn.iterations = s.turn.iterations + 1]
           IN  Kept(t) /\ t.turn.phase = s.turn.phase
<1> DEFINE n == s.turn.iterations + 1
           turn == [s.turn EXCEPT !.iterations = n]
           t == [s EXCEPT !.turn = turn]
<1>1. s \in State /\ s.turn \in ActiveTurns
  BY ActiveTurn DEF Settled
<1>2. t = [s EXCEPT !.turn.iterations = s.turn.iterations + 1]
  OBVIOUS
<1> HIDE DEF n
<1>3. /\ turn.kind = "Active" /\ turn.steer = s.turn.steer
      /\ turn.queued = s.turn.queued /\ turn.phase = s.turn.phase
  BY <1>1 DEF ActiveTurns
<1>4. t = [s EXCEPT !.turn = turn]
  OBVIOUS
<1> HIDE DEF turn, t
<1>5. Carries(s, t) /\ t.context = s.context /\ t.turn = turn
  BY <1>1, <1>3, <1>4, TurnCarried
<1>6. Kept(t)
  BY <1>5, CarriedOver
<1> QED
  BY <1>2, <1>3, <1>5, <1>6

(* A candidate that its hook sends back to the model.                      *)
LEMMA CandidateRetryFiled ==
    ASSUME IInv, Filed(core), CandidateRetry PROVE Filed(core')
<1> DEFINE y == <<Note("feedback")>>
           context == Append(core.context, Note("feedback"))
           i == [core EXCEPT !.turn.iterations = core.turn.iterations + 1]
           t == [i EXCEPT !.context = i.context \o y]
<1>1. IsActive(core) /\ core.turn.phase.kind \in {"PostLlmCall", "PostAgentTurn"}
  BY DEF CandidateRetry, InCandidateHook, InPhase
<1>2. /\ Settled(core) /\ core \in State /\ Kept(core)
      /\ core.turn.phase.kind # "PreAgentTurn"
  BY <1>1, WaitingKept
<1>3. /\ Settled(i) /\ IsActive(i)
      /\ i.turn.iterations = core.turn.iterations + 1
  BY <1>1, <1>2, IterationsUpdate
<1>4. Kept(i) /\ i.turn.phase = core.turn.phase
  BY <1>1, <1>2, IterationsKept
<1>5. y \in Seq(Message) /\ y # <<>>
  BY DEF Note, Message
<1>6. i.context = core.context /\ core.context \in Seq(Message)
  BY <1>2 DEF State
<1>7. context = i.context \o y
  <2>1. Note("feedback") \in Message
    BY DEF Note, Message
  <2> HIDE DEF i
  <2> QED
    BY <1>6, <2>1
<1>8. t = [core EXCEPT !.turn.iterations = core.turn.iterations + 1,
                       !.context = context]
  BY <1>2, <1>7 DEF State
<1>9. core' \in ContinueActiveTurn(t, TRUE)
  BY <1>8 DEF CandidateRetry
<1>10. Plain(y, ToSet(i.steered), i.sent) /\ CallFree(y)
  BY DEF Plain, CallFree, Note
<1> HIDE DEF i, y
<1>11. Settled(t) /\ NextIsNew(t) /\ t.turn = i.turn
  BY <1>3, <1>5, ContextGrows
<1>12. ~InPhase(i, "PreAgentTurn") /\ i \in State
  BY <1>2, <1>3, <1>4 DEF InPhase, Settled
<1>13. t = [i EXCEPT !.context = i.context \o y]
  OBVIOUS
<1> DEFINE grown == i.context \o y
<1>14. t = [i EXCEPT !.context = grown]
  BY <1>13
<1> HIDE DEF t, context, grown
<1>15. Carries(i, t) /\ t.context = grown
  BY ONLY <1>12, <1>14, ContextCarried
<1>16. Carries(i, t) /\ t.context = i.context \o y
  BY <1>15 DEF grown
<1>17. Kept(t)
  BY <1>4, <1>5, <1>10, <1>12, <1>16, PlainCarried
<1>18. t \in State /\ DistinctIds(t) /\ IsActive(t)
  BY <1>3, <1>11 DEF Settled, IsActive
<1>19. core.turn.iterations + 1 < MaxIterations
  BY DEF CandidateRetry
<1> QED
  BY <1>2, <1>3, <1>4, <1>9, <1>11, <1>17, <1>18, <1>19, ContinueKept

(* A candidate that its hook rejects.                                      *)
LEMMA CandidateRejectFiled ==
    ASSUME IInv, Filed(core), CandidateReject PROVE Filed(core')
<1> DEFINE t == [core EXCEPT !.turn.iterations = core.turn.iterations + 1]
<1>1. IsActive(core) /\ core.turn.phase.kind \in {"PostLlmCall", "PostAgentTurn"}
  BY DEF CandidateReject, InCandidateHook, InPhase
<1>2. /\ Settled(core) /\ Kept(core) /\ core.turn.phase.kind # "PreAgentTurn"
  BY <1>1, WaitingKept
<1>3. Settled(t) /\ IsActive(t)
  BY <1>1, <1>2, IterationsUpdate
<1>4. Kept(t)
  BY <1>1, <1>2, IterationsKept
<1>5. core' = FinishTurn(t, "Rejected")
  BY DEF CandidateReject
<1> HIDE DEF t
<1> QED
  BY <1>3, <1>4, <1>5, FinishTurnKept

(* The end of a compaction, or another attempt at it.                      *)
LEMMA CompactionFiled ==
    ASSUME IInv, Filed(core), SummaryAccepted \/ SummaryRejected \/ CompactionFailed
    PROVE  Filed(core')
<1>1. Sound(core) /\ Settled(core) /\ IsCompacting(core)
  BY DEF IInv, Sound, SummaryAccepted, SummaryRejected, CompactionFailed
<1>2. CASE SummaryAccepted
  <2>1. PICK keep \in KeptPositions(core.context) :
          core' \in CompactionAccepted(core, keep)
    BY <1>2 DEF SummaryAccepted
  <2> QED
    BY <1>1, <2>1, CompactionAcceptedKept
<1>3. CASE SummaryRejected
  BY <1>1, <1>3, RejectSummaryKept DEF SummaryRejected
<1>4. CASE CompactionFailed
  BY <1>1, <1>4, CompactingKept, FailCompactionKept DEF CompactionFailed
<1> QED
  BY <1>2, <1>3, <1>4

(* A new session has an empty ledger.                                      *)
LEMMA InitFiled == Init => Filed(core)
<1> SUFFICES ASSUME Init
             PROVE  Filed(core)
  OBVIOUS
<1>1. /\ core.turn = Idle /\ core.context = <<>> /\ core.archived = <<>>
      /\ core.steered = <<>> /\ core.sent = 0 /\ core.received = {}
      /\ core.pending = <<>>
  BY DEF Init
<1>2. Resting(core)
  BY <1>1 DEF Resting, Idle
<1>3. /\ Pends(core) = <<>> /\ Held(core) = {} /\ ~InPhase(core, "PreAgentTurn")
      /\ ~InPhase(core, "AwaitingToolBatch")
  BY <1>2, RestHolds
<1>4. DOMAIN <<>> = {} /\ ToSet(<<>>) = {}
  BY DEF ToSet
<1>5. /\ Plain(<<>>, {}, 0) /\ Rising(<<>>) /\ Complete(<<>>)
  BY <1>4 DEF Plain, Rising, Complete
<1>6. /\ Orderly(<<>>, {}) /\ Said(<<>>, {}) = {} /\ Told(<<>>) = {}
      /\ Within(<<>>, 0)
  BY <1>5, PlainTells
<1>7. Accounted(core.steered, core.sent, core.archived, core.context, <<>>)
  BY <1>1, <1>4, <1>5, <1>6 DEF Accounted, Before
<1>8. Reported(core.received, core.pending, core.archived, core.context)
  BY <1>1, <1>4, <1>6 DEF Reported, IsInjective
<1>9. Kept(core)
  BY <1>1, <1>3, <1>5, <1>7, <1>8 DEF Kept, Ledger, Reserved
<1> QED
  BY <1>3, <1>9, KeptFiled

(* Every step keeps the ledger.                                            *)
LEMMA NextFiled == IInv /\ Filed(core) /\ [Next]_vars => Filed(core')
<1> SUFFICES ASSUME IInv, Filed(core), [Next]_vars
             PROVE  Filed(core')
  OBVIOUS
<1>1. CASE UNCHANGED vars \/ LateInterrupt
  BY <1>1 DEF vars, LateInterrupt
<1>2. CASE QueueAtRest \/ OpenFollowUp \/ ExtendFollowUp \/ Steer \/ ContextMessage
  BY <1>2, QueueAtRestFiled, OpenFollowUpFiled, ExtendFollowUpFiled, SteerFiled,
     ContextMessageFiled
<1>3. CASE \E n \in Notifications : ReceiveNotification(n)
  BY <1>3, ReceiveNotificationFiled
<1>4. CASE ManualCompaction \/ Reconfigure \/ Interrupt \/ FailTurn
  BY <1>4, ManualCompactionFiled, ReconfigureFiled, AbandonFiled
<1>5. CASE Answer
  <2>1. CASE CompletionSucceeded \/ CompletionFailed \/ PreLlmSkip \/ HookFailed
    BY <2>1, CompletionSucceededFiled, EndingFiled
  <2>2. CASE \E call \in Calls : FinishToolCall(call)
    BY <2>2, FinishToolCallFiled
  <2>3. CASE PreAgentContinue \/ PreAgentSkip \/ PreLlmContinue
    BY <2>3, PreAgentFiled, PreLlmContinueFiled
  <2>4. CASE PostLlmAccept \/ PostAgentAccept \/ CandidateRetry \/ CandidateReject
    BY <2>4, CandidateAcceptFiled, CandidateRetryFiled, CandidateRejectFiled
  <2>5. CASE SummaryAccepted \/ SummaryRejected \/ CompactionFailed
    BY <2>5, CompactionFiled
  <2> QED
    BY <1>5, <2>1, <2>2, <2>3, <2>4, <2>5 DEF Answer
<1> QED
  BY <1>1, <1>2, <1>3, <1>4, <1>5 DEF Next

(* The strengthening of IInv that the theorems about the ledger rest on.   *)
FiledInv == IInv /\ Filed(core)

LEMMA FiledAlways == Spec => []FiledInv
<1>1. Init => FiledInv
  BY InitSound, InitFiled DEF FiledInv
<1>2. FiledInv /\ [Next]_vars => FiledInv'
  <2> SUFFICES ASSUME FiledInv, [Next]_vars
               PROVE  FiledInv'
    OBVIOUS
  <2>1. IInv'
    BY NextSound DEF FiledInv
  <2>2. Filed(core')
    BY NextFiled DEF FiledInv
  <2> QED
    BY <2>1, <2>2 DEF FiledInv
<1> QED
  BY <1>1, <1>2, PTL DEF Spec

(* What the transcript and the pending steering say together.              *)
LEMMA TranscriptTells ==
    ASSUME core \in State, Ledger(core)
    PROVE  LET S == ToSet(core.steered)
               said == Transcript \o Users(PendingSteer)
           IN  /\ Transcript \in Seq(Message) /\ said \in Seq(Message)
               /\ Orderly(Transcript, S) /\ Orderly(said, S)
               /\ Said(said, S) = S
               /\ Told(Transcript) = core.received \ ToSet(core.pending)
<1> DEFINE S == ToSet(core.steered)
           pends == Pends(core)
           users == Users(pends)
           said == Transcript \o users
<1>1. /\ core.archived \in Seq(Message) /\ core.context \in Seq(Message)
      /\ core.steered \in Seq(Nat)
  BY DEF State
<1>2. PendingSteer = pends
  BY DEF PendingSteer, Pends
<1>3. pends \in Seq(Nat)
  BY ActiveTurn DEF Pends, ActiveTurns
<1>4. S \in SUBSET Nat
  BY <1>1 DEF ToSet
<1>5. /\ S \subseteq 1..core.sent /\ Rising(pends) /\ ToSet(pends) \subseteq S
      /\ Orderly(core.archived, S) /\ Orderly(core.context, S)
      /\ Before(Said(core.archived, S), Said(core.context, S))
      /\ Before(Said(core.archived, S) \cup Said(core.context, S), ToSet(pends))
      /\ S \subseteq Said(core.archived, S) \cup Said(core.context, S) \cup ToSet(pends)
  BY DEF Ledger, Accounted
<1>6. /\ Told(core.archived) \cap Told(core.context) = {}
      /\ Told(core.archived) \cup Told(core.context)
           = core.received \ ToSet(core.pending)
  BY DEF Ledger, Reported
<1>7. users \in Seq(Message)
  BY <1>3, UsersType
<1> HIDE DEF S, pends
<1>8. /\ Orderly(users, S) /\ Said(users, S) = ToSet(pends) /\ Told(users) = {}
  BY <1>3, <1>5, UsersTell
<1> HIDE DEF users
<1>9. Transcript \in Seq(Message) /\ Orderly(Transcript, S)
  BY <1>1, <1>4, <1>5, <1>6, JoinIndex, JoinOrderly DEF Transcript
<1>10. /\ Said(Transcript, S) = Said(core.archived, S) \cup Said(core.context, S)
       /\ Told(Transcript) = Told(core.archived) \cup Told(core.context)
  BY <1>1, JoinTells DEF Transcript
<1>11. said \in Seq(Message)
  BY <1>7, <1>9
<1>12. Said(said, S) = Said(Transcript, S) \cup Said(users, S)
  BY <1>7, <1>9, JoinTells
<1>13. Before(Said(Transcript, S), Said(users, S)) /\ Told(Transcript) \cap Told(users) = {}
  BY <1>5, <1>8, <1>10
<1>14. Orderly(said, S)
  BY <1>4, <1>7, <1>8, <1>9, <1>13, JoinOrderly
<1>15. Said(said, S) = S
  <2>1. Said(said, S) \subseteq S
    BY DEF Said
  <2> HIDE DEF said
  <2> QED
    BY <1>5, <1>8, <1>10, <1>12, <2>1
<1> QED
  BY <1>2, <1>6, <1>9, <1>10, <1>11, <1>14, <1>15 DEF S, users

(* Numbers that rise are in the order of their positions.                  *)
LEMMA RisingOrder ==
    ASSUME NEW q \in Seq(Nat), Rising(q), NEW k \in DOMAIN q, NEW l \in DOMAIN q
    PROVE  k < l <=> q[k] < q[l]
<1>1. k \in Nat /\ l \in Nat /\ q[k] \in Nat /\ q[l] \in Nat
  OBVIOUS
<1>2. k < l => q[k] < q[l]
  BY DEF Rising
<1>3. l < k => q[l] < q[k]
  BY DEF Rising
<1>4. k = l => q[k] = q[l]
  OBVIOUS
<1> QED
  BY <1>1, <1>2, <1>3, <1>4

(* Every steering message the core acknowledged is in the transcript or    *)
(* still pending on the turn, once, in the order of arrival, however the   *)
(* turn ends (finish_turn, outcome_for_agent_dispatch).                    *)
THEOREM SteeringKept == Spec => []SteeringKeptInOrder
<1>1. FiledInv => SteeringKeptInOrder
  <2> SUFFICES ASSUME FiledInv
               PROVE  SteeringKeptInOrder
    OBVIOUS
  <2> DEFINE S == ToSet(core.steered)
             said == Transcript \o Users(PendingSteer)
  <2>1. core \in State /\ Ledger(core)
    BY DEF FiledInv, IInv, Sound, Settled, Filed
  <2>2. said \in Seq(Message) /\ Orderly(said, S) /\ Said(said, S) = S
    BY <2>1, TranscriptTells
  <2>3. core.steered \in Seq(Nat) /\ Rising(core.steered)
    BY <2>1 DEF State, Ledger, Accounted
  <2>4. \A m : m \in S <=> \E k \in DOMAIN core.steered : core.steered[k] = m
    BY DEF ToSet
  <2> HIDE DEF S, said
  <2>5. \A k \in DOMAIN core.steered : \E i \in DOMAIN said : said[i] = User(core.steered[k])
    BY <2>2, <2>4 DEF Said
  <2>6. \A i \in DOMAIN said :
           said[i].kind = "user" /\ said[i].ids \cap S # {} =>
              \E k \in DOMAIN core.steered : said[i] = User(core.steered[k])
    BY <2>2, <2>4 DEF Orderly
  <2>7. ASSUME NEW i \in DOMAIN said, NEW j \in DOMAIN said,
               NEW k \in DOMAIN core.steered, NEW l \in DOMAIN core.steered,
               said[i] = User(core.steered[k]), said[j] = User(core.steered[l])
        PROVE  i < j => k < l
    <3>1. core.steered[k] \in S /\ core.steered[l] \in S
      BY <2>4
    <3> QED
      BY <2>2, <2>3, <2>7, <3>1, RisingOrder DEF Orderly
  <2>8. ASSUME NEW i \in DOMAIN said, NEW j \in DOMAIN said,
               NEW k \in DOMAIN core.steered, NEW l \in DOMAIN core.steered,
               said[i] = User(core.steered[k]), said[j] = User(core.steered[l])
        PROVE  k < l => i < j
    <3>1. i \in Nat /\ j \in Nat /\ k \in Nat /\ l \in Nat
      BY <2>2, <2>3, SMTT(30)
    <3>2. j < i => l < k
      BY <2>7, <2>8
    <3>3. i = j => core.steered[k] = core.steered[l]
      <4>1. \A m, n : User(m) = User(n) => m = n
        BY DEF User
      <4> QED
        BY <2>8, <4>1
    <3>4. k < l => core.steered[k] < core.steered[l]
      BY <2>3, RisingOrder
    <3>5. core.steered[k] \in Nat
      BY <2>3
    <3> QED
      BY <3>1, <3>2, <3>3, <3>4, <3>5
  <2>9. \A i, j \in DOMAIN said : \A k, l \in DOMAIN core.steered :
           said[i] = User(core.steered[k]) /\ said[j] = User(core.steered[l]) => (i < j <=> k < l)
    BY <2>7, <2>8
  <2> QED
    BY ONLY <2>5, <2>6, <2>9 DEF SteeringKeptInOrder, said, S
<1> QED
  BY <1>1, FiledAlways, PTL

(* Each assistant message with tool calls is followed by one result per    *)
(* call before anything else enters the context; only the batch in         *)
(* progress may still lack them (resolve_tool_batch, interrupted_messages). *)
THEOREM ToolCallsAnsweredHolds == Spec => []ToolCallsAnswered
<1>1. FiledInv => ToolCallsAnswered
  <2> SUFFICES ASSUME FiledInv
               PROVE  ToolCallsAnswered
    OBVIOUS
  <2>1. core.context \in Seq(Message) /\ Answered(core)
    BY DEF FiledInv, IInv, Sound, Settled, State, Filed
  <2>2. SUFFICES ASSUME NEW i \in DOMAIN core.context, core.context[i].kind = "calls"
                 PROVE  \/ AnsweredAt(core.context, i)
                        \/ InPhase(core, "AwaitingToolBatch") /\ i = Len(core.context)
    <3>1. ASSUME NEW i \in DOMAIN core.context, AnsweredAt(core.context, i)
          PROVE  i # Len(core.context)
      <4>1. i \in Nat /\ Len(core.context) \in Nat
        BY <2>1
      <4> QED
        BY <3>1, <4>1 DEF AnsweredAt
    <3> QED
      BY <2>2, <3>1 DEF ToolCallsAnswered, AnsweredAt
  <2>3. CASE ~InPhase(core, "AwaitingToolBatch")
    BY <2>1, <2>2, <2>3 DEF Answered, Complete
  <2>4. CASE InPhase(core, "AwaitingToolBatch")
    <3>1. PICK x \in Seq(Message) :
            /\ Complete(x)
            /\ core.context = Append(x, AssistantMessage(core.turn.phase.calls))
      BY <2>1, <2>4 DEF Answered, Opened
    <3>2. PICK last : last = AssistantMessage(core.turn.phase.calls)
      OBVIOUS
    <3>3. /\ core.context = Append(x, last) /\ Complete(x)
          /\ Len(core.context) = Len(x) + 1 /\ Len(x) \in Nat
          /\ i \in 1..Len(x)+1 /\ DOMAIN x = 1..Len(x)
      BY <2>1, <3>1, <3>2
    <3>4. CASE i # Len(x) + 1
      <4>1. i \in DOMAIN x
        BY <3>3, <3>4
      <4>2. core.context[i] = x[i]
        BY <3>3, <4>1
      <4>3. AnsweredAt(x, i)
        BY <2>2, <3>3, <4>1, <4>2 DEF Complete
      <4>4. last \in Message
        <5>1. core.context[Len(x) + 1] = last /\ Len(x) + 1 \in DOMAIN core.context
          BY <3>3
        <5> QED
          BY <2>1, <5>1
      <4>5. core.context = x \o <<last>> /\ <<last>> \in Seq(Message)
        BY <3>3, <4>4
      <4> QED
        BY <4>1, <4>3, <4>5, AnsweredStill
    <3> QED
      BY <2>4, <3>3, <3>4
  <2> QED
    BY <2>3, <2>4
<1> QED
  BY <1>1, FiledAlways, PTL

(* Each notification received is either pending, once, or was shown to the *)
(* model in one notice message; duplicates and aborted turns change none   *)
(* of this (receive_notification, take_ready).                              *)
THEOREM NotificationsOnceHolds == Spec => []NotificationsOnce
<1>1. FiledInv => NotificationsOnce
  <2> SUFFICES ASSUME FiledInv, NEW n \in core.received
               PROVE  Cardinality({i \in DOMAIN core.pending : core.pending[i] = n})
                      + Cardinality(NoticesOf(Transcript, n)) = 1
    BY DEF NotificationsOnce, NoticesOf
  <2>1. core \in State /\ Ledger(core)
    BY DEF FiledInv, IInv, Sound, Settled, Filed
  <2>2. n \in Notifications
    BY <2>1 DEF State
  <2>3. IsInjective(core.pending)
    BY <2>1 DEF Ledger, Reported
  <2>4. /\ Told(Transcript) = core.received \ ToSet(core.pending)
        /\ Orderly(Transcript, ToSet(core.steered))
    BY <2>1, TranscriptTells
  <2>5. PICK waits : waits = {i \in DOMAIN core.pending : core.pending[i] = n}
    OBVIOUS
  <2>6. PICK told : told = NoticesOf(Transcript, n)
    OBVIOUS
  <2>7. n \in ToSet(core.pending) <=> waits # {}
    BY <2>5 DEF ToSet
  <2>8. told # {} <=> waits = {}
    BY <2>2, <2>4, <2>6, <2>7 DEF Told
  <2>9. \A i, j \in told : i = j
    BY <2>2, <2>4, <2>6 DEF Orderly
  <2>10. \A i, j \in waits : i = j
    BY <2>3, <2>5 DEF IsInjective
  <2>11. Cardinality({}) = 0
    BY FS_EmptySet
  <2>12. CASE waits = {}
    <3>1. PICK i : told = {i}
      BY <2>8, <2>9, <2>12
    <3>2. Cardinality(told) = 1
      BY <3>1, FS_Singleton
    <3> QED
      BY <2>5, <2>6, <2>11, <2>12, <3>2
  <2>13. CASE waits # {}
    <3>1. PICK i : waits = {i}
      BY <2>10, <2>13
    <3>2. Cardinality(waits) = 1
      BY <3>1, FS_Singleton
    <3>3. told = {}
      BY <2>8, <2>13
    <3> QED
      BY <2>5, <2>6, <2>11, <3>2, <3>3
  <2> QED
    BY <2>12, <2>13
<1> QED
  BY <1>1, FiledAlways, PTL

-----------------------------------------------------------------------------
(* That every answer takes its turn further.                               *)

(* The turn is over, or another one runs.                                  *)
Over(t, id) == ~(IsActive(t) /\ t.turn.id = id)

(* The turn plans its next completion, or waits for one more compaction.   *)
Plans(t, id, iterations, compactions) ==
    IsActive(t) /\ t.turn.id = id =>
        /\ t.turn.iterations = iterations
        /\ \/ /\ t.compactions = compactions
              /\ t.turn.phase.kind \in {"PreLlmCall", "AwaitingCompletion"}
           \/ /\ t.compactions = compactions + 1
              /\ t.turn.phase.kind = "AwaitingCompaction"

LEMMA FinishTurnOver ==
    ASSUME NEW s \in State, NEW outcome, NEW id
    PROVE  Over(FinishTurn(s, outcome), id)
BY DEF FinishTurn, Over, IsActive, Terminal, State

(* Late input moves no turn.                                               *)
LEMMA TakeLateInputPlace ==
    ASSUME NEW s \in State, IsActive(s)
    PROVE  LET t == TakeLateInput(s)
           IN  /\ t.turn.id = s.turn.id /\ t.turn.iterations = s.turn.iterations
               /\ t.compactions = s.compactions /\ IsActive(t)
               /\ t.turn.phase = s.turn.phase
<1> DEFINE late == LateInput(s)
           turn == [s.turn EXCEPT !.steer = <<>>, !.ready = FALSE]
           pending == IF s.notesReady THEN <<>> ELSE s.pending
           t == [s EXCEPT !.context = s.context \o late, !.turn = turn,
                          !.pending = pending, !.notesReady = FALSE]
<1>1. s.turn \in ActiveTurns
  BY ActiveTurn
<1>2. TakeLateInput(s) = IF ~s.turn.ready THEN s ELSE t
  BY <1>1 DEF TakeLateInput, State, ActiveTurns
<1>3. /\ turn.id = s.turn.id /\ turn.iterations = s.turn.iterations
      /\ turn.phase = s.turn.phase /\ turn.kind = "Active"
  BY <1>1 DEF ActiveTurns
<1> HIDE DEF late, turn, pending
<1>4. t.turn = turn /\ t.compactions = s.compactions
  BY DEF State
<1> QED
  BY <1>2, <1>3, <1>4 DEF IsActive

LEMMA PreflightPlans ==
    ASSUME NEW s, Settled(s), IsActive(s), s.turn.phase.kind = "AwaitingCompletion",
           NEW grown, NEW t \in Preflight(s, grown)
    PROVE  /\ Plans(t, s.turn.id, s.turn.iterations, s.compactions)
           /\ ~InPhase(t, "PreLlmCall")
<1> DEFINE counted == CountCompaction(s)
           phase == AwaitingCompaction(counted.turn, counted.compactions, 0)
<1>1. s \in State /\ s.turn \in ActiveTurns /\ s.compactions \in Nat
  BY ActiveTurn DEF Settled, State
<1>2. Settled(counted) /\ counted.turn = s.turn /\ IsActive(counted)
  BY <1>1, CountCompactionSound DEF IsActive
<1>3. counted.compactions = s.compactions + 1
  BY <1>1 DEF CountCompaction, State
<1>4. CASE t = s
  BY <1>4 DEF Plans, InPhase
<1>5. CASE t = FinishTurn(counted, "Failed")
  <2>1. ~IsActive(t)
    BY <1>2, <1>5 DEF FinishTurn, IsActive, Terminal, Settled, State
  <2> QED
    BY <2>1 DEF Plans, InPhase
<1>6. CASE t = AwaitCompaction(counted, 0)
  <2>1. phase \in Phases /\ phase.kind = "AwaitingCompaction"
    BY <1>1, <1>2 DEF Settled, State, ActiveTurns, Phases, AwaitingCompaction
  <2>2. t = [counted EXCEPT !.turn.phase = phase]
    BY <1>6 DEF AwaitCompaction
  <2> HIDE DEF counted, phase
  <2>3. /\ t.turn.phase = phase /\ t.turn.iterations = counted.turn.iterations
        /\ t.compactions = counted.compactions
    BY <1>2, <2>1, <2>2, PhaseUpdate
  <2> QED
    BY <1>2, <1>3, <2>1, <2>3 DEF Plans, InPhase
<1> QED
  BY <1>4, <1>5, <1>6 DEF Preflight

LEMMA DispatchPlans ==
    ASSUME NEW s, Dispatching(s), NEW grown, NEW t \in DispatchAgent(s, grown)
    PROVE  /\ Plans(t, s.turn.id, s.turn.iterations, s.compactions)
           /\ s.turn.phase.kind = "AwaitingCompletion" => ~InPhase(t, "PreLlmCall")
<1>1. CASE s.turn.phase.kind = "AwaitingCompletion"
  <2> DEFINE taken == TakeLateInput(s)
  <2>1. Dispatching(taken)
    BY TakeLateInputSound
  <2>2. /\ taken.turn.id = s.turn.id /\ taken.turn.iterations = s.turn.iterations
        /\ taken.compactions = s.compactions /\ taken.turn.phase = s.turn.phase
    BY TakeLateInputPlace DEF Dispatching, Settled
  <2>3. t \in Preflight(taken, grown \/ LateInput(s) # <<>>)
    BY <1>1 DEF DispatchAgent
  <2> HIDE DEF taken
  <2>4. /\ Plans(t, taken.turn.id, taken.turn.iterations, taken.compactions)
        /\ ~InPhase(t, "PreLlmCall")
    BY <1>1, <2>1, <2>2, <2>3, PreflightPlans DEF Dispatching
  <2> QED
    BY <2>2, <2>4
<1>2. CASE s.turn.phase.kind # "AwaitingCompletion"
  <2>1. t = s /\ s.turn.phase.kind = "PreLlmCall"
    BY <1>2 DEF DispatchAgent, Dispatching
  <2> QED
    BY <2>1 DEF Plans
<1> QED
  BY <1>1, <1>2

LEMMA ContinuePlans ==
    ASSUME NEW s, Settled(s), NextIsNew(s), IsActive(s),
           s.turn.iterations < MaxIterations, NEW grown,
           NEW t \in ContinueActiveTurn(s, grown)
    PROVE  Plans(t, s.turn.id, s.turn.iterations, s.compactions)
<1> DEFINE issue == Issue(s)
           phase == PlannedPhase(s)
           planned == [issue EXCEPT !.turn.phase = phase]
<1>1. s \in State /\ DistinctIds(s) /\ s.turn \in ActiveTurns
  BY ActiveTurn DEF Settled
<1>2. /\ Settled(issue) /\ IsActive(issue) /\ issue.turn = s.turn
      /\ issue.compactions = s.compactions
  BY <1>1, IssueSound DEF IsActive
<1>3. phase \in Phases /\ phase.kind \in {"AwaitingCompletion", "PreLlmCall"}
  BY <1>1, PlannedPhaseType
<1>4. t \in DispatchAgent(planned, grown)
  BY DEF ContinueActiveTurn
<1> DEFINE turn == [s.turn EXCEPT !.phase = phase]
<1> HIDE DEF issue, phase
<1>5. /\ Settled(planned) /\ IsActive(planned) /\ planned.turn = turn
      /\ planned.turn.phase = phase
      /\ planned.turn.iterations = s.turn.iterations
      /\ planned.compactions = s.compactions
  BY <1>2, <1>3, PhaseUpdate
<1>6. turn.id = s.turn.id
  BY <1>1 DEF ActiveTurns
<1> HIDE DEF planned, turn
<1>7. Dispatching(planned)
  BY <1>3, <1>5 DEF Dispatching
<1>8. Plans(t, planned.turn.id, planned.turn.iterations, planned.compactions)
  BY <1>4, <1>7, DispatchPlans
<1> QED
  BY <1>5, <1>6, <1>8

(* A turn that completes is over, whatever follows it.                     *)
LEMMA FinishCompletedTurnOver ==
    ASSUME NEW s, Midway(s), NEW t \in FinishCompletedTurn(s)
    PROVE  Over(t, s.turn.id)
<1>1. Completes(s, t)
  BY FinishCompletedTurnSteady
<1>2. \A id, outcome : Terminal(id, outcome).kind = "Terminal"
  BY DEF Terminal
<1>3. CASE s.turn.queued = NoQueue
  BY <1>1, <1>2, <1>3 DEF Completes, Rests, Over, IsActive
<1>4. CASE s.turn.queued # NoQueue
  <2>1. s.turn \in ActiveTurns /\ s.turn.id < s.turn.queued.id
    BY <1>4, ActiveTurn DEF Midway, Settled, Numbers
  <2>2. s.turn.id \in Nat /\ s.turn.queued.id \in Nat
    BY <1>4, <2>1 DEF ActiveTurns, Queues
  <2>3. Over(t, s.turn.queued.id) \/ t.turn.id = s.turn.queued.id
    BY DEF Over
  <2>4. IsActive(t) => t.turn.id = s.turn.queued.id
    BY <1>1, <1>2, <1>4
       DEF Completes, Starts, Admitted, Proceeds, Runs, Rests, InPhase, IsActive
  <2> QED
    BY <2>1, <2>2, <2>4 DEF Over
<1> QED
  BY <1>3, <1>4

LEMMA CompleteOutputPlans ==
    ASSUME NEW s, Midway(s), NextIsNew(s), NEW t \in CompleteOutput(s)
    PROVE  Plans(t, s.turn.id, s.turn.iterations, s.compactions)
<1>1. CASE t \in FinishCompletedTurn(s)
  BY <1>1, FinishCompletedTurnOver DEF Over, Plans
<1>2. CASE s.turn.iterations < MaxIterations /\ t \in ContinueActiveTurn(s, TRUE)
  BY <1>2, ContinuePlans DEF Midway
<1> QED
  BY <1>1, <1>2 DEF CompleteOutput

LEMMA ContinueAfterBatchPlans ==
    ASSUME NEW s, Midway(s), NEW list \in Seq(Calls), list # <<>>,
           NEW t \in ContinueAfterBatch(s, list)
    PROVE  Plans(t, s.turn.id, s.turn.iterations, s.compactions)
<1> DEFINE results == [s EXCEPT !.context = s.context \o ToolResults(list)]
           landed == MarkModelInputReady(results)
<1>1. ToolResults(list) \in Seq(Message) /\ ToolResults(list) # <<>>
  BY ToolResultsType
<1>2. /\ Midway(results) /\ results.turn = s.turn /\ NextIsNew(results)
      /\ results.compactions = s.compactions
  BY <1>1, ContextGrowsSteady DEF Midway, Settled, State
<1>3. \/ landed.turn.iterations >= MaxIterations /\ t \in FinishCompletedTurn(landed)
      \/ ~(landed.turn.iterations >= MaxIterations) /\ t \in ContinueActiveTurn(landed, TRUE)
  BY DEF ContinueAfterBatch
<1> HIDE DEF results
<1>4. /\ Midway(landed) /\ landed.turn.id = s.turn.id
      /\ landed.turn.iterations = s.turn.iterations
      /\ landed.compactions = s.compactions /\ NextIsNew(landed)
  BY <1>2, MarkModelInputReadySteady, MarkModelInputReadySound DEF Midway
<1> HIDE DEF landed
<1>5. landed.turn.iterations \in Nat
  BY <1>4, ActiveTurn DEF Midway, Settled, ActiveTurns
<1>6. CASE t \in FinishCompletedTurn(landed)
  BY <1>4, <1>6, FinishCompletedTurnOver DEF Over, Plans
<1>7. CASE /\ ~(landed.turn.iterations >= MaxIterations)
           /\ t \in ContinueActiveTurn(landed, TRUE)
  <2>1. landed.turn.iterations < MaxIterations
    BY <1>5, <1>7, IterationAssumption
  <2>2. Plans(t, landed.turn.id, landed.turn.iterations, landed.compactions)
    BY <1>4, <1>7, <2>1, ContinuePlans DEF Midway
  <2> QED
    BY <1>4, <2>2
<1> QED
  BY <1>3, <1>6, <1>7

(* The batch waits for the calls that are still open.                      *)
Waits(t, id, iterations, compactions, open) ==
    /\ IsActive(t) /\ t.turn.id = id
    /\ t.turn.iterations = iterations /\ t.compactions = compactions
    /\ t.turn.phase.kind = "AwaitingToolBatch" /\ t.turn.phase.open = open

LEMMA ApplyBatchMoves ==
    ASSUME NEW s, Midway(s), NEW list \in CallSeqs, list # <<>>,
           NEW open \in SUBSET Calls, NEW t \in ApplyBatch(s, list, open)
    PROVE  \/ Plans(t, s.turn.id, s.turn.iterations, s.compactions)
           \/ Waits(t, s.turn.id, s.turn.iterations, s.compactions, open)
<1> DEFINE phase == AwaitingToolBatch(list, open)
<1>1. CASE open = {}
  <2>1. list \in Seq(Calls) /\ t \in ContinueAfterBatch(s, list)
    BY <1>1, CallSeqsType DEF ApplyBatch
  <2> QED
    BY <2>1, ContinueAfterBatchPlans
<1>2. CASE open # {}
  <2>1. /\ phase \in Phases /\ phase.kind = "AwaitingToolBatch" /\ phase.open = open
    BY DEF AwaitingToolBatch, Phases
  <2>2. t = [s EXCEPT !.turn.phase = phase]
    BY <1>2 DEF ApplyBatch
  <2> HIDE DEF phase
  <2>3. /\ IsActive(t) /\ t.turn.phase = phase
        /\ t.turn.iterations = s.turn.iterations /\ t.turn.id = s.turn.id
        /\ t.compactions = s.compactions
    <3>1. Settled(s) /\ IsActive(s) /\ s.turn \in ActiveTurns
      BY ActiveTurn DEF Midway, Settled
    <3>2. /\ IsActive(t) /\ t.turn = [s.turn EXCEPT !.phase = phase]
          /\ t.compactions = s.compactions /\ t.turn.phase = phase
      BY <2>1, <2>2, <3>1, PhaseUpdate
    <3> QED
      BY <3>1, <3>2 DEF ActiveTurns
  <2> QED
    BY <2>1, <2>3 DEF Waits
<1> QED
  BY <1>1, <1>2

(* The turn is at its next completion, or over.                            *)
Counts(t, id, iterations) ==
    IsActive(t) /\ t.turn.id = id =>
        t.turn.iterations = iterations + 1 /\ t.turn.phase.kind # "PreAgentTurn"

LEMMA ResolveAcceptedCounts ==
    ASSUME NEW s, Midway(s), NEW list \in CallSeqs,
           NEW t \in ResolveAccepted(s, list)
    PROVE  Counts(t, s.turn.id, s.turn.iterations)
<1>1. PICK reported \in BOOLEAN : t \in Proceed(Accepted(s, list, reported), list)
  BY ResolveAcceptedPicks
<1> DEFINE a == Accepted(s, list, reported)
<1>2. /\ Midway(a) /\ NextIsNew(a) /\ a.turn.id = s.turn.id
      /\ a.turn.iterations = s.turn.iterations + 1
  BY AcceptedSteady
<1>3. CASE list = <<>>
  <2> DEFINE m == MarkModelInputReady(a)
  <2>1. t \in CompleteOutput(m)
    BY <1>1, <1>3 DEF Proceed
  <2> HIDE DEF a
  <2>2. /\ Midway(m) /\ m.turn.id = a.turn.id
        /\ m.turn.iterations = a.turn.iterations /\ NextIsNew(m)
    BY <1>2, MarkModelInputReadySteady
  <2> HIDE DEF m
  <2>3. Plans(t, m.turn.id, m.turn.iterations, m.compactions)
    BY <2>1, <2>2, CompleteOutputPlans
  <2> QED
    BY <1>2, <2>2, <2>3 DEF Plans, Counts
<1>4. CASE list # <<>>
  <2>1. PICK open \in SUBSET ToSet(list) : t \in ApplyBatch(a, list, open)
    BY <1>1, <1>4 DEF Proceed
  <2> HIDE DEF a
  <2>2. open \in SUBSET Calls
    BY <2>1, CallSeqsType DEF ToSet
  <2>3. \/ Plans(t, a.turn.id, a.turn.iterations, a.compactions)
        \/ Waits(t, a.turn.id, a.turn.iterations, a.compactions, open)
    BY <1>2, <1>4, <2>1, <2>2, ApplyBatchMoves
  <2> QED
    BY <1>2, <2>3 DEF Plans, Waits, Counts
<1> QED
  BY <1>3, <1>4

LEMMA ResolveAfterPostLlmMoves ==
    ASSUME NEW s, Midway(s), NEW id \in CompletionIds, NEW list \in CallSeqs,
           NEW t \in ResolveAfterPostLlm(s, id, list)
    PROVE  \/ Counts(t, s.turn.id, s.turn.iterations)
           \/ /\ t.turn.iterations = s.turn.iterations
              /\ t.compactions = s.compactions
              /\ t.turn.phase.kind = "PostAgentTurn"
<1> DEFINE phase == CompletionHook("PostAgentTurn", id, list)
<1>1. CASE t \in ResolveAccepted(s, list)
  BY <1>1, ResolveAcceptedCounts
<1>2. CASE t = [s EXCEPT !.turn.phase = phase]
  <2>1. phase \in Phases /\ phase.kind = "PostAgentTurn"
    BY DEF CompletionHook, Phases
  <2> HIDE DEF phase
  <2>2. Settled(s) /\ IsActive(s)
    BY DEF Midway
  <2>3. /\ t.turn.phase = phase /\ t.turn.iterations = s.turn.iterations
        /\ t.compactions = s.compactions
    BY <1>2, <2>1, <2>2, PhaseUpdate
  <2> QED
    BY <2>1, <2>3
<1> QED
  BY <1>1, <1>2 DEF ResolveAfterPostLlm

-----------------------------------------------------------------------------
(* How far each action takes the turn.                                     *)

Advanced(s, t) ==
    /\ SameTurn(s, t) => Further(s, t)
    /\ s.turn.kind = "Compacting" /\ t.turn.kind = "Compacting" =>
           t.turn.attempt > s.turn.attempt

Stays(s, t) ==
    /\ SameTurn(s, t) => SamePlace(s, t)
    /\ s.turn.kind = "Compacting" /\ t.turn.kind = "Compacting" => t.turn = s.turn

LEMMA Stages ==
    /\ Stage["AwaitingToolBatch"] = 0 /\ Stage["AwaitingCompaction"] = 1
    /\ Stage["PreLlmCall"] = 2 /\ Stage["AwaitingCompletion"] = 3
    /\ Stage["PostLlmCall"] = 4 /\ Stage["PostAgentTurn"] = 5
BY DEF Stage

LEMMA OverAdvanced ==
    ASSUME NEW s, IsActive(s), NEW t, Over(t, s.turn.id)
    PROVE  Advanced(s, t) /\ Stays(s, t)
BY DEF Advanced, Stays, Over, SameTurn, IsActive

LEMMA CountsAdvanced ==
    ASSUME NEW s \in State, IsActive(s), NEW t,
           Counts(t, s.turn.id, s.turn.iterations)
    PROVE  Advanced(s, t)
<1>1. s.turn.iterations \in Nat
  BY ActiveTurn DEF ActiveTurns
<1> QED
  BY <1>1 DEF Advanced, Counts, SameTurn, IsActive, Further

LEMMA PlansAdvanced ==
    ASSUME NEW s \in State, IsActive(s), NEW t,
           Plans(t, s.turn.id, s.turn.iterations, s.compactions),
           \/ s.turn.phase.kind \in {"AwaitingToolBatch", "AwaitingCompaction"}
           \/ s.turn.phase.kind = "PreLlmCall" /\ ~InPhase(t, "PreLlmCall")
    PROVE  Advanced(s, t)
<1>1. s.compactions \in Nat /\ s.turn.kind # "Compacting"
  BY DEF State, IsActive
<1>2. ASSUME SameTurn(s, t) PROVE Further(s, t)
  <2>1. IsActive(t) /\ t.turn.iterations = s.turn.iterations
    BY <1>2 DEF SameTurn, Plans
  <2>2. CASE t.compactions = s.compactions + 1 /\ t.turn.phase.kind = "AwaitingCompaction"
    BY <1>1, <2>1, <2>2 DEF Further
  <2>3. CASE /\ t.compactions = s.compactions
             /\ t.turn.phase.kind \in {"PreLlmCall", "AwaitingCompletion"}
    <3>1. Stage[t.turn.phase.kind] > Stage[s.turn.phase.kind]
      BY <2>1, <2>3, Stages DEF InPhase
    <3> QED
      BY <2>1, <2>3, <3>1 DEF Further
  <2> QED
    BY <1>2, <2>2, <2>3 DEF SameTurn, Plans
<1> QED
  BY <1>1, <1>2 DEF Advanced

(* A phase reached without another model call.                             *)
LEMMA StageAdvanced ==
    ASSUME NEW s \in State, IsActive(s), NEW t,
           t.turn.iterations = s.turn.iterations, t.compactions = s.compactions,
           t.turn.phase.kind # "PreAgentTurn",
           Stage[t.turn.phase.kind] > Stage[s.turn.phase.kind]
    PROVE  Advanced(s, t)
BY DEF Advanced, SameTurn, IsActive, Further

LEMMA CompletionSucceededAdvanced ==
    ASSUME IInv, Steady(core), CompletionSucceeded PROVE Advanced(core, core')
<1> DEFINE id == core.turn.phase.completion
<1>1. /\ IsActive(core) /\ Midway(core) /\ core.turn.phase \in Phases
      /\ core.turn.phase.kind = "AwaitingCompletion" /\ core \in State /\ Settled(core)
  BY BetweenSteps DEF CompletionSucceeded, InPhase
<1>2. id \in CompletionIds
  BY <1>1 DEF Phases
<1>3. PICK list \in CallSeqs :
        \/ core' = [core EXCEPT !.turn.phase = CompletionHook("PostLlmCall", id, list)]
        \/ core' \in ResolveAfterPostLlm(core, id, list)
  BY DEF CompletionSucceeded, CallSeqs
<1> HIDE DEF id
<1>4. CASE core' = [core EXCEPT !.turn.phase = CompletionHook("PostLlmCall", id, list)]
  <2> DEFINE phase == CompletionHook("PostLlmCall", id, list)
  <2>1. phase \in Phases /\ phase.kind = "PostLlmCall"
    BY <1>2 DEF CompletionHook, Phases
  <2>2. core' = [core EXCEPT !.turn.phase = phase]
    BY <1>4
  <2> HIDE DEF phase
  <2>3. /\ core'.turn.phase = phase /\ core'.compactions = core.compactions
        /\ core'.turn.iterations = core.turn.iterations
    BY <1>1, <2>1, <2>2, PhaseUpdate
  <2> QED
    BY <1>1, <2>1, <2>3, Stages, StageAdvanced
<1>5. CASE core' \in ResolveAfterPostLlm(core, id, list)
  <2>1. \/ Counts(core', core.turn.id, core.turn.iterations)
        \/ /\ core'.turn.iterations = core.turn.iterations
           /\ core'.compactions = core.compactions
           /\ core'.turn.phase.kind = "PostAgentTurn"
    BY <1>1, <1>2, <1>5, ResolveAfterPostLlmMoves
  <2> QED
    BY <1>1, <2>1, CountsAdvanced, StageAdvanced, Stages
<1> QED
  BY <1>3, <1>4, <1>5

LEMMA FinishToolCallAdvanced ==
    ASSUME IInv, Steady(core), NEW call \in Calls, FinishToolCall(call)
    PROVE  Advanced(core, core')
<1> DEFINE list == core.turn.phase.calls
           open == core.turn.phase.open \ {call}
<1>1. /\ IsActive(core) /\ Midway(core) /\ core.turn.phase \in Phases
      /\ core.turn.phase.kind = "AwaitingToolBatch" /\ core \in State
      /\ call \in core.turn.phase.open
  BY BetweenSteps DEF FinishToolCall, InPhase
<1>2. list \in CallSeqs /\ list # <<>> /\ open \in SUBSET Calls
  BY <1>1 DEF Phases
<1>3. core' \in ApplyBatch(core, list, open)
  BY DEF FinishToolCall
<1>4. open \subseteq core.turn.phase.open /\ open # core.turn.phase.open
  BY <1>1
<1> HIDE DEF list, open
<1>5. \/ Plans(core', core.turn.id, core.turn.iterations, core.compactions)
      \/ Waits(core', core.turn.id, core.turn.iterations, core.compactions, open)
  BY <1>1, <1>2, <1>3, ApplyBatchMoves
<1>6. CASE Waits(core', core.turn.id, core.turn.iterations, core.compactions, open)
  BY <1>1, <1>4, <1>6 DEF Waits, Advanced, SameTurn, IsActive, Further
<1> QED
  BY <1>1, <1>5, <1>6, PlansAdvanced

(* The turn of a pre-agent hook starts, or never was.                      *)
LEMMA PreAgentAdvanced ==
    ASSUME IInv, Steady(core), PreAgentContinue \/ PreAgentSkip
    PROVE  Advanced(core, core')
<1>1. InPhase(core, "PreAgentTurn") /\ IsActive(core)
  BY DEF PreAgentContinue, PreAgentSkip, InPhase
<1>2. CASE PreAgentSkip
  <2>1. ~IsActive(core')
    BY <1>1, <1>2, SuspendedRestored DEF PreAgentSkip, Resting, IsActive
  <2> QED
    BY <1>1, <2>1, OverAdvanced DEF Over
<1>3. CASE PreAgentContinue
  <2>1. Proceeds(core', core.turn.id, core.lastFinished)
    BY <1>3, PreAgentContinueSteady
  <2>2. ~InPhase(core', "PreAgentTurn")
    BY <2>1 DEF Proceeds, Runs, Rests, InPhase, IsActive, Terminal
  <2> QED
    BY <1>1, <2>2 DEF Advanced, SameTurn, IsActive, InPhase, Further
<1> QED
  BY <1>2, <1>3

LEMMA PreLlmContinueAdvanced ==
    ASSUME IInv, Steady(core), PreLlmContinue PROVE Advanced(core, core')
<1> DEFINE phase == AwaitingCompletion(core.turn.phase.completion)
<1>1. /\ core \in State /\ IsActive(core) /\ Midway(core) /\ Poised(core)
      /\ core.turn.phase \in Phases /\ core.turn.phase.kind = "PreLlmCall"
      /\ core.turn.iterations < MaxIterations
  BY BetweenSteps, Waiting DEF PreLlmContinue, InPhase
<1>2. phase \in Phases /\ phase.kind = "AwaitingCompletion"
  BY <1>1 DEF Phases, AwaitingCompletion
<1>3. PICK keyed \in {<<>>, <<Note("keyed")>>} :
        core' \in DispatchAgent([core EXCEPT !.context = core.context \o keyed,
                                             !.turn.phase = phase], TRUE)
  BY DEF PreLlmContinue
<1>4. keyed \in Seq(Message)
  <2>1. <<>> \in Seq(Message) /\ <<Note("keyed")>> \in Seq(Message)
    BY DEF Note, Message
  <2> QED
    BY <1>3, <2>1
<1> DEFINE context == core.context \o keyed
           g == [core EXCEPT !.context = context]
           t == [g EXCEPT !.turn.phase = phase]
<1>5. Midway(g) /\ g.turn = core.turn /\ g.compactions = core.compactions
  BY <1>1, <1>4, ContextGrowsSteady DEF State
<1> HIDE DEF phase, context
<1>6. t = [core EXCEPT !.context = context, !.turn.phase = phase]
  BY <1>1 DEF State
<1>7. core' \in DispatchAgent(t, TRUE)
  BY <1>3, <1>6 DEF context
<1>8. phase.kind # "PreAgentTurn" /\ g.turn.phase.kind # "PreAgentTurn"
  BY <1>1, <1>2, <1>5
<1> HIDE DEF g
<1>9. /\ Midway(t) /\ t.turn.phase = phase /\ t.turn.id = core.turn.id
      /\ t.turn.iterations = core.turn.iterations
      /\ t.compactions = core.compactions
  <2>1. /\ Midway(t) /\ t.turn.phase = phase /\ t.turn.id = g.turn.id
        /\ t.turn.iterations = g.turn.iterations
    BY <1>2, <1>5, <1>8, PhaseSteady
  <2>2. t.compactions = g.compactions
    BY <1>2, <1>5, PhaseUpdate DEF Midway
  <2> HIDE DEF t
  <2> QED
    BY <1>5, <2>1, <2>2
<1> HIDE DEF t
<1>10. Dispatching(t)
  BY <1>1, <1>2, <1>9 DEF Dispatching, Midway
<1>11. /\ Plans(core', t.turn.id, t.turn.iterations, t.compactions)
       /\ ~InPhase(core', "PreLlmCall")
  BY <1>2, <1>7, <1>9, <1>10, DispatchPlans
<1> QED
  BY <1>1, <1>9, <1>11, PlansAdvanced

LEMMA CandidateAcceptAdvanced ==
    ASSUME IInv, Steady(core), PostLlmAccept \/ PostAgentAccept
    PROVE  Advanced(core, core')
<1> DEFINE id == core.turn.phase.completion
           list == core.turn.phase.calls
<1>1. InCandidateHook(core)
  BY DEF PostLlmAccept, PostAgentAccept, InCandidateHook
<1>2. /\ core \in State /\ IsActive(core) /\ Midway(core)
      /\ id \in CompletionIds /\ list \in CallSeqs
  BY <1>1, AtCandidateHook
<1>3. CASE PostLlmAccept
  <2>1. /\ core' \in ResolveAfterPostLlm(core, id, list)
        /\ core.turn.phase.kind = "PostLlmCall"
    BY <1>3 DEF PostLlmAccept, InPhase
  <2>2. \/ Counts(core', core.turn.id, core.turn.iterations)
        \/ /\ core'.turn.iterations = core.turn.iterations
           /\ core'.compactions = core.compactions
           /\ core'.turn.phase.kind = "PostAgentTurn"
    BY <1>2, <2>1, ResolveAfterPostLlmMoves
  <2> QED
    BY <1>2, <2>1, <2>2, CountsAdvanced, StageAdvanced, Stages
<1>4. CASE PostAgentAccept
  <2>1. core' \in ResolveAccepted(core, list)
    BY <1>4 DEF PostAgentAccept
  <2> QED
    BY <1>2, <2>1, ResolveAcceptedCounts, CountsAdvanced
<1> QED
  BY <1>3, <1>4

LEMMA CandidateRetryAdvanced ==
    ASSUME IInv, Steady(core), CandidateRetry PROVE Advanced(core, core')
<1> DEFINE i == [core EXCEPT !.turn.iterations = core.turn.iterations + 1]
           context == Append(core.context, Note("feedback"))
           t == [i EXCEPT !.context = i.context \o <<Note("feedback")>>]
<1>1. InCandidateHook(core) /\ core.turn.iterations + 1 < MaxIterations
  BY DEF CandidateRetry
<1>2. Midway(core) /\ core \in State /\ IsActive(core)
  BY <1>1, AtCandidateHook
<1>3. Note("feedback") \in Message
  BY DEF Note, Message
<1>4. <<Note("feedback")>> \in Seq(Message) /\ <<Note("feedback")>> # <<>>
  BY <1>3
<1>5. /\ Midway(i) /\ i.turn.id = core.turn.id
      /\ i.turn.iterations = core.turn.iterations + 1
      /\ i.context = core.context
  BY <1>2, IterationsSteady
<1>6. context = i.context \o <<Note("feedback")>>
  <2>1. core.context \in Seq(Message)
    BY <1>2 DEF State
  <2> HIDE DEF i
  <2> QED
    BY <1>3, <1>5, <2>1
<1>7. t = [core EXCEPT !.turn.iterations = core.turn.iterations + 1,
                       !.context = context]
  BY <1>2, <1>6 DEF State
<1> HIDE DEF i
<1>8. Midway(t) /\ NextIsNew(t) /\ t.turn = i.turn
  BY <1>4, <1>5, ContextGrowsSteady
<1>9. core' \in ContinueActiveTurn(t, TRUE)
  BY <1>7 DEF CandidateRetry
<1> HIDE DEF t, context
<1>10. Plans(core', t.turn.id, t.turn.iterations, t.compactions)
  BY <1>1, <1>5, <1>8, <1>9, ContinuePlans DEF Midway
<1>11. Counts(core', core.turn.id, core.turn.iterations)
  BY <1>5, <1>8, <1>10 DEF Plans, Counts
<1> QED
  BY <1>2, <1>11, CountsAdvanced

(* A turn that ends is nowhere any more.                                   *)
LEMMA EndAdvanced ==
    ASSUME IInv, Steady(core), IsActive(core), NEW s \in State, NEW outcome,
           core' = FinishTurn(s, outcome)
    PROVE  Advanced(core, core') /\ Stays(core, core')
BY FinishTurnOver, OverAdvanced

LEMMA EndingAdvanced ==
    ASSUME IInv, Steady(core),
           CompletionFailed \/ PreLlmSkip \/ HookFailed \/ CandidateReject
    PROVE  Advanced(core, core')
<1>1. IsActive(core) /\ Midway(core) /\ core \in State
  BY BetweenSteps DEF CompletionFailed, PreLlmSkip, HookFailed, CandidateReject,
                      InPhase, InCandidateHook
<1>2. CASE CompletionFailed \/ PreLlmSkip \/ HookFailed
  BY <1>1, <1>2, EndAdvanced DEF CompletionFailed, PreLlmSkip, HookFailed
<1>3. CASE CandidateReject
  <2> DEFINE i == [core EXCEPT !.turn.iterations = core.turn.iterations + 1]
  <2>1. i \in State
    BY <1>1, IterationsSteady DEF Midway, Settled
  <2>2. core' = FinishTurn(i, "Rejected")
    BY <1>3 DEF CandidateReject
  <2> HIDE DEF i
  <2> QED
    BY <1>1, <2>1, <2>2, EndAdvanced
<1> QED
  BY <1>2, <1>3

(* A turn that a compaction lets go on plans its next completion.          *)
LEMMA CompactionAcceptedPlans ==
    ASSUME NEW s, Sound(s), Steady(s), IsCompacting(s), IsActive(s),
           NEW keep \in KeptPositions(s.context),
           NEW t \in CompactionAccepted(s, keep)
    PROVE  Plans(t, s.turn.id, s.turn.iterations, s.compactions)
<1> DEFINE recorded == PositionsOf(s.context, {"user", "notice"})
<1>1. s \in State /\ Settled(s) /\ AllBeforeCompaction(s) /\ s.context \in Seq(Message)
  BY DEF Sound, Settled, State
<1>2. keep \in SUBSET DOMAIN s.context /\ recorded \ keep \in SUBSET DOMAIN s.context
  BY KeptPositionsType DEF PositionsOf
<1>3. PICK kept \in Arranged(s.context, keep),
           removed \in Arranged(s.context, recorded \ keep) :
              t \in CompactionResumes(ReplaceContext(s, kept, removed))
  BY DEF CompactionAccepted
<1> DEFINE r == ReplaceContext(s, kept, removed)
           m == MarkModelInputReady(r)
<1>4. kept \in Seq(Message) /\ removed \in Seq(Message)
  BY <1>1, <1>2, ArrangedType
<1>5. r \in State /\ NextIsNew(r) /\ Settled(r) /\ r.turn = s.turn
  BY <1>1, <1>4, ReplaceContextSound
<1>6. /\ r.compactions = s.compactions /\ r.lastFinished = s.lastFinished
      /\ r.turns = s.turns /\ r.pending = s.pending
      /\ r.notesReady = s.notesReady /\ r.received = s.received
  BY <1>1 DEF ReplaceContext, State
<1>7. t \in CompactionResumes(r)
  BY <1>3
<1> HIDE DEF r
<1>8. Numbers(r) /\ Notices(r)
  BY <1>5, <1>6 DEF Steady, Numbers, Notices, IsActive
<1>9. IsActive(r) /\ Midway(r)
  BY <1>5, <1>8 DEF IsActive, Midway
<1>10. t \in ContinueActiveTurn(m, FALSE)
  BY <1>7, <1>9 DEF CompactionResumes
<1>11. s.turn.iterations < MaxIterations
  BY DEF IsActive, IsCompacting, InPhase, Sound, HasBudget
<1>12. /\ Midway(m) /\ m.turn.id = r.turn.id /\ NextIsNew(m)
       /\ m.turn.iterations = r.turn.iterations /\ m.compactions = r.compactions
  BY <1>5, <1>9, MarkModelInputReadySteady, MarkModelInputReadySound
<1> HIDE DEF m
<1>13. Plans(t, m.turn.id, m.turn.iterations, m.compactions)
  BY <1>5, <1>10, <1>11, <1>12, ContinuePlans DEF Midway
<1> QED
  BY <1>5, <1>6, <1>12, <1>13

(* A rejected summary is another attempt, or the end of the compaction.    *)
LEMMA SummaryRejectedAdvanced ==
    ASSUME IInv, Steady(core), SummaryRejected PROVE Advanced(core, core')
<1> DEFINE last == PendingCompaction(core).attempt
           attempt == last + 1
<1>1. /\ core \in State /\ Settled(core) /\ Numbers(core) /\ Notices(core)
      /\ IsCompacting(core) /\ core' = RejectSummary(core)
  BY BetweenSteps DEF SummaryRejected
<1>2. CASE last >= MaxSummaryRetries
  <2>1. core' = FailCompaction(core)
    BY <1>1, <1>2 DEF RejectSummary
  <2>2. \/ IsActive(core) /\ Rests(core', core.turn.id, "Failed")
        \/ Idles(core, core')
    BY <1>1, <2>1, FailCompactionSteady
  <2>3. core'.turn.kind \in {"Terminal", "Idle"}
    BY <2>2 DEF Rests, Idles, Terminal, Idle
  <2> QED
    BY <2>3 DEF Advanced, SameTurn, IsActive
<1>3. CASE ~(last >= MaxSummaryRetries) /\ IsActive(core)
  <2> DEFINE phase == [core.turn.phase EXCEPT !.attempt = attempt]
  <2>1. /\ core.turn \in ActiveTurns /\ core.turn.phase \in Phases
        /\ core.turn.phase.kind = "AwaitingCompaction"
    BY <1>1, <1>3, ActiveTurn DEF ActiveTurns, IsCompacting, InPhase, IsActive
  <2>2. core.turn.phase \in [kind : {"AwaitingCompaction"}, id : Nat,
                             iterations : Nat, compaction : Nat, attempt : Nat]
    BY <2>1 DEF Phases
  <2>3. last \in Nat /\ last = core.turn.phase.attempt
    BY <1>3, <2>2 DEF PendingCompaction
  <2>4. core' = [core EXCEPT !.turn.phase.attempt = attempt]
    BY <1>1, <1>3 DEF RejectSummary
  <2> HIDE DEF last
  <2>5. attempt \in Nat /\ attempt > last
    BY <2>3
  <2> HIDE DEF attempt
  <2>6. phase \in Phases /\ phase.kind = "AwaitingCompaction" /\ phase.attempt = attempt
    BY <2>2, <2>5 DEF Phases
  <2>7. core' = [core EXCEPT !.turn.phase = phase]
    BY <2>2, <2>4
  <2> HIDE DEF phase
  <2>8. /\ core'.turn.phase = phase /\ core'.compactions = core.compactions
        /\ core'.turn.iterations = core.turn.iterations
    BY <1>1, <1>3, <2>6, <2>7, PhaseUpdate
  <2> QED
    BY <1>3, <2>1, <2>3, <2>5, <2>6, <2>8 DEF Advanced, Further, SameTurn, IsActive
<1>4. CASE ~(last >= MaxSummaryRetries) /\ ~IsActive(core)
  <2> DEFINE turn == [core.turn EXCEPT !.attempt = attempt]
  <2>1. core.turn \in CompactingTurns
    BY <1>1, <1>4 DEF IsCompacting, InPhase, IsActive, State, Turns, RestingTurns,
                      Idle, ActiveTurns
  <2>2. last \in Nat /\ last = core.turn.attempt
    BY <1>4, <2>1 DEF PendingCompaction, CompactingTurns
  <2>3. core' = [core EXCEPT !.turn = turn]
    BY <1>1, <1>4 DEF RejectSummary
  <2> HIDE DEF last
  <2>4. attempt > last
    BY <2>2
  <2> HIDE DEF attempt
  <2>5. turn.attempt = attempt
    BY <2>1 DEF CompactingTurns
  <2> HIDE DEF turn
  <2>6. core'.turn = turn
    BY <1>1, <2>3 DEF State
  <2> QED
    BY <1>4, <2>2, <2>4, <2>5, <2>6 DEF Advanced, SameTurn
<1> QED
  BY <1>2, <1>3, <1>4

LEMMA CompactionAdvanced ==
    ASSUME IInv, Steady(core), SummaryAccepted \/ SummaryRejected \/ CompactionFailed
    PROVE  Advanced(core, core')
<1>1. /\ Sound(core) /\ Settled(core) /\ Numbers(core) /\ Notices(core)
      /\ IsCompacting(core) /\ core \in State
  BY BetweenSteps DEF IInv, SummaryAccepted, SummaryRejected, CompactionFailed
<1>2. IsActive(core) => core.turn.phase.kind = "AwaitingCompaction"
  BY <1>1 DEF IsCompacting, InPhase, IsActive
<1>3. Idles(core, core') => Advanced(core, core')
  BY DEF Idles, Idle, Advanced, SameTurn, IsActive
<1>4. CASE SummaryAccepted
  <2>1. PICK keep \in KeptPositions(core.context) : core' \in CompactionAccepted(core, keep)
    BY <1>4 DEF SummaryAccepted
  <2>2. CASE IsActive(core)
    BY <1>1, <1>2, <2>1, <2>2, CompactionAcceptedPlans, PlansAdvanced
  <2>3. CASE ~IsActive(core)
    BY <1>1, <1>3, <2>1, <2>3, CompactionAcceptedSteady
  <2> QED
    BY <2>2, <2>3
<1>5. CASE CompactionFailed
  <2>1. core' = FailCompaction(core)
    BY <1>5 DEF CompactionFailed
  <2>2. CASE IsActive(core)
    BY <1>1, <2>1, <2>2, EndAdvanced DEF FailCompaction
  <2>3. CASE ~IsActive(core)
    BY <1>1, <1>3, <2>1, <2>3, FailCompactionSteady
  <2> QED
    BY <2>2, <2>3
<1> QED
  BY <1>4, <1>5, SummaryRejectedAdvanced

LEMMA AnswerAdvanced ==
    ASSUME IInv, Steady(core), Answer PROVE Advanced(core, core')
<1>1. CASE CompletionSucceeded \/ PreLlmContinue
  BY <1>1, CompletionSucceededAdvanced, PreLlmContinueAdvanced
<1>2. CASE CompletionFailed \/ PreLlmSkip \/ HookFailed \/ CandidateReject
  BY <1>2, EndingAdvanced
<1>3. CASE \E call \in Calls : FinishToolCall(call)
  BY <1>3, FinishToolCallAdvanced
<1>4. CASE PreAgentContinue \/ PreAgentSkip
  BY <1>4, PreAgentAdvanced
<1>5. CASE PostLlmAccept \/ PostAgentAccept \/ CandidateRetry
  BY <1>5, CandidateAcceptAdvanced, CandidateRetryAdvanced
<1>6. CASE SummaryAccepted \/ SummaryRejected \/ CompactionFailed
  BY <1>6, CompactionAdvanced
<1> QED
  BY <1>1, <1>2, <1>3, <1>4, <1>5, <1>6 DEF Answer

(* A message for the turn, or its follow-up, leaves it where it is.        *)
LEMMA MessageStays ==
    ASSUME IInv, Steady(core), OpenFollowUp \/ ExtendFollowUp \/ Steer
    PROVE  Stays(core, core')
<1>1. core \in State /\ IsActive(core) /\ core.turn \in ActiveTurns
  BY BetweenSteps DEF OpenFollowUp, ExtendFollowUp, Steer
<1> DEFINE Same(turn) == turn.phase = core.turn.phase /\ turn.iterations = core.turn.iterations
<1>2. core.turn.kind # "Compacting"
  BY <1>1 DEF IsActive
<1>3. CASE OpenFollowUp
  <2> DEFINE queued == QueuedTurn(NewTurn, <<NewMessage>>)
             turn == [core.turn EXCEPT !.queued = queued]
  <2>1. core' = [core EXCEPT !.sent = core.sent + 1, !.turns = core.turns + 1,
                             !.turn = turn]
    BY <1>1, <1>3 DEF OpenFollowUp, SentInNewTurn, Sent, State
  <2> HIDE DEF queued
  <2>2. Same(turn)
    BY <1>1 DEF ActiveTurns
  <2> HIDE DEF turn
  <2> QED
    BY <1>1, <1>2, <2>1, <2>2 DEF Stays, SamePlace, State
<1>4. CASE ExtendFollowUp
  <2> DEFINE msgs == Append(core.turn.queued.msgs, NewMessage)
             queued == [core.turn.queued EXCEPT !.msgs = msgs]
             turn == [core.turn EXCEPT !.queued = queued]
  <2>1. core' = [core EXCEPT !.sent = core.sent + 1, !.turn = turn]
    BY <1>1, <1>4 DEF ExtendFollowUp, Sent, State
  <2> HIDE DEF queued
  <2>2. Same(turn)
    BY <1>1 DEF ActiveTurns
  <2> HIDE DEF turn
  <2> QED
    BY <1>1, <1>2, <2>1, <2>2 DEF Stays, SamePlace, State
<1>5. CASE Steer
  <2> DEFINE steer == Append(core.turn.steer, NewMessage)
             steered == Append(core.steered, NewMessage)
             turn == [core.turn EXCEPT !.steer = steer]
  <2>1. core' = [core EXCEPT !.sent = core.sent + 1, !.turn = turn, !.steered = steered]
    BY <1>1, <1>5 DEF Steer, Sent, State
  <2> HIDE DEF steer, steered
  <2>2. Same(turn)
    BY <1>1 DEF ActiveTurns
  <2> HIDE DEF turn
  <2> QED
    BY <1>1, <1>2, <2>1, <2>2 DEF Stays, SamePlace, State
<1> QED
  BY <1>3, <1>4, <1>5

LEMMA CommandStays ==
    ASSUME IInv, Steady(core), Next, ~Answer PROVE Stays(core, core')
<1>1. core \in State
  BY BetweenSteps
<1>2. CASE QueueAtRest \/ ContextMessage \/ ManualCompaction \/ Reconfigure
  <2>1. core.turn.kind \in {"Idle", "Terminal"}
    BY <1>2 DEF QueueAtRest, ContextMessage, ManualCompaction, Reconfigure, Resting
  <2> QED
    BY <2>1 DEF Stays, SameTurn, IsActive
<1>3. CASE OpenFollowUp \/ ExtendFollowUp \/ Steer
  BY <1>3, MessageStays
<1>4. CASE \E n \in Notifications : ReceiveNotification(n)
  <2>1. core'.turn = core.turn /\ core'.compactions = core.compactions
    BY <1>1, <1>4 DEF ReceiveNotification, State
  <2> QED
    BY <2>1 DEF Stays, SamePlace
<1>5. CASE Interrupt \/ FailTurn
  <2>1. IsActive(core)
    BY <1>5 DEF Interrupt, FailTurn
  <2>2. CloseToolCalls(core) \in State
    BY <2>1, CloseToolCallsSound DEF IInv, Sound, Settled
  <2>3. \/ core' = FinishTurn(CloseToolCalls(core), "Interrupted")
        \/ core' = FinishTurn(CloseToolCalls(core), "Failed")
    BY <1>5 DEF Interrupt, FailTurn
  <2> QED
    BY <2>1, <2>2, <2>3, EndAdvanced
<1>6. CASE LateInterrupt
  BY <1>6 DEF LateInterrupt, Stays, SamePlace
<1> QED
  BY <1>2, <1>3, <1>4, <1>5, <1>6 DEF Next

(* Every answer takes its turn further or ends it (resolve_accepted,       *)
(* retry_completion, finish_tool_call, reject_summary).                    *)
THEOREM AnswersAdvanceHolds == Spec => AnswersAdvance
<1> DEFINE Step ==
      /\ SameTurn(core, core') =>
            IF Answer THEN Further(core, core') ELSE SamePlace(core, core')
      /\ core.turn.kind = "Compacting" /\ core'.turn.kind = "Compacting" =>
            IF Answer THEN core'.turn.attempt > core.turn.attempt
            ELSE core'.turn = core.turn
<1>1. SteadyInv /\ [Next]_vars => [Step]_vars
  <2> SUFFICES ASSUME SteadyInv, Next
               PROVE  Step
    OBVIOUS
  <2>1. CASE Answer
    BY <2>1, AnswerAdvanced DEF SteadyInv, Advanced
  <2>2. CASE ~Answer
    BY <2>2, CommandStays DEF SteadyInv, Stays
  <2> QED
    BY <2>1, <2>2
<1> QED
  BY <1>1, SteadyAlways, PTL DEF Spec, AnswersAdvance

===============================================================================
