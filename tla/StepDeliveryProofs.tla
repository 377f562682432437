------------------------- MODULE StepDeliveryProofs -------------------------
(***************************************************************************)
(* Theorems about StepDelivery, for every set of messages, every set of    *)
(* calls and every range of input numbers.                                 *)
(*                                                                         *)
(* The argument: what the reducer does to an input never touches the       *)
(* number and the receipt of the session (Delivery lemmas), so the only    *)
(* steps that move them are the commit of a fresh input and the restart.   *)
(* Between a commit and the moment the Runtime learns of it no restart     *)
(* happens, so the receipt is there when the input is sent again.          *)
(*                                                                         *)
(* What the transitions say rests on Exact.  A Runtime that is level       *)
(* performs what the turn waits for, and its copy of the model input is    *)
(* what the session's cursor says it is.  While the answer to an input is  *)
(* under way the Runtime is one transition behind, and that transition is  *)
(* written for the Runtime as it stands (Directs): following it makes the  *)
(* Runtime level again.                                                    *)
(***************************************************************************)
EXTENDS StepDelivery, SequenceTheorems, TLAPS

\* A session has the fields of StepDelivery; nothing else matters here.
Delivers(c) == {"last", "receipt", "response"} \subseteq DOMAIN c

SameDelivery(c, d) ==
  Delivers(d) /\ d.last = c.last /\ d.receipt = c.receipt

\* The receipt is that of the last input that took effect.
ReceiptInv ==
  /\ Delivers(core)
  /\ core.last = count /\ count \in 0..MaxInputId
  /\ core.receipt # NoInput => core.receipt = latest
  /\ latest # NoInput => latest.id = count

\* The Runtime counts with the session, and is at most one input behind: the
\* one it has no answer for.
CountInv ==
  /\ waiting = NoInput => next = count + 1 /\ reply = NoReply
  /\ waiting # NoInput =>
       /\ waiting.id = next
       /\ \/ next = count + 1
          \/ next = count /\ core.receipt = waiting /\ latest = waiting

\* An answer on its way says whether the input took effect.
ReplyInv ==
  reply # NoReply => (reply.result = "accepted" <=> next = count)

IInv == ReceiptInv /\ CountInv /\ ReplyInv

-----------------------------------------------------------------------------
(* Lemmas: the reducer leaves the delivery alone.                          *)

\* ModelContext::commit_revision does not touch the delivery.
LEMMA CommitRevisionDelivery ==
  ASSUME NEW c, Delivers(c), NEW change
  PROVE  change \in {"clean", "append", "replace"} =>
           SameDelivery(c, CommitRevision(c, change))
BY DEF CommitRevision, SameDelivery, Delivers

\* A command is one change of the context.
LEMMA ContextChangeCases ==
  ASSUME NEW c, NEW command
  PROVE  ContextChange(c, command) \in {"clean", "append", "replace"}
BY DEF ContextChange

\* advance_in_place does not touch the delivery.
LEMMA AdvanceDelivery ==
  ASSUME NEW c, Delivers(c), NEW command
  PROVE  SameDelivery(c, Advance(c, command).core)
<1> DEFINE context == ContextAfter(c, command)
           emitted == NewActions(c, command.calls)
           reduced == [c EXCEPT
                    !.context = context,
                    !.catalog = IF command.type = "tools" THEN @ + 1 ELSE @,
                    !.view = IF command.type = "view" THEN OtherView[@] ELSE @,
                    !.pending = Waits(c, command) \o emitted,
                    !.issued = @ + Len(command.calls)]
           after == CommitRevision(reduced, ContextChange(c, command))
<1>1. SameDelivery(c, reduced)
  BY DEF SameDelivery, Delivers
<1> HIDE DEF reduced
<1>2. SameDelivery(reduced, after)
  BY <1>1, CommitRevisionDelivery, ContextChangeCases DEF SameDelivery
<1>3. SameDelivery(c, after)
  BY <1>1, <1>2 DEF SameDelivery
<1> HIDE DEF after
<1>4. SameDelivery(c, [after EXCEPT
                         !.projection = Append(context, CompactionPrompt),
                         !.projected = after.revision])
  BY <1>3 DEF SameDelivery, Delivers
<1>5. Advance(c, command).core =
        IF "compaction" \in Range(command.calls)
          THEN [after EXCEPT !.projection = Append(context, CompactionPrompt),
                             !.projected = after.revision]
          ELSE after
  BY DEF Advance, after, reduced
<1> QED BY <1>3, <1>4, <1>5

\* Sending model input moves the cursor and nothing else.
LEMMA InputSentDelivery ==
  ASSUME NEW c, Delivers(c), NEW kinds
  PROVE  SameDelivery(c, InputSent(c, kinds))
BY DEF InputSent, SameDelivery, Delivers

\* Neither kind of transition touches the number or the receipt.
LEMMA FinishDelivery ==
  ASSUME NEW c, Delivers(c), NEW command
  PROVE  /\ SameDelivery(c, Finish(c, command).core)
         /\ SameDelivery(c, FinishResync(c, command).core)
<1>1. SameDelivery(c, FinishResync(c, command).core)
  BY InputSentDelivery DEF FinishResync
<1> DEFINE after == Advance(c, command).core
           kinds == {a.kind : a \in Range(Advance(c, command).emitted)}
<1>2. SameDelivery(c, after)
  BY AdvanceDelivery
<1>3. Finish(c, command).core = InputSent(after, kinds)
  BY DEF Finish
<1> HIDE DEF after, kinds
<1>4. SameDelivery(after, InputSent(after, kinds))
  BY <1>2, InputSentDelivery DEF SameDelivery
<1> QED BY <1>1, <1>2, <1>3, <1>4 DEF SameDelivery

-----------------------------------------------------------------------------
(* Lemmas: what apply does with an input, by its number.                   *)

\* An input with any number but the next one is rejected and changes nothing,
\* unless it repeats the receipt; then the transition is given again.
LEMMA OldInput ==
  ASSUME NEW c, Delivers(c), c.last \in Nat,
         NEW input, input.id \in Nat, input.id # c.last + 1,
         c.receipt # NoInput => c.receipt.id = c.last
  PROVE  /\ Apply(c, input).core = c
         /\ Apply(c, input).result = "accepted" <=>
              c.receipt # NoInput /\ c.receipt = input
<1>. USE DEF Accepted, Rejected
<1>1. CASE c.receipt # NoInput /\ c.receipt = input
  <2>1. Prepared(c, input) = "replay"
    BY <1>1 DEF Prepared
  <2> QED BY <1>1, <2>1 DEF Apply
<1>2. CASE ~(c.receipt # NoInput /\ c.receipt = input)
  <2>1. Prepared(c, input) \in {"conflict", "stale", "exhausted",
                                "out_of_order"}
    BY <1>2, InputIdsAssumption DEF Prepared
  <2> QED BY <1>2, <2>1 DEF Apply
<1> QED BY <1>1, <1>2

\* The next input either takes effect and leaves its receipt, or is rejected.
LEMMA NextInput ==
  ASSUME NEW c, Delivers(c), c.last \in 0..MaxInputId,
         NEW input, input.id = c.last + 1,
         c.receipt # NoInput => c.receipt.id = c.last
  PROVE  \/ /\ Apply(c, input).result # "accepted"
            /\ Apply(c, input).core = c
         \/ /\ Apply(c, input).result = "accepted"
            /\ c.last # MaxInputId
            /\ Delivers(Apply(c, input).core)
            /\ Apply(c, input).core.last = input.id
            /\ Apply(c, input).core.receipt = input
<1>1. CASE c.last = MaxInputId
  <2>1. Prepared(c, input) = "exhausted"
    BY <1>1, InputIdsAssumption DEF Prepared
  <2> QED BY <2>1 DEF Apply, Rejected
<1>2. CASE c.last # MaxInputId
  <2>1. Prepared(c, input) = "fresh"
    BY <1>2, InputIdsAssumption DEF Prepared
  <2>2. CASE ~Legal(c, input.command)
    BY <2>1, <2>2 DEF Apply, Rejected
  <2>3. CASE Legal(c, input.command)
    <3> DEFINE finished == IF input.command.type = "resync"
                             THEN FinishResync(c, input.command)
                             ELSE Finish(c, input.command)
               transition == [id |-> input.id,
                              directives |-> finished.directives]
    <3>1. Delivers(finished.core)
      BY FinishDelivery DEF SameDelivery
    <3>2. Apply(c, input) =
            Accepted(Commit(finished.core, input, transition), transition)
      BY <2>1, <2>3 DEF Apply
    <3> HIDE DEF finished, transition
    <3>3. LET d == Commit(finished.core, input, transition)
          IN Delivers(d) /\ d.last = input.id /\ d.receipt = input
      BY <3>1 DEF Commit, Delivers
    <3> QED BY <1>2, <3>2, <3>3 DEF Accepted
  <2> QED BY <2>2, <2>3
<1> QED BY <1>1, <1>2

-----------------------------------------------------------------------------
(* The inductive invariant.                                                *)

\* A session starts with nothing applied.
LEMMA InitInv == Init => IInv
<1> SUFFICES ASSUME Init PROVE IInv
  OBVIOUS
<1>1. ReceiptInv
  BY InputIdsAssumption
  DEF Init, NewSession, ReceiptInv, Delivers
<1>2. CountInv /\ ReplyInv
  BY DEF Init, CountInv, ReplyInv
<1> QED BY <1>1, <1>2 DEF IInv

\* The Runtime sends only the next number.
LEMMA SendInv ==
  ASSUME IInv, NEW command, Send(command) PROVE IInv'
<1>1. next = count + 1 /\ count \in Nat /\ next # 0
  BY DEF IInv, CountInv, ReceiptInv, Send
<1>2. waiting' # NoInput /\ waiting'.id = next
  BY <1>1 DEF Send, Input, NoInput
<1>3. ReceiptInv' /\ ReplyInv'
  BY DEF IInv, ReceiptInv, ReplyInv, Send, effects
<1>4. CountInv'
  BY <1>1, <1>2 DEF CountInv, Send, effects
<1> QED BY <1>3, <1>4 DEF IInv

\* The input waited for takes effect, is rejected, or is answered again.
LEMMA ProcessInv ==
  ASSUME IInv, Process PROVE IInv'
<1> DEFINE applied == Apply(core, waiting)
<1>1. /\ Delivers(core) /\ core.last = count /\ count \in 0..MaxInputId
      /\ core.receipt # NoInput => core.receipt.id = core.last
      /\ count \in Nat /\ MaxInputId \in Nat
  BY InputIdsAssumption DEF IInv, ReceiptInv
<1>2. /\ waiting # NoInput /\ waiting.id = next
      /\ waiting' = waiting /\ next' = next
      /\ core' = applied.core
      /\ reply'.result = applied.result
      /\ IF applied.core # core
           THEN count' = count + 1 /\ latest' = waiting
           ELSE count' = count /\ latest' = latest
  BY DEF IInv, CountInv, Process, Receive, effects
<1>3. CASE next = count + 1
  <2>1. CASE applied.result # "accepted" /\ applied.core = core
    <3>1. ReceiptInv'
      BY <1>2, <2>1 DEF IInv, ReceiptInv
    <3>2. CountInv' /\ ReplyInv'
      BY <1>1, <1>2, <1>3, <2>1 DEF CountInv, ReplyInv
    <3> QED BY <3>1, <3>2 DEF IInv
  <2>2. CASE /\ applied.result = "accepted"
             /\ core.last # MaxInputId
             /\ Delivers(applied.core)
             /\ applied.core.last = waiting.id
             /\ applied.core.receipt = waiting
    <3>1. applied.core # core
      BY <1>1, <1>2, <1>3, <2>2
    <3>2. /\ count' = count + 1 /\ latest' = waiting
          /\ count' \in 0..MaxInputId
      BY <1>1, <1>2, <2>2, <3>1
    <3>3. ReceiptInv'
      BY <1>2, <1>3, <2>2, <3>2 DEF ReceiptInv
    <3>4. CountInv' /\ ReplyInv'
      BY <1>1, <1>2, <1>3, <2>2, <3>2 DEF CountInv, ReplyInv
    <3> QED BY <3>3, <3>4 DEF IInv
  <2> QED BY <1>1, <1>2, <1>3, <2>1, <2>2, NextInput
<1>4. CASE next = count /\ core.receipt = waiting /\ latest = waiting
  <2>1. applied.core = core /\ applied.result = "accepted"
    BY <1>1, <1>2, <1>4, OldInput
  <2>2. ReceiptInv'
    BY <1>2, <2>1 DEF IInv, ReceiptInv
  <2>3. CountInv' /\ ReplyInv'
    BY <1>1, <1>2, <1>4, <2>1 DEF CountInv, ReplyInv
  <2> QED BY <2>2, <2>3 DEF IInv
<1> QED BY <1>2, <1>3, <1>4 DEF IInv, CountInv

\* Any other input finds its number used up, or not yet due.
LEMMA StrayInv ==
  ASSUME IInv, NEW input \in Strays, Stray(input)
  PROVE  IInv' /\ UNCHANGED <<core, waiting, effects>>
<1>1. /\ Delivers(core) /\ core.last = count /\ count \in Nat
      /\ core.receipt # NoInput => core.receipt.id = core.last
  BY InputIdsAssumption DEF IInv, ReceiptInv
<1>2. input.id \in Nat /\ input.id # core.last + 1
  <2>1. CASE input \in {latest} \ {NoInput}
    BY <1>1, <2>1 DEF IInv, ReceiptInv
  <2>2. CASE input \in {Input(id, Inform) : id \in 1..core.last}
    BY <1>1, <2>2 DEF Input
  <2>3. CASE input = Input(core.last + 2, Inform)
    BY <1>1, <2>3 DEF Input
  <2> QED BY <2>1, <2>2, <2>3 DEF Strays
<1>3. Apply(core, input).core = core
  BY <1>1, <1>2, OldInput
<1>4. UNCHANGED <<core, next, waiting, reply, count, latest>>
  BY <1>3 DEF Stray, Receive, effects
<1>5. IInv'
  BY <1>4 DEF IInv, ReceiptInv, CountInv, ReplyInv
<1> QED BY <1>4, <1>5 DEF effects

\* Taking an answer brings the Runtime level with the session.
LEMMA TakeInv ==
  ASSUME IInv, TakeAccepted \/ TakeRejected PROVE IInv'
<1>1. ReceiptInv'
  BY DEF IInv, ReceiptInv, TakeAccepted, TakeRejected, effects
<1>2. /\ count \in Nat /\ waiting # NoInput
      /\ next = count + 1 \/ next = count
      /\ reply.result = "accepted" <=> next = count
  BY InputIdsAssumption
  DEF IInv, ReceiptInv, CountInv, ReplyInv, TakeAccepted, TakeRejected
<1>3. next' = count' + 1
  BY <1>2 DEF TakeAccepted, TakeRejected, effects
<1>4. CountInv' /\ ReplyInv'
  BY <1>3 DEF CountInv, ReplyInv, TakeAccepted, TakeRejected
<1> QED BY <1>1, <1>4 DEF IInv

\* A restart loses the receipt, when nobody can ask for it.
LEMMA RestartInv ==
  ASSUME IInv, Restart PROVE IInv'
<1>1. Delivers(core') /\ core'.last = core.last /\ core'.receipt = NoInput
  BY DEF Restart, Restore, Delivers
<1>2. UNCHANGED <<next, waiting, reply, count, latest>> /\ waiting = NoInput
  BY DEF Restart, effects
<1>3. ReceiptInv'
  BY <1>1, <1>2 DEF IInv, ReceiptInv
<1>4. CountInv' /\ ReplyInv'
  BY <1>2 DEF IInv, CountInv, ReplyInv
<1> QED BY <1>3, <1>4 DEF IInv

\* IInv is inductive.
LEMMA NextInv == IInv /\ [Next]_vars => IInv'
<1> SUFFICES ASSUME IInv, [Next]_vars PROVE IInv'
  OBVIOUS
<1>1. CASE \E command : Send(command)
  BY <1>1, SendInv
<1>2. CASE Process
  BY <1>2, ProcessInv
<1>3. CASE LoseReply
  BY <1>3
  DEF IInv, ReceiptInv, CountInv, ReplyInv, LoseReply, effects
<1>4. CASE TakeAccepted \/ TakeRejected
  BY <1>4, TakeInv
<1>5. CASE \E input \in Strays : Stray(input)
  BY <1>5, StrayInv
<1>6. CASE LoseCache
  BY <1>6
  DEF IInv, ReceiptInv, CountInv, ReplyInv, LoseCache, effects
<1>7. CASE Restart
  BY <1>7, RestartInv
<1>8. CASE UNCHANGED vars
  BY <1>8 DEF IInv, ReceiptInv, CountInv, ReplyInv, vars, effects
<1> QED BY <1>1, <1>2, <1>3, <1>4, <1>5, <1>6, <1>7, <1>8 DEF Next

\* In every reachable state the session's number, its receipt, the Runtime's
\* count and the answer on its way tell the same story.
THEOREM DeliverySound == Spec => []IInv
BY InitInv, NextInv, PTL DEF Spec

\* However often an input is sent, and whatever old copies of inputs arrive, it
\* takes effect at most once and in order, and what the Runtime is told of it
\* is true: the protocol implements AppliedInputs (StepDelivery::prepare).
THEOREM InputsAppliedOnce == Spec => AppliedOnce
<1>1. Init => Applied!Init
  BY DEF Init, Applied!Init
<1>2. IInv /\ [Next]_vars => [Applied!Next]_Applied!vars
  <2> SUFFICES ASSUME IInv, [Next]_vars
               PROVE  Applied!Next \/ UNCHANGED Applied!vars
    OBVIOUS
  <2>1. CASE \E command : Send(command)
    <3>1. PICK command : Send(command)
      BY <2>1
    <3>2. next = count + 1
      BY <3>1 DEF IInv, CountInv, Send
    <3>3. Applied!Ask
      BY <3>1, <3>2 DEF Applied!Ask, Send, Input, effects
    <3> QED BY <3>3 DEF Applied!Next
  <2>2. CASE Process
    <3>1. CASE count' = count /\ latest' = latest
      BY <2>2, <3>1 DEF Process, Applied!vars
    <3>2. CASE count' = count + 1 /\ latest' = waiting
      <4>1. waiting.id = count + 1
        BY <2>2, <3>2, NextInv, InputIdsAssumption
        DEF IInv, CountInv, ReceiptInv, Process
      <4> QED BY <2>2, <3>2, <4>1
          DEF Process, Applied!Next, Applied!Apply
    <3> QED BY <2>2, <3>1, <3>2 DEF Process, Receive, effects
  <2>3. CASE TakeAccepted
    <3>1. waiting # NoInput /\ waiting.id = count /\ latest = waiting
      BY <2>3, InputIdsAssumption
      DEF IInv, CountInv, ReceiptInv, ReplyInv, TakeAccepted
    <3> QED BY <2>3, <3>1
        DEF TakeAccepted, effects, Applied!Next, Applied!LearnAccepted,
            Applied!TookEffect
  <2>4. CASE TakeRejected
    <3>1. waiting # NoInput /\ waiting.id # count
      BY <2>4 DEF IInv, CountInv, ReplyInv, TakeRejected
    <3> QED BY <2>4, <3>1
        DEF TakeRejected, effects, Applied!Next, Applied!LearnRejected,
            Applied!TookEffect
  <2>5. CASE \E input \in Strays : Stray(input)
    BY <2>5, StrayInv DEF effects, Applied!vars
  <2>6. CASE LoseReply \/ LoseCache \/ Restart
    BY <2>6 DEF LoseReply, LoseCache, Restart, effects, Applied!vars
  <2>7. CASE UNCHANGED vars
    BY <2>7 DEF vars, effects, Applied!vars
  <2> QED BY <2>1, <2>2, <2>3, <2>4, <2>5, <2>6, <2>7 DEF Next
<1> QED BY <1>1, <1>2, DeliverySound, PTL DEF Spec, AppliedOnce, Applied!Spec

-----------------------------------------------------------------------------
(* What the session waits for, and what it takes the Runtime's copy for.   *)

Fields == {"context", "revision", "replaced", "catalog", "view", "pending",
           "projection", "projected", "issued", "last", "receipt", "response",
           "cursor", "known"}
Whole(c) == Fields \subseteq DOMAIN c

Actions == [id : Nat, kind : Kinds]
Ids(n) == {i \in Nat : 0 < i /\ i <= n}

\* The actions waited for are apart, and a completion is alone.
Waiting(c) ==
  /\ c.pending \in Seq(Actions) /\ c.issued \in Nat
  /\ \A i \in DOMAIN c.pending :
       /\ c.pending[i].id \in Ids(c.issued)
       /\ c.pending[i].kind \in Completions => Len(c.pending) = 1
       /\ c.pending[i].kind = "compaction" => c.projected = c.revision
  /\ \A i, j \in DOMAIN c.pending : c.pending[i].id = c.pending[j].id => i = j

\* The context, its revisions, and the place the Runtime's copy ends at.
Dated(c) ==
  /\ c.context \in Seq(Messages) /\ c.view \in {"native", "link"}
  /\ c.projection \in Seq(Messages \cup {CompactionPrompt})
  /\ c.revision \in Nat /\ c.replaced \in Nat /\ c.replaced <= c.revision
  /\ c.catalog \in Nat
  /\ c.cursor # None => c.cursor \in Cursors /\ c.cursor.revision <= c.revision

Healthy(c) == Whole(c) /\ Waiting(c) /\ Dated(c)

\* A copy of revision r ends where the cursor is, and says what the context
\* said there, unless the context was replaced since.
Marks(c, m) ==
  /\ m.revision = c.cursor.revision
  /\ c.cursor.revision >= c.replaced =>
       /\ c.cursor.length <= Len(c.context)
       /\ m.messages = Shown(c.view, SubSeq(c.context, 1, c.cursor.length))

\* What the session believes of the copy holds, if there is one.
Believes(c, m) ==
  m # NoMirror =>
    /\ m.tools = c.known /\ m.revision \in Nat /\ m.revision <= c.revision
    /\ c.cursor = None /\ m.revision = c.revision => c.projected = c.revision
    /\ c.cursor # None => Marks(c, m)

\* And a completion that is waited for was given the copy as it is.
Holds(c, m) ==
  /\ Believes(c, m)
  /\ m # NoMirror => \A i \in DOMAIN c.pending :
       c.pending[i].kind \in Completions => m = Owed(c, c.pending[i].kind)

\* A directive with model input fits the copy, and makes a true one.
Fits(c, m, directive) ==
  LET input == directive.input IN
  /\ m # NoMirror =>
       /\ UpdateFits(m, input)
       /\ \/ directive.type = "refresh"
          \/ input.messages.type = "append"
          \/ input.messages.revision # m.revision
  /\ \A k \in {m, NoMirror} : UpdateFits(k, input) => Holds(c, Updated(k, input))

\* The directives of a transition, for a Runtime with copy m, which performs
\* the actions in own and was told to start those in begun.
Directs(c, m, own, begun, directives) ==
  /\ {directives[i].action : i \in DOMAIN directives} = Range(c.pending)
  /\ \A i \in DOMAIN directives :
       /\ IF directives[i].type = "dispatch"
            THEN directives[i].action.id \notin begun
            ELSE directives[i].action \in own
       /\ directives[i].input # None =>
            /\ InputsIn(directives) = {directives[i].input}
            /\ Fits(c, m, directives[i])
  /\ InputsIn(directives) = {} => Holds(c, m)

\* A command a Runtime sends.
Good(c, command) ==
  /\ command.type \in {"begin", "inform", "interrupt", "answer", "summary", "tools",
                       "view", "prompt", "resync"}
  /\ command.messages \in Seq(Messages) /\ command.calls \in Calls \cup {<<>>}
  /\ command.type \notin {"begin", "answer", "summary"} => command.calls = <<>>
  /\ command.type \in {"inform", "tools", "view", "resync"} => command.messages = <<>>
  /\ Possible(c, command)

\* Level: the Runtime knows of every input that took effect.  Behind: of all
\* but the last, whose transition it will get.
Level(c) == owned = Range(c.pending) /\ Holds(c, mirror)
Behind(c) == Directs(c, mirror, owned, started, c.response.directives)

Exact ==
  /\ Healthy(core) /\ started \subseteq Ids(core.issued)
  /\ next = count + 1 => Level(core) /\ (waiting # NoInput => Good(core, waiting.command))
  /\ next = count => Behind(core)
  /\ reply # NoReply /\ reply.result = "accepted" => reply.transition = core.response

-----------------------------------------------------------------------------
(* Lemmas about sequences.                                                 *)

LEMMA RemoveAtFacts ==
  ASSUME NEW S, NEW s \in Seq(S), NEW n \in 1..Len(s)
  PROVE  /\ RemoveAt(s, n) \in Seq(S) /\ Len(RemoveAt(s, n)) = Len(s) - 1
         /\ \A m \in 1..(Len(s) - 1) :
              RemoveAt(s, n)[m] = IF m < n THEN s[m] ELSE s[m + 1]
<1> DEFINE before == SubSeq(s, 1, n - 1)
           after == SubSeq(s, n + 1, Len(s))
<1>1. before \in Seq(S) /\ Len(before) = n - 1 /\ \A m \in 1..(n - 1) : before[m] = s[m]
  OBVIOUS
<1>2. /\ after \in Seq(S) /\ Len(after) = Len(s) - n
      /\ \A m \in 1..(Len(s) - n) : after[m] = s[n + m]
  OBVIOUS
<1>3. RemoveAt(s, n) = before \o after
  BY DEF RemoveAt
<1> HIDE DEF before, after
<1>4. /\ before \o after \in Seq(S) /\ Len(before \o after) = Len(s) - 1
      /\ \A m \in 1..(Len(s) - 1) :
           (before \o after)[m] = IF m <= n - 1 THEN before[m] ELSE after[m - (n - 1)]
  <2>1. ASSUME NEW a \in Seq(S), NEW b \in Seq(S)
        PROVE  /\ a \o b \in Seq(S) /\ Len(a \o b) = Len(a) + Len(b)
               /\ \A m \in 1..(Len(a) + Len(b)) :
                    (a \o b)[m] = IF m <= Len(a) THEN a[m] ELSE b[m - Len(a)]
    OBVIOUS
  <2>2. Len(s) \in Nat /\ Len(before) + Len(after) = Len(s) - 1
    BY <1>1, <1>2
  <2>3. /\ before \o after \in Seq(S) /\ Len(before \o after) = Len(before) + Len(after)
        /\ \A m \in 1..(Len(before) + Len(after)) :
             (before \o after)[m] =
               IF m <= Len(before) THEN before[m] ELSE after[m - Len(before)]
    BY <1>1, <1>2, <2>1
  <2> QED BY <1>1, <2>2, <2>3
<1> QED BY <1>1, <1>2, <1>3, <1>4

\* What was said stays said.
LEMMA PrefixKept ==
  ASSUME NEW S, NEW s \in Seq(S), NEW t \in Seq(S), NEW n \in Nat, n <= Len(s)
  PROVE  /\ s \o t \in Seq(S) /\ n <= Len(s \o t)
         /\ SubSeq(s \o t, 1, n) = SubSeq(s, 1, n)
<1>1. /\ s \o t \in Seq(S) /\ Len(s \o t) = Len(s) + Len(t)
      /\ \A m \in 1..Len(s) : (s \o t)[m] = s[m]
  OBVIOUS
<1>2. PICK w \in Seq(S) : w = s \o t
  BY <1>1
<1>3. /\ SubSeq(w, 1, n) = [m \in 1..n |-> w[m]] /\ SubSeq(s, 1, n) = [m \in 1..n |-> s[m]]
  BY <1>1, <1>2
<1>4. \A m \in 1..n : w[m] = s[m]
  BY <1>1, <1>2
<1> QED BY <1>1, <1>2, <1>3, <1>4

LEMMA ShownFacts ==
  ASSUME NEW S, NEW s \in Seq(S), NEW view
  PROVE  /\ Len(Shown(view, s)) = Len(s) /\ DOMAIN Shown(view, s) = 1..Len(s)
         /\ \A T : (\A m \in 1..Len(s) : [says |-> s[m], as |-> view] \in T) =>
              Shown(view, s) \in Seq(T)
<1>1. DOMAIN s = 1..Len(s) /\ Len(s) \in Nat
  OBVIOUS
<1>2. Shown(view, s) = [i \in 1..Len(s) |-> [says |-> s[i], as |-> view]]
  BY <1>1 DEF Shown
<1>3. PICK w : w = Shown(view, s)
  OBVIOUS
<1>4. w = [i \in 1..Len(s) |-> w[i]] /\ \A i \in 1..Len(s) : w[i] = [says |-> s[i], as |-> view]
  BY <1>2, <1>3
<1>5. w \in Seq({w[i] : i \in 1..Len(s)})
  BY <1>1, <1>4
<1>6. Len(w) = Len(s) /\ DOMAIN w = 1..Len(s)
  BY <1>1, <1>4, <1>5
<1>7. ASSUME NEW T, \A m \in 1..Len(s) : [says |-> s[m], as |-> view] \in T
      PROVE  w \in Seq(T)
  BY <1>1, <1>4, <1>7
<1> QED BY <1>3, <1>6, <1>7

\* A copy of what was said, and what was said since, make the whole.
LEMMA ShownSplit ==
  ASSUME NEW S, NEW s \in Seq(S), NEW view, NEW n \in Nat, n <= Len(s)
  PROVE  Shown(view, SubSeq(s, 1, n)) \o SubSeq(Shown(view, s), n + 1, Len(s)) = Shown(view, s)
<1> DEFINE T == {[says |-> x, as |-> view] : x \in S}
<1>1. PICK a : a = SubSeq(s, 1, n)
  OBVIOUS
<1>2. a \in Seq(S) /\ Len(a) = n /\ \A m \in 1..n : a[m] = s[m]
  BY <1>1
<1>3. PICK w : w = Shown(view, s)
  OBVIOUS
<1>4. PICK h : h = Shown(view, a)
  OBVIOUS
<1>5. \A m \in 1..Len(s) : [says |-> s[m], as |-> view] \in T
  OBVIOUS
<1>6. \A m \in 1..Len(a) : [says |-> a[m], as |-> view] \in T
  BY <1>2
<1> HIDE DEF T
<1>7. w \in Seq(T) /\ Len(w) = Len(s)
  BY <1>3, <1>5, ShownFacts
<1>8. h \in Seq(T) /\ Len(h) = n
  BY <1>2, <1>4, <1>6, ShownFacts
<1>9. \A m \in 1..Len(s) : w[m] = [says |-> s[m], as |-> view]
  BY <1>3 DEF Shown
<1>10. \A m \in 1..n : h[m] = [says |-> a[m], as |-> view]
  BY <1>2, <1>4 DEF Shown
<1>11. \A m \in 1..n : h[m] = w[m]
  <2> SUFFICES ASSUME NEW m \in 1..n PROVE h[m] = w[m]
    OBVIOUS
  <2>1. m \in 1..Len(s)
    OBVIOUS
  <2> QED BY <1>2, <1>9, <1>10, <2>1
<1>12. ASSUME NEW p \in Seq(T), NEW q \in Seq(T), Len(p) = n, n <= Len(q),
              \A m \in 1..n : p[m] = q[m]
       PROVE  p \o SubSeq(q, n + 1, Len(q)) = q
  <2>1. PICK r : r = SubSeq(q, n + 1, Len(q))
    OBVIOUS
  <2>2. r \in Seq(T) /\ Len(r) = Len(q) - n /\ \A m \in 1..(Len(q) - n) : r[m] = q[n + m]
    BY <1>12, <2>1
  <2>3. PICK v : v = p \o r
    OBVIOUS
  <2>4. /\ v \in Seq(T) /\ Len(v) = Len(q)
        /\ \A m \in 1..Len(q) : v[m] = IF m <= n THEN p[m] ELSE r[m - n]
    BY <1>12, <2>2, <2>3
  <2>5. \A m \in 1..Len(q) : v[m] = q[m]
    <3> SUFFICES ASSUME NEW m \in 1..Len(q) PROVE v[m] = q[m]
      OBVIOUS
    <3>1. CASE m <= n
      BY <1>12, <2>4, <3>1
    <3>2. CASE m > n
      <4>1. m - n \in 1..(Len(q) - n)
        BY <3>2
      <4> QED BY <2>2, <2>4, <3>2, <4>1
    <3> QED BY <3>1, <3>2
  <2>6. v = q
    BY <2>4, <2>5, SeqEqual
  <2> QED BY <2>1, <2>3, <2>6
<1> QED BY <1>1, <1>3, <1>4, <1>7, <1>8, <1>11, <1>12

-----------------------------------------------------------------------------
(* Lemmas: what a command does to the session, field by field.             *)

Advanced(c, command, a) ==
  LET change == ContextChange(c, command) IN
  /\ Whole(a)
  /\ a.context = ContextAfter(c, command)
  /\ a.catalog = IF command.type = "tools" THEN c.catalog + 1 ELSE c.catalog
  /\ a.view = IF command.type = "view" THEN OtherView[c.view] ELSE c.view
  /\ a.pending = Waits(c, command) \o NewActions(c, command.calls)
  /\ a.issued = c.issued + Len(command.calls)
  /\ a.cursor = c.cursor /\ a.known = c.known
  /\ a.revision = IF change = "clean" THEN c.revision ELSE c.revision + 1
  /\ a.replaced = IF change = "replace" THEN c.revision + 1 ELSE c.replaced
  /\ IF "compaction" \in Range(command.calls)
       THEN /\ a.projected = a.revision
            /\ a.projection = Append(ContextAfter(c, command), CompactionPrompt)
       ELSE a.projected = c.projected /\ a.projection = c.projection

LEMMA AdvanceEffect ==
  ASSUME NEW c, Whole(c), NEW command
  PROVE  /\ Advanced(c, command, Advance(c, command).core)
         /\ Advance(c, command).emitted = NewActions(c, command.calls)
<1>1. PICK context : context = ContextAfter(c, command)
  OBVIOUS
<1>2. PICK emitted : emitted = NewActions(c, command.calls)
  OBVIOUS
<1>3. PICK change : change = ContextChange(c, command)
  OBVIOUS
<1>4. change \in {"clean", "append", "replace"}
  BY <1>3, ContextChangeCases
<1>5. PICK reduced : reduced = [c EXCEPT
                    !.context = context,
                    !.catalog = IF command.type = "tools" THEN @ + 1 ELSE @,
                    !.view = IF command.type = "view" THEN OtherView[@] ELSE @,
                    !.pending = Waits(c, command) \o emitted,
                    !.issued = @ + Len(command.calls)]
  OBVIOUS
<1>6. /\ Whole(reduced) /\ reduced.context = context
      /\ reduced.catalog = IF command.type = "tools" THEN c.catalog + 1 ELSE c.catalog
      /\ reduced.view = IF command.type = "view" THEN OtherView[c.view] ELSE c.view
      /\ reduced.pending = Waits(c, command) \o emitted
      /\ reduced.issued = c.issued + Len(command.calls)
      /\ reduced.cursor = c.cursor /\ reduced.known = c.known
      /\ reduced.revision = c.revision /\ reduced.replaced = c.replaced
      /\ reduced.projected = c.projected /\ reduced.projection = c.projection
  BY <1>5 DEF Whole, Fields
<1>7. PICK after : after = CommitRevision(reduced, change)
  OBVIOUS
<1>8. /\ Whole(after) /\ after.context = context
      /\ after.catalog = reduced.catalog /\ after.view = reduced.view
      /\ after.pending = reduced.pending /\ after.issued = reduced.issued
      /\ after.cursor = c.cursor /\ after.known = c.known
      /\ after.projected = c.projected /\ after.projection = c.projection
      /\ after.revision = IF change = "clean" THEN c.revision ELSE c.revision + 1
      /\ after.replaced = IF change = "replace" THEN c.revision + 1 ELSE c.replaced
  <2>1. CASE change = "clean"
    BY <1>6, <1>7, <2>1 DEF CommitRevision
  <2>2. CASE change = "append"
    <3>1. after = [reduced EXCEPT !.revision = reduced.revision + 1]
      BY <1>7, <2>2 DEF CommitRevision
    <3> QED BY <1>6, <2>2, <3>1 DEF Whole, Fields
  <2>3. CASE change = "replace"
    <3>1. after = [reduced EXCEPT !.revision = reduced.revision + 1,
                                  !.replaced = reduced.revision + 1]
      BY <1>7, <2>3 DEF CommitRevision
    <3> QED BY <1>6, <2>3, <3>1 DEF Whole, Fields
  <2> QED BY <1>4, <2>1, <2>2, <2>3
<1>9. PICK a : a = IF "compaction" \in Range(command.calls)
                     THEN [after EXCEPT !.projection = Append(context, CompactionPrompt),
                                        !.projected = after.revision]
                     ELSE after
  OBVIOUS
<1>10. Advance(c, command).core = a /\ Advance(c, command).emitted = emitted
  BY <1>1, <1>2, <1>3, <1>5, <1>7, <1>9 DEF Advance
<1>11. CASE "compaction" \in Range(command.calls)
  <2>1. /\ Whole(a) /\ a.context = context /\ a.catalog = after.catalog /\ a.view = after.view
        /\ a.pending = after.pending /\ a.issued = after.issued
        /\ a.cursor = c.cursor /\ a.known = c.known
        /\ a.revision = after.revision /\ a.replaced = after.replaced
        /\ a.projected = after.revision /\ a.projection = Append(context, CompactionPrompt)
    BY <1>8, <1>9, <1>11 DEF Whole, Fields
  <2> QED BY <1>1, <1>2, <1>3, <1>6, <1>8, <1>10, <1>11, <2>1 DEF Advanced
<1>12. CASE "compaction" \notin Range(command.calls)
  <2>1. a = after
    BY <1>9, <1>12
  <2> QED BY <1>1, <1>2, <1>3, <1>6, <1>8, <1>10, <1>12, <2>1 DEF Advanced
<1> QED BY <1>11, <1>12

\* The context is replaced, or grows, or stays.
LEMMA ContextGrows ==
  ASSUME NEW c, Dated(c), NEW command, Good(c, command)
  PROVE  /\ ContextAfter(c, command) \in Seq(Messages)
         /\ ContextChange(c, command) = "clean" => ContextAfter(c, command) = c.context
         /\ ContextChange(c, command) # "replace" =>
              /\ \A n \in Nat : n <= Len(c.context) =>
                   /\ n <= Len(ContextAfter(c, command))
                   /\ SubSeq(ContextAfter(c, command), 1, n) = SubSeq(c.context, 1, n)
              /\ command.type = "view" => c.context = <<>>
              /\ "compaction" \notin Range(command.calls)
<1>1. c.context \in Seq(Messages) /\ command.messages \in Seq(Messages)
  BY DEF Dated, Good
<1>2. PICK context : context = ContextAfter(c, command)
  OBVIOUS
<1>3. \/ context = command.messages
      \/ c.context # <<>> /\ context = command.messages \o Tail(c.context)
      \/ c.context = <<>> /\ context = <<>>
      \/ context = c.context \o command.messages
  BY <1>2 DEF ContextAfter
<1>4. context \in Seq(Messages)
  <2>1. \A s, t \in Seq(Messages) : s \o t \in Seq(Messages)
    OBVIOUS
  <2>2. c.context # <<>> => Tail(c.context) \in Seq(Messages)
    BY <1>1
  <2>3. CASE c.context # <<>> /\ context = command.messages \o Tail(c.context)
    BY <1>1, <2>1, <2>2, <2>3
  <2>4. CASE context = c.context \o command.messages
    BY <1>1, <2>1, <2>4
  <2> QED BY <1>1, <1>3, <2>3, <2>4
<1>5. ContextChange(c, command) = "clean" => context = c.context
  BY <1>2 DEF ContextChange
<1>6. ASSUME ContextChange(c, command) # "replace"
      PROVE  /\ context = c.context \o command.messages \/ c.context = <<>>
             /\ command.type = "view" => c.context = <<>>
             /\ "compaction" \notin Range(command.calls)
  BY <1>2, <1>6 DEF ContextChange, ContextAfter, Good
<1>7. ASSUME ContextChange(c, command) # "replace", NEW n \in Nat, n <= Len(c.context)
      PROVE  n <= Len(context) /\ SubSeq(context, 1, n) = SubSeq(c.context, 1, n)
  <2>1. CASE context = c.context \o command.messages
    BY <1>1, <1>7, <2>1, PrefixKept
  <2>2. CASE c.context = <<>>
    <3>1. n = 0
      BY <1>7, <2>2
    <3>2. Len(context) \in Nat
      BY <1>4
    <3>3. SubSeq(context, 1, 0) = <<>> /\ SubSeq(c.context, 1, 0) = <<>>
      BY <1>1, <1>4
    <3> QED BY <3>1, <3>2, <3>3
  <2> QED BY <1>6, <1>7, <2>1, <2>2
<1> QED BY <1>2, <1>4, <1>5, <1>6, <1>7

LEMMA EmittedFacts ==
  ASSUME NEW c, c.issued \in Nat, NEW calls \in Seq(Kinds)
  PROVE  /\ NewActions(c, calls) \in Seq(Actions) /\ Len(NewActions(c, calls)) = Len(calls)
         /\ \A i \in 1..Len(calls) :
              NewActions(c, calls)[i] = [id |-> c.issued + i, kind |-> calls[i]]
<1>1. DOMAIN calls = 1..Len(calls) /\ Len(calls) \in Nat
  OBVIOUS
<1>2. PICK e : e = NewActions(c, calls)
  OBVIOUS
<1>3. e = [i \in 1..Len(calls) |-> [id |-> c.issued + i, kind |-> calls[i]]]
  BY <1>1, <1>2 DEF NewActions
<1>4. \A i \in 1..Len(calls) : [id |-> c.issued + i, kind |-> calls[i]] \in Actions
  BY <1>1 DEF Actions
<1>5. e \in [1..Len(calls) -> Actions]
  BY <1>3, <1>4
<1>6. e \in Seq(Actions) /\ Len(e) = Len(calls)
  BY <1>1, <1>5
<1> QED BY <1>2, <1>3, <1>6

LEMMA WaitsFacts ==
  ASSUME NEW c, Waiting(c), NEW command, Legal(c, command), Good(c, command)
  PROVE  /\ Waits(c, command) \in Seq(Actions)
         /\ command.calls = <<>> \/ Waits(c, command) = <<>>
         /\ command.type # "inform" => \A i \in DOMAIN Waits(c, command) :
              Waits(c, command)[i].kind \notin Completions
         /\ \A i \in DOMAIN Waits(c, command) : \E j \in DOMAIN c.pending :
              Waits(c, command)[i] = c.pending[j]
         /\ \A i, j \in DOMAIN Waits(c, command) :
              Waits(c, command)[i].id = Waits(c, command)[j].id => i = j
<1>1. c.pending \in Seq(Actions) /\ Len(c.pending) \in Nat
  BY DEF Waiting
<1>2. PICK w : w = Waits(c, command)
  OBVIOUS
<1>3. CASE command.type = "inform"
  <2>1. w = c.pending /\ command.calls = <<>>
    BY <1>2, <1>3 DEF Waits, Good
  <2> QED BY <1>1, <1>2, <1>3, <2>1 DEF Waiting
<1>4. CASE command.type = "answer"
  <2>1. PICK n : n = Place(c, command.id)
    OBVIOUS
  <2>2. \E i \in DOMAIN c.pending : c.pending[i].id = command.id
    BY <1>4 DEF Legal, PendingIds
  <2>3. n \in DOMAIN c.pending
    BY <2>1, <2>2 DEF Place
  <2>4. n \in 1..Len(c.pending)
    BY <1>1, <2>3
  <2>5. w = RemoveAt(c.pending, n)
    BY <1>2, <1>4, <2>1 DEF Waits
  <2>6. /\ w \in Seq(Actions) /\ Len(w) = Len(c.pending) - 1
        /\ \A m \in 1..(Len(c.pending) - 1) :
             w[m] = IF m < n THEN c.pending[m] ELSE c.pending[m + 1]
    BY <1>1, <2>4, <2>5, RemoveAtFacts
  <2>7. DOMAIN w = 1..(Len(c.pending) - 1) /\ DOMAIN c.pending = 1..Len(c.pending)
    BY <1>1, <2>6
  <2>8. \A m \in DOMAIN w : /\ m \in Nat /\ m \in DOMAIN c.pending /\ m + 1 \in DOMAIN c.pending
                            /\ w[m] = IF m < n THEN c.pending[m] ELSE c.pending[m + 1]
    BY <1>1, <2>6, <2>7
  <2>9. \A i, j \in DOMAIN w : w[i].id = w[j].id => i = j
    <3> SUFFICES ASSUME NEW i \in DOMAIN w, NEW j \in DOMAIN w, w[i].id = w[j].id
                 PROVE  i = j
      OBVIOUS
    <3>1. \A k, l \in DOMAIN c.pending : c.pending[k].id = c.pending[l].id => k = l
      BY DEF Waiting
    <3>2. n \in Nat
      BY <2>4
    <3> QED BY <2>8, <3>1, <3>2
  <2>10. w = <<>> \/ Len(c.pending) > 1
    BY <1>1, <2>6
  <2>11. Len(c.pending) > 1 => command.calls = <<>>
    BY <1>4 DEF Good, Possible
  <2>12. \A i \in DOMAIN w : w[i].kind \notin Completions
    <3> SUFFICES ASSUME NEW i \in DOMAIN w PROVE w[i].kind \notin Completions
      OBVIOUS
    <3>1. PICK j \in DOMAIN c.pending : w[i] = c.pending[j]
      BY <2>8
    <3>2. i \in 1..(Len(c.pending) - 1)
      BY <2>7
    <3>3. Len(c.pending) # 1
      <4>1. \A l \in Nat : \A k \in 1..(l - 1) : l # 1
        OBVIOUS
      <4> QED BY <1>1, <3>2, <4>1
    <3> QED BY <3>1, <3>3 DEF Waiting
  <2> QED BY <1>2, <2>6, <2>8, <2>9, <2>10, <2>11, <2>12
<1>5. CASE command.type \notin {"inform", "answer"}
  <2>1. w = <<>>
    BY <1>2, <1>5 DEF Waits
  <2> QED BY <1>2, <2>1
<1> QED BY <1>3, <1>4, <1>5

\* What is waited for is what was, or what was called for.
LEMMA PendingAfter ==
  ASSUME NEW c, Waiting(c), NEW command, Legal(c, command), Good(c, command),
         NEW a, Advanced(c, command, a)
  PROVE  \/ /\ command.calls = <<>> /\ a.pending = Waits(c, command) /\ a.issued = c.issued
            /\ NewActions(c, command.calls) = <<>>
         \/ /\ command.calls \in Calls /\ command.calls \in Seq(Kinds)
            /\ a.pending = NewActions(c, command.calls)
            /\ Waits(c, command) = <<>>
<1>1. PICK w \in Seq(Actions) : w = Waits(c, command)
  BY WaitsFacts
<1>2. PICK calls : calls = command.calls
  OBVIOUS
<1>3. calls \in Calls \cup {<<>>} /\ calls \in Seq(Kinds)
  <2>1. calls \in Calls \cup {<<>>}
    BY <1>2 DEF Good
  <2>2. Calls \subseteq Seq(Kinds) /\ <<>> \in Seq(Kinds)
    BY CallsAssumption
  <2> QED BY <2>1, <2>2
<1>4. PICK e \in Seq(Actions) : e = NewActions(c, calls) /\ Len(e) = Len(calls)
  BY <1>3, EmittedFacts DEF Waiting
<1>5. a.pending = w \o e /\ a.issued = c.issued + Len(calls) /\ c.issued \in Nat
  BY <1>1, <1>2, <1>4 DEF Advanced, Waiting
<1>6. CASE calls = <<>>
  <2>1. e = <<>> /\ Len(calls) = 0
    BY <1>4, <1>6
  <2>2. w \o <<>> = w
    BY <1>1
  <2> QED BY <1>1, <1>2, <1>4, <1>5, <1>6, <2>1, <2>2
<1>7. CASE calls # <<>>
  <2>1. w = <<>>
    BY <1>1, <1>2, <1>7, WaitsFacts
  <2>2. <<>> \o e = e
    BY <1>4
  <2> QED BY <1>1, <1>2, <1>3, <1>4, <1>5, <1>7, <2>1, <2>2
<1> QED BY <1>6, <1>7

-----------------------------------------------------------------------------
(* Lemmas: a session stays healthy, and what it believes stays true.       *)

LEMMA DatedAfter ==
  ASSUME NEW c, Dated(c), NEW command, Good(c, command), NEW a, Advanced(c, command, a)
  PROVE  Dated(a) /\ c.revision <= a.revision
<1>1. a.context \in Seq(Messages)
  BY ContextGrows DEF Advanced
<1>2. a.view \in {"native", "link"}
  BY DEF Advanced, Dated, OtherView
<1>3. a.projection \in Seq(Messages \cup {CompactionPrompt})
  <2>1. ContextAfter(c, command) \in Seq(Messages \cup {CompactionPrompt})
    BY ContextGrows
  <2>2. Append(ContextAfter(c, command), CompactionPrompt) \in Seq(Messages \cup {CompactionPrompt})
    BY <2>1
  <2> QED BY <2>2 DEF Advanced, Dated
<1>4. /\ a.revision \in Nat /\ a.replaced \in Nat /\ a.replaced <= a.revision
      /\ c.revision <= a.revision /\ a.catalog \in Nat
  BY ContextChangeCases, SMTT(30) DEF Advanced, Dated
<1>5. a.cursor # None => a.cursor \in Cursors /\ a.cursor.revision <= a.revision
  BY <1>4 DEF Advanced, Dated, Cursors
<1> QED BY <1>1, <1>2, <1>3, <1>4, <1>5 DEF Dated

\* Steering waits in the session; the turn goes on as it was.
LEMMA InformSame ==
  ASSUME NEW c, Dated(c), NEW command, Good(c, command), command.type = "inform",
         NEW a, Advanced(c, command, a)
  PROVE  /\ a.context = c.context /\ a.revision = c.revision /\ a.catalog = c.catalog
         /\ a.view = c.view /\ a.projection = c.projection /\ a.projected = c.projected
         /\ Waits(c, command) = c.pending
<1>1. command.calls = <<>> /\ command.messages = <<>>
  BY DEF Good
<1>2. Range(command.calls) = {}
  BY <1>1 DEF Range
<1>3. ContextAfter(c, command) = c.context
  <2>1. ContextAfter(c, command) = c.context \o <<>>
    BY <1>1 DEF ContextAfter
  <2>2. c.context \o <<>> = c.context
    BY DEF Dated
  <2> QED BY <2>1, <2>2
<1>4. ContextChange(c, command) = "clean"
  BY <1>2, <1>3 DEF ContextChange
<1> QED BY <1>2, <1>3, <1>4 DEF Advanced, Waits

\* A completion that is waited for was called for just now, or the turn goes on.
LEMMA CompletionAfter ==
  ASSUME NEW c, Waiting(c), Dated(c), NEW command, Legal(c, command), Good(c, command),
         NEW a, Advanced(c, command, a),
         NEW i \in DOMAIN a.pending, a.pending[i].kind \in Completions
  PROVE  \/ /\ command.type = "inform" /\ a.pending = c.pending
         \/ /\ command.calls \in Calls /\ command.calls \in Seq(Kinds)
            /\ Len(command.calls) = 1 /\ Range(command.calls) = {a.pending[i].kind}
            /\ a.pending = NewActions(c, command.calls) /\ Len(a.pending) = 1 /\ i = 1
<1>1. CASE a.pending = Waits(c, command)
  BY <1>1, WaitsFacts DEF Waits
<1>2. CASE /\ command.calls \in Calls /\ command.calls \in Seq(Kinds)
           /\ a.pending = NewActions(c, command.calls)
  <2>1. PICK calls \in Seq(Kinds) : calls = command.calls
    BY <1>2
  <2>2. /\ a.pending \in Seq(Actions) /\ Len(a.pending) = Len(calls)
        /\ \A j \in 1..Len(calls) : a.pending[j] = [id |-> c.issued + j, kind |-> calls[j]]
    BY <1>2, <2>1, EmittedFacts DEF Waiting
  <2>3. i \in 1..Len(calls) /\ DOMAIN calls = 1..Len(calls)
    BY <2>1, <2>2
  <2>4. a.pending[i].kind = calls[i]
    <3>1. a.pending[i] = [id |-> c.issued + i, kind |-> calls[i]]
      BY <2>2, <2>3
    <3> QED BY <3>1
  <2>5. calls[i] \in Range(calls)
    BY <2>3 DEF Range
  <2>6. Len(calls) = 1
    BY <1>2, <2>1, <2>4, <2>5, CallsAssumption
  <2>7. i = 1 /\ Range(calls) = {calls[i]}
    BY <2>3, <2>6 DEF Range
  <2> QED BY <1>2, <2>1, <2>2, <2>4, <2>6, <2>7
<1> QED BY <1>1, <1>2, PendingAfter

LEMMA WaitingAfter ==
  ASSUME NEW c, Waiting(c), Dated(c), NEW command, Legal(c, command), Good(c, command),
         NEW a, Advanced(c, command, a)
  PROVE  Waiting(a) /\ c.issued <= a.issued
<1>1. c.issued \in Nat
  BY DEF Waiting
<1>2. ASSUME NEW i \in DOMAIN a.pending
      PROVE  /\ a.pending[i].kind \in Completions => Len(a.pending) = 1
             /\ a.pending[i].kind = "compaction" => a.projected = a.revision
  <2>1. CASE command.type = "inform" /\ a.pending = c.pending
    <3>1. a.projected = c.projected /\ a.revision = c.revision
      BY <2>1, InformSame
    <3> QED BY <1>2, <2>1, <3>1 DEF Waiting
  <2>2. CASE Len(a.pending) = 1 /\ Range(command.calls) = {a.pending[i].kind}
    BY <2>2 DEF Advanced
  <2>3. CASE a.pending[i].kind \notin Completions
    BY <2>3 DEF Completions
  <2> QED BY <1>2, <2>1, <2>2, <2>3, CompletionAfter
<1>3. CASE a.pending = Waits(c, command) /\ a.issued = c.issued
  <2>1. /\ a.pending \in Seq(Actions)
        /\ \A i \in DOMAIN a.pending : \E j \in DOMAIN c.pending : a.pending[i] = c.pending[j]
        /\ \A i, j \in DOMAIN a.pending : a.pending[i].id = a.pending[j].id => i = j
    BY <1>3, WaitsFacts
  <2>2. \A i \in DOMAIN a.pending : a.pending[i].id \in Ids(a.issued)
    BY <1>3, <2>1 DEF Waiting
  <2> QED BY <1>1, <1>2, <1>3, <2>1, <2>2 DEF Waiting
<1>4. CASE /\ command.calls \in Calls /\ command.calls \in Seq(Kinds)
           /\ a.pending = NewActions(c, command.calls)
  <2>1. PICK calls \in Seq(Kinds) : calls = command.calls
    BY <1>4
  <2>2. /\ a.pending \in Seq(Actions) /\ Len(a.pending) = Len(calls)
        /\ \A j \in 1..Len(calls) : a.pending[j] = [id |-> c.issued + j, kind |-> calls[j]]
    BY <1>1, <1>4, <2>1, EmittedFacts
  <2>3. a.issued = c.issued + Len(calls) /\ Len(calls) \in Nat /\ DOMAIN a.pending = 1..Len(calls)
    BY <2>1, <2>2 DEF Advanced
  <2>4. \A j \in DOMAIN a.pending : a.pending[j].id = c.issued + j /\ j \in Nat /\ 0 < j
                                    /\ j <= Len(calls)
    <3> SUFFICES ASSUME NEW j \in DOMAIN a.pending
                 PROVE  a.pending[j].id = c.issued + j /\ j \in Nat /\ 0 < j /\ j <= Len(calls)
      OBVIOUS
    <3>1. j \in 1..Len(calls)
      BY <2>3
    <3>2. a.pending[j] = [id |-> c.issued + j, kind |-> calls[j]]
      BY <2>2, <3>1
    <3>3. a.pending[j].id = c.issued + j
      BY <3>2
    <3> QED BY <2>3, <3>1, <3>3
  <2>5. \A i \in DOMAIN a.pending : a.pending[i].id \in Ids(a.issued)
    BY <1>1, <2>3, <2>4 DEF Ids
  <2>6. \A i, j \in DOMAIN a.pending : a.pending[i].id = a.pending[j].id => i = j
    BY <1>1, <2>4
  <2> QED BY <1>1, <1>2, <2>2, <2>3, <2>5, <2>6 DEF Waiting
<1> QED BY <1>3, <1>4, PendingAfter

LEMMA BelievesAfter ==
  ASSUME NEW c, Dated(c), NEW command, Good(c, command), NEW a, Advanced(c, command, a),
         NEW m, Believes(c, m)
  PROVE  Believes(a, m)
<1> SUFFICES ASSUME m # NoMirror PROVE Believes(a, m)
  BY DEF Believes
<1>1. /\ m.tools = c.known /\ m.revision \in Nat /\ m.revision <= c.revision
      /\ c.cursor = None /\ m.revision = c.revision => c.projected = c.revision
      /\ c.cursor # None => Marks(c, m)
  BY DEF Believes
<1>2. /\ a.cursor = c.cursor /\ a.known = c.known
      /\ c.revision \in Nat /\ a.revision \in Nat /\ c.revision <= a.revision
  BY DatedAfter DEF Advanced, Dated
<1>3. m.revision <= a.revision
  BY <1>1, <1>2
<1>4. ASSUME m.revision = a.revision PROVE a.revision = c.revision /\ a.projected = c.projected
  <2>1. a.revision = c.revision
    BY <1>1, <1>2, <1>4
  <2>2. ContextChange(c, command) = "clean"
    BY <1>2, <2>1 DEF Advanced
  <2>3. "compaction" \notin Range(command.calls)
    BY <2>2, ContextGrows
  <2> QED BY <2>1, <2>3 DEF Advanced
<1>5. ASSUME c.cursor # None PROVE Marks(a, m)
  <2>1. /\ m.revision = c.cursor.revision /\ c.cursor \in Cursors /\ c.cursor.revision <= c.revision
        /\ c.cursor.revision >= c.replaced =>
             /\ c.cursor.length <= Len(c.context)
             /\ m.messages = Shown(c.view, SubSeq(c.context, 1, c.cursor.length))
    BY <1>1, <1>5 DEF Marks, Dated
  <2>2. ASSUME c.cursor.revision >= a.replaced
        PROVE  /\ c.cursor.length <= Len(a.context)
               /\ m.messages = Shown(a.view, SubSeq(a.context, 1, c.cursor.length))
    <3>1. c.cursor.revision \in Nat /\ c.cursor.length \in Nat
      BY <2>1 DEF Cursors
    <3>2. ContextChange(c, command) # "replace" /\ a.replaced = c.replaced
      BY <1>2, <2>1, <2>2, <3>1 DEF Advanced
    <3>3. /\ c.cursor.length <= Len(c.context)
          /\ m.messages = Shown(c.view, SubSeq(c.context, 1, c.cursor.length))
      BY <2>1, <2>2, <3>2
    <3>4. /\ c.cursor.length <= Len(a.context)
          /\ SubSeq(a.context, 1, c.cursor.length) = SubSeq(c.context, 1, c.cursor.length)
          /\ command.type = "view" => c.context = <<>>
      BY <3>1, <3>2, <3>3, ContextGrows DEF Advanced
    <3>5. CASE command.type = "view"
      <4>1. SubSeq(c.context, 1, c.cursor.length) = <<>>
        BY <3>1, <3>3, <3>4, <3>5
      <4>2. \A view : Shown(view, <<>>) = <<>>
        BY DEF Shown
      <4> QED BY <3>3, <3>4, <4>1, <4>2
    <3>6. CASE command.type # "view"
      <4>1. a.view = c.view
        BY <3>6 DEF Advanced
      <4> QED BY <3>3, <3>4, <4>1
    <3> QED BY <3>5, <3>6
  <2> QED BY <1>2, <2>1, <2>2 DEF Marks
<1> QED BY <1>1, <1>2, <1>3, <1>4, <1>5 DEF Believes

\* Without a new completion, what was owed is owed.
LEMMA HoldsAfter ==
  ASSUME NEW c, Waiting(c), Dated(c), NEW command, Legal(c, command), Good(c, command),
         NEW a, Advanced(c, command, a), Range(command.calls) \cap Completions = {},
         NEW m, Holds(c, m)
  PROVE  Holds(a, m)
<1>1. Believes(a, m)
  BY BelievesAfter DEF Holds
<1>2. ASSUME m # NoMirror, NEW i \in DOMAIN a.pending, a.pending[i].kind \in Completions
      PROVE  m = Owed(a, a.pending[i].kind)
  <2>1. command.type = "inform" /\ a.pending = c.pending
    <3>1. CASE Range(command.calls) = {a.pending[i].kind}
      <4>1. a.pending[i].kind \in Range(command.calls) \cap Completions
        BY <1>2, <3>1
      <4> QED BY <4>1
    <3> QED BY <1>2, <3>1, CompletionAfter, ZenonT(90)
  <2>2. m = Owed(c, c.pending[i].kind)
    BY <1>2, <2>1 DEF Holds
  <2>3. \A kind : Owed(a, kind) = Owed(c, kind)
    BY <2>1, InformSame DEF Owed, Projected
  <2> QED BY <2>1, <2>2, <2>3
<1> QED BY <1>1, <1>2 DEF Holds

-----------------------------------------------------------------------------
(* Lemmas: what sending model input makes of the session and the copy.     *)

\* d is c after the input of a completion of some kind went out.
Sent(c, d, kind) ==
  /\ Whole(d) /\ d.context = c.context /\ d.view = c.view /\ d.projection = c.projection
  /\ d.projected = c.projected /\ d.revision = c.revision /\ d.replaced = c.replaced
  /\ d.catalog = c.catalog /\ d.pending = c.pending /\ d.issued = c.issued
  /\ d.known = c.catalog
  /\ d.cursor = IF kind = "compaction" THEN None ELSE Cursor(c)

LEMMA InputSentEffect ==
  ASSUME NEW c, Whole(c), NEW kind \in Completions
  PROVE  Sent(c, InputSent(c, {kind}), kind)
<1>1. kind \in {kind} \cap Completions /\ ("compaction" \in {kind} <=> kind = "compaction")
  OBVIOUS
<1>2. PICK cursor : cursor = IF kind = "compaction" THEN None ELSE Cursor(c)
  OBVIOUS
<1>3. InputSent(c, {kind}) = [c EXCEPT !.cursor = cursor, !.known = c.catalog]
  BY <1>1, <1>2 DEF InputSent
<1> QED BY <1>2, <1>3 DEF Sent, Whole, Fields

LEMMA CursorFacts ==
  ASSUME NEW c, Dated(c)
  PROVE  /\ Cursor(c) \in Cursors /\ Cursor(c) # None
         /\ Cursor(c).length = Len(c.context) /\ Cursor(c).revision = c.revision
<1>1. Len(c.context) \in Nat /\ c.revision \in Nat
  BY DEF Dated
<1>2. Cursor(c) \in Cursors
  BY <1>1 DEF Cursor, Cursors
<1> QED BY <1>1, <1>2, NoneAssumption DEF Cursor

LEMMA SentHealthy ==
  ASSUME NEW c, Healthy(c), NEW kind, NEW d, Sent(c, d, kind)
  PROVE  Healthy(d)
<1>1. Waiting(d)
  BY DEF Healthy, Sent, Waiting
<1>2. d.cursor # None => d.cursor \in Cursors /\ d.cursor.revision <= d.revision
  <2>1. c.revision \in Nat /\ d.revision = c.revision
    BY DEF Healthy, Dated, Sent
  <2> QED BY <2>1, CursorFacts DEF Sent, Healthy
<1>3. Dated(d)
  BY <1>2 DEF Healthy, Sent, Dated
<1> QED BY <1>1, <1>3 DEF Healthy, Sent

\* A copy that is what the completion is owed is a true one.
LEMMA OwedHeld ==
  ASSUME NEW c, Healthy(c), NEW kind \in Completions, NEW d, Sent(c, d, kind),
         \A i \in DOMAIN c.pending : c.pending[i].kind = kind, c.pending # <<>>
  PROVE  Holds(d, Owed(c, kind))
<1>1. PICK m : m = Owed(c, kind)
  OBVIOUS
<1>2. /\ m.messages = Projected(c, kind) /\ m.revision = c.revision /\ m.tools = c.catalog
  BY <1>1 DEF Owed
<1>3. c.revision \in Nat
  BY DEF Healthy, Dated
<1>4. CASE kind = "compaction"
  <2>1. 1 \in DOMAIN c.pending
    BY DEF Healthy, Waiting
  <2>2. c.projected = c.revision
    BY <1>4, <2>1 DEF Healthy, Waiting
  <2>3. d.cursor = None
    BY <1>4 DEF Sent
  <2> QED BY <1>1, <1>2, <1>3, <2>2, <2>3 DEF Holds, Believes, Sent, Owed, Projected
<1>5. CASE kind = "agent"
  <2>1. d.cursor = Cursor(c)
    BY <1>5 DEF Sent
  <2>2. d.cursor # None /\ d.cursor.revision = c.revision /\ d.cursor.length = Len(c.context)
    BY <2>1, CursorFacts DEF Healthy
  <2>3. SubSeq(c.context, 1, Len(c.context)) = c.context /\ Len(c.context) \in Nat
    <3>1. PICK s \in Seq(Messages) : s = c.context
      BY DEF Healthy, Dated
    <3>2. SubSeq(s, 1, Len(s)) = s
      <4>1. PICK t : t = SubSeq(s, 1, Len(s))
        OBVIOUS
      <4>2. t \in Seq(Messages) /\ Len(t) = Len(s) /\ \A l \in 1..Len(s) : t[l] = s[l]
        BY <4>1
      <4> QED BY <4>1, <4>2, SeqEqual
    <3> QED BY <3>1, <3>2
  <2>4. m.messages = Shown(c.view, SubSeq(c.context, 1, Len(c.context)))
    BY <1>2, <1>5, <2>3 DEF Projected
  <2>5. Marks(d, m)
    BY <1>2, <2>2, <2>3, <2>4 DEF Marks, Sent
  <2> QED BY <1>1, <1>2, <1>3, <2>2, <2>5 DEF Holds, Believes, Sent, Owed, Projected
<1> QED BY <1>4, <1>5 DEF Completions

-----------------------------------------------------------------------------
(* Lemmas: the model input of a completion.                                *)

LEMMA ProjectedTyped ==
  ASSUME NEW c, Dated(c), NEW kind \in Completions
  PROVE  Projected(c, kind) \in Seq(Entries)
<1>1. PICK s : s = IF kind = "agent" THEN c.context ELSE c.projection
  OBVIOUS
<1>2. PICK view : view = IF kind = "agent" THEN c.view ELSE "compaction"
  OBVIOUS
<1>3. s \in Seq(Messages \cup {CompactionPrompt}) /\ view \in {"native", "link", "compaction"}
  <2>1. \A t \in Seq(Messages) : t \in Seq(Messages \cup {CompactionPrompt})
    OBVIOUS
  <2> QED BY <1>1, <1>2, <2>1 DEF Dated
<1>4. \A i \in 1..Len(s) : [says |-> s[i], as |-> view] \in Entries
  BY <1>3 DEF Entries
<1>5. Shown(view, s) \in Seq(Entries)
  BY <1>3, <1>4, ShownFacts
<1> QED BY <1>1, <1>2, <1>5 DEF Projected

LEMMA ReplaceTyped ==
  ASSUME NEW revision \in Nat, NEW messages \in Seq(Entries)
  PROVE  /\ ReplaceUpdate(revision, messages) \in MessageUpdates
         /\ ReplaceUpdate(revision, messages).type = "replace"
         /\ ReplaceUpdate(revision, messages).revision = revision
         /\ ReplaceUpdate(revision, messages).messages = messages
BY DEF ReplaceUpdate, MessageUpdates

LEMMA AppendTyped ==
  ASSUME NEW base \in Nat, NEW revision \in Nat, NEW messages \in Seq(Entries)
  PROVE  /\ AppendUpdate(base, revision, messages) \in MessageUpdates
         /\ AppendUpdate(base, revision, messages).type = "append"
         /\ AppendUpdate(base, revision, messages).base = base
         /\ AppendUpdate(base, revision, messages).revision = revision
         /\ AppendUpdate(base, revision, messages).messages = messages
BY DEF AppendUpdate, MessageUpdates

\* The input of a resync says everything.
LEMMA FullInput ==
  ASSUME NEW c, Dated(c), NEW kind \in Completions, NEW input, input = FullModelInput(c, kind)
  PROVE  /\ input # None
         /\ \A k : UpdateFits(k, input) /\ Updated(k, input) = Owed(c, kind)
<1>1. Projected(c, kind) \in Seq(Entries) /\ c.revision \in Nat /\ c.catalog \in Nat
  BY ProjectedTyped DEF Dated
<1>2. PICK update : update = ReplaceUpdate(c.revision, Projected(c, kind))
  OBVIOUS
<1>3. /\ update \in MessageUpdates /\ update.type = "replace"
      /\ update.revision = c.revision /\ update.messages = Projected(c, kind)
  BY <1>1, <1>2, ReplaceTyped
<1>4. PICK tools : tools = ReplaceTools(c.catalog)
  OBVIOUS
<1>5. tools \in ToolUpdates /\ tools.type = "replace" /\ tools.revision = c.catalog
  BY <1>1, <1>4 DEF ReplaceTools, ToolUpdates
<1>6. input = [messages |-> update, tools |-> tools]
  BY <1>2, <1>4 DEF FullModelInput
<1>7. input \in ModelInputs /\ input.messages = update /\ input.tools = tools
  BY <1>3, <1>5, <1>6 DEF ModelInputs
<1> QED BY <1>3, <1>5, <1>7, NoneAssumption DEF UpdateFits, Updated, Owed

\* The input of an ordinary completion appends to the copy, if it is the one
\* the session believes in, and otherwise says everything.
Differs(c, kind, input) ==
  /\ input \in ModelInputs /\ input.messages.revision = c.revision
  /\ input.tools.revision = c.catalog
  /\ input.tools.type = "keep" => c.known = c.catalog
  /\ \/ /\ input.messages.type = "append" /\ kind = "agent" /\ c.cursor # None
        /\ c.cursor.revision >= c.replaced /\ c.cursor.length <= Len(c.context)
        /\ input.messages.base = c.cursor.revision
        /\ input.messages.messages =
             SubSeq(Shown(c.view, c.context), c.cursor.length + 1, Len(c.context))
     \/ /\ input.messages.type = "replace" /\ input.messages.messages = Projected(c, kind)
        /\ \/ kind = "compaction" \/ c.cursor = None
           \/ c.cursor.revision < c.replaced \/ c.cursor.length > Len(c.context)

LEMMA OrdinaryInput ==
  ASSUME NEW c, Dated(c), NEW kind \in Completions
  PROVE  Differs(c, kind, ModelInput(c, kind)) /\ ModelInput(c, kind) # None
<1>1. Projected(c, kind) \in Seq(Entries) /\ c.revision \in Nat /\ c.catalog \in Nat
  BY ProjectedTyped DEF Dated
<1>2. PICK update : update = IF kind = "agent" THEN MessageUpdateSince(c, c.cursor)
                             ELSE ReplaceUpdate(c.revision, Projected(c, kind))
  OBVIOUS
<1>3. /\ update \in MessageUpdates /\ update.revision = c.revision
      /\ \/ /\ update.type = "append" /\ kind = "agent" /\ c.cursor # None
            /\ c.cursor.revision >= c.replaced /\ c.cursor.length <= Len(c.context)
            /\ update.base = c.cursor.revision
            /\ update.messages =
                 SubSeq(Shown(c.view, c.context), c.cursor.length + 1, Len(c.context))
         \/ /\ update.type = "replace" /\ update.messages = Projected(c, kind)
            /\ \/ kind = "compaction" \/ c.cursor = None
               \/ ~(c.cursor.revision >= c.replaced) \/ ~(c.cursor.length <= Len(c.context))
  <2>1. CASE /\ kind = "agent" /\ c.cursor # None
             /\ c.cursor.revision >= c.replaced /\ c.cursor.length <= Len(c.context)
    <3>1. c.cursor.revision \in Nat /\ c.cursor.length \in Nat
      BY <2>1 DEF Dated, Cursors
    <3>2. PICK rest : rest = SubSeq(Shown(c.view, c.context), c.cursor.length + 1, Len(c.context))
      OBVIOUS
    <3>3. Shown(c.view, c.context) \in Seq(Entries)
      BY <1>1, <2>1 DEF Projected
    <3>4. Len(Shown(c.view, c.context)) = Len(c.context) /\ Len(c.context) \in Nat
      <4>1. \A i \in 1..Len(c.context) :
              [says |-> c.context[i], as |-> c.view] \in {[says |-> x, as |-> c.view] : x \in Messages}
        BY DEF Dated
      <4>2. c.context \in Seq(Messages)
        BY DEF Dated
      <4> QED BY <4>1, <4>2, ShownFacts
    <3>5. rest \in Seq(Entries)
      <4>1. PICK w \in Seq(Entries) : w = Shown(c.view, c.context)
        BY <3>3
      <4>2. rest = SubSeq(w, c.cursor.length + 1, Len(w))
        BY <3>2, <3>4, <4>1
      <4>3. \A l \in Nat : SubSeq(w, l + 1, Len(w)) \in Seq(Entries)
        BY <4>1
      <4> QED BY <3>1, <4>2, <4>3
    <3>6. update = AppendUpdate(c.cursor.revision, c.revision, rest)
      BY <1>2, <2>1, <3>2 DEF MessageUpdateSince, Projected
    <3>7. /\ update \in MessageUpdates /\ update.type = "append"
          /\ update.base = c.cursor.revision /\ update.revision = c.revision
          /\ update.messages = rest
      BY <1>1, <3>1, <3>5, <3>6, AppendTyped, SMTT(30)
    <3> QED BY <2>1, <3>2, <3>7
  <2>2. CASE ~(/\ kind = "agent" /\ c.cursor # None
               /\ c.cursor.revision >= c.replaced /\ c.cursor.length <= Len(c.context))
    <3>1. update = ReplaceUpdate(c.revision, Projected(c, kind))
      BY <1>2, <2>2 DEF MessageUpdateSince
    <3>2. \/ kind = "compaction" \/ c.cursor = None
          \/ ~(c.cursor.revision >= c.replaced) \/ ~(c.cursor.length <= Len(c.context))
      BY <2>2 DEF Completions
    <3> QED BY <1>1, <3>1, <3>2, ReplaceTyped
  <2> QED BY <2>1, <2>2
<1>4. PICK tools : tools = IF c.known = c.catalog THEN KeepTools(c.catalog)
                                                  ELSE ReplaceTools(c.catalog)
  OBVIOUS
<1>5. /\ tools \in ToolUpdates /\ tools.revision = c.catalog
      /\ tools.type = "keep" => c.known = c.catalog
  BY <1>1, <1>4 DEF KeepTools, ReplaceTools, ToolUpdates
<1>6. ModelInput(c, kind) = [messages |-> update, tools |-> tools]
  BY <1>2, <1>4 DEF ModelInput
<1>7. PICK input : input = ModelInput(c, kind)
  OBVIOUS
<1>8. input \in ModelInputs /\ input.messages = update /\ input.tools = tools
  BY <1>3, <1>5, <1>6, <1>7 DEF ModelInputs
<1>9. \/ kind = "compaction" \/ c.cursor = None
      \/ ~(c.cursor.revision >= c.replaced) \/ ~(c.cursor.length <= Len(c.context))
      => \/ kind = "compaction" \/ c.cursor = None
         \/ c.cursor.revision < c.replaced \/ c.cursor.length > Len(c.context)
  BY DEF Dated, Cursors
<1> QED BY <1>3, <1>5, <1>7, <1>8, <1>9, NoneAssumption DEF Differs

\* A copy the session believes in can be brought up to date, and is then what
\* the completion is owed.
LEMMA DiffersFits ==
  ASSUME NEW a, Healthy(a), NEW kind \in Completions, NEW input, Differs(a, kind, input),
         NEW m, Believes(a, m),
         m # NoMirror /\ (kind = "compaction" \/ a.cursor = None) => m.revision # a.revision
  PROVE  /\ m # NoMirror => /\ UpdateFits(m, input)
                            /\ \/ input.messages.type = "append"
                               \/ input.messages.revision # m.revision
         /\ \A k \in {m, NoMirror} : UpdateFits(k, input) => Updated(k, input) = Owed(a, kind)
<1>1. /\ input.messages.revision = a.revision /\ input.tools.revision = a.catalog
      /\ input.tools.type = "keep" => a.known = a.catalog
  BY DEF Differs
<1>2. a.revision \in Nat /\ a.replaced \in Nat /\ a.replaced <= a.revision
  BY DEF Healthy, Dated
<1>3. CASE /\ input.messages.type = "append" /\ kind = "agent" /\ a.cursor # None
           /\ a.cursor.revision >= a.replaced /\ a.cursor.length <= Len(a.context)
           /\ input.messages.base = a.cursor.revision
           /\ input.messages.messages =
                SubSeq(Shown(a.view, a.context), a.cursor.length + 1, Len(a.context))
  <2>1. a.cursor.revision \in Nat /\ a.cursor.length \in Nat
    BY <1>3 DEF Healthy, Dated, Cursors
  <2>2. ~UpdateFits(NoMirror, input)
    <3>1. NoMirror.revision = None
      BY DEF NoMirror
    <3> QED BY <1>3, <2>1, <3>1, NoneAssumption DEF UpdateFits
  <2>3. ASSUME m # NoMirror
        PROVE  UpdateFits(m, input) /\ Updated(m, input) = Owed(a, kind)
    <3>1. /\ m.tools = a.known /\ m.revision = a.cursor.revision
          /\ m.messages = Shown(a.view, SubSeq(a.context, 1, a.cursor.length))
      BY <1>3, <2>3 DEF Believes, Marks
    <3>2. UpdateFits(m, input)
      BY <1>1, <1>3, <3>1 DEF UpdateFits
    <3>3. m.messages \o input.messages.messages = Shown(a.view, a.context)
      <4>1. PICK s \in Seq(Messages) : s = a.context
        BY DEF Healthy, Dated
      <4>2. PICK n \in Nat : n = a.cursor.length
        BY <2>1
      <4>3. n <= Len(s)
        BY <1>3, <4>1, <4>2
      <4>4. Shown(a.view, SubSeq(s, 1, n)) \o SubSeq(Shown(a.view, s), n + 1, Len(s))
              = Shown(a.view, s)
        BY <4>3, ShownSplit
      <4> QED BY <1>3, <3>1, <4>1, <4>2, <4>4
    <3>4. Updated(m, input) = [messages |-> Shown(a.view, a.context),
                               revision |-> a.revision, tools |-> a.catalog]
      BY <1>1, <1>3, <3>3 DEF Updated
    <3> QED BY <1>3, <3>2, <3>4 DEF Owed, Projected
  <2> QED BY <1>3, <2>2, <2>3
<1>4. CASE /\ input.messages.type = "replace"
           /\ input.messages.messages = Projected(a, kind)
           /\ \/ kind = "compaction" \/ a.cursor = None
              \/ a.cursor.revision < a.replaced \/ a.cursor.length > Len(a.context)
  <2>1. \A k : Updated(k, input) = Owed(a, kind)
    BY <1>1, <1>4 DEF Updated, Owed
  <2>2. ASSUME m # NoMirror
        PROVE  UpdateFits(m, input) /\ input.messages.revision # m.revision
    <3>1. m.tools = a.known
      BY <2>2 DEF Believes
    <3>2. UpdateFits(m, input)
      BY <1>1, <1>4, <3>1 DEF UpdateFits
    <3>3. CASE kind = "compaction" \/ a.cursor = None
      BY <1>1, <2>2, <3>2, <3>3
    <3>4. CASE a.cursor # None
      <4>1. /\ m.revision = a.cursor.revision
            /\ a.cursor.revision >= a.replaced => a.cursor.length <= Len(a.context)
        BY <2>2, <3>4 DEF Believes, Marks
      <4>2. a.cursor.revision \in Nat /\ a.cursor.length \in Nat /\ Len(a.context) \in Nat
        BY <3>4 DEF Healthy, Dated, Cursors
      <4>3. CASE a.cursor.revision < a.replaced
        BY <1>1, <1>2, <3>2, <4>1, <4>2, <4>3
      <4>4. CASE a.cursor.length > Len(a.context)
        BY <1>1, <1>2, <3>2, <4>1, <4>2, <4>4
      <4> QED BY <1>4, <3>3, <4>3, <4>4
    <3> QED BY <3>3, <3>4
  <2> QED BY <2>1, <2>2
<1> QED BY <1>3, <1>4 DEF Differs

\* A completion that is called for finds the context changed since the copy was
\* brought up to date, or the session still knows where the copy ends.
LEMMA CallIsNews ==
  ASSUME NEW c, Healthy(c), NEW command, Good(c, command), NEW a, Advanced(c, command, a),
         NEW kind \in Completions, Range(command.calls) = {kind},
         NEW m, m # NoMirror, Believes(c, m), kind = "compaction" \/ a.cursor = None
  PROVE  m.revision # a.revision
<1>1. /\ m.revision \in Nat /\ m.revision <= c.revision /\ c.revision \in Nat
      /\ c.cursor = None /\ m.revision = c.revision => c.projected = c.revision
      /\ a.cursor = c.cursor
  BY DEF Believes, Healthy, Dated, Advanced
<1>2. a.revision = IF ContextChange(c, command) = "clean" THEN c.revision ELSE c.revision + 1
  BY DEF Advanced
<1>3. CASE kind = "compaction"
  <2>1. "compaction" \in Range(command.calls)
    BY <1>3
  <2>2. ContextChange(c, command) = "replace"
    BY <2>1 DEF ContextChange
  <2> QED BY <1>1, <1>2, <2>2
<1>4. CASE kind = "agent"
  <2> SUFFICES ASSUME m.revision = a.revision PROVE FALSE
    OBVIOUS
  <2>1. ContextChange(c, command) = "clean" /\ m.revision = c.revision
    BY <1>1, <1>2, ContextChangeCases
  <2>2. c.projected = c.revision /\ "agent" \in Range(command.calls)
    BY <1>1, <1>4, <2>1 DEF Completions
  <2>3. command.messages # <<>>
    BY <2>2 DEF Good, Possible
  <2>4. command.type \in {"begin", "answer", "summary"}
    BY <2>2 DEF Good, Range
  <2>5. command.type # "summary"
    BY <2>1 DEF ContextChange
  <2>6. ContextAfter(c, command) = c.context \o command.messages
    BY <2>4, <2>5 DEF ContextAfter
  <2>7. c.context \o command.messages # c.context
    <3>1. c.context \in Seq(Messages) /\ command.messages \in Seq(Messages)
      BY DEF Healthy, Dated, Good
    <3>2. \A s, t \in Seq(Messages) : t # <<>> => s \o t # s
      <4> SUFFICES ASSUME NEW s \in Seq(Messages), NEW t \in Seq(Messages), t # <<>>, s \o t = s
                   PROVE  FALSE
        OBVIOUS
      <4>1. Len(s \o t) = Len(s) + Len(t) /\ Len(s) \in Nat /\ Len(t) \in Nat
        OBVIOUS
      <4>2. Len(t) # 0
        OBVIOUS
      <4> QED BY <4>1, <4>2
    <3> QED BY <2>3, <3>1, <3>2
  <2>8. ContextChange(c, command) # "clean"
    BY <2>6, <2>7 DEF ContextChange
  <2> QED BY <2>1, <2>8
<1> QED BY <1>3, <1>4 DEF Completions

-----------------------------------------------------------------------------
(* Lemmas: the transition of an input.                                     *)

LEMMA GoodCalls ==
  ASSUME NEW c, NEW command, Good(c, command)
  PROVE  command.calls \in Seq(Kinds)
<1>1. command.calls \in Calls \cup {<<>>}
  BY DEF Good
<1>2. Calls \subseteq Seq(Kinds) /\ <<>> \in Seq(Kinds)
  BY CallsAssumption
<1> QED BY <1>1, <1>2

LEMMA EmittedKinds ==
  ASSUME NEW c, c.issued \in Nat, NEW calls \in Seq(Kinds)
  PROVE  {x.kind : x \in Range(NewActions(c, calls))} = Range(calls)
<1>1. PICK e : e = NewActions(c, calls)
  OBVIOUS
<1>2. /\ DOMAIN e = 1..Len(calls) /\ DOMAIN calls = 1..Len(calls)
      /\ \A i \in 1..Len(calls) : e[i] = [id |-> c.issued + i, kind |-> calls[i]]
  BY <1>1, EmittedFacts
<1>3. \A i \in 1..Len(calls) : e[i].kind = calls[i]
  BY <1>2
<1>4. Range(e) = {e[i] : i \in 1..Len(calls)} /\ Range(calls) = {calls[i] : i \in 1..Len(calls)}
  BY <1>2 DEF Range
<1> QED BY <1>1, <1>3, <1>4

\* A transition that calls for no completion leaves the copy as it is.
LEMMA PlainTransition ==
  ASSUME NEW c, Healthy(c), NEW command, Legal(c, command), Good(c, command),
         NEW a, Advanced(c, command, a), NEW emitted, emitted = NewActions(c, command.calls),
         Range(command.calls) \cap Completions = {},
         NEW m, Holds(c, m), NEW begun, begun \subseteq Ids(c.issued),
         NEW directives, directives = Directives(a, emitted)
  PROVE  Directs(a, m, Range(c.pending), begun, directives)
<1>1. c.issued \in Nat /\ Waiting(c) /\ Dated(c)
  BY DEF Healthy, Waiting
<1>2. a.pending \in Seq(Actions)
  BY <1>1, WaitingAfter DEF Waiting
<1>3. /\ DOMAIN directives = DOMAIN a.pending
      /\ \A i \in DOMAIN a.pending :
           directives[i] = IF a.pending[i] \in Range(emitted) THEN Dispatch(a, a.pending[i])
                                                              ELSE Keep(a.pending[i])
  BY DEF Directives
<1>4. PICK calls \in Seq(Kinds) : calls = command.calls
  BY GoodCalls
<1>5. /\ emitted \in Seq(Actions) /\ DOMAIN emitted = 1..Len(calls) /\ DOMAIN calls = 1..Len(calls)
      /\ \A i \in 1..Len(calls) : emitted[i] = [id |-> c.issued + i, kind |-> calls[i]]
  BY <1>1, <1>4, EmittedFacts
<1>6. ASSUME NEW x \in Range(emitted)
      PROVE  x.kind \notin Completions /\ x.id \notin begun
  <2>1. PICK i \in 1..Len(calls) : x = emitted[i]
    BY <1>5 DEF Range
  <2>2. x = [id |-> c.issued + i, kind |-> calls[i]]
    BY <1>5, <2>1
  <2>3. x.id = c.issued + i /\ x.kind = calls[i]
    BY <2>2
  <2>4. calls[i] \in Range(calls)
    BY <1>5 DEF Range
  <2>5. x.kind \notin Completions
    BY <1>4, <2>3, <2>4
  <2>6. x.id \notin Ids(c.issued)
    BY <1>1, <2>3 DEF Ids
  <2> QED BY <2>5, <2>6
<1>7. ASSUME NEW i \in DOMAIN directives
      PROVE  /\ directives[i].action = a.pending[i] /\ directives[i].input = None
             /\ IF directives[i].type = "dispatch"
                  THEN directives[i].action.id \notin begun
                  ELSE directives[i].action \in Range(c.pending)
  <2>1. i \in DOMAIN a.pending
    BY <1>3
  <2>2. CASE a.pending[i] \in Range(emitted)
    <3>1. directives[i] = Dispatch(a, a.pending[i])
      BY <1>3, <2>1, <2>2
    <3>2. /\ directives[i].type = "dispatch" /\ directives[i].action = a.pending[i]
          /\ directives[i].input = None
      BY <1>6, <2>2, <3>1 DEF Dispatch
    <3> QED BY <1>6, <2>2, <3>2
  <2>3. CASE a.pending[i] \notin Range(emitted)
    <3>1. directives[i] = Keep(a.pending[i])
      BY <1>3, <2>1, <2>3
    <3>2. /\ directives[i].type = "keep" /\ directives[i].action = a.pending[i]
          /\ directives[i].input = None
      BY <3>1 DEF Keep
    <3>3. a.pending # emitted
      BY <2>1, <2>3 DEF Range
    <3>4. a.pending = Waits(c, command)
      BY <1>1, <3>3, PendingAfter
    <3>5. PICK j \in DOMAIN c.pending : a.pending[i] = c.pending[j]
      BY <1>1, <2>1, <3>4, WaitsFacts
    <3>6. a.pending[i] \in Range(c.pending)
      BY <3>5 DEF Range
    <3> QED BY <3>2, <3>6
  <2> QED BY <2>2, <2>3
<1>8. InputsIn(directives) = {}
  BY <1>7 DEF InputsIn
<1>9. {directives[i].action : i \in DOMAIN directives} = Range(a.pending)
  <2>1. Range(a.pending) = {a.pending[i] : i \in DOMAIN a.pending}
    BY DEF Range
  <2> QED BY <1>3, <1>7, <2>1
<1>10. Holds(a, m)
  BY <1>1, HoldsAfter
<1> QED BY <1>7, <1>8, <1>9, <1>10 DEF Directs

\* A single directive with model input.
LEMMA LoneDirective ==
  ASSUME NEW d, NEW m, NEW own, NEW begun, NEW directives, NEW x, NEW directive,
         DOMAIN directives = {1}, directives[1] = directive, directive.action = x,
         Range(d.pending) = {x}, directive.input # None,
         IF directive.type = "dispatch" THEN x.id \notin begun ELSE x \in own,
         Fits(d, m, directive)
  PROVE  Directs(d, m, own, begun, directives)
<1>1. {directives[i].input : i \in DOMAIN directives} = {directive.input}
  OBVIOUS
<1>2. InputsIn(directives) = {directive.input}
  BY <1>1 DEF InputsIn
<1>3. {directives[i].action : i \in DOMAIN directives} = {x}
  OBVIOUS
<1> QED BY <1>2, <1>3 DEF Directs

\* A transition that calls for a completion brings the copy up to date.
LEMMA CallTransition ==
  ASSUME NEW c, Healthy(c), NEW command, Legal(c, command), Good(c, command),
         NEW a, Advanced(c, command, a), NEW emitted, emitted = NewActions(c, command.calls),
         Range(command.calls) \cap Completions # {},
         NEW m, Holds(c, m), NEW begun, begun \subseteq Ids(c.issued),
         NEW directives, directives = Directives(a, emitted)
  PROVE  \E kind \in Completions :
           /\ Range(command.calls) = {kind} /\ Healthy(a)
           /\ \A d : Sent(a, d, kind) => Directs(d, m, Range(c.pending), begun, directives)
<1>1. c.issued \in Nat /\ Waiting(c) /\ Dated(c)
  BY DEF Healthy, Waiting
<1>2. command.calls # <<>>
  <2>1. Range(<<>>) = {}
    BY DEF Range
  <2> QED BY <2>1
<1>3. PICK calls \in Seq(Kinds) : calls = command.calls /\ calls \in Calls
  BY <1>2, CallsAssumption DEF Good
<1>4. Len(calls) = 1
  BY <1>3, CallsAssumption
<1>5. PICK kind : kind = calls[1]
  OBVIOUS
<1>6. Range(calls) = {kind} /\ kind \in Completions
  <2>1. Range(calls) = {kind}
    BY <1>3, <1>4, <1>5 DEF Range
  <2> QED BY <1>3, <2>1
<1>7. PICK x : x = [id |-> c.issued + 1, kind |-> kind]
  OBVIOUS
<1>8. /\ emitted \in Seq(Actions) /\ Len(emitted) = 1 /\ emitted[1] = x
  BY <1>1, <1>3, <1>4, <1>5, <1>7, EmittedFacts
<1>9. a.pending = emitted
  BY <1>1, <1>2, PendingAfter
<1>10. DOMAIN a.pending = {1} /\ a.pending[1] = x /\ x \in Range(emitted) /\ Range(a.pending) = {x}
  BY <1>8, <1>9 DEF Range
<1>11. x.kind = kind /\ x.id \notin begun
  <2>1. x.kind = kind /\ x.id = c.issued + 1
    BY <1>7
  <2>2. x.id \notin Ids(c.issued)
    BY <1>1, <2>1 DEF Ids
  <2> QED BY <2>1, <2>2
<1>12. PICK directive : directive = Dispatch(a, x)
  OBVIOUS
<1>13. DOMAIN directives = {1} /\ directives[1] = directive
  BY <1>10, <1>12 DEF Directives
<1>14. PICK input : input = ModelInput(a, kind)
  OBVIOUS
<1>15. directive.type = "dispatch" /\ directive.action = x /\ directive.input = input
  BY <1>6, <1>11, <1>12, <1>14 DEF Dispatch
<1>16. Healthy(a)
  BY <1>1, DatedAfter, WaitingAfter DEF Healthy, Advanced
<1>17. Differs(a, kind, input) /\ input # None
  BY <1>6, <1>14, <1>16, OrdinaryInput DEF Healthy
<1>18. Believes(a, m)
  BY <1>1, BelievesAfter DEF Holds
<1>19. m # NoMirror /\ (kind = "compaction" \/ a.cursor = None) => m.revision # a.revision
  BY <1>3, <1>6, CallIsNews DEF Holds
<1>20. /\ m # NoMirror => /\ UpdateFits(m, input)
                          /\ \/ input.messages.type = "append"
                             \/ input.messages.revision # m.revision
       /\ \A k \in {m, NoMirror} : UpdateFits(k, input) => Updated(k, input) = Owed(a, kind)
  BY <1>6, <1>16, <1>17, <1>18, <1>19, DiffersFits
<1>21. ASSUME NEW d, Sent(a, d, kind)
       PROVE  Directs(d, m, Range(c.pending), begun, directives)
  <2>1. a.pending # <<>> /\ \A i \in DOMAIN a.pending : a.pending[i].kind = kind
    BY <1>8, <1>9, <1>10, <1>11
  <2>2. Holds(d, Owed(a, kind))
    BY <1>6, <1>16, <1>21, <2>1, OwedHeld
  <2>3. Fits(d, m, directive)
    BY <1>15, <1>20, <2>2 DEF Fits
  <2>4. Range(d.pending) = {x}
    BY <1>10, <1>21 DEF Sent
  <2> QED BY <1>11, <1>13, <1>15, <1>17, <2>3, <2>4, LoneDirective
<1> QED BY <1>3, <1>6, <1>16, <1>21

\* finish: the session stays healthy, and its transition is one the Runtime can
\* follow.
LEMMA FinishDirects ==
  ASSUME NEW c, Healthy(c), NEW command, Legal(c, command), Good(c, command),
         NEW m, Holds(c, m), NEW begun, begun \subseteq Ids(c.issued)
  PROVE  /\ Healthy(Finish(c, command).core)
         /\ c.issued <= Finish(c, command).core.issued
         /\ Directs(Finish(c, command).core, m, Range(c.pending), begun,
                    Finish(c, command).directives)
<1>1. PICK a : a = Advance(c, command).core
  OBVIOUS
<1>2. PICK emitted : emitted = NewActions(c, command.calls)
  OBVIOUS
<1>3. Advanced(c, command, a) /\ Advance(c, command).emitted = emitted
  BY <1>1, <1>2, AdvanceEffect DEF Healthy
<1>4. PICK directives : directives = Directives(a, emitted)
  OBVIOUS
<1>5. PICK calls \in Seq(Kinds) : calls = command.calls
  BY GoodCalls
<1>6. {x.kind : x \in Range(emitted)} = Range(command.calls)
  BY <1>2, <1>5, EmittedKinds DEF Healthy, Waiting
<1>7. PICK d : d = InputSent(a, Range(command.calls))
  OBVIOUS
<1>8. Finish(c, command).core = d /\ Finish(c, command).directives = directives
  BY <1>1, <1>3, <1>4, <1>6, <1>7 DEF Finish
<1>9. Healthy(a) /\ c.issued <= a.issued
  BY <1>3, DatedAfter, WaitingAfter DEF Healthy, Advanced
<1>10. CASE Range(command.calls) \cap Completions = {}
  <2>1. d = a
    BY <1>7, <1>10 DEF InputSent
  <2>2. Directs(a, m, Range(c.pending), begun, directives)
    BY <1>2, <1>3, <1>4, <1>10, PlainTransition
  <2> QED BY <1>8, <1>9, <2>1, <2>2
<1>11. CASE Range(command.calls) \cap Completions # {}
  <2>1. PICK kind \in Completions :
           /\ Range(command.calls) = {kind}
           /\ \A e : Sent(a, e, kind) => Directs(e, m, Range(c.pending), begun, directives)
    BY <1>2, <1>3, <1>4, <1>11, CallTransition, ZenonT(90)
  <2>2. Sent(a, d, kind)
    BY <1>7, <1>9, <2>1, InputSentEffect DEF Healthy
  <2>3. Healthy(d) /\ d.issued = a.issued
    BY <1>9, <2>1, <2>2, SentHealthy DEF Sent
  <2> QED BY <1>8, <1>9, <2>1, <2>2, <2>3
<1> QED BY <1>10, <1>11

\* finish_resync: likewise.
LEMMA ResyncDirects ==
  ASSUME NEW c, Healthy(c), NEW command, Legal(c, command), command.type = "resync",
         NEW m, NEW begun
  PROVE  /\ Healthy(FinishResync(c, command).core)
         /\ FinishResync(c, command).core.issued = c.issued
         /\ Directs(FinishResync(c, command).core, m, Range(c.pending), begun,
                    FinishResync(c, command).directives)
<1>1. Waiting(c) /\ Dated(c)
  BY DEF Healthy
<1>2. PICK kind : kind = PendingKind(c, command.id)
  OBVIOUS
<1>3. kind \in Completions
  BY <1>2 DEF Legal
<1>4. PICK i \in DOMAIN c.pending : c.pending[i].id = command.id
  BY DEF Legal, PendingIds
<1>5. PICK x : x = [id |-> command.id, kind |-> kind]
  OBVIOUS
<1>6. \E k \in Kinds : \E j \in DOMAIN c.pending : c.pending[j] = [id |-> command.id, kind |-> k]
  <2>1. c.pending[i] \in Actions
    BY <1>1, <1>4 DEF Waiting
  <2>2. c.pending[i].kind \in Kinds /\ c.pending[i] = [id |-> command.id, kind |-> c.pending[i].kind]
    BY <1>4, <2>1 DEF Actions
  <2> QED BY <1>4, <2>2
<1>7. PICK j \in DOMAIN c.pending : c.pending[j] = x
  BY <1>2, <1>5, <1>6 DEF PendingKind
<1>8. x.kind = kind /\ x.id = command.id
  BY <1>5
<1>9. Len(c.pending) = 1
  BY <1>1, <1>3, <1>7, <1>8 DEF Waiting
<1>10. DOMAIN c.pending = {1} /\ c.pending[1] = x /\ Range(c.pending) = {x} /\ c.pending # <<>>
  BY <1>1, <1>7, <1>9 DEF Waiting, Range
<1>11. PICK d : d = InputSent(c, {kind})
  OBVIOUS
<1>12. Sent(c, d, kind)
  BY <1>3, <1>11, InputSentEffect DEF Healthy
<1>13. Healthy(d) /\ d.issued = c.issued
  BY <1>12, SentHealthy DEF Sent
<1>14. PICK input : input = FullModelInput(c, kind)
  OBVIOUS
<1>15. input # None /\ \A k : UpdateFits(k, input) /\ Updated(k, input) = Owed(c, kind)
  BY <1>1, <1>3, <1>14, FullInput
<1>16. PICK directive : directive = [type |-> "refresh", action |-> x, input |-> input]
  OBVIOUS
<1>17. directive.type = "refresh" /\ directive.action = x /\ directive.input = input
  BY <1>16
<1>18. PICK directives : directives = <<directive>>
  OBVIOUS
<1>19. FinishResync(c, command).core = d /\ FinishResync(c, command).directives = directives
  BY <1>2, <1>5, <1>11, <1>14, <1>16, <1>18 DEF FinishResync
<1>20. Holds(d, Owed(c, kind))
  BY <1>3, <1>8, <1>10, <1>12, OwedHeld
<1>21. Fits(d, m, directive)
  BY <1>15, <1>17, <1>20 DEF Fits
<1>22. DOMAIN directives = {1} /\ directives[1] = directive
  BY <1>18
<1>23. Range(d.pending) = {x} /\ x \in Range(c.pending)
  BY <1>10, <1>12 DEF Sent
<1>24. Directs(d, m, Range(c.pending), begun, directives)
  BY <1>15, <1>17, <1>21, <1>22, <1>23, LoneDirective
<1> QED BY <1>13, <1>19, <1>24

LEMMA CommitSame ==
  ASSUME NEW c, Healthy(c), NEW input, NEW transition,
         NEW d, d = Commit(c, input, transition)
  PROVE  /\ Healthy(d) /\ d.issued = c.issued /\ d.response = transition /\ d.last = input.id
         /\ \A m, own, begun, directives :
              Directs(c, m, own, begun, directives) => Directs(d, m, own, begun, directives)
<1>1. /\ Whole(d) /\ d.context = c.context /\ d.view = c.view /\ d.projection = c.projection
      /\ d.projected = c.projected /\ d.revision = c.revision /\ d.replaced = c.replaced
      /\ d.catalog = c.catalog /\ d.pending = c.pending /\ d.issued = c.issued
      /\ d.known = c.known /\ d.cursor = c.cursor
      /\ d.response = transition /\ d.last = input.id
  BY DEF Commit, Healthy, Whole, Fields
<1>2. Waiting(d)
  BY <1>1 DEF Healthy, Waiting
<1>3. Dated(d)
  BY <1>1 DEF Healthy, Dated
<1>4. \A kind : Owed(c, kind) = Owed(d, kind)
  BY <1>1 DEF Owed, Projected
<1>5. \A m : Marks(c, m) => Marks(d, m)
  BY <1>1 DEF Marks
<1>6. \A m : Believes(c, m) => Believes(d, m)
  BY <1>1, <1>5 DEF Believes
<1>7. \A m : Holds(c, m) => Holds(d, m)
  BY <1>1, <1>4, <1>6 DEF Holds
<1>8. \A m, directive : Fits(c, m, directive) => Fits(d, m, directive)
  BY <1>7 DEF Fits
<1>9. ASSUME NEW m, NEW own, NEW begun, NEW directives, Directs(c, m, own, begun, directives)
      PROVE  Directs(d, m, own, begun, directives)
  BY <1>1, <1>7, <1>8, <1>9 DEF Directs
<1> QED BY <1>1, <1>2, <1>3, <1>9 DEF Healthy

\* HarnessSession::apply, for the next input of a Runtime that is level.
Answered(c, m, begun, applied) ==
  LET d == applied.core IN
  /\ applied.result = "accepted" /\ applied.transition = d.response
  /\ Healthy(d) /\ c.issued <= d.issued
  /\ Directs(d, m, Range(c.pending), begun, d.response.directives)

LEMMA ApplyNext ==
  ASSUME NEW c, Healthy(c), c.last \in 0..MaxInputId,
         NEW input, input.id = c.last + 1, Good(c, input.command),
         c.receipt # NoInput => c.receipt.id = c.last,
         NEW m, Holds(c, m), NEW begun, begun \subseteq Ids(c.issued)
  PROVE  \/ Apply(c, input).core = c /\ Apply(c, input).result # "accepted"
         \/ Apply(c, input).core # c /\ Answered(c, m, begun, Apply(c, input))
<1>1. CASE c.last = MaxInputId
  <2>1. Prepared(c, input) = "exhausted"
    BY <1>1, InputIdsAssumption DEF Prepared
  <2> QED BY <2>1 DEF Apply, Rejected
<1>2. CASE c.last # MaxInputId
  <2>1. Prepared(c, input) = "fresh"
    BY <1>2, InputIdsAssumption DEF Prepared
  <2>2. CASE ~Legal(c, input.command)
    BY <2>1, <2>2 DEF Apply, Rejected
  <2>3. CASE Legal(c, input.command)
    <3>1. PICK f : f = IF input.command.type = "resync"
                         THEN FinishResync(c, input.command)
                         ELSE Finish(c, input.command)
      OBVIOUS
    <3>2. PICK transition : transition = [id |-> input.id, directives |-> f.directives]
      OBVIOUS
    <3>3. PICK d : d = Commit(f.core, input, transition)
      OBVIOUS
    <3>4. Apply(c, input) = [core |-> d, result |-> "accepted", transition |-> transition]
      BY <2>1, <2>3, <3>1, <3>2, <3>3 DEF Apply, Accepted
    <3>5. c.issued \in Nat
      BY DEF Healthy, Waiting
    <3>6. /\ Healthy(f.core) /\ c.issued <= f.core.issued
          /\ Directs(f.core, m, Range(c.pending), begun, f.directives)
      <4>1. CASE input.command.type = "resync"
        <5>1. f = FinishResync(c, input.command)
          BY <3>1, <4>1
        <5> QED BY <2>3, <3>5, <4>1, <5>1, ResyncDirects
      <4>2. CASE input.command.type # "resync"
        <5>1. f = Finish(c, input.command)
          BY <3>1, <4>2
        <5> QED BY <2>3, <5>1, FinishDirects
      <4> QED BY <4>1, <4>2
    <3>7. /\ Healthy(d) /\ d.issued = f.core.issued /\ d.response = transition
          /\ d.last = input.id
          /\ Directs(d, m, Range(c.pending), begun, f.directives)
      BY <3>3, <3>6, CommitSame
    <3>8. d # c
      BY <3>7
    <3>9. transition.directives = f.directives
      BY <3>2
    <3>10. Answered(c, m, begun, Apply(c, input))
      BY <3>4, <3>6, <3>7, <3>9 DEF Answered
    <3> QED BY <3>4, <3>8, <3>10
  <2> QED BY <2>2, <2>3
<1> QED BY <1>1, <1>2

-----------------------------------------------------------------------------
(* The copy is exact, and every action is handed out once.                 *)

\* Without a copy there is nothing to be wrong about.
LEMMA NoMirrorHolds ==
  ASSUME NEW c PROVE Holds(c, NoMirror)
BY DEF Holds, Believes

LEMMA TextsAre == \A m \in Texts : m \in Seq(Messages)
<1>1. \A message \in Messages : <<message>> \in Seq(Messages)
  OBVIOUS
<1>2. <<>> \in Seq(Messages)
  OBVIOUS
<1> QED BY <1>1, <1>2 DEF Texts

LEMMA InitExact == Init => Exact
<1> SUFFICES ASSUME Init PROVE Exact
  OBVIOUS
<1>1. PICK history \in Texts : core = NewSession(history)
  BY DEF Init
<1>2. history \in Seq(Messages)
  BY TextsAre
<1>3. /\ Whole(core) /\ core.context = history /\ core.revision = 0 /\ core.replaced = 0
      /\ core.catalog = 0 /\ core.view = "native" /\ core.pending = <<>>
      /\ core.projection = <<>> /\ core.issued = 0 /\ core.cursor = None
  BY <1>1 DEF NewSession, Whole, Fields
<1>4. Waiting(core)
  BY <1>3 DEF Waiting
<1>5. Dated(core)
  BY <1>2, <1>3 DEF Dated
<1>6. Level(core)
  <2>1. Range(<<>>) = {}
    BY DEF Range
  <2> QED BY <1>3, <2>1, NoMirrorHolds DEF Level, Init
<1> QED BY <1>3, <1>4, <1>5, <1>6 DEF Exact, Healthy, Init

\* What a Runtime sends is a command the reducer can make something of.
LEMMA CommandsGood ==
  ASSUME NEW command,
         \/ command \in UserCommands
         \/ \E action \in owned : command \in Results(action),
         Possible(core, command) \/ command = Inform
  PROVE  Good(core, command)
<1>1. \A m \in Texts : m \in Seq(Messages)
  BY TextsAre
<1>2. <<>> \in Seq(Messages) /\ Range(<<>>) = {}
  BY DEF Range
<1>3. Possible(core, command)
  <2>1. Possible(core, Inform)
    BY <1>2 DEF Possible, Inform, Command
  <2> QED BY <2>1
<1>4. CASE \E m \in Texts, calls \in Calls : command = Begin(m, calls)
  BY <1>1, <1>3, <1>4 DEF Begin, Command, Good
<1>5. CASE \E m \in Texts : command = Interrupt(m) \/ command = ChangePrompt(m)
  BY <1>1, <1>3, <1>5 DEF Interrupt, ChangePrompt, Command, Good
<1>6. CASE command \in {Inform, ChangeTools, ChangeView}
  <2>1. /\ command.type \in {"inform", "tools", "view"}
        /\ command.messages = <<>> /\ command.calls = <<>>
    BY <1>6 DEF Inform, ChangeTools, ChangeView, Command
  <2> QED BY <1>2, <1>3, <2>1 DEF Good
<1>7. CASE \E action : command = Resync(action.id)
  BY <1>2, <1>3, <1>7 DEF Resync, Command, Good
<1>8. CASE \E action : \E m \in Texts, calls \in Calls :
             command = Answer(action.id, m, calls) \/ command = Summary(action.id, m, calls)
  BY <1>1, <1>3, <1>8 DEF Answer, Summary, Command, Good
<1>9. CASE command \in UserCommands
  BY <1>4, <1>5, <1>6, <1>9 DEF UserCommands
<1>10. CASE \E action \in owned : command \in Results(action)
  <2>1. <<>> \in Texts
    BY DEF Texts
  <2> QED BY <1>7, <1>8, <1>10, <2>1 DEF Results
<1> QED BY <1>9, <1>10

LEMMA SendExact ==
  ASSUME IInv, Exact, NEW command, Send(command),
         \/ command \in UserCommands
         \/ \E action \in owned : command \in Results(action)
  PROVE  Exact'
<1>1. UNCHANGED <<core, next, reply, mirror, owned, started, count>>
  BY DEF Send, effects
<1>2. waiting' = Input(next, command)
  BY DEF Send
<1>3. waiting'.command = command
  BY <1>2 DEF Input
<1>4. Good(core, command)
  BY CommandsGood DEF Send
<1>5. Level(core)' = Level(core) /\ Behind(core)' = Behind(core)
  BY <1>1 DEF Level, Behind
<1> QED BY <1>1, <1>3, <1>4, <1>5 DEF Exact

LEMMA ProcessExact ==
  ASSUME IInv, Exact, Process PROVE Exact'
<1>1. /\ Delivers(core) /\ core.last = count /\ count \in 0..MaxInputId
      /\ core.receipt # NoInput => core.receipt.id = core.last
      /\ count \in Nat /\ MaxInputId \in Nat
  BY InputIdsAssumption DEF IInv, ReceiptInv
<1>2. PICK applied : applied = Apply(core, waiting)
  OBVIOUS
<1>3. /\ waiting # NoInput /\ waiting.id = next
      /\ UNCHANGED <<next, waiting, mirror, owned, started>>
      /\ core' = applied.core
      /\ reply'.result = applied.result /\ reply'.transition = applied.transition
      /\ IF applied.core # core THEN count' = count + 1 ELSE count' = count
  BY <1>2 DEF IInv, CountInv, Process, Receive, effects
<1>4. Healthy(core) /\ started \subseteq Ids(core.issued)
  BY DEF Exact
<1>5. CASE next = count + 1
  <2>1. Level(core) /\ Good(core, waiting.command)
    BY <1>3, <1>5 DEF Exact
  <2>2. \/ applied.core = core /\ applied.result # "accepted"
        \/ applied.core # core /\ Answered(core, mirror, started, applied)
    BY <1>1, <1>2, <1>3, <1>4, <1>5, <2>1, ApplyNext DEF Level
  <2>3. CASE applied.core = core /\ applied.result # "accepted"
    <3>1. Level(core)' = Level(core) /\ Good(core, waiting.command)' = Good(core, waiting.command)
      BY <1>3, <2>3 DEF Level
    <3>2. next' # count'
      BY <1>1, <1>3, <1>5, <2>3
    <3> QED BY <1>3, <1>4, <2>1, <2>3, <3>1, <3>2 DEF Exact
  <2>4. CASE applied.core # core /\ Answered(core, mirror, started, applied)
    <3>1. /\ Healthy(core') /\ core.issued <= core'.issued
          /\ Directs(core', mirror, owned, started, core'.response.directives)
          /\ applied.transition = core'.response
      BY <1>3, <2>1, <2>4 DEF Answered, Level
    <3>2. started' \subseteq Ids(core'.issued)
      <4>1. core.issued \in Nat /\ core'.issued \in Nat
        BY <1>4, <3>1 DEF Healthy, Waiting
      <4> QED BY <1>3, <1>4, <3>1, <4>1 DEF Ids
    <3>3. Behind(core)'
      BY <1>3, <3>1 DEF Behind
    <3>4. next' # count' + 1
      BY <1>1, <1>3, <1>5, <2>4
    <3> QED BY <1>3, <3>1, <3>2, <3>3, <3>4 DEF Exact
  <2> QED BY <2>2, <2>3, <2>4
<1>6. CASE next = count /\ core.receipt = waiting
  <2>1. Prepared(core, waiting) = "replay"
    BY <1>3, <1>6 DEF Prepared
  <2>2. applied.core = core /\ applied.transition = core.response
    BY <1>2, <2>1 DEF Apply, Accepted
  <2>3. next' = next /\ count' = count /\ core' = core /\ next # count + 1
    BY <1>1, <1>3, <1>6, <2>2
  <2>4. Behind(core)' = Behind(core)
    BY <1>3, <2>3 DEF Behind
  <2> QED BY <1>3, <1>6, <2>2, <2>3, <2>4 DEF Exact
<1> QED BY <1>3, <1>5, <1>6 DEF IInv, CountInv

LEMMA TakeAcceptedExact ==
  ASSUME IInv, Exact, TakeAccepted PROVE Exact'
<1>1. PICK directives : directives = core.response.directives
  OBVIOUS
<1>2. /\ next = count /\ core' = core /\ count' = count /\ next' = next + 1
      /\ waiting' = NoInput /\ reply' = NoReply
      /\ reply.transition = core.response /\ count \in Nat
  BY InputIdsAssumption DEF IInv, ReceiptInv, ReplyInv, Exact, TakeAccepted, effects
<1>3. /\ owned' = {directives[i].action : i \in DOMAIN directives}
      /\ started' = started \cup
           { directives[i].action.id : i \in {j \in DOMAIN directives :
                                                directives[j].type = "dispatch"} }
      /\ mirror' = MirrorAfter(directives)
  BY <1>1, <1>2 DEF TakeAccepted, Follow
<1>4. Directs(core, mirror, owned, started, directives)
  BY <1>1, <1>2 DEF Exact, Behind
<1>5. owned' = Range(core.pending)
  BY <1>3, <1>4 DEF Directs
<1>6. Holds(core, mirror')
  <2>1. CASE InputsIn(directives) = {}
    BY <1>3, <1>4, <2>1 DEF Directs, MirrorAfter
  <2>2. CASE InputsIn(directives) # {}
    <3>1. PICK i \in DOMAIN directives : directives[i].input # None
      BY <2>2 DEF InputsIn
    <3>2. PICK input : input = directives[i].input
      OBVIOUS
    <3>3. InputsIn(directives) = {input} /\ Fits(core, mirror, directives[i])
      BY <1>4, <3>1, <3>2 DEF Directs
    <3>4. (CHOOSE k \in {input} : TRUE) = input
      OBVIOUS
    <3>5. mirror' = IF UpdateFits(mirror, input) THEN Updated(mirror, input) ELSE NoMirror
      BY <1>3, <3>3, <3>4 DEF MirrorAfter
    <3>6. CASE UpdateFits(mirror, input)
      BY <3>2, <3>3, <3>5, <3>6 DEF Fits
    <3>7. CASE ~UpdateFits(mirror, input)
      BY <3>5, <3>7, NoMirrorHolds
    <3> QED BY <3>6, <3>7
  <2> QED BY <2>1, <2>2
<1>7. started' \subseteq Ids(core.issued)
  <2>1. \A x \in Range(core.pending) : x.id \in Ids(core.issued)
    BY DEF Exact, Healthy, Waiting, Range
  <2>2. \A i \in DOMAIN directives : directives[i].action \in Range(core.pending)
    BY <1>4 DEF Directs
  <2> QED BY <1>3, <2>1, <2>2 DEF Exact
<1>8. Level(core)'
  BY <1>2, <1>5, <1>6 DEF Level
<1>9. next' # count'
  BY <1>2
<1>10. reply'.result # "accepted"
  BY <1>2 DEF NoReply
<1> QED BY <1>2, <1>7, <1>8, <1>9, <1>10 DEF Exact

LEMMA RestartExact ==
  ASSUME IInv, Exact, Restart PROVE Exact'
<1>1. PICK d : d = Restore(Checkpoint(core), core.last)
  OBVIOUS
<1>2. Healthy(core) /\ core' = d
  BY <1>1 DEF Exact, Restart
<1>3. /\ Whole(d) /\ d.context = core.context /\ d.revision = 0 /\ d.replaced = 0
      /\ d.catalog = 0 /\ d.view = core.view /\ d.pending = core.pending
      /\ d.projection = core.projection /\ d.issued = core.issued /\ d.cursor = None
      /\ (\E i \in DOMAIN core.pending : core.pending[i].kind = "compaction") => d.projected = 0
  BY <1>1 DEF Restore, Checkpoint, Whole, Fields
<1>4. Waiting(d)
  BY <1>2, <1>3 DEF Healthy, Waiting
<1>5. Dated(d)
  BY <1>2, <1>3 DEF Healthy, Dated
<1>6. /\ next = count + 1 /\ reply = NoReply /\ waiting = NoInput /\ count \in Nat
      /\ UNCHANGED <<next, waiting, reply, owned, started, count>> /\ mirror' = NoMirror
  BY InputIdsAssumption DEF IInv, ReceiptInv, CountInv, Restart, effects
<1>7. Level(core)'
  BY <1>2, <1>3, <1>6, NoMirrorHolds DEF Level, Exact
<1>8. next' # count' /\ reply'.result # "accepted"
  BY <1>6 DEF NoReply
<1> QED BY <1>2, <1>3, <1>4, <1>5, <1>6, <1>7, <1>8 DEF Exact, Healthy

LEMMA LoseCacheExact ==
  ASSUME IInv, Exact, LoseCache PROVE Exact'
<1>1. UNCHANGED <<core, next, waiting, reply, owned, started, count>> /\ mirror' = NoMirror
  BY DEF LoseCache, effects
<1>2. Level(core) => Level(core)'
  BY <1>1, NoMirrorHolds DEF Level
<1>3. Behind(core) => Behind(core)'
  <2>1. \A directive : Fits(core, mirror, directive) => Fits(core, NoMirror, directive)
    BY DEF Fits
  <2> QED BY <1>1, <2>1, NoMirrorHolds DEF Behind, Directs
<1> QED BY <1>1, <1>2, <1>3 DEF Exact

\* Exact is inductive, given what is known of the numbers.
LEMMA NextExact == IInv /\ Exact /\ [Next]_vars => Exact'
<1> SUFFICES ASSUME IInv, Exact, [Next]_vars PROVE Exact'
  OBVIOUS
<1>1. CASE \E command \in UserCommands : Send(command)
  BY <1>1, SendExact
<1>2. CASE \E action \in owned : \E command \in Results(action) : Send(command)
  BY <1>2, SendExact
<1>3. CASE Process
  BY <1>3, ProcessExact
<1>4. ASSUME UNCHANGED <<core, next, mirror, owned, started, count>>,
             waiting' \in {waiting, NoInput}, reply' \in {reply, NoReply},
             waiting' = NoInput => next = count + 1 \/ waiting = NoInput
      PROVE  Exact'
  <2>1. Level(core)' = Level(core) /\ Behind(core)' = Behind(core)
    BY <1>4 DEF Level, Behind
  <2>2. waiting' # NoInput => waiting' = waiting
    BY <1>4
  <2>3. reply'.result = "accepted" => reply' = reply
    BY <1>4 DEF NoReply
  <2> QED BY <1>4, <2>1, <2>2, <2>3 DEF Exact
<1>5. CASE LoseReply \/ TakeRejected
  <2>1. TakeRejected => next = count + 1
    BY DEF IInv, CountInv, ReplyInv, TakeRejected
  <2> QED BY <1>4, <1>5, <2>1 DEF LoseReply, TakeRejected, effects
<1>6. CASE TakeAccepted
  BY <1>6, TakeAcceptedExact
<1>7. CASE \E input \in Strays : Stray(input)
  <2>1. PICK input \in Strays : Stray(input)
    BY <1>7
  <2>2. UNCHANGED <<core, waiting, effects>>
    BY <2>1, StrayInv
  <2> QED BY <1>4, <2>1, <2>2 DEF Stray, effects
<1>8. CASE LoseCache
  BY <1>8, LoseCacheExact
<1>9. CASE Restart
  BY <1>9, RestartExact
<1>10. CASE UNCHANGED vars
  BY <1>4, <1>10 DEF vars, effects
<1> QED BY <1>1, <1>2, <1>3, <1>5, <1>6, <1>7, <1>8, <1>9, <1>10 DEF Next

\* What the session believes of its Runtime is so, in every reachable state.
LEMMA ExactAlways == Spec => [](IInv /\ Exact)
<1>1. Init => IInv /\ Exact
  BY InitInv, InitExact
<1>2. IInv /\ Exact /\ [Next]_vars => IInv' /\ Exact'
  BY NextInv, NextExact
<1> QED BY <1>1, <1>2, PTL DEF Spec

\* Between inputs the Runtime performs exactly what the turn waits for.  Each
\* action is handed out once, and is kept or asked for anew only while the
\* Runtime performs it, whatever answers are lost and however often the session
\* is restored (next_action, reconcile_pending_actions).
THEOREM HandedOutOnceHolds == Spec => []HandedOutOnce
<1>1. IInv /\ Exact => HandedOutOnce
  <2> SUFFICES ASSUME IInv, Exact PROVE HandedOutOnce
    OBVIOUS
  <2>1. ASSUME reply # NoReply, reply.result = "accepted"
        PROVE  \A i \in DOMAIN reply.transition.directives :
                 LET directive == reply.transition.directives[i] IN
                 IF directive.type = "dispatch"
                   THEN directive.action.id \notin started
                   ELSE directive.action \in owned
    <3>1. next = count /\ reply.transition = core.response
      BY <2>1 DEF IInv, ReplyInv, Exact
    <3> QED BY <3>1 DEF Exact, Behind, Directs
  <2>2. waiting = NoInput => owned = Range(core.pending)
    BY DEF IInv, CountInv, Exact, Level
  <2> QED BY <2>1, <2>2 DEF HandedOutOnce
<1> QED BY <1>1, ExactAlways, PTL

\* A Runtime whose copy of the model input was not dropped can apply every
\* update it is sent, and the copy is then exactly what the pending completion
\* is owed: appends, rewrites, compactions, new tools and views, lost answers,
\* resyncs and restarts never let the two drift apart (message_update_since,
\* synchronize_model_input).
THEOREM MirrorExactHolds == Spec => []MirrorExact
<1>1. IInv /\ Exact => MirrorExact
  <2> SUFFICES ASSUME IInv, Exact PROVE MirrorExact
    OBVIOUS
  <2>1. ASSUME reply # NoReply, reply.result = "accepted", mirror # NoMirror
        PROVE  \A i \in DOMAIN reply.transition.directives :
                 LET directive == reply.transition.directives[i] IN
                 directive.input # None =>
                   /\ UpdateFits(mirror, directive.input)
                   /\ \/ directive.type = "refresh"
                      \/ directive.input.messages.type = "append"
                      \/ directive.input.messages.revision # mirror.revision
    <3>1. next = count /\ reply.transition = core.response
      BY <2>1 DEF IInv, ReplyInv, Exact
    <3> QED BY <2>1, <3>1 DEF Exact, Behind, Directs, Fits
  <2>2. UpdatesFit
    BY <2>1 DEF UpdatesFit
  <2>3. ASSUME waiting = NoInput, mirror # NoMirror, NEW action \in owned,
               action.kind \in Completions
        PROVE  mirror = Owed(core, action.kind)
    <3>1. owned = Range(core.pending) /\ Holds(core, mirror)
      BY <2>3 DEF IInv, CountInv, Exact, Level
    <3>2. PICK i \in DOMAIN core.pending : core.pending[i] = action
      BY <2>3, <3>1 DEF Range
    <3> QED BY <2>3, <3>1, <3>2 DEF Holds
  <2> QED BY <2>2, <2>3 DEF MirrorExact
<1> QED BY <1>1, ExactAlways, PTL
=============================================================================
