------------------------- MODULE ClaudeChannelProofs -------------------------
(***************************************************************************)
(* Theorems about ClaudeChannel, for all values of its constants.          *)
(***************************************************************************)
EXTENDS ClaudeChannel, TLAPS

(***************************************************************************)
(* Lemmas on the relay's operators.                                        *)
(***************************************************************************)
\* What handle_webhook puts into the queue is an event.
LEMMA EventIsTyped ==
  ASSUME TypeOK, NEW b \in Deliverables, InBody(b)
  PROVE  EventOf(b, cursor[b]) \in Event
<1> DEFINE m == Body[b].msgs[cursor[b]]
<1>1. Body[b] \in [channel: Channels, msgs: Seq(Message)]
  BY BridgeAssumption
<1>2. m \in Message
  BY <1>1 DEF InBody
<1>3. (IF m.room = None THEN m.sender ELSE m.room) \in Rooms \cup Senders
  BY <1>2 DEF Message
<1>4. m.text \in Text
  BY <1>2 DEF Message
<1>5. TurnOf(b, cursor[b]) \in Turn
  BY DEF TurnOf, Turn, Attempt, TypeOK
<1> HIDE DEF m
<1>6. QED
  BY <1>1, <1>3, <1>4, <1>5 DEF EventOf, Event, Endpoint, m

\* Registering a request leaves the map of outstanding requests well-formed.
LEMMA RequestKeepsRelay ==
  ASSUME RelayTypeOK, NEW id \in RequestIds, NEW at \in Endpoint
  PROVE  PendingAfterRequest(id, at) \in [RequestIds -> Endpoint \cup {None}]
BY DEF RelayTypeOK, PendingAfterRequest

\* So does a reply, whether it is a verdict or not.
LEMMA VerdictKeepsRelay ==
  ASSUME RelayTypeOK, NEW text \in Text, NEW at \in Endpoint
  PROVE  PendingAfterVerdict(text, at) \in [RequestIds -> Endpoint \cup {None}]
BY RelayAssumption DEF RelayTypeOK, PendingAfterVerdict

\* An accepted reply names an outstanding id that was bound to its chat.
LEMMA AcceptedIsOutstanding ==
  ASSUME RelayTypeOK, NEW text \in Text, NEW at \in Endpoint, AcceptsVerdict(text, at)
  PROVE  /\ text.id \in RequestIds
         /\ pending[text.id] = at
         /\ at # None
<1>1. text.id \in RequestIds
  BY RelayAssumption DEF AcceptsVerdict, IsVerdict
<1>2. pending[text.id] \in Endpoint
  BY <1>1 DEF AcceptsVerdict, RelayTypeOK
<1>3. pending[text.id] = at
  BY <1>2 DEF AcceptsVerdict, Endpoint
<1>4. QED
  BY <1>1, <1>3, NoneIsNoEndpoint
------------------------------------------------------------------------------
(***************************************************************************)
(* Type correctness.                                                       *)
(***************************************************************************)
\* The initial values are in their types.
LEMMA InitTyped == Init => TypeOK
<1> SUFFICES ASSUME Init PROVE TypeOK
  OBVIOUS
<1>1. RelayTypeOK /\ answeredBy \in [RequestIds -> Endpoint \cup {None}]
  BY DEF Init, RelayInit, RelayTypeOK
<1>2. /\ queue \in Seq(Event)
      /\ Len(queue) <= EVENT_BUFFER_SIZE
      /\ stdin \in Seq(Line)
      /\ stdout \in Seq(Notification)
      /\ answers \in [Deliverables -> Seq(Status)]
  BY BridgeAssumption DEF Init
<1>3. loop \in LoopState
  BY DEF Init, Idle, Resting, LoopState
<1>4. lines \in 0..MaxLines
  BY BridgeAssumption DEF Init
<1>5. QED
  BY <1>1, <1>2, <1>3, <1>4 DEF Init, TypeOK

\* What a handler does keeps every variable in its type.
LEMMA HandlerTyped ==
  ASSUME TypeOK, NEW b \in Deliverables,
         RejectDelivery(b) \/ StartDelivery(b) \/ HandlerStep(b)
  PROVE  TypeOK'
<1> USE DEF relayVars, claudeVars
<1>a. ASSUME NEW status \in Status, Answer(b, status)
      PROVE  /\ answers' \in [Deliverables -> Seq(Status)]
             /\ cursor' \in [Deliverables -> Nat]
  BY <1>a DEF Answer, TypeOK
<1>1. CASE RejectDelivery(b)
  BY <1>1, <1>a DEF RejectDelivery, TypeOK, RelayTypeOK, Status
<1>2. CASE StartDelivery(b)
  BY <1>2 DEF StartDelivery, TypeOK, RelayTypeOK
<1>3. CASE HandlerStep(b)
  <2>1. /\ RelayTypeOK'
        /\ UNCHANGED <<lastSender, loop, stdin, stdout, working, lines, handled, asks,
                       verdicts, answeredBy>>
    BY <1>3 DEF HandlerStep, TypeOK, RelayTypeOK
  <2>2. /\ queue' \in Seq(Event)
        /\ Len(queue') <= EVENT_BUFFER_SIZE
        /\ cursor' \in [Deliverables -> Nat]
        /\ answers' \in [Deliverables -> Seq(Status)]
    <3>1. CASE SkipMessage(b)
      BY <3>1 DEF SkipMessage, TypeOK
    <3>2. CASE ForwardMessage(b)
      <4>1. EventOf(b, cursor[b]) \in Event
        BY <3>2, EventIsTyped DEF ForwardMessage
      <4>2. QED
        BY <3>2, <4>1, BridgeAssumption DEF ForwardMessage, TypeOK
    <3>3. CASE RefuseMessage(b)
      BY <3>3, <1>a DEF RefuseMessage, TypeOK, Status
    <3>4. CASE AcceptDelivery(b)
      BY <3>4, <1>a DEF AcceptDelivery, TypeOK, Status
    <3>5. QED
      BY <1>3, <3>1, <3>2, <3>3, <3>4 DEF HandlerStep
  <2>3. QED
    BY <2>1, <2>2 DEF TypeOK
<1>4. QED
  BY <1>1, <1>2, <1>3

\* What the MCP loop, Claude Code and the end of the process do keeps every
\* variable in its type.
LEMMA LoopTyped ==
  ASSUME TypeOK,
         \/ HandlePermissionRequest \/ FinishPrompt \/ HandleCall \/ FinishReply
         \/ HandleChannelEvent \/ Shutdown
  PROVE  TypeOK'
<1> USE DEF relayVars, claudeVars, webVars
<1>a. /\ Idle \in LoopState
      /\ Exited \in LoopState
      /\ Resting("replying") \in LoopState
  BY DEF Idle, Exited, Resting, LoopState
<1>b. /\ << >> \in Seq(Event)
      /\ Len(<< >>) <= EVENT_BUFFER_SIZE
  BY BridgeAssumption
<1>c. ASSUME NEW kind, NextLineIs(kind)
      PROVE  Head(stdin) \in Line /\ stdin' \in Seq(Line)
  BY <1>c DEF NextLineIs, TypeOK
<1>d. ASSUME Exit \/ Respond \/ (loop' = Resting("replying") /\ UNCHANGED queue)
      PROVE  /\ loop' \in LoopState
             /\ queue' \in Seq(Event)
             /\ Len(queue') <= EVENT_BUFFER_SIZE
  BY <1>a, <1>b, <1>d DEF Exit, Respond, TypeOK
<1>1. CASE HandlePermissionRequest
  <2> DEFINE line == Head(stdin)
  <2>1. line \in Line /\ stdin' \in Seq(Line)
    BY <1>1, <1>c DEF HandlePermissionRequest
  <2>2. CASE lastSender = None \/ line.id = EmptyId
    BY <1>1, <2>1, <2>2 DEF HandlePermissionRequest, TypeOK, RelayTypeOK
  <2>3. CASE ~(lastSender = None \/ line.id = EmptyId)
    <3>1. /\ lastSender \in Endpoint
          /\ line.id \in RequestIds \cup {NoId}
          /\ line.trigger \in Endpoint \cup {None}
      BY <2>1, <2>3 DEF TypeOK, Line
    <3>2. CASE line.id = NoId
      <4>1. pending' = pending /\ asks' = asks
        BY <1>1, <2>3, <3>2, RelayAssumption
        DEF HandlePermissionRequest, PendingAfterRequest, TypeOK, RelayTypeOK
      <4>2. loop' \in LoopState
        BY <1>1, <2>3, <3>1 DEF HandlePermissionRequest, LoopState
      <4>3. QED
        BY <1>1, <2>1, <4>1, <4>2 DEF HandlePermissionRequest, TypeOK, RelayTypeOK
    <3>3. CASE line.id \in RequestIds
      <4>1. pending' \in [RequestIds -> Endpoint \cup {None}]
        BY <1>1, <2>3, <3>1, <3>3, RequestKeepsRelay DEF HandlePermissionRequest, TypeOK
      <4>2. asks' \in [RequestIds -> Nat]
        BY <1>1, <2>3, <3>3 DEF HandlePermissionRequest, TypeOK
      <4>3. loop' \in LoopState
        BY <1>1, <2>3, <3>1 DEF HandlePermissionRequest, LoopState
      <4>4. QED
        BY <1>1, <2>1, <4>1, <4>2, <4>3 DEF HandlePermissionRequest, TypeOK, RelayTypeOK
    <3>4. QED
      BY <3>1, <3>2, <3>3
  <2>4. QED
    BY <2>2, <2>3
<1>2. CASE FinishPrompt
  BY <1>2, <1>a DEF FinishPrompt, TypeOK, RelayTypeOK
<1>3. CASE HandleCall
  <2>1. stdin' \in Seq(Line)
    BY <1>3, <1>c DEF HandleCall
  <2>2. QED
    BY <1>3, <1>d, <2>1 DEF HandleCall, TypeOK, RelayTypeOK
<1>4. CASE FinishReply
  BY <1>4, <1>d DEF FinishReply, TypeOK, RelayTypeOK
<1>5. CASE HandleChannelEvent
  <2> DEFINE e == Head(queue)
  <2>1. /\ e \in Event
        /\ Tail(queue) \in Seq(Event)
        /\ Len(Tail(queue)) <= EVENT_BUFFER_SIZE
    BY <1>5, BridgeAssumption DEF HandleChannelEvent, TypeOK
  <2>2. e.text \in Text /\ e.at \in Endpoint /\ e.turn \in Turn
    BY <2>1 DEF Event
  <2>3. RelayTypeOK'
    BY <1>5, <2>2, VerdictKeepsRelay DEF HandleChannelEvent, TypeOK, RelayTypeOK
  <2>4. CASE Exit /\ UNCHANGED <<stdout, verdicts, answeredBy, lastSender, handled>>
    BY <1>5, <1>d, <2>3, <2>4 DEF HandleChannelEvent, TypeOK
  <2>5. CASE /\ ReportVerdict(e) \/ ForwardToClaude(e)
             /\ lastSender' = e.at
             /\ handled' = handled \cup {e.turn}
             /\ queue' = Tail(queue)
             /\ UNCHANGED loop
    <3>1. /\ stdout' \in Seq(Notification)
          /\ verdicts' \in [RequestIds -> Nat]
          /\ answeredBy' \in [RequestIds -> Endpoint \cup {None}]
      <4>1. CASE ReportVerdict(e)
        <5>1. e.text.id \in RequestIds
          BY <2>2, <4>1, AcceptedIsOutstanding DEF ReportVerdict, TypeOK
        <5>2. [kind |-> "permission", at |-> None, text |-> e.text] \in Notification
          BY <2>2 DEF Notification
        <5>3. QED
          BY <2>2, <4>1, <5>1, <5>2 DEF ReportVerdict, TypeOK
      <4>2. CASE ForwardToClaude(e)
        <5>1. [kind |-> "channel", at |-> e.at, text |-> e.text] \in Notification
          BY <2>2 DEF Notification
        <5>2. QED
          BY <4>2, <5>1 DEF ForwardToClaude, TypeOK
      <4>3. QED
        BY <2>5, <4>1, <4>2
    <3>2. QED
      BY <1>5, <2>1, <2>2, <2>3, <2>5, <3>1 DEF HandleChannelEvent, TypeOK
  <2>6. QED
    BY <1>5, <2>4, <2>5 DEF HandleChannelEvent
<1>6. CASE Shutdown
  BY <1>6, <1>d DEF Shutdown, TypeOK, RelayTypeOK
<1>7. QED
  BY <1>1, <1>2, <1>3, <1>4, <1>5, <1>6

\* So does what Claude Code does.
LEMMA ClaudeTyped == TypeOK /\ ClaudeStep => TypeOK'
<1> SUFFICES ASSUME TypeOK, ClaudeStep PROVE TypeOK'
  OBVIOUS
<1> USE DEF relayVars, claudeVars, webVars
<1>1. CASE ReadNotification
  <2>1. Head(stdout) \in Notification /\ stdout' \in Seq(Notification)
    BY <1>1 DEF ReadNotification, TypeOK
  <2>2. working' \in Endpoint \cup {None}
    BY <1>1, <2>1 DEF ReadNotification, TypeOK, Notification
  <2>3. QED
    BY <1>1, <2>1, <2>2 DEF ReadNotification, TypeOK, RelayTypeOK
<1>2. ASSUME NEW kind \in {"permission_request", "call"}, NEW id \in RequestIds \cup {NoId},
             WriteLine(kind, id)
      PROVE  TypeOK'
  <2>1. [kind |-> kind, id |-> id, trigger |-> working] \in Line
    BY DEF TypeOK, Line
  <2>2. stdin' \in Seq(Line)
    BY <1>2, <2>1 DEF WriteLine, TypeOK
  <2>3. lines' \in 0..MaxLines
    BY <1>2, BridgeAssumption DEF WriteLine, TypeOK
  <2>4. QED
    BY <1>2, <2>2, <2>3 DEF WriteLine, TypeOK, RelayTypeOK
<1>3. QED
  BY <1>1, <1>2 DEF ClaudeStep

\* Every variable of the bridge keeps its type, whatever the sizes of the
\* allowlist, the event channel and the bodies: in particular the event channel
\* never exceeds EVENT_BUFFER_SIZE and nothing that is not an event, a line or a
\* notification enters the queues between the tasks.
THEOREM TypeCorrect == Spec => []TypeOK
<1>1. Init => TypeOK
  BY InitTyped
<1>2. TypeOK /\ [Next]_vars => TypeOK'
  <2> SUFFICES ASSUME TypeOK, [Next]_vars PROVE TypeOK'
    OBVIOUS
  <2>1. CASE UNCHANGED vars
    BY <2>1 DEF vars, TypeOK, RelayTypeOK
  <2>2. CASE Next
    BY <2>2, HandlerTyped, LoopTyped, ClaudeTyped DEF Next
  <2>3. QED
    BY <2>1, <2>2
<1>3. QED
  BY <1>1, <1>2, PTL DEF Spec
------------------------------------------------------------------------------
(***************************************************************************)
(* The relay implements the ledger of approvals.                           *)
(***************************************************************************)
\* Nothing outside the relay's two handlers touches the relay's state, and an
\* ended process does not come back.
LEMMA OthersKeepLedger ==
  ASSUME \/ \E b \in Deliverables : RejectDelivery(b) \/ StartDelivery(b) \/ HandlerStep(b)
         \/ FinishPrompt \/ HandleCall \/ FinishReply \/ Shutdown \/ ClaudeStep
  PROVE  UNCHANGED Ledger!ledgerVars \/ Ledger!Stop
<1>1. UNCHANGED <<pending, asks, verdicts, answeredBy>>
  BY DEF RejectDelivery, StartDelivery, HandlerStep, FinishPrompt, HandleCall, FinishReply,
         Shutdown, ClaudeStep, ReadNotification, WriteLine, relayVars
<1>2. (loop'.state # "exited") = (loop.state # "exited")
        \/ (loop.state # "exited" /\ ~(loop'.state # "exited"))
  BY DEF RejectDelivery, StartDelivery, HandlerStep, FinishPrompt, HandleCall, FinishReply,
         Shutdown, ClaudeStep, ReadNotification, WriteLine, NextLineIs, Respond, Exit,
         Idle, Exited, Resting
<1>3. QED
  BY <1>1, <1>2 DEF Ledger!ledgerVars, Ledger!Stop

\* handle_request opens the id for the last active sender, or does nothing.
LEMMA RequestStepsLedger ==
  ASSUME TypeOK, HandlePermissionRequest
  PROVE  \/ UNCHANGED Ledger!ledgerVars
         \/ \E i \in RequestIds : \E at \in Endpoint : Ledger!Ask(i, at)
<1> DEFINE line == Head(stdin)
<1>1. line \in Line
  BY DEF HandlePermissionRequest, NextLineIs, TypeOK
<1>2. CASE lastSender = None \/ line.id = EmptyId
  BY <1>2 DEF HandlePermissionRequest, Ledger!ledgerVars
<1>3. CASE ~(lastSender = None \/ line.id = EmptyId)
  <2>1. /\ lastSender \in Endpoint
        /\ line.id \in RequestIds \cup {NoId}
        /\ pending' = [pending EXCEPT ![line.id] = lastSender]
        /\ asks' = [asks EXCEPT ![line.id] = @ + 1]
        /\ UNCHANGED <<verdicts, answeredBy>>
        /\ loop.state = "idle" /\ loop'.state = "prompting"
    BY <1>1, <1>3 DEF HandlePermissionRequest, PendingAfterRequest, TypeOK, Line, NextLineIs
  <2>2. CASE line.id = NoId
    BY <2>1, <2>2, RelayAssumption DEF TypeOK, RelayTypeOK, Ledger!ledgerVars
  <2>3. CASE line.id \in RequestIds
    BY <2>1, <2>3 DEF Ledger!Ask
  <2>4. QED
    BY <2>1, <2>2, <2>3
<1>4. QED
  BY <1>2, <1>3

\* handle_channel_event closes the id a verdict names, reporting it unless the
\* process ends, or leaves the relay alone.
LEMMA EventStepsLedger ==
  ASSUME TypeOK, HandleChannelEvent
  PROVE  \/ UNCHANGED Ledger!ledgerVars \/ Ledger!Stop
         \/ \E i \in RequestIds : Ledger!Answer(i) \/ Ledger!Lose(i)
<1> DEFINE e == Head(queue)
<1>1. e \in Event
  BY DEF HandleChannelEvent, TypeOK
<1>2. e.text \in Text /\ e.at \in Endpoint
  BY <1>1 DEF Event
<1>3. CASE ~AcceptsVerdict(e.text, e.at)
  <2>1. UNCHANGED <<pending, asks, verdicts, answeredBy>>
    BY <1>3 DEF HandleChannelEvent, PendingAfterVerdict, ReportVerdict, ForwardToClaude
  <2>2. loop.state = "idle" /\ (UNCHANGED loop \/ loop'.state = "exited")
    BY DEF HandleChannelEvent, Exit, Exited, Resting
  <2>3. QED
    BY <2>1, <2>2 DEF Ledger!ledgerVars, Ledger!Stop
<1>4. CASE AcceptsVerdict(e.text, e.at)
  <2> DEFINE i == e.text.id
  <2>1. i \in RequestIds /\ pending[i] = e.at
    BY <1>2, <1>4, AcceptedIsOutstanding DEF TypeOK
  <2>2. /\ pending' = [pending EXCEPT ![i] = None]
        /\ UNCHANGED asks
    BY <1>4 DEF HandleChannelEvent, PendingAfterVerdict
  <2>3. CASE Exit /\ UNCHANGED <<verdicts, answeredBy>>
    <3>1. loop.state = "idle" /\ loop'.state = "exited"
      BY <2>3 DEF HandleChannelEvent, Exit, Exited, Resting
    <3>2. QED
      BY <1>2, <2>1, <2>2, <2>3, <3>1 DEF Ledger!Lose
  <2>4. CASE ReportVerdict(e) /\ UNCHANGED loop
    <3>1. /\ verdicts' = [verdicts EXCEPT ![i] = @ + 1]
          /\ answeredBy' = [answeredBy EXCEPT ![i] = pending[i]]
      BY <2>1, <2>4 DEF ReportVerdict
    <3>2. Ledger!Answer(i)
      BY <1>2, <2>1, <2>2, <2>4, <3>1 DEF HandleChannelEvent, Ledger!Answer
    <3>3. QED
      BY <2>1, <3>2
  <2>5. QED
    BY <1>4, <2>3, <2>4 DEF HandleChannelEvent, ForwardToClaude
<1>5. QED
  BY <1>3, <1>4

\* Every step of the bridge is a step of the ledger, or leaves it unchanged.
LEMMA BridgeStepsLedger == TypeOK /\ [Next]_vars => [Ledger!Next]_(Ledger!ledgerVars)
<1> SUFFICES ASSUME TypeOK, [Next]_vars PROVE [Ledger!Next]_(Ledger!ledgerVars)
  OBVIOUS
<1>1. CASE UNCHANGED vars
  BY <1>1 DEF vars, Ledger!ledgerVars
<1>2. CASE HandlePermissionRequest
  BY <1>2, RequestStepsLedger DEF Ledger!Next
<1>3. CASE HandleChannelEvent
  BY <1>3, EventStepsLedger DEF Ledger!Next
<1>4. CASE \/ \E b \in Deliverables : RejectDelivery(b) \/ StartDelivery(b) \/ HandlerStep(b)
           \/ FinishPrompt \/ HandleCall \/ FinishReply \/ Shutdown \/ ClaudeStep
  BY <1>4, OthersKeepLedger DEF Ledger!Next
<1>5. QED
  BY <1>1, <1>2, <1>3, <1>4 DEF Next

\* The permission relay implements the ledger of approvals: whatever the webhook
\* handlers, the event channel, the last active sender and Claude Code do, an id
\* is only closed by a reply of the chat it was opened for, that reply is reported
\* once unless the process ends of it, and no other reply uses an opening up.
THEOREM RelayImplementsLedger == Spec => ImplementsLedger
<1>1. Init => Ledger!Init
  BY DEF Init, RelayInit, Ledger!Init, Idle, Resting
<1>2. TypeOK /\ [Next]_vars => [Ledger!Next]_(Ledger!ledgerVars)
  BY BridgeStepsLedger
<1>3. QED
  BY <1>1, <1>2, TypeCorrect, PTL DEF Spec, ImplementsLedger, Ledger!Spec
------------------------------------------------------------------------------
(***************************************************************************)
(* One verdict for each registration.  OneVerdictPerAsk is not inductive:  *)
(* the invariant also counts the registration that is still outstanding.   *)
(***************************************************************************)
LedgerInv == TypeOK /\ Ledger!AtMostOneVerdictPerAsk

\* A step of the ledger keeps the count.
LEMMA LedgerKeepsCount ==
  ASSUME TypeOK, Ledger!AtMostOneVerdictPerAsk, [Ledger!Next]_(Ledger!ledgerVars)
  PROVE  Ledger!AtMostOneVerdictPerAsk'
<1> USE DEF Ledger!AtMostOneVerdictPerAsk
<1>1. CASE UNCHANGED Ledger!ledgerVars
  BY <1>1 DEF Ledger!ledgerVars
<1>2. ASSUME NEW i \in RequestIds, NEW at \in Endpoint, Ledger!Ask(i, at)
      PROVE  Ledger!AtMostOneVerdictPerAsk'
  BY <1>2, NoneIsNoEndpoint DEF Ledger!Ask, TypeOK, RelayTypeOK
<1>3. ASSUME NEW i \in RequestIds, Ledger!Answer(i)
      PROVE  Ledger!AtMostOneVerdictPerAsk'
  BY <1>3, NoneIsNoEndpoint DEF Ledger!Answer, TypeOK, RelayTypeOK
<1>4. ASSUME NEW i \in RequestIds, Ledger!Lose(i)
      PROVE  Ledger!AtMostOneVerdictPerAsk'
  BY <1>4, NoneIsNoEndpoint DEF Ledger!Lose, TypeOK, RelayTypeOK
<1>5. CASE Ledger!Stop
  BY <1>5 DEF Ledger!Stop
<1>6. QED
  BY <1>1, <1>2, <1>3, <1>4, <1>5 DEF Ledger!Next

\* The inductive invariant implies the property.
LEMMA CountBoundsVerdicts == LedgerInv => OneVerdictPerAsk
BY DEF LedgerInv, OneVerdictPerAsk, Ledger!AtMostOneVerdictPerAsk, TypeOK

\* A request id yields at most one verdict each time it is registered, however
\* often replies are repeated, redelivered by a platform or reordered.
THEOREM VerdictsAreNotReplayed == Spec => []OneVerdictPerAsk
<1>1. Init => LedgerInv
  BY InitTyped DEF Init, RelayInit, LedgerInv, Ledger!AtMostOneVerdictPerAsk
<1>2. LedgerInv /\ TypeOK' /\ [Next]_vars => LedgerInv'
  BY BridgeStepsLedger, LedgerKeepsCount DEF LedgerInv
<1>3. QED
  BY <1>1, <1>2, CountBoundsVerdicts, TypeCorrect, PTL DEF Spec

------------------------------------------------------------------------------
(***************************************************************************)
(* The way of a message from the webhook's answer to the loop.             *)
(*                                                                         *)
(* Neither HandledWithoutGaps nor AckedIsAccounted is inductive.  What the *)
(* loop has dealt with is without gaps because the queue is in order, the  *)
(* queue is in order because a handler has forwarded all admitted messages *)
(* below its cursor, and those are still accounted for when it answers 200.*)
(***************************************************************************)

\* The turns of the same delivery that come before t and that the gate admits.
Before(t) == {[t EXCEPT !.index = i] : i \in AdmittedBefore(t.body, t.index)}

Running == loop.state # "exited"

\* What comes before a queued turn is dealt with or queued in front of it.
QueuedInOrder ==
  \A k \in 1..Len(queue) :
    Before(queue[k].turn) \subseteq handled \cup {queue[j].turn : j \in 1..(k - 1)}

\* What a handler has passed is dealt with or queued.
PassedIsAccounted ==
  Running =>
    \A b \in Deliverables : \A i \in AdmittedBefore(b, cursor[b]) :
      TurnOf(b, i) \in handled \cup Queued

DeliveryInv ==
  /\ TypeOK
  /\ HandledWithoutGaps
  /\ QueuedInOrder
  /\ PassedIsAccounted
  /\ AckedIsAccounted

\* The property in terms of Before.
LEMMA GapsAreBefore ==
  HandledWithoutGaps <=> \A t \in handled : Before(t) \subseteq handled
BY DEF HandledWithoutGaps, Before
------------------------------------------------------------------------------
(***************************************************************************)
(* The queue.                                                              *)
(***************************************************************************)
\* Taking the head of the queue and dealing with it keeps everything accounted
\* for, in order and without gaps.
LEMMA DequeueKeepsOrder ==
  ASSUME TypeOK, HandledWithoutGaps, QueuedInOrder, queue # << >>,
         queue' = Tail(queue), handled' = handled \cup {Head(queue).turn}
  PROVE  /\ HandledWithoutGaps'
         /\ QueuedInOrder'
         /\ (handled \cup Queued)' = handled \cup Queued
<1>1. /\ Len(queue) \in Nat \ {0}
      /\ Len(queue') = Len(queue) - 1
      /\ \A k \in 1..(Len(queue) - 1) : queue'[k] = queue[k + 1]
      /\ Head(queue) = queue[1]
  BY DEF TypeOK
<1>2. Before(queue[1].turn) \subseteq handled
  BY <1>1 DEF QueuedInOrder
<1>3. \A t : Before(t)' = Before(t)
  BY DEF Before, AdmittedBefore
<1>4. HandledWithoutGaps'
  <2>1. \A t \in handled' : Before(t) \subseteq handled'
    BY <1>1, <1>2, GapsAreBefore
  <2>2. QED
    BY <2>1 DEF HandledWithoutGaps, Before, AdmittedBefore
<1>5. QueuedInOrder'
  <2> SUFFICES ASSUME NEW k \in 1..Len(queue'), NEW t \in Before(queue'[k].turn)
               PROVE  t \in handled' \cup {queue'[j].turn : j \in 1..(k - 1)}
    BY <1>3 DEF QueuedInOrder
  <2>1. k + 1 \in 1..Len(queue) /\ queue'[k] = queue[k + 1]
    BY <1>1
  <2>2. CASE t \in handled
    BY <2>2
  <2>3. CASE t \notin handled
    <3>1. PICK j \in 1..k : t = queue[j].turn
      BY <2>1, <2>3 DEF QueuedInOrder
    <3>2. CASE j = 1
      BY <1>1, <3>1, <3>2
    <3>3. CASE j # 1
      <4>1. j - 1 \in 1..(k - 1) /\ queue'[j - 1] = queue[j]
        BY <1>1, <3>3
      <4>2. QED
        BY <3>1, <4>1
    <3>4. QED
      BY <3>2, <3>3
  <2>4. QED
    BY <2>2, <2>3
<1>6. (handled \cup Queued)' = handled \cup Queued
  <2>1. ASSUME NEW k \in 1..Len(queue)
        PROVE  queue[k].turn \in (handled \cup Queued)'
    <3>1. CASE k = 1
      BY <1>1, <3>1
    <3>2. CASE k # 1
      <4>1. k - 1 \in 1..Len(queue') /\ queue'[k - 1] = queue[k]
        BY <1>1, <3>2
      <4>2. QED
        BY <4>1 DEF Queued
    <3>3. QED
      BY <3>1, <3>2
  <2>2. ASSUME NEW k \in 1..Len(queue')
        PROVE  queue'[k].turn \in handled \cup Queued
    <3>1. k + 1 \in 1..Len(queue) /\ queue'[k] = queue[k + 1]
      BY <1>1
    <3>2. QED
      BY <3>1 DEF Queued
  <2>3. Head(queue).turn \in handled \cup Queued
    BY <1>1 DEF Queued
  <2>4. Queued \subseteq (handled \cup Queued)'
    BY <2>1 DEF Queued
  <2>5. Queued' \subseteq handled \cup Queued
    BY <2>2 DEF Queued
  <2>6. (handled \cup Queued)' = handled' \cup Queued'
    OBVIOUS
  <2>7. QED
    BY <2>3, <2>4, <2>5, <2>6
<1>7. QED
  BY <1>4, <1>5, <1>6

\* Joining the queue behind all one's predecessors keeps the order.
LEMMA EnqueueKeepsOrder ==
  ASSUME TypeOK, QueuedInOrder, NEW e \in Event, Before(e.turn) \subseteq handled \cup Queued,
         queue' = Append(queue, e), UNCHANGED handled
  PROVE  /\ QueuedInOrder'
         /\ (handled \cup Queued)' = handled \cup Queued \cup {e.turn}
<1>1. /\ Len(queue) \in Nat
      /\ Len(queue') = Len(queue) + 1
      /\ \A k \in 1..Len(queue) : queue'[k] = queue[k]
      /\ queue'[Len(queue) + 1] = e
  BY DEF TypeOK
<1>2. \A t : Before(t)' = Before(t)
  BY DEF Before, AdmittedBefore
<1>3. QueuedInOrder'
  <2> SUFFICES ASSUME NEW k \in 1..Len(queue'), NEW t \in Before(queue'[k].turn), t \notin handled
               PROVE  \E j \in 1..(k - 1) : t = queue'[j].turn
    BY <1>2 DEF QueuedInOrder
  <2>1. CASE k \in 1..Len(queue)
    <3>1. PICK j \in 1..(k - 1) : t = queue[j].turn
      BY <1>1, <2>1 DEF QueuedInOrder
    <3>2. QED
      BY <1>1, <2>1, <3>1
  <2>2. CASE k = Len(queue) + 1
    <3>1. PICK j \in 1..Len(queue) : t = queue[j].turn
      BY <1>1, <2>2 DEF Queued
    <3>2. QED
      BY <1>1, <2>2, <3>1
  <2>3. QED
    BY <1>1, <2>1, <2>2
<1>4. (handled \cup Queued)' = handled \cup Queued \cup {e.turn}
  <2>1. ASSUME NEW k \in 1..Len(queue)
        PROVE  queue[k].turn \in Queued'
    <3>1. k \in 1..Len(queue') /\ queue'[k] = queue[k]
      BY <1>1
    <3>2. QED
      BY <3>1 DEF Queued
  <2>2. e.turn \in Queued'
    <3>1. Len(queue) + 1 \in 1..Len(queue')
      BY <1>1
    <3>2. QED
      BY <1>1, <3>1 DEF Queued
  <2>3. ASSUME NEW k \in 1..Len(queue')
        PROVE  queue'[k].turn \in Queued \cup {e.turn}
    <3>1. CASE k \in 1..Len(queue)
      BY <1>1, <3>1 DEF Queued
    <3>2. CASE k = Len(queue) + 1
      BY <1>1, <3>2
    <3>3. QED
      BY <1>1, <3>1, <3>2
  <2>4. QED
    BY <2>1, <2>2, <2>3 DEF Queued
<1>5. QED
  BY <1>3, <1>4
------------------------------------------------------------------------------
(***************************************************************************)
(* The webhook server.                                                     *)
(***************************************************************************)
\* What only the queue and the loop's history decide stays when they do.
LEMMA QuietKeepsOrder ==
  ASSUME HandledWithoutGaps, QueuedInOrder, UNCHANGED <<queue, handled>>
  PROVE  /\ HandledWithoutGaps'
         /\ QueuedInOrder'
         /\ (handled \cup Queued)' = handled \cup Queued
BY DEF HandledWithoutGaps, QueuedInOrder, Queued, Before, AdmittedBefore

\* A handler that is not there has passed nothing.
LEMMA NothingBeforeZero == \A b : AdmittedBefore(b, 0) = {}
BY DEF AdmittedBefore

\* Answering a delivery, with 200 only when all of it is accounted for.
LEMMA AnswerKeepsAccounts ==
  ASSUME DeliveryInv, NEW b \in Deliverables, NEW status \in Status, Answer(b, status),
         UNCHANGED <<queue, handled, loop>>,
         Running /\ status = "200" =>
           \A i \in AdmittedBefore(b, Len(Body[b].msgs) + 1) : TurnOf(b, i) \in handled \cup Queued
  PROVE  TypeOK' => DeliveryInv'
<1> USE DEF DeliveryInv
<1>1. /\ HandledWithoutGaps'
      /\ QueuedInOrder'
      /\ (handled \cup Queued)' = handled \cup Queued
  BY QuietKeepsOrder
<1>2. /\ answers \in [Deliverables -> Seq(Status)]
      /\ cursor \in [Deliverables -> Nat]
  BY DEF TypeOK
<1>3. /\ cursor' = [cursor EXCEPT ![b] = 0]
      /\ answers' = [answers EXCEPT ![b] = Append(answers[b], status)]
  BY DEF Answer
<1>4. PassedIsAccounted'
  <2> SUFFICES ASSUME Running, NEW c \in Deliverables, NEW i \in AdmittedBefore(c, cursor'[c])
               PROVE  TurnOf(c, i)' \in handled \cup Queued
    BY <1>1 DEF PassedIsAccounted, Running, AdmittedBefore
  <2>1. CASE c = b
    BY <1>2, <1>3, <2>1, NothingBeforeZero
  <2>2. CASE c # b
    <3>1. cursor'[c] = cursor[c] /\ answers'[c] = answers[c]
      BY <1>2, <1>3, <2>2
    <3>2. TurnOf(c, i)' = TurnOf(c, i)
      BY <3>1 DEF TurnOf, Attempt
    <3>3. QED
      BY <3>1, <3>2 DEF PassedIsAccounted
  <2>3. QED
    BY <2>1, <2>2
<1>5. AckedIsAccounted'
  <2> SUFFICES ASSUME Running, NEW c \in Deliverables, NEW n \in 1..Len(answers'[c]),
                      answers'[c][n] = "200",
                      NEW i \in AdmittedBefore(c, Len(Body[c].msgs) + 1)
               PROVE  [body |-> c, attempt |-> n, index |-> i] \in handled \cup Queued
    BY <1>1 DEF AckedIsAccounted, Running, AdmittedBefore
  <2>1. CASE n \in 1..Len(answers[c])
    <3>1. answers'[c][n] = answers[c][n]
      BY <1>2, <1>3, <2>1
    <3>2. QED
      BY <2>1, <3>1 DEF AckedIsAccounted, Running
  <2>2. CASE n \notin 1..Len(answers[c])
    <3>1. c = b /\ n = Attempt(b) /\ status = "200"
      BY <1>2, <1>3, <2>2 DEF Attempt
    <3>2. QED
      BY <3>1 DEF TurnOf
  <2>3. QED
    BY <2>1, <2>2
<1>6. QED
  BY <1>1, <1>4, <1>5

\* A handler that moves on by one message, which is not admitted or now queued.
LEMMA MovingKeepsAccounts ==
  ASSUME DeliveryInv, NEW b \in Deliverables, cursor' = [cursor EXCEPT ![b] = @ + 1],
         HandledWithoutGaps', QueuedInOrder', UNCHANGED <<answers, loop>>,
         handled \cup Queued \subseteq (handled \cup Queued)',
         Running => \/ cursor[b] \notin AdmittedBefore(b, cursor[b] + 1)
                    \/ TurnOf(b, cursor[b]) \in (handled \cup Queued)'
  PROVE  TypeOK' => DeliveryInv'
<1> USE DEF DeliveryInv
<1>1. PassedIsAccounted'
  <2> SUFFICES ASSUME Running, NEW c \in Deliverables, NEW i \in AdmittedBefore(c, cursor'[c])
               PROVE  TurnOf(c, i) \in (handled \cup Queued)'
    BY DEF PassedIsAccounted, Running, AdmittedBefore, TurnOf, Attempt
  <2>1. CASE i \in AdmittedBefore(c, cursor[c])
    BY <2>1 DEF PassedIsAccounted
  <2>2. CASE i \notin AdmittedBefore(c, cursor[c])
    <3>1. cursor \in [Deliverables -> Nat]
      BY DEF TypeOK
    <3>2. c = b /\ i = cursor[b]
      BY <2>2, <3>1 DEF AdmittedBefore
    <3>3. cursor'[b] = cursor[b] + 1
      BY <3>1
    <3>4. QED
      BY <3>2, <3>3
  <2>3. QED
    BY <2>1, <2>2
<1>2. AckedIsAccounted'
  BY DEF AckedIsAccounted, AdmittedBefore
<1>3. QED
  BY <1>1, <1>2

\* Every step of the webhook server keeps the invariant.
LEMMA WebKeepsDelivery ==
  ASSUME DeliveryInv, NEW b \in Deliverables,
         RejectDelivery(b) \/ StartDelivery(b) \/ HandlerStep(b)
  PROVE  DeliveryInv'
<1> USE DEF DeliveryInv
<1>t. TypeOK'
  BY HandlerTyped
<1>1. CASE RejectDelivery(b)
  BY <1>1, <1>t, AnswerKeepsAccounts DEF RejectDelivery, Status
<1>2. CASE StartDelivery(b)
  <2>1. /\ cursor \in [Deliverables -> Nat]
        /\ cursor' = [cursor EXCEPT ![b] = 1]
        /\ UNCHANGED <<queue, answers, loop, handled>>
    BY <1>2 DEF StartDelivery, TypeOK
  <2>2. HandledWithoutGaps' /\ QueuedInOrder' /\ (handled \cup Queued)' = handled \cup Queued
    BY <2>1, QuietKeepsOrder
  <2>3. cursor' = [cursor EXCEPT ![b] = @ + 1]
    BY <1>2, <2>1 DEF StartDelivery, CanDeliver
  <2>4. cursor[b] \notin AdmittedBefore(b, cursor[b] + 1)
    BY <1>2 DEF StartDelivery, CanDeliver, AdmittedBefore
  <2>5. QED
    BY <1>t, <2>1, <2>2, <2>3, <2>4, MovingKeepsAccounts
<1>3. CASE HandlerStep(b)
  <2>0. UNCHANGED <<loop, handled>>
    BY <1>3 DEF HandlerStep
  <2>1. CASE SkipMessage(b)
    <3>1. UNCHANGED <<queue, answers>> /\ cursor' = [cursor EXCEPT ![b] = @ + 1]
      BY <2>1 DEF SkipMessage
    <3>2. HandledWithoutGaps' /\ QueuedInOrder' /\ (handled \cup Queued)' = handled \cup Queued
      BY <2>0, <3>1, QuietKeepsOrder
    <3>3. cursor[b] \notin AdmittedBefore(b, cursor[b] + 1)
      BY <2>1 DEF SkipMessage, AdmittedBefore
    <3>4. QED
      BY <1>t, <2>0, <3>1, <3>2, <3>3, MovingKeepsAccounts
  <2>2. CASE ForwardMessage(b)
    <3> DEFINE e == EventOf(b, cursor[b])
    <3>1. /\ Running
          /\ queue' = Append(queue, e)
          /\ cursor' = [cursor EXCEPT ![b] = @ + 1]
          /\ UNCHANGED answers
      BY <2>2 DEF ForwardMessage, Running
    <3>2. e \in Event /\ e.turn = TurnOf(b, cursor[b])
      BY <2>2, EventIsTyped DEF ForwardMessage, EventOf
    <3>3. Before(e.turn) \subseteq handled \cup Queued
      <4>1. \A i : [TurnOf(b, cursor[b]) EXCEPT !.index = i] = TurnOf(b, i)
        BY DEF TurnOf
      <4>2. e.turn.body = b /\ e.turn.index = cursor[b]
        BY <3>2 DEF TurnOf
      <4>3. QED
        BY <3>1, <3>2, <4>1, <4>2 DEF Before, PassedIsAccounted
    <3> HIDE DEF e
    <3>4. /\ QueuedInOrder'
          /\ (handled \cup Queued)' = handled \cup Queued \cup {e.turn}
      BY <2>0, <3>1, <3>2, <3>3, EnqueueKeepsOrder
    <3>5. HandledWithoutGaps'
      BY <2>0 DEF HandledWithoutGaps, AdmittedBefore
    <3>6. QED
      BY <1>t, <2>0, <3>1, <3>2, <3>4, <3>5, MovingKeepsAccounts
  <2>3. CASE RefuseMessage(b)
    <3>1. UNCHANGED queue /\ \E status \in {"500", "503"} : Answer(b, status)
      BY <2>3 DEF RefuseMessage
    <3>2. QED
      BY <1>t, <2>0, <3>1, AnswerKeepsAccounts DEF Status
  <2>4. CASE AcceptDelivery(b)
    <3>1. UNCHANGED queue /\ Answer(b, "200")
      BY <2>4 DEF AcceptDelivery
    <3>2. Running => \A i \in AdmittedBefore(b, Len(Body[b].msgs) + 1) :
                       TurnOf(b, i) \in handled \cup Queued
      BY <2>4 DEF AcceptDelivery, PassedIsAccounted
    <3>3. QED
      BY <1>t, <2>0, <3>1, <3>2, AnswerKeepsAccounts DEF Status
  <2>5. QED
    BY <1>3, <2>1, <2>2, <2>3, <2>4 DEF HandlerStep
<1>4. QED
  BY <1>1, <1>2, <1>3
------------------------------------------------------------------------------
(***************************************************************************)
(* The loop, Claude Code, and the theorems.                                *)
(***************************************************************************)
\* A step that leaves the webhook server alone, loses nothing while the loop
\* runs and does not bring it back to life keeps what is accounted for.
LEMMA OthersKeepAccounts ==
  ASSUME DeliveryInv, UNCHANGED webVars, Running' => Running,
         Running' => (handled \cup Queued)' = handled \cup Queued
  PROVE  PassedIsAccounted' /\ AckedIsAccounted'
<1> USE DEF DeliveryInv, webVars
<1>1. PassedIsAccounted'
  BY DEF PassedIsAccounted, Running, AdmittedBefore, TurnOf, Attempt
<1>2. AckedIsAccounted'
  BY DEF AckedIsAccounted, Running, AdmittedBefore
<1>3. QED
  BY <1>1, <1>2

\* Ending the loop, or not touching the queue at all.
LEMMA QuietLoopKeepsDelivery ==
  ASSUME DeliveryInv, TypeOK', UNCHANGED <<webVars, handled>>,
         \/ UNCHANGED queue /\ (Running' => Running)
         \/ Exit
  PROVE  DeliveryInv'
<1> USE DEF DeliveryInv
<1>1. CASE UNCHANGED queue /\ (Running' => Running)
  BY <1>1, QuietKeepsOrder, OthersKeepAccounts
<1>2. CASE Exit
  <2>1. ~Running' /\ queue' = << >>
    BY <1>2 DEF Exit, Exited, Resting, Running
  <2>2. HandledWithoutGaps'
    BY DEF HandledWithoutGaps, AdmittedBefore
  <2>3. QueuedInOrder'
    BY <2>1 DEF QueuedInOrder
  <2>4. QED
    BY <2>1, <2>2, <2>3, OthersKeepAccounts
<1>3. QED
  BY <1>1, <1>2

\* Every step of the loop, and its end, keeps the invariant.
LEMMA LoopKeepsDelivery ==
  ASSUME DeliveryInv,
         \/ HandlePermissionRequest \/ FinishPrompt \/ HandleCall \/ FinishReply
         \/ HandleChannelEvent \/ Shutdown \/ ClaudeStep
  PROVE  DeliveryInv'
<1> USE DEF DeliveryInv
<1>t. TypeOK'
  BY LoopTyped, ClaudeTyped
<1>1. CASE HandlePermissionRequest
  <2>1. UNCHANGED <<webVars, handled, queue>> /\ Running
    BY <1>1 DEF HandlePermissionRequest, NextLineIs, Running
  <2>2. QED
    BY <1>t, <2>1, QuietLoopKeepsDelivery
<1>2. CASE FinishPrompt
  BY <1>2, <1>t, QuietLoopKeepsDelivery DEF FinishPrompt, Running
<1>3. CASE HandleCall
  <2>1. UNCHANGED <<webVars, handled>> /\ Running /\ (UNCHANGED queue \/ Exit)
    BY <1>3 DEF HandleCall, Respond, NextLineIs, Running
  <2>2. QED
    BY <1>t, <2>1, QuietLoopKeepsDelivery
<1>4. CASE FinishReply
  <2>1. UNCHANGED <<webVars, handled>> /\ Running /\ (UNCHANGED queue \/ Exit)
    BY <1>4 DEF FinishReply, Respond, Running
  <2>2. QED
    BY <1>t, <2>1, QuietLoopKeepsDelivery
<1>5. CASE HandleChannelEvent
  <2> DEFINE e == Head(queue)
  <2>1. UNCHANGED webVars /\ Running /\ queue # << >>
    BY <1>5 DEF HandleChannelEvent, Running
  <2>2. \/ handled' = handled \cup {e.turn} /\ queue' = Tail(queue)
        \/ Exit /\ UNCHANGED handled
    BY <1>5 DEF HandleChannelEvent
  <2>3. CASE handled' = handled \cup {e.turn} /\ queue' = Tail(queue)
    <3>1. /\ HandledWithoutGaps'
          /\ QueuedInOrder'
          /\ (handled \cup Queued)' = handled \cup Queued
      BY <2>1, <2>3, DequeueKeepsOrder
    <3>2. QED
      BY <1>t, <2>1, <3>1, OthersKeepAccounts
  <2>4. CASE Exit /\ UNCHANGED handled
    BY <1>t, <2>1, <2>4, QuietLoopKeepsDelivery
  <2>5. QED
    BY <2>2, <2>3, <2>4
<1>6. CASE Shutdown
  BY <1>6, <1>t, QuietLoopKeepsDelivery DEF Shutdown
<1>7. CASE ClaudeStep
  <2>1. UNCHANGED <<webVars, handled, queue, loop>>
    BY <1>7 DEF ClaudeStep, ReadNotification, WriteLine
  <2>2. QED
    BY <1>t, <2>1, QuietLoopKeepsDelivery DEF Running
<1>8. QED
  BY <1>1, <1>2, <1>3, <1>4, <1>5, <1>6, <1>7

\* The initial state satisfies the invariant.
LEMMA InitDelivers == Init => DeliveryInv
<1> SUFFICES ASSUME Init PROVE DeliveryInv
  OBVIOUS
<1>1. TypeOK
  BY InitTyped
<1>2. HandledWithoutGaps /\ QueuedInOrder
  BY DEF Init, HandledWithoutGaps, QueuedInOrder
<1>3. PassedIsAccounted
  BY NothingBeforeZero DEF Init, PassedIsAccounted
<1>4. AckedIsAccounted
  BY DEF Init, AckedIsAccounted
<1>5. QED
  BY <1>1, <1>2, <1>3, <1>4 DEF DeliveryInv

\* The invariant holds in every state.
LEMMA DeliveryIsInvariant == Spec => []DeliveryInv
<1>1. DeliveryInv /\ [Next]_vars => DeliveryInv'
  <2> SUFFICES ASSUME DeliveryInv, [Next]_vars PROVE DeliveryInv'
    OBVIOUS
  <2>1. CASE UNCHANGED vars
    <3>1. TypeOK'
      BY <2>1 DEF vars, DeliveryInv, TypeOK, RelayTypeOK
    <3>2. UNCHANGED <<webVars, handled, queue, loop>>
      BY <2>1 DEF vars, webVars
    <3>3. QED
      BY <3>1, <3>2, QuietLoopKeepsDelivery DEF Running
  <2>2. CASE Next
    BY <2>2, WebKeepsDelivery, LoopKeepsDelivery DEF Next
  <2>3. QED
    BY <2>1, <2>2
<1>2. QED
  BY <1>1, InitDelivers, PTL DEF Spec

\* The loop deals with the messages of a delivery in order and without gaps,
\* however many deliveries are under way and wherever the queue fills.
THEOREM DeliveriesHaveNoGaps == Spec => []HandledWithoutGaps
BY DeliveryIsInvariant, PTL DEF DeliveryInv

\* While the loop runs, nothing of a delivery answered 200 is lost: the webhook
\* may answer at once because what it has passed is queued or dealt with.
THEOREM AcknowledgedIsKept == Spec => []AckedIsAccounted
BY DeliveryIsInvariant, PTL DEF DeliveryInv
==============================================================================
