---------------------------- MODULE ClaudeChannel ----------------------------
(***************************************************************************)
(* dravr-canot-claude-channel as one process: HTTP handler tasks that push *)
(* inbound messages into a bounded channel (webhook.rs), and the MCP loop  *)
(* that multiplexes that channel with Claude Code's stdin (mcp.rs) and     *)
(* owns the permission relay (permission.rs).                              *)
(*                                                                         *)
(* The handlers run concurrently, one message per step; the loop is one    *)
(* task that awaits each handler it calls, so while it sends a prompt or a *)
(* reply it reads neither stdin nor the queue.  Claude Code, the messaging *)
(* platforms and the network are the environment.                          *)
(***************************************************************************)
EXTENDS PermissionRelay, Sequences, FiniteSets

CONSTANTS
  Deliverables,       \* webhook bodies the platforms deliver
  Body,               \* body -> [channel, msgs]: what the adapter parses from it
  Allowed,            \* the sender allowlist
  AllowAll,           \* open mode was opted into
  EmptySender,        \* the empty sender id
  EVENT_BUFFER_SIZE,  \* capacity of the event channel
  MaxDeliveries,      \* bound: how often a platform delivers one body
  MaxLines            \* bound: how many stdin lines Claude Code writes

Message == [sender: Senders, room: Rooms \cup {None}, text: Text]

ASSUME BridgeAssumption ==
  /\ Body \in [Deliverables -> [channel: Channels, msgs: Seq(Message)]]
  /\ EVENT_BUFFER_SIZE \in Nat \ {0}
  /\ MaxDeliveries \in Nat
  /\ MaxLines \in Nat
  /\ Allowed \subseteq Senders
  /\ AllowAll \in BOOLEAN
  /\ None \notin Rooms

VARIABLES
  queue,       \* the mpsc channel from the webhook server to the MCP loop
  cursor,      \* body -> next message its running handler looks at; 0 = no handler
  answers,     \* body -> HTTP answers to its deliveries so far
  lastSender,  \* the loop's last_sender
  loop,        \* what the loop is doing: see LoopState
  stdin,       \* lines Claude Code has written and the loop has not read
  stdout,      \* notifications written and not yet read by Claude Code
  \* Claude Code's side
  working,     \* the chat whose message Claude Code is working on, or None
  lines,       \* number of lines written so far
  \* history
  handled,     \* turns the loop has taken out of the queue and dealt with
  asks,        \* id -> times it was registered
  verdicts,    \* id -> verdict notifications written
  answeredBy   \* id -> the chat whose message produced the last of them

webVars    == <<cursor, answers>>
claudeVars == <<working, lines>>
relayVars  == <<pending, asks, verdicts, answeredBy>>
vars == <<pending, queue, cursor, answers, lastSender, loop, stdin, stdout,
          working, lines, handled, asks, verdicts, answeredBy>>
------------------------------------------------------------------------------
\* A conversation turn: every delivery of a body gets turn ids of its own.
Turn == [body: Deliverables, attempt: Nat, index: Nat]

Event == [at: Endpoint, text: Text, turn: Turn]

\* trigger is history: the chat Claude Code was serving when it wrote the line.
Line == [kind: {"permission_request", "call"},
         id: RequestIds \cup {NoId}, trigger: Endpoint \cup {None}]

Notification ==
  [kind: {"channel", "permission"}, at: Endpoint \cup {None}, text: Text]

Status == {"200", "4xx", "500", "503"}

LoopState ==
  [state: {"idle", "prompting", "replying", "exited"},
   id: RequestIds \cup {NoId}, at: Endpoint \cup {None},
   trigger: Endpoint \cup {None}]

Resting(s) == [state |-> s, id |-> NoId, at |-> None, trigger |-> None]
Idle   == Resting("idle")
Exited == Resting("exited")

TypeOK ==
  /\ RelayTypeOK
  /\ queue \in Seq(Event)
  /\ Len(queue) <= EVENT_BUFFER_SIZE
  /\ cursor \in [Deliverables -> Nat]
  /\ answers \in [Deliverables -> Seq(Status)]
  /\ lastSender \in Endpoint \cup {None}
  /\ loop \in LoopState
  /\ stdin \in Seq(Line)
  /\ stdout \in Seq(Notification)
  /\ working \in Endpoint \cup {None}
  /\ lines \in 0..MaxLines
  /\ handled \subseteq Turn
  /\ asks \in [RequestIds -> Nat]
  /\ verdicts \in [RequestIds -> Nat]
  /\ answeredBy \in [RequestIds -> Endpoint \cup {None}]

Init ==
  /\ RelayInit
  /\ queue = << >>
  /\ cursor = [b \in Deliverables |-> 0]
  /\ answers = [b \in Deliverables |-> << >>]
  /\ lastSender = None
  /\ loop = Idle
  /\ stdin = << >>
  /\ stdout = << >>
  /\ working = None
  /\ lines = 0
  /\ handled = {}
  /\ asks = [r \in RequestIds |-> 0]
  /\ verdicts = [r \in RequestIds |-> 0]
  /\ answeredBy = [r \in RequestIds |-> None]
------------------------------------------------------------------------------
(***************************************************************************)
(* The webhook server.                                                     *)
(***************************************************************************)
Attempt(b) == Len(answers[b]) + 1

TurnOf(b, i) == [body |-> b, attempt |-> Attempt(b), index |-> i]

\* SenderGate::is_allowed.
IsAllowed(sender) == AllowAll \/ sender \in Allowed

\* Passes the gate and carries a sender id.
Admitted(m) == IsAllowed(m.sender) /\ m.sender # EmptySender

EventOf(b, i) ==
  LET m == Body[b].msgs[i]
  IN [at   |-> [channel |-> Body[b].channel,
                chat |-> IF m.room = None THEN m.sender ELSE m.room],
      text |-> m.text,
      turn |-> TurnOf(b, i)]

Answer(b, status) ==
  /\ answers' = [answers EXCEPT ![b] = Append(@, status)]
  /\ cursor' = [cursor EXCEPT ![b] = 0]

\* A platform may deliver a body again whatever it was answered: the answer
\* can be lost on the way.
CanDeliver(b) ==
  /\ loop.state # "exited"
  /\ cursor[b] = 0
  /\ Len(answers[b]) < MaxDeliveries

\* Unknown channel, no adapter, bad signature or unparsable body.
RejectDelivery(b) ==
  /\ CanDeliver(b)
  /\ Answer(b, "4xx")
  /\ UNCHANGED <<queue, lastSender, loop, stdin, stdout, claudeVars, handled, relayVars>>

StartDelivery(b) ==
  /\ CanDeliver(b)
  /\ cursor' = [cursor EXCEPT ![b] = 1]
  /\ UNCHANGED <<queue, answers, lastSender, loop, stdin, stdout, claudeVars, handled,
                 relayVars>>

InBody(b) == cursor[b] \in 1..Len(Body[b].msgs)

\* A message the gate drops, or one with an empty sender: skipped.
SkipMessage(b) ==
  /\ InBody(b)
  /\ ~Admitted(Body[b].msgs[cursor[b]])
  /\ cursor' = [cursor EXCEPT ![b] = @ + 1]
  /\ UNCHANGED <<queue, answers>>

\* Mutant: an unbounded channel.
ForwardMessageUnbounded(b) ==
  /\ InBody(b)
  /\ Admitted(Body[b].msgs[cursor[b]])
  /\ loop.state # "exited"
  /\ queue' = Append(queue, EventOf(b, cursor[b]))
  /\ cursor' = [cursor EXCEPT ![b] = @ + 1]
  /\ UNCHANGED answers

\* try_send succeeds: there is room.
ForwardMessage(b) ==
  /\ InBody(b)
  /\ Admitted(Body[b].msgs[cursor[b]])
  /\ loop.state # "exited"
  /\ Len(queue) < EVENT_BUFFER_SIZE
  /\ queue' = Append(queue, EventOf(b, cursor[b]))
  /\ cursor' = [cursor EXCEPT ![b] = @ + 1]
  /\ UNCHANGED answers

\* Mutant: a message that finds the queue full is dropped and the next one tried.
DropMessageWhenFull(b) ==
  /\ InBody(b)
  /\ Admitted(Body[b].msgs[cursor[b]])
  /\ \/ /\ loop.state = "exited"
        /\ Answer(b, "500")
     \/ /\ loop.state # "exited"
        /\ Len(queue) = EVENT_BUFFER_SIZE
        /\ cursor' = [cursor EXCEPT ![b] = @ + 1]
        /\ UNCHANGED answers
  /\ UNCHANGED queue

\* try_send fails: the rest of the body is given up and the platform is told.
RefuseMessage(b) ==
  /\ InBody(b)
  /\ Admitted(Body[b].msgs[cursor[b]])
  /\ \/ /\ loop.state = "exited"
        /\ Answer(b, "500")
     \/ /\ loop.state # "exited"
        /\ Len(queue) = EVENT_BUFFER_SIZE
        /\ Answer(b, "503")
  /\ UNCHANGED queue

AcceptDelivery(b) ==
  /\ cursor[b] = Len(Body[b].msgs) + 1
  /\ Answer(b, "200")
  /\ UNCHANGED queue

HandlerStep(b) ==
  /\ \/ SkipMessage(b)
     \/ ForwardMessage(b)
     \/ RefuseMessage(b)
     \/ AcceptDelivery(b)
  /\ UNCHANGED <<lastSender, loop, stdin, stdout, claudeVars, handled, relayVars>>
------------------------------------------------------------------------------
(***************************************************************************)
(* The MCP loop.                                                           *)
(***************************************************************************)
\* run() returns and drops the receiver with everything still queued in it.
Exit ==
  /\ loop' = Exited
  /\ queue' = << >>

\* Closed stdin, an unreadable stdin, or the HTTP server ending first: main
\* stops both.  Lines already written are read before end of file is seen.
Shutdown ==
  /\ loop.state # "exited"
  /\ Exit
  /\ UNCHANGED <<webVars, lastSender, stdin, stdout, claudeVars, handled, relayVars>>

\* A response is written, or stdout is closed and the loop ends; id-less
\* requests get no response.
Respond ==
  \/ loop' = Idle /\ UNCHANGED queue
  \/ Exit

\* Mutant: a biased select!, the queue first.
NextLineWhenNoEvent(kind) ==
  /\ loop.state = "idle"
  /\ queue = << >>
  /\ stdin # << >>
  /\ Head(stdin).kind = kind
  /\ stdin' = Tail(stdin)

NextLineIs(kind) ==
  /\ loop.state = "idle"
  /\ stdin # << >>
  /\ Head(stdin).kind = kind
  /\ stdin' = Tail(stdin)

(***************************************************************************)
(* A permission_request goes to the last active sender; without one it is  *)
(* dropped.  The id is registered before the prompt is sent.               *)
(***************************************************************************)
HandlePermissionRequest ==
  /\ NextLineIs("permission_request")
  /\ LET line == Head(stdin)
         id == line.id
     IN IF lastSender = None \/ id = EmptyId
        THEN UNCHANGED <<loop, pending, asks>>
        ELSE /\ pending' = PendingAfterRequest(id, lastSender)
             /\ asks' = [asks EXCEPT ![id] = @ + 1]
             /\ loop' = [state |-> "prompting", id |-> id, at |-> lastSender,
                         trigger |-> line.trigger]
  /\ UNCHANGED <<queue, webVars, lastSender, stdout, claudeVars, handled, verdicts,
                 answeredBy>>

\* Mutant: the loop waits for the verdict before it goes on.
FinishPromptOnceAnswered ==
  /\ loop.state = "prompting"
  /\ pending[loop.id] = None
  /\ loop' = Idle
  /\ UNCHANGED <<queue, webVars, lastSender, stdin, stdout, claudeVars, handled, relayVars>>

\* adapter.send returns.  A failure is only logged: the id stays registered.
FinishPrompt ==
  /\ loop.state = "prompting"
  /\ loop' = Idle
  /\ UNCHANGED <<queue, webVars, lastSender, stdin, stdout, claudeVars, handled, relayVars>>

\* Any other line.  A tools/call reply with valid arguments for a registered
\* channel is sent; every other line (initialize, tools/list, a refused call, an
\* unknown method, invalid JSON) is dealt with at once.
HandleCall ==
  /\ NextLineIs("call")
  /\ \/ loop' = Resting("replying") /\ UNCHANGED queue
     \/ Respond
  /\ UNCHANGED <<webVars, lastSender, stdout, claudeVars, handled, relayVars>>

FinishReply ==
  /\ loop.state = "replying"
  /\ Respond
  /\ UNCHANGED <<webVars, lastSender, stdin, stdout, claudeVars, handled, relayVars>>

(***************************************************************************)
(* handle_channel_event: a reply that answers an outstanding request is    *)
(* reported as a verdict, every other message is forwarded; either way its *)
(* chat becomes the last active sender.  When stdout is closed the verdict *)
(* is consumed all the same and the loop ends.                             *)
(***************************************************************************)
ReportVerdict(e) ==
  /\ AcceptsVerdict(e.text, e.at)
  /\ stdout' = Append(stdout, [kind |-> "permission", at |-> None, text |-> e.text])
  /\ verdicts' = [verdicts EXCEPT ![e.text.id] = @ + 1]
  /\ answeredBy' = [answeredBy EXCEPT ![e.text.id] = e.at]

ForwardToClaude(e) ==
  /\ ~AcceptsVerdict(e.text, e.at)
  /\ stdout' = Append(stdout, [kind |-> "channel", at |-> e.at, text |-> e.text])
  /\ UNCHANGED <<verdicts, answeredBy>>

HandleChannelEvent ==
  /\ loop.state = "idle"
  /\ queue # << >>
  /\ LET e == Head(queue)
     IN /\ pending' = PendingAfterVerdict(e.text, e.at)
        /\ \/ /\ ReportVerdict(e) \/ ForwardToClaude(e)
              /\ lastSender' = e.at
              /\ handled' = handled \cup {e.turn}
              /\ queue' = Tail(queue)
              /\ UNCHANGED loop
           \/ /\ Exit
              /\ UNCHANGED <<stdout, verdicts, answeredBy, lastSender, handled>>
  /\ UNCHANGED <<webVars, stdin, claudeVars, asks>>
------------------------------------------------------------------------------
(***************************************************************************)
(* Claude Code: reads notifications in order, works for the chat of the    *)
(* latest message it read, and writes lines.                               *)
(***************************************************************************)
ReadNotification ==
  /\ stdout # << >>
  /\ stdout' = Tail(stdout)
  /\ working' = IF Head(stdout).kind = "channel" THEN Head(stdout).at ELSE working
  /\ UNCHANGED <<queue, webVars, lastSender, loop, stdin, lines, handled, relayVars>>

WriteLine(kind, id) ==
  /\ loop.state # "exited"
  /\ lines < MaxLines
  /\ lines' = lines + 1
  /\ stdin' = Append(stdin, [kind |-> kind, id |-> id, trigger |-> working])
  /\ UNCHANGED <<queue, webVars, lastSender, loop, stdout, working, handled, relayVars>>

ClaudeStep ==
  \/ ReadNotification
  \/ \E id \in RequestIds : WriteLine("permission_request", id)
  \/ WriteLine("call", NoId)
------------------------------------------------------------------------------
Next ==
  \/ \E b \in Deliverables : RejectDelivery(b)
  \/ \E b \in Deliverables : StartDelivery(b)
  \/ \E b \in Deliverables : HandlerStep(b)
  \/ HandlePermissionRequest
  \/ FinishPrompt
  \/ HandleCall
  \/ FinishReply
  \/ HandleChannelEvent
  \/ Shutdown
  \/ ClaudeStep

Spec == Init /\ [][Next]_vars

(***************************************************************************)
(* Handler tasks are scheduled by the runtime; the HTTP client has a       *)
(* timeout, so a send returns; select! polls its ready branches in random  *)
(* order, so a branch that is ready again and again is taken.              *)
(***************************************************************************)
Fairness ==
  /\ \A b \in Deliverables : WF_vars(HandlerStep(b))
  /\ WF_vars(FinishPrompt)
  /\ WF_vars(FinishReply)
  /\ SF_vars(HandleChannelEvent)
  /\ SF_vars(HandlePermissionRequest \/ HandleCall)

------------------------------------------------------------------------------
(***************************************************************************)
(* Properties.                                                             *)
(***************************************************************************)
Queued == {queue[k].turn : k \in 1..Len(queue)}

\* The messages of body b, before position n, that the gate lets through.
AdmittedBefore(b, n) == {i \in 1..Len(Body[b].msgs) : i < n /\ Admitted(Body[b].msgs[i])}

\* A delivery answered 200 left none of its admitted messages behind: each is in
\* the event queue or has been dealt with by the loop, as long as the loop runs
\* (handle_webhook answers before the loop has seen anything).
AckedIsAccounted ==
  loop.state # "exited" =>
    \A b \in Deliverables : \A n \in 1..Len(answers[b]) :
      answers[b][n] = "200" =>
        \A i \in AdmittedBefore(b, Len(Body[b].msgs) + 1) :
          [body |-> b, attempt |-> n, index |-> i] \in handled \cup Queued

\* Within one delivery the loop deals with messages in their order and without
\* gaps, whatever else is queued in between and even when the delivery is cut
\* short by a full queue.
HandledWithoutGaps ==
  \A t \in handled :
    \A i \in AdmittedBefore(t.body, t.index) : [t EXCEPT !.index = i] \in handled

\* A consumed request id cannot be replayed: however often replies are repeated
\* or redelivered, an id yields at most one verdict each time it is registered.
OneVerdictPerAsk == \A r \in RequestIds : verdicts[r] <= asks[r]

\* The relay implements the ledger of approvals: an id is closed by a reply of
\* the chat that was asked, which is reported unless the process ends of it; a
\* foreign, repeated or late reply neither closes an id nor uses it up.
Ledger == INSTANCE ApprovalLedger WITH
  Ids <- RequestIds, Endpoints <- Endpoint, Nobody <- None, open <- pending,
  running <- loop.state # "exited"

ImplementsLedger == Ledger!Spec

\* A prompt goes to the chat whose message made Claude Code ask for permission
\* (permission.rs: "routes tool approval prompts to the sender who triggered the
\* conversation").  The code routes it to the last active sender instead.
PromptReachesTrigger ==
  loop.state = "prompting" /\ loop.trigger # None => loop.at = loop.trigger

\* Every message accepted into the queue is eventually dealt with, unless the
\* process ends, although the loop blocks on prompts and replies in between.
AcceptedIsHandled ==
  \A b \in Deliverables : \A n \in 1..MaxDeliveries :
    \A i \in 1..Len(Body[b].msgs) :
      LET t == [body |-> b, attempt |-> n, index |-> i]
      IN t \in Queued ~> (t \in handled \/ loop.state = "exited")

\* No line Claude Code writes waits for ever, unless the process ends, although
\* messages keep arriving and the queue need never be empty: lines do not lie in
\* stdin from some moment on with no line taken any more.
LinesAreTaken ==
  \/ []<>(stdin = << >> \/ loop.state = "exited")
  \/ []<><<stdin # << >> /\ stdin' = Tail(stdin)>>_vars
==============================================================================
