------------------------------ MODULE AguiStatus ------------------------------
(***************************************************************************)
(* The progress status of one turn (agui_status.rs and the three           *)
(* channels/*/agui_status.rs): a placeholder message is posted, edited as  *)
(* the run's AG-UI events arrive, and edited once more into the reply.     *)
(*                                                                         *)
(* One consumer task, the host's, drives the adapter, awaits every edit    *)
(* and finalizes when the event stream is over.  The docs describe two     *)
(* hosts.  One swallows the errors of status edits, as set_status asks of  *)
(* its callers (agui_status.rs:72); the other writes the loop that         *)
(* drive_status_updates shows (:106-109), whose `?` leaves the turn.  The  *)
(* platform applies an edit, rejects it, or is so slow that the client's   *)
(* timeout ends the call first: such an edit may still be applied later.   *)
(***************************************************************************)
EXTENDS Integers

CONSTANTS
  Channels,           \* the channels to model, among slack, telegram, discord
  edit_min_interval,  \* minimum interval between throttled edits
  MaxEvents,          \* bound: events of the run
  MaxTime             \* bound: of the clock

ASSUME StatusAssumption ==
  /\ Channels \subseteq {"slack", "telegram", "discord"}
  /\ edit_min_interval \in Nat
  /\ MaxEvents \in Nat
  /\ MaxTime \in Nat

VARIABLES
  channel,   \* the turn's channel; never changes
  swallows,  \* the host swallows the errors of status edits; never changes
  now,       \* clock
  task,      \* what the consumer task is doing
  closed,    \* the event stream is over
  events,    \* number of events consumed
  lastEdit,  \* last_edit_at, or Never
  edit,      \* the edit being awaited
  result,    \* what finalize returned
  \* the platform
  shown,     \* what the message shows
  late,      \* edits given up by the client that may still be applied
  \* history
  edits,     \* status edits sent
  faulty,    \* some edit was not applied as far as the client knows
  unanswered \* some edit got no answer

taskVars     == <<task, closed, events, lastEdit, edit, result>>
platformVars == <<shown, late>>
pastVars     == <<edits, faulty, unanswered>>
hostVars     == <<channel, swallows>>
vars == <<hostVars, now, taskVars, platformVars, pastVars>>

Never == -1

EventKinds ==
  {"RunStarted", "StepStarted", "StepFinished", "RunFinished", "RunError",
   "ToolCallStart", "ToolCallResult", "Unknown"}

Texts == {"thinking", "step", "calling", "error", "reply"}

\* A text and the number of the event it stands for: 0 is the placeholder, the
\* reply comes after every event.
Content == [text: Texts, n: 0..(MaxEvents + 1)]

Placeholder == [text |-> "thinking", n |-> 0]
Reply == [text |-> "reply", n |-> MaxEvents + 1]

\* fallback: there is no placeholder.  abandoned: the host has left the turn.
Tasks ==
  {"opening", "ready", "editing", "finalizing", "done", "fallback", "abandoned"}

TypeOK ==
  /\ channel \in Channels
  /\ swallows \in BOOLEAN
  /\ now \in 0..MaxTime
  /\ task \in Tasks
  /\ closed \in BOOLEAN
  /\ events \in 0..MaxEvents
  /\ lastEdit \in {Never} \cup 0..MaxTime
  /\ edit \in Content
  /\ result \in {"none", "ok", "err"}
  /\ shown \in Content
  /\ late \subseteq Content
  /\ edits \in 0..MaxEvents
  /\ faulty \in BOOLEAN
  /\ unanswered \in BOOLEAN

Init ==
  /\ channel \in Channels
  /\ swallows \in BOOLEAN
  /\ now = 0
  /\ task = "opening"
  /\ closed = FALSE
  /\ events = 0
  /\ lastEdit = Never
  /\ edit = Placeholder
  /\ result = "none"
  /\ shown = Placeholder
  /\ late = {}
  /\ edits = 0
  /\ faulty = FALSE
  /\ unanswered = FALSE
-------------------------------------------------------------------------------
(***************************************************************************)
(* The answers a call can get, as far as the code tells them apart.        *)
(*   applied       success                                                 *)
(*   rejected      an HTTP error                                           *)
(*   not_modified  an HTTP error that says the text is the same            *)
(*   ok_false      success with a body that says no                        *)
(*   unreadable    success with a body that cannot be read                 *)
(*   unreachable   no answer: the request never arrived                    *)
(*   timeout       no answer in time: the request may have arrived         *)
(***************************************************************************)
Failures == {"rejected", "unreachable", "timeout"}

\* Slack's edit_message_force reads the body for "ok".
SlackEditAnswers == {"applied", "ok_false", "unreadable"} \cup Failures

\* Telegram's looks for "message is not modified" in a rejection.
TelegramEditAnswers(text) ==
  {"applied"} \cup Failures \cup (IF text = shown.text THEN {"not_modified"} ELSE {})

\* Discord's only looks at the status code.
DiscordEditAnswers == {"applied"} \cup Failures

EditAnswers ==
  CASE channel = "slack"    -> SlackEditAnswers
    [] channel = "telegram" -> TelegramEditAnswers(edit.text)
    [] channel = "discord"  -> DiscordEditAnswers

NoAnswer(answer) == answer \in {"unreachable", "timeout"}

\* Mutant: a rejected edit is an error too.
EditResultOfRefusal(answer) ==
  IF NoAnswer(answer) \/ answer \in {"rejected", "ok_false"} THEN "err" ELSE "ok"

\* Only a missing answer is an error; every other failure is logged.
EditResult(answer) == IF NoAnswer(answer) THEN "err" ELSE "ok"

\* Opening reads the id of the new message from the body; only Slack's says "ok".
OpenAnswers ==
  {"applied", "unreadable"} \cup Failures
    \cup (IF channel = "slack" THEN {"ok_false"} ELSE {})

Opens(answer) == answer = "applied"

Changes(answer) == answer \in {"applied", "unreadable"}

\* What the platform does with the edit being awaited.
PlatformAnswers(answer) ==
  /\ shown' = IF Changes(answer) THEN edit ELSE shown
  /\ late' = IF answer = "timeout" THEN late \cup {edit} ELSE late
  /\ faulty' = (faulty \/ ~Changes(answer))
  /\ unanswered' = (unanswered \/ NoAnswer(answer))
-------------------------------------------------------------------------------
(***************************************************************************)
(* The adapter and its consumer.                                           *)
(***************************************************************************)
\* Without a placeholder the reply is delivered by other means.
Open ==
  /\ task = "opening"
  /\ \E answer \in OpenAnswers :
       task' = IF Opens(answer) THEN "ready" ELSE "fallback"
  /\ UNCHANGED <<hostVars, now, closed, events, lastEdit, edit, result, platformVars, pastVars>>

HasText(kind) == kind \notin {"StepFinished", "RunFinished", "Unknown"}

\* status_text_for_event, for a kind that has a text.
StatusText(kind) ==
  CASE kind \in {"RunStarted", "ToolCallResult"} -> "thinking"
    [] kind = "StepStarted"   -> "step"
    [] kind = "ToolCallStart" -> "calling"
    [] kind = "RunError"      -> "error"

ShouldThrottleEdit ==
  /\ edit_min_interval # 0
  /\ lastEdit # Never
  /\ now - lastEdit < edit_min_interval

\* Mutant: a status edit does not arm the throttle.
SendStatusUnarmed(kind) ==
  /\ HasText(kind)
  /\ ~ShouldThrottleEdit
  /\ task' = "editing"
  /\ edit' = [text |-> StatusText(kind), n |-> events + 1]
  /\ edits' = edits + 1
  /\ UNCHANGED lastEdit

\* Mutant: the time of the next edit is stored in place of the last one's.
SendStatusArmedAhead(kind) ==
  /\ HasText(kind)
  /\ ~ShouldThrottleEdit
  /\ lastEdit' = now + edit_min_interval
  /\ task' = "editing"
  /\ edit' = [text |-> StatusText(kind), n |-> events + 1]
  /\ edits' = edits + 1

\* edit_message when it is not throttled: the edit is sent.
SendStatus(kind) ==
  /\ HasText(kind)
  /\ ~ShouldThrottleEdit
  /\ lastEdit' = now
  /\ task' = "editing"
  /\ edit' = [text |-> StatusText(kind), n |-> events + 1]
  /\ edits' = edits + 1

\* A throttled status is dropped; an event without a text has none.
DropStatus(kind) ==
  /\ HasText(kind) => ShouldThrottleEdit
  /\ UNCHANGED <<lastEdit, task, edit, edits>>

\* The task takes the next event; RUN_FINISHED and RUN_ERROR end the run.
ConsumeEvent(kind) ==
  /\ task = "ready"
  /\ ~closed
  /\ events < MaxEvents
  /\ events' = events + 1
  /\ closed' = (kind \in {"RunFinished", "RunError"})
  /\ SendStatus(kind) \/ DropStatus(kind)
  /\ UNCHANGED <<hostVars, now, result, platformVars, faulty, unanswered>>

\* The run's broadcast closes without a terminal event.
CloseStream ==
  /\ task = "ready"
  /\ ~closed
  /\ closed' = TRUE
  /\ UNCHANGED <<hostVars, now, task, events, lastEdit, edit, result, platformVars, pastVars>>

\* Mutant: the edit is not awaited.
FinishEditAtOnce ==
  /\ task = "editing"
  /\ task' = "ready"
  /\ late' = late \cup {edit}
  /\ UNCHANGED <<hostVars, now, closed, events, lastEdit, edit, result, shown, pastVars>>

\* set_status returns, and drive_status_updates passes its result on.  The task
\* goes on whatever the result, or an error ends it before it finalizes.
FinishEdit ==
  /\ task = "editing"
  /\ \E answer \in EditAnswers :
       /\ PlatformAnswers(answer)
       /\ task' = IF swallows \/ EditResult(answer) = "ok" THEN "ready" ELSE "abandoned"
  /\ UNCHANGED <<hostVars, now, closed, events, lastEdit, edit, result, edits>>

\* Mutant: the reply goes through the throttle.
FinalizeThrottled ==
  /\ task = "ready"
  /\ closed
  /\ IF ShouldThrottleEdit
     THEN task' = "done" /\ result' = "ok" /\ UNCHANGED <<lastEdit, edit>>
     ELSE task' = "finalizing" /\ lastEdit' = now /\ edit' = Reply /\ UNCHANGED result
  /\ UNCHANGED <<hostVars, now, closed, events, platformVars, pastVars>>

\* finalize sends the reply past the throttle.
Finalize ==
  /\ task = "ready"
  /\ closed
  /\ task' = "finalizing"
  /\ lastEdit' = now
  /\ edit' = Reply
  /\ UNCHANGED <<hostVars, now, closed, events, result, platformVars, pastVars>>

FinishFinalize ==
  /\ task = "finalizing"
  /\ task' = "done"
  /\ \E answer \in EditAnswers :
       /\ PlatformAnswers(answer)
       /\ result' = EditResult(answer)
  /\ UNCHANGED <<hostVars, now, closed, events, lastEdit, edit, edits>>
-------------------------------------------------------------------------------
\* The platform gets round to an edit the client has given up.
ApplyLate ==
  \E e \in late :
    /\ shown' = e
    /\ late' = late \ {e}
    /\ UNCHANGED <<hostVars, now, taskVars, pastVars>>

Tick ==
  /\ now < MaxTime
  /\ now' = now + 1
  /\ UNCHANGED <<hostVars, taskVars, platformVars, pastVars>>

Next ==
  \/ Open
  \/ \E kind \in EventKinds : ConsumeEvent(kind)
  \/ CloseStream
  \/ FinishEdit
  \/ Finalize
  \/ FinishFinalize
  \/ ApplyLate
  \/ Tick

Spec == Init /\ [][Next]_vars

(***************************************************************************)
(* The client's timeouts end every call; the task is scheduled.  Nothing   *)
(* is assumed of the run or the platform.                                  *)
(***************************************************************************)
Fairness ==
  WF_vars(Open) /\ WF_vars(FinishEdit) /\ WF_vars(Finalize) /\ WF_vars(FinishFinalize)

FairSpec == Spec /\ Fairness
-------------------------------------------------------------------------------
(***************************************************************************)
(* Properties.                                                             *)
(***************************************************************************)
\* The status never goes back: the message shows ever later events and finally
\* the reply, unless an edit the client gave up is applied after a later one.
ShownAdvances ==
  [][ shown'.n < shown.n => faulty /\ shown' \in late ]_vars

\* The client's own share of the platform's rate limit: over any run from the
\* start, status edits are on average at least the interval apart.
StatusEditsAreSpaced == edits > 0 => (edits - 1) * edit_min_interval <= now

\* finalize bypasses the throttle: when no call failed, the message ends as the
\* reply, however recent the last status edit was, and finalize raises no alarm.
ReplyLandsWithoutFaults ==
  task = "done" /\ ~faulty => shown = Reply /\ result = "ok"

\* When the run is over, the turn is finalized, whatever became of its edits.  Only
\* a host that does not swallow errors may have left it, and only after an edit that
\* got no answer: of the platform's refusals the code says that "Neither should tear
\* down the consumer" (slack/agui_status.rs:351-355).
FinishedRunIsFinalized ==
  (closed /\ task # "fallback") ~>
    (task = "done" \/ (task = "abandoned" /\ ~swallows /\ unanswered))
===============================================================================
