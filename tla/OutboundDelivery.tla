--------------------------- MODULE OutboundDelivery ---------------------------
(***************************************************************************)
(* One outgoing message on its way to a platform: send and send_raw of the *)
(* five transports, the classification of their errors, the retry schedule *)
(* (retry.rs) under the host's worker, the private reply to a command      *)
(* given in a shared room and the removal of that command from the room.   *)
(*                                                                         *)
(* A platform answers a call in one of the ways the code tells apart.      *)
(* Some answers leave open whether the call took effect: after the         *)
(* client's timeout the message may be shown, now or later, or never, and  *)
(* a gateway error may hide a success.                                     *)
(*                                                                         *)
(* The worker is the host's: it keeps the entry and does what is_retryable *)
(* and compute_retry_update say.  Discord's follow-up to an interaction,   *)
(* which goes to another URL, is a message like others.                    *)
(***************************************************************************)
EXTENDS Integers, Sequences

CONSTANTS
  Channels,            \* the channels to model
  MAX_RETRY_ATTEMPTS,
  RETRY_DELAYS_SECS

ASSUME DeliveryAssumption ==
  /\ Channels \subseteq {"slack", "telegram", "discord", "whatsapp", "messenger"}
  /\ MAX_RETRY_ATTEMPTS \in Nat
  /\ RETRY_DELAYS_SECS \in Seq(Nat)
  /\ RETRY_DELAYS_SECS # << >>

VARIABLES
  channel,        \* the channel of the message; never changes
  configured,     \* its configuration has the credentials; never changes
  private,        \* a reply for the caller alone; never changes
  call,           \* the call being awaited
  payload,        \* the rendered payload
  \* the queue entry
  status,
  attempt_count,
  delay,          \* seconds to the next attempt
  removal,        \* what delete_message returned
  \* the platform
  seen,           \* copies shown, by audience
  late,           \* posts the client gave up that may still be shown
  echo,           \* the user's command is still in the room
  \* history
  posts,          \* post calls made
  unclear         \* answers that left open whether the post took effect

entryVars == <<status, attempt_count, delay>>
vars == <<channel, configured, private, call, payload, entryVars, removal,
          seen, late, echo, posts, unclear>>

Audiences == {"room", "caller"}

Payload == [endpoint: {"message", "ephemeral"}, to: {"room", "caller", "dm"},
            user: {"none", "caller"}, thread: BOOLEAN]

\* render: a message for the room, in the thread of the command.
RoomPayload == [endpoint |-> "message", to |-> "room", user |-> "none", thread |-> TRUE]

TypeOK ==
  /\ channel \in Channels
  /\ configured \in BOOLEAN
  /\ private \in BOOLEAN
  /\ call \in {"none", "open_dm", "post"}
  /\ payload \in Payload
  /\ status \in {"pending", "retrying", "sent", "dlq", "failed"}
  /\ attempt_count \in 0..(MAX_RETRY_ATTEMPTS + 1)
  /\ delay \in Nat
  /\ removal \in {"none", "asked", "ok", "err"}
  /\ seen \in [Audiences -> Nat]
  /\ late \in Nat
  /\ echo \in BOOLEAN
  /\ posts \in Nat
  /\ unclear \in Nat

Init ==
  /\ channel \in Channels
  /\ configured \in BOOLEAN
  /\ private \in BOOLEAN
  /\ call = "none"
  /\ payload = RoomPayload
  /\ status = "pending"
  /\ attempt_count = 0
  /\ delay = 0
  /\ removal = "none"
  /\ seen = [a \in Audiences |-> 0]
  /\ late = 0
  /\ echo = private
  /\ posts = 0
  /\ unclear = 0
------------------------------------------------------------------------------
(***************************************************************************)
(* Answers and errors.                                                     *)
(***************************************************************************)
\* unreachable: no connection.  timeout: the client gave up.  limited: HTTP 429.
\* broken: 500, 502, 503 or 504.  refused: any other error status.  not_ok: HTTP
\* 200 with ok: false, on Slack only.  unreadable: HTTP 200 with a body that is not
\* what the code reads.  accepted: HTTP 200.
Answers ==
  {"unreachable", "timeout", "limited", "broken", "refused", "unreadable", "accepted"}
    \cup (IF channel = "slack" THEN {"not_ok"} ELSE {})

Ok == [kind |-> "Ok"]
DeliveryFailed(retryable) == [kind |-> "DeliveryFailed", retryable |-> retryable]
ChannelApiError(status_code) == [kind |-> "ChannelApiError", status_code |-> status_code]
InvalidPayload == [kind |-> "InvalidPayload"]

\* Mutant: an answer that cannot be read counts as a failed delivery.
CallResultRetryUnreadable(answer) ==
  CASE answer \in {"unreachable", "timeout", "unreadable"} -> DeliveryFailed(TRUE)
    [] answer = "limited"  -> ChannelApiError(429)
    [] answer = "broken"   -> ChannelApiError(503)
    [] answer = "refused"  -> ChannelApiError(403)
    [] answer = "not_ok"   -> ChannelApiError(200)
    [] answer = "accepted" -> Ok

\* Mutant: ok: false is not looked at.
CallResultIgnoreOk(answer) ==
  CASE answer \in {"unreachable", "timeout"} -> DeliveryFailed(TRUE)
    [] answer = "limited"    -> ChannelApiError(429)
    [] answer = "broken"     -> ChannelApiError(503)
    [] answer = "refused"    -> ChannelApiError(403)
    [] answer = "unreadable" -> InvalidPayload
    [] answer \in {"accepted", "not_ok"} -> Ok

\* What a call returns for an answer.
CallResult(answer) ==
  CASE answer \in {"unreachable", "timeout"} -> DeliveryFailed(TRUE)
    [] answer = "limited"    -> ChannelApiError(429)
    [] answer = "broken"     -> ChannelApiError(503)
    [] answer = "refused"    -> ChannelApiError(403)
    [] answer = "not_ok"     -> ChannelApiError(200)
    [] answer = "unreadable" -> InvalidPayload
    [] answer = "accepted"   -> Ok

is_retryable(result) ==
  \/ result.kind = "DeliveryFailed" /\ result.retryable
  \/ result.kind = "ChannelApiError" /\ result.status_code \in {429, 500, 502, 503, 504}

Least(a, b) == IF a <= b THEN a ELSE b

\* Mutant: the limit is compared one late.
compute_retry_update_late(current_attempt) ==
  LET next_attempt == current_attempt + 1
  IN IF next_attempt > MAX_RETRY_ATTEMPTS + 1
     THEN [attempt_count |-> next_attempt, status |-> "dlq", delay |-> 0]
     ELSE [attempt_count |-> next_attempt, status |-> "retrying",
           delay |-> RETRY_DELAYS_SECS[Least(next_attempt, Len(RETRY_DELAYS_SECS))]]

\* The new attempt count, and the retry after a delay or the dead letter.
compute_retry_update(current_attempt) ==
  LET next_attempt == current_attempt + 1
  IN IF next_attempt > MAX_RETRY_ATTEMPTS
     THEN [attempt_count |-> next_attempt, status |-> "dlq", delay |-> 0]
     ELSE [attempt_count |-> next_attempt, status |-> "retrying",
           delay |-> RETRY_DELAYS_SECS[Least(next_attempt, Len(RETRY_DELAYS_SECS))]]
------------------------------------------------------------------------------
(***************************************************************************)
(* The platform.  A Discord message needs a channel, not a user, and a     *)
(* private chat has no threads: other payloads take no effect.             *)
(***************************************************************************)
Acceptable ==
  /\ channel = "discord" => payload.to # "caller"
  /\ payload.thread => payload.to = "room"

Audience ==
  IF payload.endpoint = "ephemeral" THEN payload.user
  ELSE IF payload.to = "room" THEN "room" ELSE "caller"

\* Whether a post answered so is shown now, may be shown later, or is lost.
Fates(answer) ==
  IF answer \in {"accepted", "unreadable"} THEN {"shown"}
  ELSE IF answer = "timeout" THEN {"shown", "late", "lost"}
  ELSE IF answer = "broken" THEN {"shown", "lost"}
  ELSE {"lost"}

PlatformTakes(answer) ==
  \E fate \in Fates(answer) :
    /\ fate # "lost" => Acceptable
    /\ seen' = IF fate = "shown" THEN [seen EXCEPT ![Audience] = @ + 1] ELSE seen
    /\ late' = IF fate = "late" THEN late + 1 ELSE late
    /\ unclear' = IF answer \in {"timeout", "broken"} THEN unclear + 1 ELSE unclear

\* A post the client gave up is shown after all.
LateShow ==
  /\ late > 0
  /\ late' = late - 1
  /\ seen' = [seen EXCEPT ![Audience] = @ + 1]
  /\ UNCHANGED <<channel, configured, private, call, payload, entryVars, removal,
                 echo, posts, unclear>>
------------------------------------------------------------------------------
(***************************************************************************)
(* Sending.                                                                *)
(***************************************************************************)
\* Mutant: the reply keeps its address.
PrivatePayloadToRoom(dm) == RoomPayload

\* The payload of a private reply: on Slack the room's with the caller as its user;
\* elsewhere redirected to dm, without the room's thread.
PrivatePayload(dm) ==
  IF channel = "slack"
  THEN [RoomPayload EXCEPT !.endpoint = "ephemeral", !.user = "caller"]
  ELSE [RoomPayload EXCEPT !.to = dm, !.thread = FALSE]

\* Mutant: a queued message waits for the credentials.
NotConfiguredWaits ==
  /\ ~configured
  /\ status = "pending"
  /\ private
  /\ status' = "failed"
  /\ UNCHANGED <<channel, configured, private, call, payload, attempt_count, delay,
                 removal, seen, late, echo, posts, unclear>>

\* Without credentials nothing is called and the error is final.
NotConfigured ==
  /\ ~configured
  /\ status = "pending"
  /\ status' = IF private THEN "failed" ELSE "dlq"
  /\ UNCHANGED <<channel, configured, private, call, payload, attempt_count, delay,
                 removal, seen, late, echo, posts, unclear>>

Post(p) ==
  /\ call' = "post"
  /\ payload' = p
  /\ posts' = posts + 1
  /\ UNCHANGED <<channel, configured, private, entryVars, removal, seen, late, echo, unclear>>

\* send_private_reply, where one call is enough.
SendPrivateReply ==
  /\ configured /\ private
  /\ status = "pending" /\ call = "none"
  /\ channel # "discord"
  /\ Post(PrivatePayload("caller"))

\* send_private_reply on Discord opens the channel with the caller first.
OpenDm ==
  /\ configured /\ private
  /\ status = "pending" /\ call = "none"
  /\ channel = "discord"
  /\ call' = "open_dm"
  /\ UNCHANGED <<channel, configured, private, payload, entryVars, removal,
                 seen, late, echo, posts, unclear>>

FinishOpenDm(answer) ==
  /\ call = "open_dm"
  /\ IF CallResult(answer) = Ok
     THEN Post(PrivatePayload("dm"))
     ELSE /\ status' = "failed"
          /\ call' = "none"
          /\ UNCHANGED <<channel, configured, private, payload, attempt_count, delay,
                         removal, seen, late, echo, posts, unclear>>

\* The worker sends a message for the room: at first, and when a retry is due.
Attempt ==
  /\ configured /\ ~private
  /\ status \in {"pending", "retrying"} /\ call = "none"
  /\ Post(RoomPayload)

\* What becomes of the entry.  A private reply is not retried: its caller has the
\* error.
Settle(result) ==
  IF result = Ok THEN status' = "sent" /\ UNCHANGED <<attempt_count, delay>>
  ELSE IF private THEN status' = "failed" /\ UNCHANGED <<attempt_count, delay>>
  ELSE IF ~is_retryable(result) THEN status' = "dlq" /\ UNCHANGED <<attempt_count, delay>>
  ELSE LET update == compute_retry_update(attempt_count)
       IN /\ status' = update.status
          /\ attempt_count' = update.attempt_count
          /\ delay' = update.delay

FinishPost(answer) ==
  /\ call = "post"
  /\ call' = "none"
  /\ PlatformTakes(answer)
  /\ Settle(CallResult(answer))
  /\ UNCHANGED <<channel, configured, private, payload, removal, echo, posts>>
------------------------------------------------------------------------------
(***************************************************************************)
(* Removing the command from the room.                                     *)
(***************************************************************************)
CanDelete == channel \in {"telegram", "discord"}

\* Mutant: a channel that cannot delete says that it has.
DeleteMessageSilently ==
  /\ private /\ removal = "none"
  /\ removal' = IF ~CanDelete THEN "ok" ELSE IF ~configured THEN "err" ELSE "asked"
  /\ UNCHANGED <<channel, configured, private, call, payload, entryVars,
                 seen, late, echo, posts, unclear>>

\* delete_message, up to the call; a channel without that call returns an error.
DeleteMessage ==
  /\ private /\ removal = "none"
  /\ removal' = IF ~CanDelete \/ ~configured THEN "err" ELSE "asked"
  /\ UNCHANGED <<channel, configured, private, call, payload, entryVars,
                 seen, late, echo, posts, unclear>>

\* The status of the answer decides; its body is not read.  A message id that is
\* not a number, refused by the Telegram transport itself, is a refusal.  A call
\* that takes effect after the client gave it up is the same as one that did before.
FinishDelete(answer) ==
  /\ removal = "asked"
  /\ removal' = IF answer \in {"accepted", "unreadable"} THEN "ok" ELSE "err"
  /\ \E fate \in Fates(answer) : echo' = IF fate = "shown" THEN FALSE ELSE echo
  /\ UNCHANGED <<channel, configured, private, call, payload, entryVars,
                 seen, late, posts, unclear>>

Next ==
  \/ NotConfigured \/ SendPrivateReply \/ OpenDm \/ Attempt
  \/ \E answer \in Answers : FinishOpenDm(answer) \/ FinishPost(answer)
  \/ DeleteMessage
  \/ \E answer \in Answers : FinishDelete(answer)
  \/ LateShow

\* Calls end by the client's timeout, and the worker takes up what is due.
Fairness ==
  /\ WF_vars(NotConfigured \/ SendPrivateReply \/ OpenDm \/ Attempt)
  /\ WF_vars(\E answer \in Answers : FinishOpenDm(answer) \/ FinishPost(answer))

Spec == Init /\ [][Next]_vars /\ Fairness
------------------------------------------------------------------------------
(***************************************************************************)
(* Properties.                                                             *)
(***************************************************************************)
\* A private reply is never shown to the room, however its calls end.
PrivateStaysPrivate == private => seen["room"] = 0

\* A message recorded as sent is shown to those it is meant for.
SentMeansShown ==
  status = "sent" => seen[IF private THEN "caller" ELSE "room"] > 0

\* A message is shown more than once only when answers left open whether a post had
\* taken effect, and then at most once more for each: an answer that settles the
\* matter, readable or not, is the last attempt.
CopiesAreExplained == seen["room"] + seen["caller"] + late <= unclear + 1

\* However the platform fails, a message is posted at most once more than there are
\* retries.
PostsAreBounded == posts <= MAX_RETRY_ATTEMPTS + 1

\* When delete_message says Ok, the command is gone from the room.
RemovedMeansGone == removal = "ok" => ~echo

\* Every message comes to an end: sent, dead-lettered, or returned as failed.
EveryMessageEnds == <>(status \in {"sent", "dlq", "failed"})
==============================================================================
