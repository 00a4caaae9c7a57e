---------------------------- MODULE DiscordGateway ----------------------------
(***************************************************************************)
(* The Discord gateway client (channels/discord/gateway.rs): start_gateway *)
(* keeps one WebSocket session alive after another, each session runs an   *)
(* event loop that multiplexes a heartbeat timer with the frames Discord   *)
(* sends, and every user message goes into the host's bounded channel.     *)
(*                                                                         *)
(* The client is one task: while it waits for room in the host's channel,  *)
(* or sleeps after INVALID_SESSION, it neither reads frames nor serves the *)
(* timer, whose ticks then pile up (tokio's interval delivers missed ticks *)
(* in a burst).  Sequence numbers only travel in heartbeat payloads and    *)
(* are left out, and so is what a message says.                            *)
(***************************************************************************)
EXTENDS Naturals, Sequences

CONSTANTS
  MAX_RECONNECT_ATTEMPTS,  \* failed sessions in a row before giving up
  RECONNECT_BASE_DELAY,    \* milliseconds
  RECONNECT_MAX_DELAY,     \* milliseconds
  Capacity,                \* of the host's channel
  MaxMessages,             \* bound: messages Discord dispatches in a session
  MaxWire,                 \* bound: frames in flight to the client
  MaxBeats,                \* bound: Discord asks for no heartbeat beyond it
  MaxDue                   \* bound: timer ticks that pile up

ASSUME GatewayAssumption ==
  /\ MAX_RECONNECT_ATTEMPTS \in Nat
  /\ RECONNECT_BASE_DELAY \in Nat
  /\ RECONNECT_MAX_DELAY \in Nat
  /\ RECONNECT_BASE_DELAY <= RECONNECT_MAX_DELAY
  /\ Capacity \in Nat \ {0}
  /\ MaxMessages \in Nat
  /\ MaxWire \in Nat
  /\ MaxBeats \in Nat
  /\ MaxDue \in Nat \ {0}   \* the first tick is due at once

VARIABLES
  phase,      \* where the client task is: see Phases
  failures,   \* consecutive_failures
  botKnown,   \* bot_user_id.is_some(): kept from session to session
  delay,      \* the latest backoff delay
  outbox,     \* messages in the host's channel
  listening,  \* the host still holds the receiver
  \* the session under way, or its outcome
  ackPending, \* heartbeat_ack_pending
  dropped,    \* it ended because the receiver was dropped
  reached,    \* its reached_ready
  \* its connection
  wire,       \* frames on their way to the client
  due,        \* timer ticks that are due and not served
  beats,      \* heartbeats Discord has received and not acknowledged
  dead,       \* Discord has vanished without closing the connection
  \* history
  stage,      \* how far the session under way came: see Stages
  barren,     \* sessions since one saw READY, counted up to MaxBarren
  sent,       \* messages dispatched in this session
  delivered   \* those of them that entered the host's channel

loopVars == <<failures, botKnown, delay, barren>>
connVars == <<ackPending, wire, due, beats, dead, sent, delivered>>
endVars  == <<dropped, reached>>
hostVars == <<outbox, listening>>
vars == <<phase, loopVars, connVars, endVars, hostVars, stage>>

Phases == {"connect", "hello", "open", "sending", "pausing", "ended", "backoff", "stopped"}

\* identified: the client got past IDENTIFY.  ready: it saw READY with the bot's id.
Stages == {"none", "identified", "ready"}

InSession == phase \in {"open", "sending", "pausing"}

\* leave: RECONNECT or a close frame.  ignored: a bot's or an empty message, READY
\* without a user id, any other event, a malformed or a non-text frame.
FrameKinds ==
  {"ready", "message", "ack", "beat", "invalid", "leave", "ignored"}

\* n numbers the messages of a session; other frames have 0.
Frame == [kind: FrameKinds, n: 0..MaxMessages]

MaxBarren == MAX_RECONNECT_ATTEMPTS + 2

TypeOK ==
  /\ phase \in Phases
  /\ failures \in 0..(MAX_RECONNECT_ATTEMPTS + 1)
  /\ botKnown \in BOOLEAN
  /\ delay \in RECONNECT_BASE_DELAY..RECONNECT_MAX_DELAY
  /\ barren \in 0..MaxBarren
  /\ ackPending \in BOOLEAN
  /\ dropped \in BOOLEAN
  /\ reached \in BOOLEAN
  /\ wire \in Seq(Frame) /\ Len(wire) <= MaxWire
  /\ due \in 0..MaxDue
  /\ beats \in 0..(MaxBeats + MaxWire + 1)
  /\ dead \in BOOLEAN
  /\ outbox \in 0..Capacity
  /\ listening \in BOOLEAN
  /\ stage \in Stages
  /\ sent \in 0..MaxMessages
  /\ delivered \subseteq 1..MaxMessages

Init ==
  /\ phase = "connect"
  /\ failures = 0 /\ botKnown = FALSE /\ delay = RECONNECT_BASE_DELAY /\ barren = 0
  /\ ackPending = FALSE /\ dropped = FALSE /\ reached = FALSE
  /\ wire = << >> /\ due = 0 /\ beats = 0 /\ dead = FALSE
  /\ outbox = 0 /\ listening = TRUE
  /\ stage = "none" /\ sent = 0 /\ delivered = {}
-------------------------------------------------------------------------------
(***************************************************************************)
(* The session: run_gateway_session and run_event_loop.                    *)
(***************************************************************************)
\* The session is over: its local state goes out of scope and what was on the
\* wire is lost with the connection.
EndSession(droppedNow, reachedNow) ==
  /\ phase' = "ended"
  /\ dropped' = droppedNow
  /\ reached' = reachedNow
  /\ ackPending' = FALSE
  /\ wire' = << >>
  /\ due' = 0
  /\ beats' = 0
  /\ dead' = FALSE
  /\ sent' = 0
  /\ delivered' = {}

\* Mutant: every session that reaches the event loop counts as ready.
LoseReadyConnection == EndSession(FALSE, TRUE)

\* An event loop that ends reports readiness by looking at bot_user_id.
LoseConnection == EndSession(FALSE, botKnown)

Connect ==
  /\ phase = "connect"
  /\ \/ phase' = "hello" /\ UNCHANGED <<connVars, endVars>>
     \/ EndSession(FALSE, FALSE)
  /\ UNCHANGED <<loopVars, hostVars, stage>>

\* read_hello and IDENTIFY.  The timer's first tick is due at once.
Identify ==
  /\ phase = "hello"
  /\ \/ /\ phase' = "open"
        /\ due' = 1
        /\ stage' = "identified"
        /\ UNCHANGED <<ackPending, wire, beats, dead, sent, delivered, endVars>>
     \/ EndSession(FALSE, FALSE) /\ UNCHANGED stage
  /\ UNCHANGED <<loopVars, hostVars>>

BeatsAfterHeartbeat == IF dead THEN beats ELSE beats + 1

\* Mutant: an unanswered heartbeat is not noticed.
HeartbeatWithoutAckCheck ==
  /\ phase = "open"
  /\ due > 0
  /\ due' = due - 1
  /\ beats' = IF ackPending THEN beats ELSE BeatsAfterHeartbeat
  /\ ackPending' = TRUE
  /\ UNCHANGED <<phase, wire, dead, sent, delivered, endVars>>
  /\ UNCHANGED <<loopVars, hostVars, stage>>

\* The timer branch: an unanswered heartbeat ends the session, otherwise one more
\* is sent, which may fail.
HeartbeatTick ==
  /\ phase = "open"
  /\ due > 0
  /\ \/ /\ ~ackPending
        /\ due' = due - 1
        /\ beats' = BeatsAfterHeartbeat
        /\ ackPending' = TRUE
        /\ UNCHANGED <<phase, wire, dead, sent, delivered, endVars>>
     \/ LoseConnection
  /\ UNCHANGED <<loopVars, hostVars, stage>>

Receive(kind) ==
  /\ phase = "open"
  /\ wire # << >>
  /\ Head(wire).kind = kind

ReadReady ==
  /\ Receive("ready")
  /\ botKnown' = TRUE
  /\ stage' = "ready"
  /\ wire' = Tail(wire)
  /\ UNCHANGED <<phase, failures, delay, barren, ackPending, due, beats, dead, sent, delivered,
                 endVars, hostVars>>

\* A user message: the client now waits in tx.send for room.
ReadMessage ==
  /\ Receive("message")
  /\ phase' = "sending"
  /\ UNCHANGED <<loopVars, connVars, endVars, hostVars, stage>>

\* The message at the head of the wire enters the host's channel.
Deliver ==
  /\ outbox < Capacity
  /\ outbox' = outbox + 1
  /\ delivered' = delivered \cup {Head(wire).n}

\* The event loop goes on with the next frame.
Resume ==
  /\ phase' = "open"
  /\ wire' = Tail(wire)
  /\ UNCHANGED <<ackPending, due, beats, dead, sent, endVars>>

\* Mutant: try_send, dropping the message when the channel is full.
DropWhenFull ==
  /\ phase = "sending"
  /\ \/ ~listening /\ EndSession(TRUE, botKnown) /\ UNCHANGED outbox
     \/ listening /\ Deliver /\ Resume
     \/ listening /\ outbox = Capacity /\ Resume /\ UNCHANGED <<outbox, delivered>>
  /\ UNCHANGED <<loopVars, listening, stage>>

\* tx.send returns: there was room, or the receiver is gone.
FinishSend ==
  /\ phase = "sending"
  /\ \/ ~listening /\ EndSession(TRUE, botKnown) /\ UNCHANGED outbox
     \/ listening /\ Deliver /\ Resume
  /\ UNCHANGED <<loopVars, listening, stage>>

ReadAck ==
  /\ Receive("ack")
  /\ ackPending' = FALSE
  /\ wire' = Tail(wire)
  /\ UNCHANGED <<phase, loopVars, due, beats, dead, sent, delivered, endVars, hostVars, stage>>

\* Discord asks for a heartbeat: it is sent at once and does not arm
\* heartbeat_ack_pending, although its ACK will clear it.
ReadBeatRequest ==
  /\ Receive("beat")
  /\ \/ /\ wire' = Tail(wire)
        /\ beats' = BeatsAfterHeartbeat
        /\ UNCHANGED <<phase, ackPending, due, dead, sent, delivered, endVars>>
     \/ LoseConnection
  /\ UNCHANGED <<loopVars, hostVars, stage>>

ReadIgnored ==
  /\ Receive("ignored")
  /\ wire' = Tail(wire)
  /\ UNCHANGED <<phase, loopVars, ackPending, due, beats, dead, sent, delivered, endVars,
                 hostVars, stage>>

\* INVALID_SESSION: three seconds of sleep before the session is given up.
ReadInvalidSession ==
  /\ Receive("invalid")
  /\ phase' = "pausing"
  /\ UNCHANGED <<loopVars, connVars, endVars, hostVars, stage>>

ReadLeave ==
  /\ Receive("leave")
  /\ LoseConnection
  /\ UNCHANGED <<loopVars, hostVars, stage>>

FinishPause ==
  /\ phase = "pausing"
  /\ LoseConnection
  /\ UNCHANGED <<loopVars, hostVars, stage>>

\* The stream ends or fails, which only a client that reads can notice.
LoseStream ==
  /\ phase = "open"
  /\ LoseConnection
  /\ UNCHANGED <<loopVars, hostVars, stage>>
-------------------------------------------------------------------------------
(***************************************************************************)
(* The reconnect loop of start_gateway.                                    *)
(***************************************************************************)
Lesser(a, b) == IF a < b THEN a ELSE b

\* Mutant: the delay is not capped.
BackoffDelayUncapped(attempt) == RECONNECT_BASE_DELAY * 2^Lesser(attempt, 31)

\* calculate_backoff_delay: doubling from the base, capped, no jitter.
BackoffDelay(attempt) ==
  Lesser(RECONNECT_BASE_DELAY * 2^Lesser(attempt, 31), RECONNECT_MAX_DELAY)

\* Mutant: the counter survives a successful session.
FailuresNeverReset == failures + 1

FailuresAfterSession == IF reached THEN 0 ELSE failures + 1

\* The session's outcome decides; it and the history of the session end here.
AfterSession ==
  /\ phase = "ended"
  /\ IF dropped
     THEN phase' = "stopped" /\ UNCHANGED <<failures, delay>>
     ELSE /\ failures' = FailuresAfterSession
          /\ IF failures' > MAX_RECONNECT_ATTEMPTS
             THEN phase' = "stopped" /\ UNCHANGED delay
             ELSE phase' = "backoff" /\ delay' = BackoffDelay(failures')
  /\ dropped' = FALSE
  /\ reached' = FALSE
  /\ stage' = "none"
  /\ barren' = IF stage = "ready" THEN 0 ELSE Lesser(barren + 1, MaxBarren)
  /\ UNCHANGED <<botKnown, connVars, hostVars>>

FinishBackoff ==
  /\ phase = "backoff"
  /\ phase' = "connect"
  /\ UNCHANGED <<loopVars, connVars, endVars, hostVars, stage>>
-------------------------------------------------------------------------------
(***************************************************************************)
(* Time, Discord and the host.                                             *)
(***************************************************************************)
TimerFires ==
  /\ InSession
  /\ due < MaxDue
  /\ due' = due + 1
  /\ UNCHANGED <<phase, loopVars, ackPending, wire, beats, dead, sent, delivered, endVars,
                 hostVars, stage>>

CanTransmit == InSession /\ ~dead /\ Len(wire) < MaxWire

DiscordSendsMessage ==
  /\ CanTransmit
  /\ sent < MaxMessages
  /\ sent' = sent + 1
  /\ wire' = Append(wire, [kind |-> "message", n |-> sent'])
  /\ UNCHANGED <<phase, loopVars, ackPending, due, beats, dead, delivered, endVars, hostVars,
                 stage>>

DiscordSends(kind) ==
  /\ CanTransmit
  /\ kind = "beat" => beats < MaxBeats
  /\ wire' = Append(wire, [kind |-> kind, n |-> 0])
  /\ UNCHANGED <<phase, loopVars, ackPending, due, beats, dead, sent, delivered, endVars,
                 hostVars, stage>>

DiscordAcks ==
  /\ CanTransmit
  /\ beats > 0
  /\ beats' = beats - 1
  /\ wire' = Append(wire, [kind |-> "ack", n |-> 0])
  /\ UNCHANGED <<phase, loopVars, ackPending, due, dead, sent, delivered, endVars, hostVars,
                 stage>>

DiscordVanishes ==
  /\ InSession
  /\ ~dead
  /\ dead' = TRUE
  /\ UNCHANGED <<phase, loopVars, ackPending, wire, due, beats, sent, delivered, endVars,
                 hostVars, stage>>

HostTakes ==
  /\ outbox > 0
  /\ listening
  /\ outbox' = outbox - 1
  /\ UNCHANGED <<phase, loopVars, connVars, endVars, listening, stage>>

HostDropsReceiver ==
  /\ listening
  /\ listening' = FALSE
  /\ UNCHANGED <<phase, loopVars, connVars, endVars, outbox, stage>>
-------------------------------------------------------------------------------
Next ==
  \/ Connect
  \/ Identify
  \/ HeartbeatTick
  \/ ReadReady
  \/ ReadMessage
  \/ FinishSend
  \/ ReadAck
  \/ ReadBeatRequest
  \/ ReadIgnored
  \/ ReadInvalidSession
  \/ ReadLeave
  \/ FinishPause
  \/ LoseStream
  \/ AfterSession
  \/ FinishBackoff
  \/ TimerFires
  \/ DiscordSendsMessage
  \/ \E kind \in FrameKinds \ {"ack", "message"} : DiscordSends(kind)
  \/ DiscordAcks
  \/ DiscordVanishes
  \/ HostTakes
  \/ HostDropsReceiver

Spec == Init /\ [][Next]_vars

ReadFrame ==
  \/ ReadReady \/ ReadMessage \/ ReadAck \/ ReadBeatRequest \/ ReadIgnored
  \/ ReadInvalidSession \/ ReadLeave

(***************************************************************************)
(* The runtime runs the client, its timers fire, select! picks a ready     *)
(* branch at random so neither is starved, and the host, as long as it     *)
(* listens, keeps consuming.  Nothing is assumed of Discord, nor that      *)
(* connecting ends: connect_async has no timeout of its own.               *)
(***************************************************************************)
Fairness ==
  /\ SF_vars(HeartbeatTick) /\ SF_vars(ReadFrame)
  /\ WF_vars(FinishSend) /\ WF_vars(FinishPause)
  /\ WF_vars(AfterSession)
  /\ WF_vars(TimerFires)
  /\ WF_vars(HostTakes)

FairSpec == Spec /\ Fairness
-------------------------------------------------------------------------------
(***************************************************************************)
(* Properties.                                                             *)
(***************************************************************************)
\* start_gateway gives up only when the host stopped listening or when more than
\* MAX_RECONNECT_ATTEMPTS sessions in a row ended without seeing READY: sessions
\* that worked in between never count towards giving up.
StopsOnlyWhenExhausted ==
  phase = "stopped" => ~listening \/ barren > MAX_RECONNECT_ATTEMPTS

\* Within a session no user message is lost between Discord and the host's
\* channel: what entered it is a prefix of what was dispatched, however often the
\* client had to wait for room.
SessionWithoutGaps == \A n \in delivered : 1..n \subseteq delivered

\* The backoff by what really happened, whatever the session reports of itself
\* (gateway.rs:259).  A session that saw READY brings the delay back to the base;
\* one that did not get past IDENTIFY, and one that did while no session has ever
\* seen READY, doubles it up to its maximum.  Of a later session that got past
\* IDENTIFY and was not READY only this is said: the code takes it for a success
\* and goes back to the base (see GivesUpWhenExhausted).
BackoffDoubles ==
  [][ phase = "ended" /\ phase' = "backoff" =>
        LET doubled == Lesser(2 * delay, RECONNECT_MAX_DELAY)
        IN /\ stage = "ready" => delay' = RECONNECT_BASE_DELAY
           /\ stage = "none" \/ (stage = "identified" /\ ~botKnown) => delay' = doubled
           /\ delay' \in {RECONNECT_BASE_DELAY, doubled} ]_vars

\* A session whose peer has vanished without closing the connection is left: the
\* unanswered heartbeat is noticed even though frames and messages that were
\* under way are still dealt with.
DeadSessionIsLeft == (InSession /\ dead) ~> (phase = "ended")

\* "Maximum consecutive reconnect attempts before giving up" (gateway.rs:50): the
\* client does not go on when that many sessions in a row, and one more, ended
\* without READY.  The code does: once one session has seen READY, bot_user_id
\* stays set, and every later session that gets past IDENTIFY counts as ready.
GivesUpWhenExhausted ==
  phase = "backoff" => barren <= MAX_RECONNECT_ATTEMPTS
===============================================================================
