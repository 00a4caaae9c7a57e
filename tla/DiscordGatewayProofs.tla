------------------------ MODULE DiscordGatewayProofs ------------------------
(***************************************************************************)
(* Theorems about DiscordGateway, for all values of its constants.         *)
(***************************************************************************)
EXTENDS DiscordGateway, Integers, TLAPS

(***************************************************************************)
(* Giving up.  The invariant relates the client's own counter to the       *)
(* sessions that really failed: failures never exceeds barren while the    *)
(* client goes on, because a session that saw READY left bot_user_id set,  *)
(* so its outcome says reached_ready and resets the counter.               *)
(***************************************************************************)
CounterTypeOK ==
  /\ failures \in Nat
  /\ barren \in Nat
  /\ botKnown \in BOOLEAN
  /\ reached \in BOOLEAN
  /\ dropped \in BOOLEAN
  /\ stage \in Stages
  /\ listening \in BOOLEAN
  /\ phase \in Phases

\* What a session reports at its end: it got past IDENTIFY, and bot_user_id is set.
OutcomeIsKnown ==
  /\ stage = "ready" => botKnown
  /\ stage # "none" => InSession \/ phase = "ended"
  /\ InSession => stage # "none"
  /\ phase = "ended" => reached = (stage # "none" /\ botKnown)

DroppedIsDeaf == phase = "ended" /\ dropped => ~listening

FailuresAreBarren ==
  phase # "stopped" => failures <= barren /\ failures <= MAX_RECONNECT_ATTEMPTS

GiveUpInv ==
  /\ CounterTypeOK
  /\ OutcomeIsKnown
  /\ DroppedIsDeaf
  /\ FailuresAreBarren
  /\ StopsOnlyWhenExhausted

\* The end of a session keeps the invariant, when it reports bot_user_id's state.
LEMMA SessionEndKeepsGiveUp ==
  ASSUME GiveUpInv, NEW droppedNow \in BOOLEAN, droppedNow => ~listening,
         phase \notin {"ended", "stopped"},
         \/ EndSession(droppedNow, botKnown) /\ InSession
         \/ EndSession(droppedNow, FALSE) /\ stage = "none",
         UNCHANGED <<loopVars, listening, stage>>
  PROVE  GiveUpInv'
<1> USE DEF GiveUpInv, EndSession
<1>1. phase' = "ended" /\ UNCHANGED <<failures, barren, botKnown, listening, stage>>
  BY DEF loopVars
<1>2. CounterTypeOK'
  BY <1>1 DEF CounterTypeOK, Phases
<1>3. OutcomeIsKnown'
  BY <1>1 DEF OutcomeIsKnown, InSession, CounterTypeOK
<1>4. DroppedIsDeaf'
  <2>1. dropped' = droppedNow /\ listening' = listening
    BY <1>1
  <2>2. CASE droppedNow = TRUE
    <3>1. listening = FALSE
      BY <2>2 DEF CounterTypeOK
    <3>2. QED
      BY <2>1, <3>1, Zenon DEF DroppedIsDeaf
  <2>3. CASE droppedNow = FALSE
    BY <2>1, <2>3, Zenon DEF DroppedIsDeaf
  <2>4. QED
    BY <2>2, <2>3
<1>5. FailuresAreBarren' /\ StopsOnlyWhenExhausted'
  BY <1>1 DEF FailuresAreBarren, StopsOnlyWhenExhausted
<1>6. QED
  BY <1>2, <1>3, <1>4, <1>5

\* The reconnect loop keeps the invariant: a session counts as a failure only if
\* it did not see READY.
LEMMA ReconnectLoopKeepsGiveUp ==
  ASSUME GiveUpInv, AfterSession
  PROVE  GiveUpInv'
<1> USE GatewayAssumption DEF GiveUpInv, AfterSession, hostVars
<1>0. phase = "ended" /\ stage' = "none" /\ phase' \in {"stopped", "backoff"}
  OBVIOUS
<1>a. barren' \in Nat
  BY DEF CounterTypeOK, MaxBarren, Lesser
<1>b. failures' \in Nat
  BY DEF CounterTypeOK, FailuresAfterSession
<1>c. CounterTypeOK'
  BY <1>0, <1>a, <1>b DEF CounterTypeOK, Phases, Stages
<1>d. OutcomeIsKnown' /\ DroppedIsDeaf'
  BY <1>0 DEF OutcomeIsKnown, DroppedIsDeaf, InSession
<1>1. CounterTypeOK' /\ OutcomeIsKnown' /\ DroppedIsDeaf'
  BY <1>c, <1>d
<1>2. CASE dropped
  BY <1>1, <1>2 DEF DroppedIsDeaf, FailuresAreBarren, StopsOnlyWhenExhausted, CounterTypeOK
<1>3. CASE ~dropped
  <2>1. failures' <= barren'
    BY <1>3 DEF CounterTypeOK, OutcomeIsKnown, FailuresAreBarren, FailuresAfterSession,
                MaxBarren, Lesser
  <2>2. FailuresAreBarren' /\ StopsOnlyWhenExhausted'
    BY <1>1, <1>3, <2>1 DEF CounterTypeOK, FailuresAreBarren, StopsOnlyWhenExhausted
  <2>3. QED
    BY <1>1, <2>2
<1>4. QED
  BY <1>2, <1>3

\* Every other step keeps the invariant: none of them touches the counters, and
\* those that end a session report whether bot_user_id is set.
LEMMA StepKeepsGiveUp == GiveUpInv /\ [Next]_vars => GiveUpInv'
<1> SUFFICES ASSUME GiveUpInv, [Next]_vars PROVE GiveUpInv'
  OBVIOUS
<1>a. ASSUME InSession, LoseConnection,
             UNCHANGED <<loopVars, listening, stage>>
      PROVE  GiveUpInv'
  BY <1>a, SessionEndKeepsGiveUp DEF LoseConnection, InSession
<1>b. ASSUME UNCHANGED <<failures, barren, botKnown, reached, dropped, stage, listening>>,
             phase' # phase => /\ phase \notin {"ended", "stopped"}
                               /\ phase' \in Phases \ {"ended", "stopped"}
                               /\ stage # "none" <=> InSession'
      PROVE  GiveUpInv'
  BY <1>b DEF GiveUpInv, CounterTypeOK, OutcomeIsKnown, DroppedIsDeaf, FailuresAreBarren,
              StopsOnlyWhenExhausted, InSession
<1>c. ASSUME phase \in {"connect", "hello"}, EndSession(FALSE, FALSE),
             UNCHANGED <<loopVars, hostVars, stage>>
      PROVE  GiveUpInv'
  <2>1. stage = "none"
    BY <1>c DEF GiveUpInv, OutcomeIsKnown, InSession
  <2>2. QED
    BY <1>c, <2>1, SessionEndKeepsGiveUp DEF hostVars
<1>1. CASE UNCHANGED vars
  BY <1>1, <1>b DEF vars, loopVars, endVars, hostVars
<1>2. CASE Connect
  BY <1>2, <1>b, <1>c DEF Connect, loopVars, endVars, hostVars, Phases, GiveUpInv,
                          OutcomeIsKnown, InSession
<1>3. CASE Identify
  <2>1. CASE EndSession(FALSE, FALSE)
    BY <1>3, <1>c, <2>1 DEF Identify, EndSession
  <2>2. CASE phase' = "open"
    BY <1>3, <2>2 DEF Identify, loopVars, endVars, hostVars, Phases, Stages, InSession,
      GiveUpInv, CounterTypeOK, OutcomeIsKnown, DroppedIsDeaf, FailuresAreBarren,
      StopsOnlyWhenExhausted, EndSession
  <2>3. QED
    BY <1>3, <2>1, <2>2 DEF Identify
<1>4. CASE HeartbeatTick
  BY <1>4, <1>a, <1>b DEF HeartbeatTick, loopVars, endVars, hostVars, InSession
<1>5. CASE ReadReady
  BY <1>5 DEF ReadReady, Receive, endVars, hostVars, GiveUpInv, CounterTypeOK, OutcomeIsKnown,
              DroppedIsDeaf, FailuresAreBarren, StopsOnlyWhenExhausted, InSession, Stages
<1>6. CASE ReadMessage \/ ReadInvalidSession
  BY <1>6, <1>b DEF ReadMessage, ReadInvalidSession, Receive, loopVars, endVars, hostVars,
                    Phases, InSession, GiveUpInv, OutcomeIsKnown
<1>7. CASE FinishSend
  <2>1. CASE ~listening /\ EndSession(TRUE, botKnown)
    BY <1>7, <2>1, SessionEndKeepsGiveUp DEF FinishSend, InSession
  <2>2. CASE Resume
    BY <1>7, <2>2, <1>b DEF FinishSend, Resume, loopVars, endVars, Phases, InSession,
                            GiveUpInv, OutcomeIsKnown
  <2>3. QED
    BY <1>7, <2>1, <2>2 DEF FinishSend
<1>8. CASE ReadAck \/ ReadIgnored
  BY <1>8, <1>b DEF ReadAck, ReadIgnored, loopVars, endVars, hostVars
<1>9. CASE ReadBeatRequest
  BY <1>9, <1>a, <1>b DEF ReadBeatRequest, Receive, loopVars, endVars, hostVars, InSession
<1>10. CASE ReadLeave \/ FinishPause \/ LoseStream
  BY <1>10, <1>a DEF ReadLeave, FinishPause, LoseStream, Receive, hostVars, InSession
<1>11. CASE AfterSession
  BY <1>11, ReconnectLoopKeepsGiveUp
<1>12. CASE FinishBackoff
  BY <1>12, <1>b DEF FinishBackoff, loopVars, endVars, hostVars, Phases, GiveUpInv,
                     OutcomeIsKnown, InSession
<1>13. CASE TimerFires \/ DiscordSendsMessage \/ DiscordAcks \/ DiscordVanishes \/ HostTakes
            \/ \E kind \in FrameKinds : DiscordSends(kind)
  BY <1>13, <1>b DEF TimerFires, DiscordSendsMessage, DiscordAcks, DiscordVanishes, HostTakes,
                     DiscordSends, loopVars, endVars, hostVars
<1>14. CASE HostDropsReceiver
  BY <1>14 DEF HostDropsReceiver, loopVars, endVars, GiveUpInv, CounterTypeOK, OutcomeIsKnown,
               DroppedIsDeaf, FailuresAreBarren, StopsOnlyWhenExhausted, InSession
<1>15. QED
  BY <1>1, <1>2, <1>3, <1>4, <1>5, <1>6, <1>7, <1>8, <1>9, <1>10, <1>11, <1>12, <1>13, <1>14
  DEF Next

\* The invariant holds in every reachable state.
LEMMA GiveUpHolds == Spec => []GiveUpInv
<1>1. Init => GiveUpInv
  <2> SUFFICES ASSUME Init PROVE GiveUpInv
    OBVIOUS
  <2>1. CounterTypeOK
    BY DEF Init, CounterTypeOK, Phases, Stages
  <2>2. OutcomeIsKnown /\ DroppedIsDeaf
    BY DEF Init, OutcomeIsKnown, DroppedIsDeaf, InSession
  <2>3. FailuresAreBarren /\ StopsOnlyWhenExhausted
    BY GatewayAssumption DEF Init, FailuresAreBarren, StopsOnlyWhenExhausted
  <2>4. QED
    BY <2>1, <2>2, <2>3 DEF GiveUpInv
<1>2. QED
  BY <1>1, StepKeepsGiveUp, PTL DEF Spec

\* The client gives up only when the host has stopped listening or when more than
\* MAX_RECONNECT_ATTEMPTS sessions in a row ended without READY, for any limit and
\* any pattern of failures.
THEOREM StopsForAReason == Spec => []StopsOnlyWhenExhausted
<1>1. GiveUpInv => StopsOnlyWhenExhausted
  BY DEF GiveUpInv
<1>2. QED
  BY <1>1, GiveUpHolds, PTL
-----------------------------------------------------------------------------
(***************************************************************************)
(* No gaps.  The invariant adds what is on the wire: before a message on   *)
(* the wire come, delivered or ahead of it on the wire, all messages with  *)
(* a smaller number, and nothing that was dispatched is anywhere else.     *)
(***************************************************************************)
IsMessage(i, m) == wire[i].kind = "message" /\ wire[i].n = m

WireTypeOK ==
  /\ wire \in Seq(Frame)
  /\ sent \in 0..MaxMessages
  /\ delivered \subseteq Nat

WireWithoutGaps ==
  \A i \in 1..Len(wire) : wire[i].kind = "message" =>
    \A m \in 1..(wire[i].n - 1) : m \in delivered \/ \E j \in 1..(i - 1) : IsMessage(j, m)

DispatchedIsAccounted ==
  \A m \in 1..sent : m \in delivered \/ \E j \in 1..Len(wire) : IsMessage(j, m)

SendingHoldsMessage == phase = "sending" => wire # << >> /\ wire[1].kind = "message"

GapInv ==
  /\ WireTypeOK
  /\ WireWithoutGaps
  /\ DispatchedIsAccounted
  /\ SendingHoldsMessage
  /\ SessionWithoutGaps

\* Taking the first frame off the wire, and delivering it when it is a message.
LEMMA TakingFrameKeepsGaps ==
  ASSUME GapInv, wire # << >>, wire' = Tail(wire), UNCHANGED sent, phase' # "sending",
         delivered' = IF wire[1].kind = "message" THEN delivered \cup {wire[1].n} ELSE delivered
  PROVE  GapInv'
<1> USE DEF GapInv
<1>1. /\ Len(wire) \in Nat \ {0}
      /\ Len(wire') = Len(wire) - 1
      /\ \A i \in 1..(Len(wire) - 1) : wire'[i] = wire[i + 1]
      /\ \A i \in 1..Len(wire) : wire[i] \in Frame
  BY DEF WireTypeOK
<1>2. WireTypeOK'
  <2>1. wire[1].n \in 0..MaxMessages
    BY <1>1 DEF Frame
  <2>2. wire' \in Seq(Frame)
    BY DEF WireTypeOK
  <2>a. wire[1].n \in Nat
    BY <2>1, GatewayAssumption
  <2>3. delivered' \subseteq Nat
    BY <2>a DEF WireTypeOK
  <2>4. QED
    BY <2>2, <2>3 DEF WireTypeOK
<1>3. ASSUME NEW m \in Nat, NEW j \in 1..Len(wire), IsMessage(j, m)
      PROVE  m \in delivered' \/ (j - 1 \in 1..(Len(wire) - 1) /\ IsMessage(j - 1, m)')
  <2>1. CASE j = 1
    BY <1>3, <2>1 DEF IsMessage
  <2>2. CASE j # 1
    BY <1>1, <1>3, <2>2 DEF IsMessage
  <2>3. QED
    BY <2>1, <2>2
<1>4. WireWithoutGaps'
  <2> SUFFICES ASSUME NEW i \in 1..(Len(wire) - 1), wire[i + 1].kind = "message",
                      NEW m \in 1..(wire[i + 1].n - 1)
               PROVE  m \in delivered' \/ \E k \in 1..(i - 1) : IsMessage(k, m)'
    BY <1>1 DEF WireWithoutGaps
  <2>a. i + 1 \in 1..Len(wire)
    BY <1>1
  <2>b. wire[i + 1] \in Frame
    BY <1>1, <2>a
  <2>0. i + 1 \in 1..Len(wire) /\ wire[i + 1].n \in Nat
    BY <2>a, <2>b DEF Frame
  <2>1. m \in delivered \/ \E j \in 1..i : IsMessage(j, m)
    BY <2>0 DEF WireWithoutGaps
  <2>2. CASE m \in delivered
    BY <2>2
  <2>3. ASSUME NEW j \in 1..i, IsMessage(j, m)
        PROVE  m \in delivered' \/ \E k \in 1..(i - 1) : IsMessage(k, m)'
    <3>1. m \in Nat /\ j \in 1..Len(wire)
      BY <1>1, <2>0
    <3>2. CASE m \in delivered'
      BY <3>2
    <3>3. CASE j - 1 \in 1..(Len(wire) - 1) /\ IsMessage(j - 1, m)'
      <4>1. j - 1 \in 1..(i - 1)
        BY <3>3, <1>1
      <4>2. QED
        BY <3>3, <4>1
    <3>4. QED
      BY <1>3, <2>3, <3>1, <3>2, <3>3
  <2>4. QED
    BY <2>1, <2>2, <2>3
<1>5. DispatchedIsAccounted'
  <2> SUFFICES ASSUME NEW m \in 1..sent
               PROVE  m \in delivered' \/ \E k \in 1..(Len(wire) - 1) : IsMessage(k, m)'
    BY <1>1 DEF DispatchedIsAccounted
  <2>1. m \in delivered \/ \E j \in 1..Len(wire) : IsMessage(j, m)
    BY DEF DispatchedIsAccounted
  <2>2. m \in Nat
    BY DEF WireTypeOK
  <2>3. QED
    BY <1>3, <2>1, <2>2
<1>6. SessionWithoutGaps'
  <2>1. CASE wire[1].kind # "message"
    BY <2>1 DEF SessionWithoutGaps
  <2>2. CASE wire[1].kind = "message"
    <3>1. wire[1].n \in Nat
      BY <1>1 DEF Frame
    <3>2. \A m \in 1..(wire[1].n - 1) : m \in delivered
      BY <1>1, <2>2 DEF WireWithoutGaps
    <3>3. 1..wire[1].n \subseteq delivered'
      BY <2>2, <3>1, <3>2
    <3>4. QED
      BY <2>2, <3>3 DEF SessionWithoutGaps
  <2>3. QED
    BY <2>1, <2>2
<1>7. QED
  BY <1>2, <1>4, <1>5, <1>6 DEF SendingHoldsMessage

\* A frame that joins the wire: a message with the next number, or no message.
LEMMA JoiningFrameKeepsGaps ==
  ASSUME GapInv, NEW f \in Frame, wire' = Append(wire, f), UNCHANGED <<delivered, phase>>,
         IF f.kind = "message"
         THEN sent < MaxMessages /\ sent' = sent + 1 /\ f.n = sent'
         ELSE sent' = sent
  PROVE  GapInv'
<1> USE DEF GapInv
<1>1. /\ Len(wire) \in Nat
      /\ Len(wire') = Len(wire) + 1
      /\ \A i \in 1..Len(wire) : wire'[i] = wire[i]
      /\ wire'[Len(wire) + 1] = f
  BY DEF WireTypeOK
<1>2. WireTypeOK'
  BY GatewayAssumption DEF WireTypeOK
<1>3. \A i \in 1..Len(wire) : \A m : IsMessage(i, m)' <=> IsMessage(i, m)
  BY <1>1 DEF IsMessage
<1>4. ASSUME NEW m \in 1..sent
      PROVE  m \in delivered' \/ \E j \in 1..Len(wire) : IsMessage(j, m)'
  BY <1>3 DEF DispatchedIsAccounted
<1>5. WireWithoutGaps'
  <2> SUFFICES ASSUME NEW i \in 1..(Len(wire) + 1), wire'[i].kind = "message",
                      NEW m \in 1..(wire'[i].n - 1)
               PROVE  m \in delivered' \/ \E j \in 1..(i - 1) : IsMessage(j, m)'
    BY <1>1 DEF WireWithoutGaps
  <2>1. CASE i = Len(wire) + 1
    <3>1. m \in 1..sent
      BY <1>1, <2>1 DEF WireTypeOK
    <3>2. QED
      BY <1>1, <1>4, <2>1, <3>1
  <2>2. CASE i \in 1..Len(wire)
    <3>1. m \in delivered \/ \E j \in 1..(i - 1) : IsMessage(j, m)
      BY <1>1, <2>2 DEF WireWithoutGaps
    <3>2. \A j \in 1..(i - 1) : j \in 1..Len(wire)
      BY <1>1, <2>2
    <3>3. QED
      BY <1>3, <3>1, <3>2
  <2>3. QED
    BY <1>1, <2>1, <2>2
<1>6. DispatchedIsAccounted'
  <2> SUFFICES ASSUME NEW m \in 1..sent'
               PROVE  m \in delivered' \/ \E j \in 1..(Len(wire) + 1) : IsMessage(j, m)'
    BY <1>1 DEF DispatchedIsAccounted
  <2>1. CASE m \in 1..sent
    BY <1>1, <1>4, <2>1
  <2>2. CASE m \notin 1..sent
    <3>1. f.kind = "message" /\ f.n = m
      BY <2>2 DEF WireTypeOK
    <3>2. IsMessage(Len(wire), m)'
      BY <1>1, <3>1 DEF IsMessage
    <3>3. Len(wire') \in 1..(Len(wire) + 1)
      BY <1>1
    <3>4. QED
      BY <3>2, <3>3
  <2>3. QED
    BY <2>1, <2>2
<1>7. SendingHoldsMessage'
  BY <1>1 DEF SendingHoldsMessage, WireTypeOK
<1>8. QED
  BY <1>2, <1>5, <1>6, <1>7 DEF SessionWithoutGaps

\* Every step of the client, of Discord and of the host keeps the invariant.
LEMMA StepKeepsGaps == GapInv /\ [Next]_vars => GapInv'
<1> SUFFICES ASSUME GapInv, [Next]_vars PROVE GapInv'
  OBVIOUS
<1>a. ASSUME NEW d, NEW r, EndSession(d, r) PROVE GapInv'
  BY <1>a, GatewayAssumption
  DEF EndSession, GapInv, WireTypeOK, WireWithoutGaps, DispatchedIsAccounted,
      SendingHoldsMessage, SessionWithoutGaps
<1>b. ASSUME UNCHANGED <<wire, sent, delivered>>, phase' # "sending" \/ UNCHANGED phase
      PROVE  GapInv'
  BY <1>b DEF GapInv, WireTypeOK, WireWithoutGaps, DispatchedIsAccounted, IsMessage,
              SendingHoldsMessage, SessionWithoutGaps
<1>c. ASSUME NEW kind, Receive(kind)
      PROVE  wire # << >> /\ wire[1].kind = kind /\ phase = "open"
  BY <1>c DEF Receive, GapInv, WireTypeOK
<1>1. CASE UNCHANGED vars
  BY <1>1, <1>b DEF vars, connVars
<1>2. CASE Connect \/ Identify \/ HeartbeatTick
  BY <1>2, <1>a, <1>b DEF Connect, Identify, HeartbeatTick, LoseConnection, connVars
<1>3. CASE ReadReady \/ ReadAck \/ ReadIgnored
  <2>1. /\ wire # << >> /\ wire[1].kind # "message" /\ wire' = Tail(wire)
        /\ phase' # "sending" /\ UNCHANGED <<sent, delivered>>
    BY <1>3, <1>c DEF ReadReady, ReadAck, ReadIgnored
  <2>2. QED
    BY <2>1, TakingFrameKeepsGaps
<1>4. CASE ReadMessage
  <2>1. wire # << >> /\ wire[1].kind = "message"
    BY <1>4, <1>c DEF ReadMessage
  <2>2. QED
    BY <1>4, <2>1
    DEF ReadMessage, connVars, GapInv, WireTypeOK, WireWithoutGaps, DispatchedIsAccounted,
        IsMessage, SendingHoldsMessage, SessionWithoutGaps
<1>5. CASE FinishSend
  <2>1. CASE EndSession(TRUE, botKnown)
    BY <2>1, <1>a
  <2>2. CASE Deliver /\ Resume
    <3>1. wire # << >> /\ wire[1].kind = "message"
      BY <1>5 DEF FinishSend, GapInv, SendingHoldsMessage
    <3>2. Head(wire) = wire[1]
      OBVIOUS
    <3>3. /\ wire' = Tail(wire) /\ UNCHANGED sent /\ phase' # "sending"
          /\ delivered' = delivered \cup {wire[1].n}
      BY <2>2, <3>2 DEF Deliver, Resume
    <3>4. QED
      BY <3>1, <3>3, TakingFrameKeepsGaps
  <2>3. QED
    BY <1>5, <2>1, <2>2 DEF FinishSend
<1>6. CASE ReadBeatRequest
  <2>1. wire # << >> /\ wire[1].kind # "message" /\ phase = "open"
    BY <1>6, <1>c DEF ReadBeatRequest
  <2>2. QED
    BY <1>6, <1>a, <2>1, TakingFrameKeepsGaps DEF ReadBeatRequest, LoseConnection
<1>7. CASE ReadLeave \/ FinishPause \/ LoseStream
  BY <1>7, <1>a DEF ReadLeave, FinishPause, LoseStream, LoseConnection
<1>8. CASE ReadInvalidSession \/ AfterSession \/ FinishBackoff
  BY <1>8, <1>b DEF ReadInvalidSession, AfterSession, FinishBackoff, connVars
<1>9. CASE TimerFires \/ DiscordVanishes \/ HostTakes \/ HostDropsReceiver
  BY <1>9, <1>b DEF TimerFires, DiscordVanishes, HostTakes, HostDropsReceiver, connVars
<1>10. CASE DiscordSendsMessage
  <2> DEFINE f == [kind |-> "message", n |-> sent']
  <2>1. f \in Frame
    BY <1>10, GatewayAssumption DEF DiscordSendsMessage, GapInv, WireTypeOK, Frame, FrameKinds
  <2>2. QED
    BY <1>10, <2>1, JoiningFrameKeepsGaps DEF DiscordSendsMessage
<1>11. ASSUME NEW kind \in FrameKinds \ {"message"}, wire' = Append(wire, [kind |-> kind, n |-> 0]),
              UNCHANGED <<delivered, phase, sent>>
       PROVE  GapInv'
  <2> DEFINE f == [kind |-> kind, n |-> 0]
  <2>1. f \in Frame
    BY GatewayAssumption DEF Frame
  <2>2. QED
    BY <1>11, <2>1, JoiningFrameKeepsGaps
<1>12. CASE DiscordAcks \/ \E kind \in FrameKinds \ {"ack", "message"} : DiscordSends(kind)
  BY <1>11, <1>12 DEF DiscordAcks, DiscordSends, FrameKinds
<1>13. QED
  BY <1>1, <1>2, <1>3, <1>4, <1>5, <1>6, <1>7, <1>8, <1>9, <1>10, <1>12 DEF Next

\* The invariant holds in every reachable state.
LEMMA GapsHold == Spec => []GapInv
<1>1. Init => GapInv
  BY GatewayAssumption
  DEF Init, GapInv, WireTypeOK, WireWithoutGaps, DispatchedIsAccounted, SendingHoldsMessage,
      SessionWithoutGaps
<1>2. QED
  BY <1>1, StepKeepsGaps, PTL DEF Spec

\* Within a session every message enters the host's channel in its order and none
\* is left out, for any capacity, any number of messages and however long the
\* client waits for room.
THEOREM MessagesAreNotLost == Spec => []SessionWithoutGaps
<1>1. GapInv => SessionWithoutGaps
  BY DEF GapInv
<1>2. QED
  BY <1>1, GapsHold, PTL
-----------------------------------------------------------------------------
(***************************************************************************)
(* The backoff.  The shift by at most 31 places is given by its 32 values, *)
(* from which the doubling follows place by place.                         *)
(***************************************************************************)
Doubles(n) == 2^(n + 1) = 2 * 2^n /\ 2^n \in Nat /\ 2^n >= 1

\* Each place of the shift doubles its value.
LEMMA ShiftDoubles == \A n \in 0..31 : Doubles(n)
<1>1. /\ Doubles(0) /\ Doubles(1) /\ Doubles(2) /\ Doubles(3)
      /\ Doubles(4) /\ Doubles(5) /\ Doubles(6) /\ Doubles(7)
  BY DEF Doubles
<1>2. /\ Doubles(8) /\ Doubles(9) /\ Doubles(10) /\ Doubles(11)
      /\ Doubles(12) /\ Doubles(13) /\ Doubles(14) /\ Doubles(15)
  BY DEF Doubles
<1>3. /\ Doubles(16) /\ Doubles(17) /\ Doubles(18) /\ Doubles(19)
      /\ Doubles(20) /\ Doubles(21) /\ Doubles(22) /\ Doubles(23)
  BY DEF Doubles
<1>4. /\ Doubles(24) /\ Doubles(25) /\ Doubles(26) /\ Doubles(27)
      /\ Doubles(28) /\ Doubles(29) /\ Doubles(30) /\ Doubles(31)
  BY DEF Doubles
<1>5. ASSUME NEW n \in 0..31 PROVE Doubles(n)
  <2>1. CASE n \in 0..7
    <3>1. n = 0 \/ n = 1 \/ n = 2 \/ n = 3 \/ n = 4 \/ n = 5 \/ n = 6 \/ n = 7
      BY <2>1
    <3>2. QED
      BY <1>1, <3>1, Zenon
  <2>2. CASE n \in 8..15
    <3>1. n = 8 \/ n = 9 \/ n = 10 \/ n = 11 \/ n = 12 \/ n = 13 \/ n = 14 \/ n = 15
      BY <2>2
    <3>2. QED
      BY <1>2, <3>1, Zenon
  <2>3. CASE n \in 16..23
    <3>1. n = 16 \/ n = 17 \/ n = 18 \/ n = 19 \/ n = 20 \/ n = 21 \/ n = 22 \/ n = 23
      BY <2>3
    <3>2. QED
      BY <1>3, <3>1, Zenon
  <2>4. CASE n \in 24..31
    <3>1. n = 24 \/ n = 25 \/ n = 26 \/ n = 27 \/ n = 28 \/ n = 29 \/ n = 30 \/ n = 31
      BY <2>4
    <3>2. QED
      BY <1>4, <3>1, Zenon
  <2>5. QED
    BY <2>1, <2>2, <2>3, <2>4
<1>6. QED
  BY <1>5

\* The delay starts at the base and never leaves the two bounds.
LEMMA DelayIsBounded ==
  /\ BackoffDelay(0) = RECONNECT_BASE_DELAY
  /\ \A n \in Nat : BackoffDelay(n) \in RECONNECT_BASE_DELAY..RECONNECT_MAX_DELAY
<1>1. ASSUME NEW n \in Nat
      PROVE  BackoffDelay(n) \in RECONNECT_BASE_DELAY..RECONNECT_MAX_DELAY
  <2> DEFINE p == 2^Lesser(n, 31)
  <2>1. Lesser(n, 31) \in 0..31
    BY DEF Lesser
  <2>2. p \in Nat /\ p >= 1
    BY <2>1, ShiftDoubles, Zenon DEF Doubles
  <2> HIDE DEF p
  <2>3. RECONNECT_BASE_DELAY * p \in Nat /\ RECONNECT_BASE_DELAY * p >= RECONNECT_BASE_DELAY
    BY <2>2, GatewayAssumption
  <2>4. Lesser(RECONNECT_BASE_DELAY * p, RECONNECT_MAX_DELAY)
          \in RECONNECT_BASE_DELAY..RECONNECT_MAX_DELAY
    BY <2>3, GatewayAssumption DEF Lesser
  <2>5. QED
    BY <2>4 DEF BackoffDelay, p
<1>2. BackoffDelay(0) = RECONNECT_BASE_DELAY
  <2>1. Lesser(0, 31) = 0
    BY DEF Lesser
  <2>2. 2^0 = 1
    OBVIOUS
  <2>3. BackoffDelay(0) = Lesser(RECONNECT_BASE_DELAY * 1, RECONNECT_MAX_DELAY)
    BY <2>1, <2>2, Zenon DEF BackoffDelay
  <2>4. QED
    BY <2>3, GatewayAssumption DEF Lesser
<1>3. QED
  BY <1>1, <1>2

\* One more failure doubles the delay, up to the maximum.
LEMMA DelayDoubles ==
  \A n \in 0..30 : BackoffDelay(n + 1) = Lesser(2 * BackoffDelay(n), RECONNECT_MAX_DELAY)
<1> SUFFICES ASSUME NEW n \in 0..30
             PROVE  BackoffDelay(n + 1) = Lesser(2 * BackoffDelay(n), RECONNECT_MAX_DELAY)
  OBVIOUS
<1> DEFINE p == 2^n
           q == 2^(n + 1)
<1>1. q = 2 * p /\ p \in Nat /\ p >= 1
  <2>1. Doubles(n)
    BY ShiftDoubles
  <2>2. QED
    BY <2>1, Zenon DEF Doubles
<1>2. Lesser(n, 31) = n /\ Lesser(n + 1, 31) = n + 1
  BY DEF Lesser
<1>3. /\ BackoffDelay(n) = Lesser(RECONNECT_BASE_DELAY * p, RECONNECT_MAX_DELAY)
      /\ BackoffDelay(n + 1) = Lesser(RECONNECT_BASE_DELAY * q, RECONNECT_MAX_DELAY)
  BY <1>2, Zenon DEF BackoffDelay
<1> HIDE DEF p, q
<1>4. RECONNECT_BASE_DELAY * q = 2 * (RECONNECT_BASE_DELAY * p)
  BY <1>1, GatewayAssumption
<1>5. RECONNECT_BASE_DELAY * p \in Nat
  BY <1>1, GatewayAssumption
<1> DEFINE product == RECONNECT_BASE_DELAY * p
<1> HIDE DEF product
<1>6. /\ product \in Nat
      /\ BackoffDelay(n) = Lesser(product, RECONNECT_MAX_DELAY)
      /\ BackoffDelay(n + 1) = Lesser(2 * product, RECONNECT_MAX_DELAY)
  BY <1>3, <1>4, <1>5 DEF product
<1>7. QED
  BY <1>6, GatewayAssumption DEF Lesser

\* While the client goes on, the delay is that of its failures so far.
DelayIsDue == phase # "stopped" => delay = BackoffDelay(failures)

\* Only the reconnect loop sets the delay, and it does so from the new count.
LEMMA StepKeepsDelay == DelayIsDue /\ [Next]_vars => DelayIsDue'
<1> SUFFICES ASSUME DelayIsDue, [Next]_vars PROVE DelayIsDue'
  OBVIOUS
<1>1. CASE AfterSession
  BY <1>1 DEF AfterSession, DelayIsDue
<1>2. CASE ~AfterSession
  <2>1. UNCHANGED <<failures, delay>> /\ (phase = "stopped" => phase' = "stopped")
    BY <1>2 DEF Next, vars, Connect, Identify, HeartbeatTick, ReadReady, ReadMessage, FinishSend,
      ReadAck, ReadBeatRequest, ReadIgnored, ReadInvalidSession, ReadLeave, FinishPause,
      LoseStream, FinishBackoff, TimerFires, DiscordSendsMessage, DiscordSends, DiscordAcks,
      DiscordVanishes, HostTakes, HostDropsReceiver, loopVars, Receive, CanTransmit, InSession
  <2>2. QED
    BY <2>1 DEF DelayIsDue
<1>3. QED
  BY <1>1, <1>2

\* The delay is that of the failures, in every reachable state.
LEMMA DelayIsAlwaysDue == Spec => [](DelayIsDue /\ GiveUpInv)
<1>1. Init => DelayIsDue
  BY DelayIsBounded DEF Init, DelayIsDue
<1>2. QED
  BY <1>1, StepKeepsDelay, GiveUpHolds, PTL DEF Spec

\* A session that saw READY brings the delay back to the base; one that did not get
\* past IDENTIFY, and one that did while none has ever seen READY, doubles it up to
\* its maximum: for all delays and every limit at which the shift is not clamped (the
\* code's limit is 10).
THEOREM BackoffFollowsItsSchedule ==
  ASSUME MAX_RECONNECT_ATTEMPTS <= 31
  PROVE  Spec => BackoffDoubles
<1>1. ASSUME DelayIsDue, GiveUpInv, [Next]_vars, phase = "ended", phase' = "backoff"
      PROVE  LET doubled == Lesser(2 * delay, RECONNECT_MAX_DELAY)
             IN /\ stage = "ready" => delay' = RECONNECT_BASE_DELAY
                /\ stage = "none" \/ (stage = "identified" /\ ~botKnown) => delay' = doubled
                /\ delay' \in {RECONNECT_BASE_DELAY, doubled}
  <2>1. AfterSession
    BY <1>1 DEF Next, vars, Connect, Identify, HeartbeatTick, ReadReady, ReadMessage, FinishSend,
      ReadAck, ReadBeatRequest, ReadIgnored, ReadInvalidSession, ReadLeave, FinishPause,
      LoseStream, FinishBackoff, TimerFires, DiscordSendsMessage, DiscordSends, DiscordAcks,
      DiscordVanishes, HostTakes, HostDropsReceiver, LoseConnection, EndSession, Receive,
      CanTransmit, InSession, Resume
  <2>2. delay' = BackoffDelay(failures') /\ failures' = FailuresAfterSession
        /\ failures' <= MAX_RECONNECT_ATTEMPTS
    BY <1>1, <2>1, GatewayAssumption
    DEF AfterSession, FailuresAfterSession, GiveUpInv, CounterTypeOK
  <2>3. reached => delay' = RECONNECT_BASE_DELAY
    BY <2>2, DelayIsBounded DEF FailuresAfterSession
  <2>4. ASSUME ~reached PROVE delay' = Lesser(2 * delay, RECONNECT_MAX_DELAY)
    <3>1. failures' = failures + 1 /\ failures \in 0..30
      BY <2>2, <2>4, <1>1, GatewayAssumption DEF FailuresAfterSession, GiveUpInv, CounterTypeOK
    <3>2. delay = BackoffDelay(failures)
      BY <1>1 DEF DelayIsDue
    <3>3. QED
      BY <2>2, <2>4, <3>1, <3>2, DelayDoubles
  <2>5. /\ stage = "ready" => reached
        /\ stage = "none" \/ (stage = "identified" /\ ~botKnown) => ~reached
    BY <1>1 DEF GiveUpInv, OutcomeIsKnown
  <2>6. delay' = IF reached THEN RECONNECT_BASE_DELAY
                            ELSE Lesser(2 * delay, RECONNECT_MAX_DELAY)
    BY <2>3, <2>4
  <2>7. QED
    BY <2>5, <2>6, Zenon
<1>2. DelayIsDue /\ GiveUpInv /\ [Next]_vars =>
        [ phase = "ended" /\ phase' = "backoff" =>
            LET doubled == Lesser(2 * delay, RECONNECT_MAX_DELAY)
            IN /\ stage = "ready" => delay' = RECONNECT_BASE_DELAY
               /\ stage = "none" \/ (stage = "identified" /\ ~botKnown) => delay' = doubled
               /\ delay' \in {RECONNECT_BASE_DELAY, doubled} ]_vars
  BY <1>1
<1>3. QED
  BY <1>2, DelayIsAlwaysDue, PTL DEF Spec, BackoffDoubles
-----------------------------------------------------------------------------
(***************************************************************************)
(* Types.  What takes an argument is the bound of beats: Discord asks for  *)
(* no heartbeat beyond MaxBeats, but the client beats by its timer too.    *)
(* It does so again only after an ACK, so heartbeats, ACKs and requests    *)
(* for heartbeats together are bounded, with one to spare while no beat    *)
(* of the timer is unanswered.                                             *)
(***************************************************************************)
IsBeat(f) == f.kind \in {"ack", "beat"}

\* c[i] is the number of ACKs and requests among the first i frames of w.
Counts(c, w) ==
  /\ c \in [0..Len(w) -> Int]
  /\ c[0] = 0
  /\ \A i \in 1..Len(w) : c[i] = c[i - 1] + (IF IsBeat(w[i]) THEN 1 ELSE 0)
  /\ \A i \in 0..Len(w) : 0 <= c[Len(w)] - c[i] /\ c[Len(w)] - c[i] <= Len(w) - i

Spare == IF ackPending THEN 0 ELSE 1

BeatsInv ==
  /\ beats \in Nat
  /\ \E c : Counts(c, wire) /\ beats + c[Len(wire)] + Spare <= MaxBeats + MaxWire + 1

ConnTypeOK ==
  /\ ackPending \in BOOLEAN
  /\ dead \in BOOLEAN
  /\ due \in 0..MaxDue
  /\ outbox \in 0..Capacity
  /\ wire \in Seq(Frame) /\ Len(wire) <= MaxWire
  /\ \A i \in 1..Len(wire) : wire[i].kind = "message" => wire[i].n \in 1..MaxMessages
  /\ sent \in 0..MaxMessages
  /\ delivered \subseteq 1..MaxMessages

LoopTypeOK ==
  /\ delay \in RECONNECT_BASE_DELAY..RECONNECT_MAX_DELAY
  /\ failures \in 0..(MAX_RECONNECT_ATTEMPTS + 1)
  /\ barren \in 0..MaxBarren

\* The reconnect loop adds one failure to at most MAX_RECONNECT_ATTEMPTS.
LEMMA StepKeepsLoopTypes ==
  LoopTypeOK /\ GiveUpInv /\ [Next]_vars => LoopTypeOK'
<1> SUFFICES ASSUME LoopTypeOK, GiveUpInv, [Next]_vars PROVE LoopTypeOK'
  OBVIOUS
<1>1. CASE AfterSession
  <2>1. failures' \in 0..(MAX_RECONNECT_ATTEMPTS + 1)
    BY <1>1, GatewayAssumption
    DEF AfterSession, FailuresAfterSession, GiveUpInv, FailuresAreBarren, CounterTypeOK
  <2>2. barren' \in 0..MaxBarren
    BY <1>1, GatewayAssumption DEF AfterSession, Lesser, MaxBarren, LoopTypeOK
  <2>3. delay' = delay \/ delay' = BackoffDelay(failures')
    BY <1>1 DEF AfterSession
  <2>4. delay' \in RECONNECT_BASE_DELAY..RECONNECT_MAX_DELAY
    BY <2>1, <2>3, DelayIsBounded, GatewayAssumption DEF LoopTypeOK
  <2>5. QED
    BY <2>1, <2>2, <2>4 DEF LoopTypeOK
<1>2. CASE ~AfterSession
  <2>1. UNCHANGED <<failures, delay, barren>>
    BY <1>2 DEF Next, vars, Connect, Identify, HeartbeatTick, ReadReady, ReadMessage, FinishSend,
      ReadAck, ReadBeatRequest, ReadIgnored, ReadInvalidSession, ReadLeave, FinishPause,
      LoseStream, FinishBackoff, TimerFires, DiscordSendsMessage, DiscordSends, DiscordAcks,
      DiscordVanishes, HostTakes, HostDropsReceiver, loopVars
  <2>2. QED
    BY <2>1 DEF LoopTypeOK
<1>3. QED
  BY <1>1, <1>2

\* Frames and messages keep to the bounds of the connection and of the host's channel.
LEMMA StepKeepsConnTypes ==
  ConnTypeOK /\ GapInv /\ [Next]_vars => ConnTypeOK'
<1> SUFFICES ASSUME ConnTypeOK, GapInv, [Next]_vars PROVE ConnTypeOK'
  OBVIOUS
<1>a. ASSUME NEW d, NEW r, EndSession(d, r), outbox' \in 0..Capacity PROVE ConnTypeOK'
  <2>1. /\ wire' = << >> /\ Len(wire') = 0 /\ sent' = 0 /\ delivered' = {}
        /\ ackPending' = FALSE /\ dead' = FALSE /\ due' = 0
    BY <1>a DEF EndSession
  <2>2. wire' \in Seq(Frame) /\ Len(wire') <= MaxWire
    BY <2>1, GatewayAssumption
  <2>3. due' \in 0..MaxDue /\ sent' \in 0..MaxMessages
    BY <2>1, GatewayAssumption
  <2>4. ackPending' \in BOOLEAN /\ dead' \in BOOLEAN /\ delivered' \subseteq 1..MaxMessages
    BY <2>1, Zenon
  <2>5. \A i \in 1..Len(wire') : wire'[i].kind = "message" => wire'[i].n \in 1..MaxMessages
    BY <2>1
  <2>6. QED
    BY <1>a, <2>2, <2>3, <2>4, <2>5 DEF ConnTypeOK
<1>b. ASSUME wire # << >>, wire' = Tail(wire), UNCHANGED sent,
             delivered' = delivered \/ (wire[1].kind = "message"
                                        /\ delivered' = delivered \cup {wire[1].n}),
             ackPending' \in BOOLEAN, UNCHANGED <<dead, due>>, outbox' \in 0..Capacity
      PROVE  ConnTypeOK'
  <2>1. /\ Len(wire) \in Nat \ {0}
        /\ wire' \in Seq(Frame) /\ Len(wire') = Len(wire) - 1
        /\ \A i \in 1..(Len(wire) - 1) : wire'[i] = wire[i + 1]
    BY <1>b DEF ConnTypeOK
  <2>2. \A i \in 1..Len(wire') : wire'[i].kind = "message" => wire'[i].n \in 1..MaxMessages
    BY <2>1 DEF ConnTypeOK
  <2>3. 1 \in 1..Len(wire)
    BY <2>1
  <2>4. wire[1].kind = "message" => wire[1].n \in 1..MaxMessages
    BY <2>3 DEF ConnTypeOK
  <2>5. delivered' \subseteq 1..MaxMessages
    <3>1. CASE delivered' = delivered
      BY <3>1 DEF ConnTypeOK
    <3>2. CASE wire[1].kind = "message" /\ delivered' = delivered \cup {wire[1].n}
      <4>1. wire[1].n \in 1..MaxMessages
        BY <2>4, <3>2
      <4>2. delivered \subseteq 1..MaxMessages
        BY DEF ConnTypeOK
      <4>3. QED
        BY <3>2, <4>1, <4>2, Zenon
    <3>3. QED
      BY <1>b, <3>1, <3>2
  <2>6. QED
    BY <1>b, <2>1, <2>2, <2>5, GatewayAssumption DEF ConnTypeOK
<1>c. ASSUME NEW f \in Frame, wire' = Append(wire, f), Len(wire) < MaxWire,
             f.kind = "message" => f.n \in 1..MaxMessages, sent' \in 0..MaxMessages,
             UNCHANGED <<delivered, ackPending, dead, due, outbox>>
      PROVE  ConnTypeOK'
  <2>1. /\ Len(wire) \in Nat
        /\ wire' \in Seq(Frame) /\ Len(wire') = Len(wire) + 1
        /\ \A i \in 1..Len(wire) : wire'[i] = wire[i]
        /\ wire'[Len(wire) + 1] = f
    BY <1>c DEF ConnTypeOK
  <2>2. \A i \in 1..Len(wire') : wire'[i].kind = "message" => wire'[i].n \in 1..MaxMessages
    BY <1>c, <2>1 DEF ConnTypeOK
  <2>3. QED
    BY <1>c, <2>1, <2>2, GatewayAssumption DEF ConnTypeOK
<1>d. ASSUME UNCHANGED <<wire, sent, delivered>>, ackPending' \in BOOLEAN, dead' \in BOOLEAN,
             due' \in 0..MaxDue, outbox' \in 0..Capacity
      PROVE  ConnTypeOK'
  BY <1>d DEF ConnTypeOK
<1>e. /\ ackPending \in BOOLEAN /\ dead \in BOOLEAN /\ due \in 0..MaxDue
      /\ outbox \in 0..Capacity /\ sent \in 0..MaxMessages /\ Len(wire) \in Nat
  BY DEF ConnTypeOK
<1>1. CASE UNCHANGED vars
  BY <1>1, <1>d, <1>e DEF vars, connVars, hostVars
<1>2. CASE \/ Connect \/ ReadMessage \/ ReadInvalidSession \/ FinishBackoff \/ AfterSession
           \/ HostTakes \/ HostDropsReceiver
  <2>1. CASE UNCHANGED connVars
    <3>1. outbox' = outbox \/ (outbox > 0 /\ outbox' = outbox - 1)
      BY <1>2 DEF Connect, ReadMessage, ReadInvalidSession, FinishBackoff, AfterSession,
                  HostTakes, HostDropsReceiver, hostVars
    <3>2. outbox' \in 0..Capacity
      BY <3>1, <1>e, GatewayAssumption
    <3>3. QED
      BY <2>1, <3>2, <1>d, <1>e DEF connVars
  <2>2. CASE EndSession(FALSE, FALSE) /\ UNCHANGED hostVars
    BY <2>2, <1>a, <1>e DEF hostVars
  <2>3. QED
    BY <1>2, <2>1, <2>2 DEF Connect, ReadMessage, ReadInvalidSession, FinishBackoff, AfterSession,
                            HostTakes, HostDropsReceiver
<1>3. CASE Identify \/ HeartbeatTick
  <2>1. outbox' \in 0..Capacity
    BY <1>3, <1>e DEF Identify, HeartbeatTick, hostVars
  <2>2. CASE /\ UNCHANGED <<wire, sent, delivered, dead>>
             /\ \/ due' = 1 /\ UNCHANGED ackPending
                \/ due > 0 /\ due' = due - 1 /\ ackPending' = TRUE
    <3>1. due' \in 0..MaxDue
      BY <2>2, <1>e, GatewayAssumption
    <3>2. QED
      BY <2>1, <2>2, <3>1, <1>d, <1>e
  <2>3. QED
    BY <1>3, <1>a, <2>1, <2>2 DEF Identify, HeartbeatTick, LoseConnection
<1>4. CASE ReadReady \/ ReadAck \/ ReadIgnored \/ ReadBeatRequest
  BY <1>4, <1>a, <1>b, <1>e DEF ReadReady, ReadAck, ReadIgnored, ReadBeatRequest, Receive,
                          LoseConnection, hostVars
<1>5. CASE FinishSend
  <2>1. wire # << >> => Head(wire) = wire[1]
    OBVIOUS
  <2>2. phase = "sending" => wire # << >> /\ wire[1].kind = "message"
    BY DEF GapInv, SendingHoldsMessage
  <2>3. CASE EndSession(TRUE, botKnown) /\ UNCHANGED outbox
    BY <2>3, <1>a, <1>e
  <2>4. CASE Deliver /\ Resume
    <3>1. outbox' \in 0..Capacity
      BY <2>4, <1>e, GatewayAssumption DEF Deliver
    <3>2. QED
      BY <1>5, <2>4, <3>1, <1>b, <1>e, <2>1, <2>2 DEF FinishSend, Deliver, Resume
  <2>5. QED
    BY <1>5, <2>3, <2>4 DEF FinishSend
<1>6. CASE ReadLeave \/ FinishPause \/ LoseStream
  BY <1>6, <1>a, <1>e DEF ReadLeave, FinishPause, LoseStream, LoseConnection, hostVars
<1>7. CASE TimerFires \/ DiscordVanishes
  <2>1. due' \in 0..MaxDue
    BY <1>7, <1>e, GatewayAssumption DEF TimerFires, DiscordVanishes
  <2>2. dead' \in BOOLEAN
    BY <1>7, <1>e, Zenon DEF TimerFires, DiscordVanishes
  <2>3. QED
    BY <1>7, <2>1, <2>2, <1>d, <1>e DEF TimerFires, DiscordVanishes, hostVars
<1>8. CASE DiscordSendsMessage
  <2>1. sent' \in 1..MaxMessages /\ [kind |-> "message", n |-> sent'] \in Frame
    BY <1>8, <1>e, GatewayAssumption DEF DiscordSendsMessage, Frame, FrameKinds
  <2>2. QED
    BY <1>8, <1>c, <1>e, <2>1, GatewayAssumption DEF DiscordSendsMessage, CanTransmit, hostVars
<1>9. ASSUME NEW kind \in FrameKinds \ {"message"}, wire' = Append(wire, [kind |-> kind, n |-> 0]),
             Len(wire) < MaxWire, UNCHANGED <<sent, delivered, ackPending, dead, due, outbox>>
      PROVE  ConnTypeOK'
  <2>1. [kind |-> kind, n |-> 0] \in Frame
    BY GatewayAssumption DEF Frame
  <2>2. QED
    BY <1>9, <1>c, <1>e, <2>1
<1>10. CASE DiscordAcks \/ \E kind \in FrameKinds \ {"ack", "message"} : DiscordSends(kind)
  BY <1>9, <1>10, <1>e DEF DiscordAcks, DiscordSends, CanTransmit, hostVars, FrameKinds
<1>11. QED
  BY <1>1, <1>2, <1>3, <1>4, <1>5, <1>6, <1>7, <1>8, <1>10 DEF Next

\* A frame that is read is counted no longer; what it stood for may be used up.
LEMMA TakingFrameKeepsBeats ==
  ASSUME BeatsInv, wire \in Seq(Frame), wire # << >>, wire' = Tail(wire),
         ackPending \in BOOLEAN, ackPending' \in BOOLEAN, beats' \in Nat,
         beats' + Spare' <= beats + Spare + (IF IsBeat(wire[1]) THEN 1 ELSE 0)
  PROVE  BeatsInv'
<1>1. /\ Len(wire) \in Nat \ {0}
      /\ Len(wire') = Len(wire) - 1
      /\ \A i \in 1..(Len(wire) - 1) : wire'[i] = wire[i + 1]
  OBVIOUS
<1>2. PICK c : /\ Counts(c, wire)
               /\ beats + c[Len(wire)] + Spare <= MaxBeats + MaxWire + 1
  BY DEF BeatsInv
<1> DEFINE n == Len(wire)
           d == [i \in 0..(n - 1) |-> c[i + 1] - c[1]]
<1>3. /\ n \in Nat \ {0}
      /\ \A i \in 0..n : c[i] \in Int
      /\ c[0] = 0
      /\ \A i \in 1..n : c[i] = c[i - 1] + (IF IsBeat(wire[i]) THEN 1 ELSE 0)
      /\ \A i \in 0..n : 0 <= c[n] - c[i] /\ c[n] - c[i] <= n - i
  BY <1>1, <1>2 DEF Counts
<1>4. c[1] = (IF IsBeat(wire[1]) THEN 1 ELSE 0)
  BY <1>3
<1> HIDE DEF n
<1>5. Counts(d, wire')
  <2>1. d \in [0..(n - 1) -> Int] /\ d[0] = 0
    <3>1. 1 \in 0..n /\ \A i \in 0..(n - 1) : i + 1 \in 0..n
      BY <1>3
    <3>2. \A i \in 0..(n - 1) : c[i + 1] - c[1] \in Int
      BY <1>3, <3>1
    <3>3. 0 \in 0..(n - 1) /\ c[0 + 1] - c[1] = 0
      BY <1>3, <3>1
    <3>4. QED
      BY <3>2, <3>3
  <2>2. ASSUME NEW i \in 1..(n - 1)
        PROVE  d[i] = d[i - 1] + (IF IsBeat(wire[i + 1]) THEN 1 ELSE 0)
    <3>1. i + 1 \in 1..n /\ i \in 0..(n - 1) /\ i - 1 \in 0..(n - 1) /\ (i - 1) + 1 = i
      BY <1>3
    <3>2. c[i + 1] = c[(i + 1) - 1] + (IF IsBeat(wire[i + 1]) THEN 1 ELSE 0)
      BY <1>3, <3>1
    <3>3. (i + 1) - 1 = i
      OBVIOUS
    <3>4. c[i] \in Int /\ c[i + 1] \in Int /\ c[1] \in Int
      BY <1>3, <3>1
    <3>5. d[i] = c[i + 1] - c[1] /\ d[i - 1] = c[i] - c[1]
      BY <3>1
    <3>6. QED
      BY <3>2, <3>3, <3>4, <3>5
  <2>3. ASSUME NEW i \in 0..(n - 1)
        PROVE  0 <= d[n - 1] - d[i] /\ d[n - 1] - d[i] <= (n - 1) - i
    <3>1. i + 1 \in 0..n /\ n - 1 \in 0..(n - 1) /\ (n - 1) + 1 = n
      BY <1>3
    <3>2. c[i + 1] \in Int /\ c[n] \in Int /\ c[1] \in Int
      BY <1>3, <3>1
    <3>3. d[n - 1] = c[n] - c[1] /\ d[i] = c[i + 1] - c[1]
      BY <3>1
    <3>4. 0 <= c[n] - c[i + 1] /\ c[n] - c[i + 1] <= n - (i + 1)
      BY <1>3, <3>1
    <3>5. d[n - 1] - d[i] = c[n] - c[i + 1]
      BY <3>2, <3>3
    <3>6. n - (i + 1) = (n - 1) - i
      BY <1>3
    <3>7. QED
      BY <3>4, <3>5, <3>6
  <2>4. Len(wire') = n - 1 /\ \A i \in 1..(n - 1) : wire'[i] = wire[i + 1]
    BY <1>1 DEF n
  <2> HIDE DEF d
  <2>5. QED
    BY <2>1, <2>2, <2>3, <2>4 DEF Counts
<1>6. d[n - 1] = c[n] - c[1]
  BY <1>3
<1>7. Len(wire') = n - 1 /\ beats + c[n] + Spare <= MaxBeats + MaxWire + 1
  BY <1>1, <1>2 DEF n
<1> HIDE DEF d
<1>8. c[n] \in Int /\ beats \in Nat
  BY <1>3 DEF BeatsInv
<1>9. beats' + d[Len(wire')] + Spare' <= MaxBeats + MaxWire + 1
  <2>1. Spare \in 0..1 /\ Spare' \in 0..1
    BY DEF Spare
  <2>2. d[Len(wire')] = c[n] - c[1]
    BY <1>6, <1>7
  <2>3. beats' + Spare' <= beats + Spare + c[1] /\ c[1] \in 0..1
    BY <1>4
  <2> DEFINE x == c[n]
             y == c[1]
  <2>4. /\ x \in Int /\ y \in 0..1
        /\ beats' + Spare' <= beats + Spare + y
        /\ beats + x + Spare <= MaxBeats + MaxWire + 1
        /\ d[Len(wire')] = x - y
    BY <1>7, <1>8, <2>2, <2>3
  <2> HIDE DEF x, y
  <2>5. beats' + (x - y) + Spare' <= MaxBeats + MaxWire + 1
    <3>1. \A p, q, u, v, k \in Nat : p + u <= q + v + y /\ q + x + v <= k => p + (x - y) + u <= k
      BY <2>4
    <3>2. beats' \in Nat /\ beats \in Nat /\ Spare' \in Nat /\ Spare \in Nat
          /\ MaxBeats + MaxWire + 1 \in Nat
      BY <1>8, <2>1, GatewayAssumption
    <3> DEFINE bound == MaxBeats + MaxWire + 1
    <3>3. bound \in Nat /\ beats + x + Spare <= bound
      BY <2>4, <3>2
    <3> HIDE DEF bound
    <3>4. beats' + Spare' <= beats + Spare + y
      BY <2>4
    <3>5. beats' + (x - y) + Spare' <= bound
      BY <3>1, <3>2, <3>3, <3>4
    <3>6. QED
      BY <3>5 DEF bound
  <2>6. QED
    BY <2>4, <2>5
<1>10. QED
  BY <1>5, <1>9 DEF BeatsInv

\* A frame that joins the wire: an ACK for a heartbeat received, or a request that is
\* sent only below MaxBeats, or neither.
LEMMA JoiningFrameKeepsBeats ==
  ASSUME BeatsInv, wire \in Seq(Frame), Len(wire) < MaxWire,
         NEW f \in Frame, wire' = Append(wire, f), beats' \in Nat,
         ackPending \in BOOLEAN, UNCHANGED ackPending,
         \/ ~IsBeat(f) /\ beats' = beats
         \/ IsBeat(f) /\ beats' = beats - 1
         \/ IsBeat(f) /\ beats' = beats /\ beats < MaxBeats
  PROVE  BeatsInv'
<1>1. /\ Len(wire) \in Nat
      /\ Len(wire') = Len(wire) + 1
      /\ \A i \in 1..Len(wire) : wire'[i] = wire[i]
      /\ wire'[Len(wire) + 1] = f
  OBVIOUS
<1>2. PICK c : /\ Counts(c, wire)
               /\ beats + c[Len(wire)] + Spare <= MaxBeats + MaxWire + 1
  BY DEF BeatsInv
<1> DEFINE n == Len(wire)
           new == IF IsBeat(f) THEN 1 ELSE 0
           d == [i \in 0..(n + 1) |-> IF i = n + 1 THEN c[n] + new ELSE c[i]]
<1>3. /\ n \in Nat
      /\ \A i \in 0..n : c[i] \in Int
      /\ c[0] = 0
      /\ \A i \in 1..n : c[i] = c[i - 1] + (IF IsBeat(wire[i]) THEN 1 ELSE 0)
      /\ \A i \in 0..n : 0 <= c[n] - c[i] /\ c[n] - c[i] <= n - i
  BY <1>1, <1>2 DEF Counts
<1>4. Len(wire') = n + 1 /\ wire'[n + 1] = f /\ \A i \in 1..n : wire'[i] = wire[i]
  BY <1>1
<1>5. new \in 0..1 /\ new = (IF IsBeat(f) THEN 1 ELSE 0)
  OBVIOUS
<1>6. beats + c[n] + Spare <= MaxBeats + MaxWire + 1 /\ n < MaxWire
  BY <1>2
<1> HIDE DEF n, new
<1>7. /\ d \in [0..(n + 1) -> Int]
      /\ \A i \in 0..n : d[i] = c[i]
      /\ d[n + 1] = c[n] + new
  BY <1>3, <1>5
<1> HIDE DEF d
<1>8. Counts(d, wire')
  <2>1. ASSUME NEW i \in 1..(n + 1)
        PROVE  d[i] = d[i - 1] + (IF IsBeat(wire'[i]) THEN 1 ELSE 0)
    <3>1. CASE i = n + 1
      <4>1. i - 1 = n /\ n \in 0..n
        BY <1>3, <3>1
      <4>2. QED
        BY <1>4, <1>5, <1>7, <3>1, <4>1
    <3>2. CASE i # n + 1
      <4>1. i \in 1..n /\ i \in 0..n /\ i - 1 \in 0..n
        BY <1>3, <3>2
      <4>2. QED
        BY <1>3, <1>4, <1>7, <4>1
    <3>3. QED
      BY <3>1, <3>2
  <2>2. ASSUME NEW i \in 0..(n + 1)
        PROVE  0 <= d[n + 1] - d[i] /\ d[n + 1] - d[i] <= (n + 1) - i
    <3>1. CASE i = n + 1
      <4>1. d[n + 1] \in Int
        BY <1>3, <1>7
      <4>2. d[n + 1] - d[i] = 0 /\ (n + 1) - i = 0
        BY <1>3, <3>1, <4>1
      <4>3. QED
        BY <4>2
    <3>2. CASE i # n + 1
      <4>1. i \in 0..n /\ n \in 0..n
        BY <1>3, <3>2
      <4>2. c[i] \in Int /\ c[n] \in Int /\ 0 <= c[n] - c[i] /\ c[n] - c[i] <= n - i
        BY <1>3, <4>1
      <4>3. d[n + 1] - d[i] = (c[n] - c[i]) + new
        BY <1>5, <1>7, <4>1, <4>2
      <4>4. n \in Nat /\ c[n] - c[i] \in Int
        BY <1>3, <4>2
      <4> DEFINE x == c[n] - c[i]
      <4>5. x \in Int /\ 0 <= x /\ x <= n - i
        BY <4>2, <4>4
      <4>6. d[n + 1] - d[i] = x + new
        BY <4>3
      <4> HIDE DEF x
      <4>7. 0 <= x + new /\ x + new <= (n + 1) - i
        BY <1>5, <4>4, <4>5
      <4>8. QED
        BY <4>6, <4>7
    <3>3. QED
      BY <3>1, <3>2
  <2>3. d[0] = 0
    BY <1>3, <1>7
  <2>4. QED
    BY <1>4, <1>7, <2>1, <2>2, <2>3 DEF Counts
<1>9. c[n] \in Int /\ c[n] <= n /\ beats \in Nat
  <2>1. 0 \in 0..n /\ n \in 0..n
    BY <1>3
  <2>2. QED
    BY <1>3, <2>1 DEF BeatsInv
<1>10. Spare' = Spare /\ Spare \in 0..1
  BY DEF Spare
<1>11. beats' + d[n + 1] + Spare' <= MaxBeats + MaxWire + 1
  <2>1. n \in Nat /\ d[n + 1] = c[n] + new
    BY <1>3, <1>7
  <2> DEFINE x == c[n]
  <2>2. /\ x \in Int /\ x <= n
        /\ beats + x + Spare <= MaxBeats + MaxWire + 1
        /\ d[n + 1] = x + new
    BY <1>6, <1>9, <2>1
  <2> HIDE DEF x
  <2>3. CASE beats' = beats - new
    <3>1. beats' + (x + new) + Spare <= MaxBeats + MaxWire + 1
      BY <1>5, <1>9, <1>10, <2>2, <2>3, GatewayAssumption
    <3>2. QED
      BY <1>10, <2>2, <3>1
  <2>4. CASE beats' = beats /\ beats < MaxBeats
    <3>1. beats' + (x + new) + Spare <= MaxBeats + MaxWire + 1
      BY <1>5, <1>6, <1>9, <1>10, <2>1, <2>2, <2>4, GatewayAssumption
    <3>2. QED
      BY <1>10, <2>2, <3>1
  <2>5. QED
    BY <1>5, <1>9, <2>3, <2>4
<1>12. QED
  BY <1>4, <1>8, <1>11 DEF BeatsInv

\* The timer's beat takes the spare place and an ACK gives it back; everything else
\* leaves the sum of heartbeats, ACKs and requests alone or within its bounds.
LEMMA StepKeepsBeats ==
  BeatsInv /\ ConnTypeOK /\ GapInv /\ [Next]_vars => BeatsInv'
<1> SUFFICES ASSUME BeatsInv, ConnTypeOK, GapInv, [Next]_vars PROVE BeatsInv'
  OBVIOUS
<1>e. beats \in Nat /\ ackPending \in BOOLEAN /\ wire \in Seq(Frame) /\ Len(wire) \in Nat
  BY DEF BeatsInv, ConnTypeOK
<1>a. ASSUME NEW d, NEW r, EndSession(d, r) PROVE BeatsInv'
  <2>1. wire' = << >> /\ Len(wire') = 0 /\ beats' = 0 /\ ackPending' = FALSE
    BY <1>a DEF EndSession
  <2> DEFINE c == [i \in 0..0 |-> 0]
  <2>2. c[0] = 0 /\ c \in [0..0 -> Int]
    OBVIOUS
  <2> HIDE DEF c
  <2>3. Counts(c, wire')
    BY <2>1, <2>2 DEF Counts
  <2>4. beats' + c[Len(wire')] + Spare' <= MaxBeats + MaxWire + 1
    BY <2>1, <2>2, GatewayAssumption DEF Spare
  <2>5. QED
    BY <2>1, <2>3, <2>4 DEF BeatsInv
<1>b. ASSUME UNCHANGED wire, beats' \in Nat, beats' + Spare' <= beats + Spare,
             ackPending' \in BOOLEAN
      PROVE  BeatsInv'
  <2>1. PICK c : /\ Counts(c, wire)
                 /\ beats + c[Len(wire)] + Spare <= MaxBeats + MaxWire + 1
    BY DEF BeatsInv
  <2> DEFINE x == c[Len(wire)]
  <2>2. x \in Int /\ beats + x + Spare <= MaxBeats + MaxWire + 1
    BY <1>e, <2>1 DEF Counts
  <2>3. Counts(c, wire') /\ c[Len(wire')] = x
    BY <1>b, <2>1
  <2> HIDE DEF x
  <2>4. Spare \in 0..1 /\ Spare' \in 0..1
    BY DEF Spare
  <2>5. beats' + x + Spare' <= MaxBeats + MaxWire + 1
    <3>1. \A p, q, u, v, k \in Nat : p + u <= q + v /\ q + x + v <= k => p + x + u <= k
      BY <2>2
    <3> DEFINE bound == MaxBeats + MaxWire + 1
    <3>2. bound \in Nat /\ beats + x + Spare <= bound
      BY <2>2, GatewayAssumption
    <3> HIDE DEF bound
    <3>3. beats' \in Nat /\ beats \in Nat /\ Spare' \in Nat /\ Spare \in Nat
      BY <1>b, <1>e, <2>4
    <3>4. beats' + x + Spare' <= bound
      BY <1>b, <3>1, <3>2, <3>3
    <3>5. QED
      BY <3>4 DEF bound
  <2>6. QED
    BY <1>b, <2>3, <2>5 DEF BeatsInv
<1>c. ASSUME UNCHANGED <<wire, beats, ackPending>> PROVE BeatsInv'
  BY <1>c DEF BeatsInv, Spare
<1>1. CASE UNCHANGED vars
  BY <1>1, <1>c DEF vars, connVars
<1>2. CASE \/ Connect \/ Identify \/ ReadMessage \/ ReadInvalidSession \/ ReadLeave
           \/ FinishPause \/ LoseStream \/ AfterSession \/ FinishBackoff \/ TimerFires
           \/ DiscordVanishes \/ HostTakes \/ HostDropsReceiver
  BY <1>2, <1>a, <1>c
  DEF Connect, Identify, ReadMessage, ReadInvalidSession, ReadLeave, FinishPause, LoseStream,
      AfterSession, FinishBackoff, TimerFires, DiscordVanishes, HostTakes, HostDropsReceiver,
      LoseConnection, connVars
<1>3. CASE HeartbeatTick
  <2>1. CASE ~ackPending /\ beats' = BeatsAfterHeartbeat /\ ackPending' = TRUE /\ UNCHANGED wire
    <3>1. beats' \in {beats, beats + 1} /\ Spare = 1 /\ Spare' = 0
      BY <2>1 DEF BeatsAfterHeartbeat, Spare
    <3>2. beats' \in Nat /\ beats' + 0 <= beats + 1
      <4>1. beats + 1 \in Nat /\ beats <= beats + 1
        BY <1>e
      <4>2. CASE beats' = beats
        BY <1>e, <4>1, <4>2
      <4>3. CASE beats' = beats + 1
        BY <1>e, <4>1, <4>3
      <4>4. QED
        BY <3>1, <4>2, <4>3
    <3>3. beats' + Spare' <= beats + Spare
      BY <3>1, <3>2, Zenon
    <3>4. QED
      BY <1>b, <2>1, <3>2, <3>3
  <2>2. QED
    BY <1>3, <1>a, <2>1 DEF HeartbeatTick, LoseConnection
<1>4. CASE ReadReady \/ ReadIgnored
  <2>1. UNCHANGED <<beats, ackPending>> /\ wire # << >> /\ wire' = Tail(wire)
    BY <1>4 DEF ReadReady, ReadIgnored, Receive
  <2>2. Spare' = Spare /\ Spare \in 0..1
    BY <2>1 DEF Spare
  <2>3. beats' + Spare' <= beats + Spare + (IF IsBeat(wire[1]) THEN 1 ELSE 0)
    BY <1>e, <2>1, <2>2
  <2>4. QED
    BY <1>e, <2>1, <2>3, TakingFrameKeepsBeats
<1>5. CASE ReadAck
  <2>1. beats' = beats /\ ackPending' = FALSE /\ wire # << >> /\ wire' = Tail(wire)
    BY <1>5 DEF ReadAck, Receive
  <2>2. Spare' = 1 /\ Spare \in 0..1
    BY <2>1 DEF Spare
  <2>3. IsBeat(wire[1])
    BY <1>5, <1>e DEF ReadAck, Receive, IsBeat
  <2>4. beats' + Spare' <= beats + Spare + (IF IsBeat(wire[1]) THEN 1 ELSE 0)
    BY <1>e, <2>1, <2>2, <2>3
  <2>5. QED
    BY <1>e, <2>1, <2>4, TakingFrameKeepsBeats
<1>6. CASE ReadBeatRequest
  <2>1. CASE beats' = BeatsAfterHeartbeat /\ wire' = Tail(wire) /\ UNCHANGED ackPending
    <3>1. beats' \in {beats, beats + 1} /\ Spare' = Spare /\ Spare \in 0..1
      BY <2>1 DEF BeatsAfterHeartbeat, Spare
    <3>2. wire # << >> /\ IsBeat(wire[1])
      BY <1>6, <1>e DEF ReadBeatRequest, Receive, IsBeat
    <3>3. \A v \in 0..1 : beats + v <= beats + v + 1 /\ beats + 1 + v <= beats + v + 1
      BY <1>e
    <3>4. beats' \in Nat /\ beats' + Spare' <= beats + Spare + (IF IsBeat(wire[1]) THEN 1 ELSE 0)
      <4>1. CASE beats' = beats
        BY <1>e, <3>1, <3>2, <3>3, <4>1
      <4>2. CASE beats' = beats + 1
        <5>1. beats' \in Nat
          BY <1>e, <4>2
        <5>2. beats' + Spare' <= beats + Spare + 1
          BY <3>1, <3>3, <4>2, Zenon
        <5>3. QED
          BY <3>2, <5>1, <5>2, Zenon
      <4>3. QED
        BY <3>1, <4>1, <4>2
    <3>5. QED
      BY <1>e, <2>1, <3>2, <3>4, TakingFrameKeepsBeats
  <2>2. QED
    BY <1>6, <1>a, <2>1 DEF ReadBeatRequest, LoseConnection
<1>7. CASE FinishSend
  <2>1. CASE Deliver /\ Resume
    <3>1. wire # << >>
      BY <1>7 DEF FinishSend, GapInv, SendingHoldsMessage
    <3>2. UNCHANGED <<beats, ackPending>> /\ wire' = Tail(wire)
      BY <2>1 DEF Resume
    <3>3. Spare' = Spare /\ Spare \in 0..1
      BY <3>2 DEF Spare
    <3>4. beats' + Spare' <= beats + Spare + (IF IsBeat(wire[1]) THEN 1 ELSE 0)
      BY <1>e, <3>2, <3>3
    <3>5. QED
      BY <1>e, <3>1, <3>2, <3>4, TakingFrameKeepsBeats
  <2>2. QED
    BY <1>7, <1>a, <2>1 DEF FinishSend
<1>8. CASE DiscordSendsMessage
  <2>1. /\ Len(wire) < MaxWire /\ UNCHANGED <<beats, ackPending>>
        /\ wire' = Append(wire, [kind |-> "message", n |-> sent'])
        /\ sent < MaxMessages /\ sent' = sent + 1
    BY <1>8 DEF DiscordSendsMessage, CanTransmit
  <2>2. [kind |-> "message", n |-> sent'] \in Frame
    BY <2>1, GatewayAssumption DEF ConnTypeOK, Frame, FrameKinds
  <2>3. ~IsBeat([kind |-> "message", n |-> sent'])
    BY DEF IsBeat
  <2>4. QED
    BY <1>e, <2>1, <2>2, <2>3, JoiningFrameKeepsBeats
<1>9. ASSUME NEW kind \in FrameKinds \ {"ack", "message"}, DiscordSends(kind) PROVE BeatsInv'
  <2>1. /\ Len(wire) < MaxWire /\ UNCHANGED <<beats, ackPending>>
        /\ kind = "beat" => beats < MaxBeats
        /\ wire' = Append(wire, [kind |-> kind, n |-> 0])
    BY <1>9 DEF DiscordSends, CanTransmit
  <2>2. [kind |-> kind, n |-> 0] \in Frame
    BY GatewayAssumption DEF Frame
  <2>3. IsBeat([kind |-> kind, n |-> 0]) <=> kind = "beat"
    BY <1>9 DEF IsBeat
  <2>4. QED
    BY <1>e, <2>1, <2>2, <2>3, JoiningFrameKeepsBeats
<1>10. CASE DiscordAcks
  <2>1. /\ Len(wire) < MaxWire /\ UNCHANGED ackPending
        /\ beats > 0 /\ beats' = beats - 1
        /\ wire' = Append(wire, [kind |-> "ack", n |-> 0])
    BY <1>10 DEF DiscordAcks, CanTransmit
  <2>2. [kind |-> "ack", n |-> 0] \in Frame /\ IsBeat([kind |-> "ack", n |-> 0])
    BY GatewayAssumption DEF Frame, FrameKinds, IsBeat
  <2>3. beats' \in Nat
    BY <1>e, <2>1
  <2>4. QED
    BY <1>e, <2>1, <2>2, <2>3, JoiningFrameKeepsBeats
<1>11. QED
  BY <1>1, <1>2, <1>3, <1>4, <1>5, <1>6, <1>7, <1>8, <1>9, <1>10 DEF Next

\* Every reachable state is well typed, for all bounds and sizes: the delay stays
\* between its base and its maximum, the channel within its capacity, and the
\* heartbeats Discord has not answered within their bound.
THEOREM TypeCorrect == Spec => []TypeOK
<1>1. Init => LoopTypeOK /\ ConnTypeOK /\ BeatsInv
  <2>1. ASSUME Init PROVE LoopTypeOK
    BY <2>1, GatewayAssumption DEF Init, LoopTypeOK, MaxBarren
  <2>2. ASSUME Init PROVE ConnTypeOK
    <3>1. /\ wire = << >> /\ sent = 0 /\ delivered = {} /\ due = 0 /\ outbox = 0
          /\ ackPending = FALSE /\ dead = FALSE
      BY <2>2 DEF Init
    <3>2. wire \in Seq(Frame) /\ Len(wire) = 0
      BY <3>1
    <3>3. 0 <= MaxWire /\ due \in 0..MaxDue /\ outbox \in 0..Capacity /\ sent \in 0..MaxMessages
      BY <3>1, GatewayAssumption
    <3>4. ackPending \in BOOLEAN /\ dead \in BOOLEAN /\ delivered \subseteq 1..MaxMessages
      BY <3>1, Zenon
    <3>5. \A i \in 1..Len(wire) : wire[i].kind = "message" => wire[i].n \in 1..MaxMessages
      BY <3>2
    <3>6. QED
      BY <3>2, <3>3, <3>4, <3>5 DEF ConnTypeOK
  <2>3. ASSUME Init PROVE BeatsInv
    <3>1. wire = << >> /\ Len(wire) = 0 /\ beats = 0 /\ ackPending = FALSE
      BY <2>3 DEF Init
    <3> DEFINE c == [i \in 0..0 |-> 0]
    <3>2. c[0] = 0 /\ c \in [0..0 -> Int]
      OBVIOUS
    <3> HIDE DEF c
    <3>3. Counts(c, wire)
      BY <3>1, <3>2 DEF Counts
    <3>4. beats + c[Len(wire)] + Spare <= MaxBeats + MaxWire + 1
      BY <3>1, <3>2, GatewayAssumption DEF Spare
    <3>5. QED
      BY <3>1, <3>3, <3>4 DEF BeatsInv
  <2>4. QED
    BY <2>1, <2>2, <2>3
<1>2. LoopTypeOK /\ ConnTypeOK /\ BeatsInv /\ GiveUpInv => TypeOK
  <2> SUFFICES ASSUME LoopTypeOK, ConnTypeOK, BeatsInv, GiveUpInv PROVE TypeOK
    OBVIOUS
  <2>1. PICK c : Counts(c, wire) /\ beats + c[Len(wire)] + Spare <= MaxBeats + MaxWire + 1
    BY DEF BeatsInv
  <2> DEFINE x == c[Len(wire)]
  <2>2. x \in Int /\ 0 <= x /\ Spare \in 0..1 /\ beats \in Nat
    <3>1. 0 \in 0..Len(wire) /\ Len(wire) \in 0..Len(wire)
      BY DEF ConnTypeOK
    <3>2. QED
      BY <2>1, <3>1 DEF Counts, Spare, BeatsInv
  <2>3. beats + x + Spare <= MaxBeats + MaxWire + 1
    BY <2>1
  <2> HIDE DEF x
  <2>4. beats \in 0..(MaxBeats + MaxWire + 1)
    BY <2>2, <2>3, GatewayAssumption
  <2>5. QED
    BY <2>4 DEF TypeOK, LoopTypeOK, ConnTypeOK, GiveUpInv, CounterTypeOK
<1>3. LoopTypeOK /\ ConnTypeOK /\ BeatsInv /\ GiveUpInv /\ GapInv /\ [Next]_vars
        => LoopTypeOK' /\ ConnTypeOK' /\ BeatsInv'
  BY StepKeepsLoopTypes, StepKeepsConnTypes, StepKeepsBeats
<1>4. QED
  BY <1>1, <1>2, <1>3, GiveUpHolds, GapsHold, PTL DEF Spec
=============================================================================
