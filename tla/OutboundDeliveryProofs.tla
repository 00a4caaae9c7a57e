------------------------ MODULE OutboundDeliveryProofs ------------------------
(***************************************************************************)
(* Theorems about OutboundDelivery, for every retry limit and every        *)
(* schedule, and for all answers of the platform.                          *)
(***************************************************************************)
EXTENDS OutboundDelivery, TLAPS

Live == status \in {"pending", "retrying"}

\* Who a message is meant for.
Meant == IF private THEN "caller" ELSE "room"

\* A call is made for a live message only, and a private reply has one life.
CallShape ==
  /\ call # "none" => Live /\ configured
  /\ call = "open_dm" => private
  /\ private => status # "retrying" /\ attempt_count = 0

\* Posts are the failed attempts and the one under way.
PostsCounted ==
  /\ Live /\ call # "post" => posts = attempt_count
  /\ Live /\ call = "post" => posts = attempt_count + 1
  /\ Live => attempt_count <= MAX_RETRY_ATTEMPTS
  /\ posts <= MAX_RETRY_ATTEMPTS + 1

\* What has been posted is addressed to those it is meant for.
WellAddressed ==
  /\ posts > 0 => Audience = Meant
  /\ late > 0 => posts > 0
  /\ private => seen["room"] = 0
  /\ status = "sent" => seen[Meant] > 0

\* Copies are explained, and a live message has none that is not.
CopiesCounted ==
  /\ Live => seen["room"] + seen["caller"] + late <= unclear
  /\ CopiesAreExplained

DeliveryInv == TypeOK /\ CallShape /\ PostsCounted /\ WellAddressed /\ CopiesCounted
------------------------------------------------------------------------------
(***************************************************************************)
(* Answers, errors and the schedule.                                       *)
(***************************************************************************)
\* A call returns Ok only for a success whose body the code could read.
LEMMA OkIsAccepted ==
  ASSUME NEW answer \in Answers, CallResult(answer) = Ok
  PROVE  answer = "accepted"
BY DEF Answers, CallResult, Ok, DeliveryFailed, ChannelApiError, InvalidPayload

\* An answer after which the message may be sent again did not say that it arrived.
LEMMA RetriedIsUnsettled ==
  ASSUME NEW answer \in Answers, is_retryable(CallResult(answer))
  PROVE  answer \notin {"accepted", "unreadable"}
BY DEF Answers, CallResult, is_retryable, Ok, DeliveryFailed, ChannelApiError, InvalidPayload

\* compute_retry_update counts one more attempt; the entry stays live exactly up to
\* the limit.
LEMMA RetryUpdate ==
  ASSUME NEW n \in 0..MAX_RETRY_ATTEMPTS
  PROVE  /\ compute_retry_update(n).attempt_count = n + 1
         /\ compute_retry_update(n).status \in {"retrying", "dlq"}
         /\ compute_retry_update(n).status = "retrying" => n + 1 <= MAX_RETRY_ATTEMPTS
         /\ compute_retry_update(n).delay \in Nat
<1> DEFINE i == Least(n + 1, Len(RETRY_DELAYS_SECS))
<1>1. Len(RETRY_DELAYS_SECS) \in Nat \ {0}
  BY DeliveryAssumption
<1>2. n \in Nat /\ MAX_RETRY_ATTEMPTS \in Nat
  BY DeliveryAssumption
<1>3. i \in 1..Len(RETRY_DELAYS_SECS)
  BY <1>1, <1>2 DEF Least
<1>4. RETRY_DELAYS_SECS[i] \in Nat
  BY <1>3, DeliveryAssumption
<1>5. QED
  BY <1>2, <1>4 DEF compute_retry_update
------------------------------------------------------------------------------
\* Payloads of private replies reach the caller, payloads for the room the room.
LEMMA Addresses ==
  /\ RoomPayload \in Payload
  /\ \A dm \in {"caller", "dm"} : PrivatePayload(dm) \in Payload
  /\ payload' = RoomPayload => Audience' = "room"
  /\ \A dm \in {"caller", "dm"} : payload' = PrivatePayload(dm) => Audience' = "caller"
<1>1. RoomPayload \in Payload
  BY DEF RoomPayload, Payload
<1>2. ASSUME NEW dm \in {"caller", "dm"}
      PROVE  /\ PrivatePayload(dm) \in Payload
             /\ \/ PrivatePayload(dm).endpoint = "ephemeral" /\ PrivatePayload(dm).user = "caller"
                \/ PrivatePayload(dm).endpoint = "message" /\ PrivatePayload(dm).to = dm
  <2>1. CASE channel = "slack"
    BY <2>1 DEF PrivatePayload, RoomPayload, Payload
  <2>2. CASE channel # "slack"
    BY <2>2 DEF PrivatePayload, RoomPayload, Payload
  <2>3. QED
    BY <2>1, <2>2
<1>3. payload' = RoomPayload => Audience' = "room"
  BY DEF RoomPayload, Audience
<1>4. ASSUME NEW dm \in {"caller", "dm"}, payload' = PrivatePayload(dm)
      PROVE  Audience' = "caller"
  BY <1>2, <1>4 DEF Audience
<1>5. QED
  BY <1>1, <1>2, <1>3, <1>4

\* Before the message exists the invariant holds.
LEMMA InitDelivers == Init => DeliveryInv
BY DeliveryAssumption, Addresses
DEF Init, DeliveryInv, TypeOK, CallShape, PostsCounted, WellAddressed, CopiesCounted,
    CopiesAreExplained, Audiences, Live

\* Posting a message that has not been posted in this attempt keeps the invariant.
LEMMA PostKeepsInvariant ==
  ASSUME DeliveryInv, NEW p \in Payload, Post(p), Live, call # "post",
         configured, Audience' = Meant
  PROVE  DeliveryInv'
<1>1. TypeOK'
  BY DEF Post, DeliveryInv, TypeOK, entryVars
<1>2. CallShape'
  BY DEF Post, DeliveryInv, CallShape, Live, entryVars
<1>3. PostsCounted'
  BY DeliveryAssumption DEF Post, DeliveryInv, TypeOK, PostsCounted, Live, entryVars
<1>4. WellAddressed'
  BY DEF Post, DeliveryInv, TypeOK, WellAddressed, Meant, Live, entryVars
<1>5. CopiesCounted'
  BY DEF Post, DeliveryInv, CopiesCounted, CopiesAreExplained, Live, entryVars
<1>6. QED
  BY <1>1, <1>2, <1>3, <1>4, <1>5 DEF DeliveryInv

\* What the platform does with a post, in numbers.
LEMMA PlatformCounts ==
  ASSUME DeliveryInv, call = "post", NEW answer \in Answers, PlatformTakes(answer)
  PROVE  /\ seen' \in [Audiences -> Nat] /\ late' \in Nat /\ unclear' \in Nat
         /\ private => seen'["room"] = 0
         /\ seen[Meant] <= seen'[Meant]
         /\ answer = "accepted" => seen'[Meant] > 0
         /\ seen'["room"] + seen'["caller"] + late' - unclear'
              <= seen["room"] + seen["caller"] + late - unclear
                 + (IF answer \in {"accepted", "unreadable"} THEN 1 ELSE 0)
         /\ unclear <= unclear'
<1> PICK fate \in Fates(answer) :
      /\ seen' = IF fate = "shown" THEN [seen EXCEPT ![Audience] = @ + 1] ELSE seen
      /\ late' = IF fate = "late" THEN late + 1 ELSE late
      /\ unclear' = IF answer \in {"timeout", "broken"} THEN unclear + 1 ELSE unclear
  BY DEF PlatformTakes
<1>1. Audience = Meant /\ Meant \in Audiences
  BY DEF DeliveryInv, TypeOK, CallShape, PostsCounted, WellAddressed, Meant, Audiences, Live
<1>2. /\ seen \in [Audiences -> Nat] /\ late \in Nat /\ unclear \in Nat
      /\ private => seen["room"] = 0
  BY DEF DeliveryInv, TypeOK, WellAddressed
<1>3. /\ seen["room"] \in Nat /\ seen["caller"] \in Nat
  BY <1>2 DEF Audiences
<1>4. CASE fate = "shown"
  <2>1. seen' = [seen EXCEPT ![Meant] = seen[Meant] + 1] /\ late' = late
    BY <1>1, <1>4
  <2>2. answer \in {"accepted", "unreadable", "timeout", "broken"}
    BY <1>4 DEF Fates
  <2>3. CASE private
    BY <1>2, <1>3, <2>1, <2>2, <2>3 DEF Meant, Audiences
  <2>4. CASE ~private
    BY <1>2, <1>3, <2>1, <2>2, <2>4 DEF Meant, Audiences
  <2>5. QED
    BY <2>3, <2>4
<1>5. CASE fate = "late"
  <2>1. answer = "timeout"
    BY <1>5 DEF Fates
  <2>2. QED
    BY <1>1, <1>2, <1>3, <1>5, <2>1 DEF Audiences
<1>6. CASE fate = "lost"
  <2>1. answer \notin {"accepted", "unreadable"}
    BY <1>6 DEF Fates
  <2>2. QED
    BY <1>1, <1>2, <1>3, <1>6, <2>1 DEF Audiences
<1>7. QED
  BY <1>4, <1>5, <1>6 DEF Fates

\* The three ways a post can leave the entry.
LEMMA SettleCases ==
  ASSUME DeliveryInv, call = "post", NEW answer \in Answers, Settle(CallResult(answer))
  PROVE  \/ /\ answer = "accepted" /\ status' = "sent"
            /\ attempt_count' = attempt_count /\ delay' = delay
         \/ /\ status' \in {"dlq", "failed"}
            /\ attempt_count' = attempt_count /\ delay' = delay
         \/ /\ answer \notin {"accepted", "unreadable"} /\ ~private
            /\ status' \in {"retrying", "dlq"}
            /\ attempt_count' = attempt_count + 1
            /\ status' = "retrying" => attempt_count' <= MAX_RETRY_ATTEMPTS
            /\ delay' \in Nat
<1>1. attempt_count \in 0..MAX_RETRY_ATTEMPTS
  BY DeliveryAssumption DEF DeliveryInv, TypeOK, CallShape, PostsCounted
<1>2. CASE CallResult(answer) = Ok
  BY <1>2, OkIsAccepted DEF Settle
<1>3. CASE CallResult(answer) # Ok /\ (private \/ ~is_retryable(CallResult(answer)))
  BY <1>3 DEF Settle
<1>4. CASE CallResult(answer) # Ok /\ ~private /\ is_retryable(CallResult(answer))
  <2>1. /\ status' = compute_retry_update(attempt_count).status
        /\ attempt_count' = compute_retry_update(attempt_count).attempt_count
        /\ delay' = compute_retry_update(attempt_count).delay
    BY <1>4 DEF Settle
  <2>2. QED
    BY <1>1, <1>4, <2>1, RetryUpdate, RetriedIsUnsettled
<1>5. QED
  BY <1>2, <1>3, <1>4

\* The answer to a post, whatever it is, is recorded so that the invariant holds.
LEMMA FinishPostKeepsInvariant ==
  ASSUME DeliveryInv, NEW answer \in Answers, FinishPost(answer)
  PROVE  DeliveryInv'
<1>1. /\ call = "post" /\ call' = "none"
      /\ UNCHANGED <<channel, configured, private, payload, removal, echo, posts>>
      /\ PlatformTakes(answer) /\ Settle(CallResult(answer))
  BY DEF FinishPost
<1>2. TypeOK /\ CallShape /\ PostsCounted /\ WellAddressed /\ CopiesCounted
  BY DEF DeliveryInv
<1>3. Live /\ attempt_count \in 0..MAX_RETRY_ATTEMPTS /\ posts = attempt_count + 1
  BY <1>1, <1>2, DeliveryAssumption DEF TypeOK, CallShape, PostsCounted
<1>4. /\ seen \in [Audiences -> Nat] /\ late \in Nat /\ unclear \in Nat
      /\ seen["room"] + seen["caller"] + late <= unclear
  BY <1>2, <1>3 DEF TypeOK, CopiesCounted
<1>5. /\ seen["room"] \in Nat /\ seen["caller"] \in Nat
      /\ seen'["room"] \in Nat /\ seen'["caller"] \in Nat /\ late' \in Nat /\ unclear' \in Nat
  BY <1>1, <1>4, PlatformCounts DEF Audiences
<1>6. TypeOK'
  <2>1. seen' \in [Audiences -> Nat] /\ late' \in Nat /\ unclear' \in Nat
    BY <1>1, PlatformCounts
  <2>2. /\ status' \in {"pending", "retrying", "sent", "dlq", "failed"}
        /\ attempt_count' \in 0..(MAX_RETRY_ATTEMPTS + 1)
        /\ delay' \in Nat
    BY <1>1, <1>2, <1>3, SettleCases, DeliveryAssumption DEF TypeOK
  <2>3. QED
    BY <1>1, <1>2, <2>1, <2>2 DEF TypeOK
<1>7. CallShape'
  BY <1>1, <1>2, SettleCases DEF CallShape
<1>8. PostsCounted'
  BY <1>1, <1>2, <1>3, SettleCases, DeliveryAssumption DEF PostsCounted, Live
<1>9. WellAddressed'
  <2>1. Audience' = Audience /\ Meant' = Meant /\ Audience = Meant
    BY <1>1, <1>2, <1>3, DeliveryAssumption DEF Audience, Meant, WellAddressed
  <2>2. posts > 0
    BY <1>3, DeliveryAssumption
  <2>3. private' => seen'["room"] = 0
    BY <1>1, PlatformCounts
  <2>4. status' = "sent" => seen'[Meant] > 0
    BY <1>1, SettleCases, PlatformCounts
  <2>5. QED
    BY <1>1, <2>1, <2>2, <2>3, <2>4 DEF WellAddressed
<1>10. CopiesCounted'
  <2>1. seen'["room"] + seen'["caller"] + late' - unclear'
          <= IF answer \in {"accepted", "unreadable"} THEN 1 ELSE 0
    BY <1>1, <1>4, <1>5, PlatformCounts
  <2>2. Live' => answer \notin {"accepted", "unreadable"}
    BY <1>1, SettleCases DEF Live
  <2>3. QED
    BY <1>5, <2>1, <2>2 DEF CopiesCounted, CopiesAreExplained
<1>11. QED
  BY <1>6, <1>7, <1>8, <1>9, <1>10 DEF DeliveryInv

\* A copy that was on its way arrives: the number of copies is as before.
LEMMA LateShowKeepsInvariant == ASSUME DeliveryInv, LateShow PROVE DeliveryInv'
<1>1. /\ late \in Nat /\ late > 0 /\ late' = late - 1
      /\ seen \in [Audiences -> Nat] /\ seen' = [seen EXCEPT ![Audience] = @ + 1]
      /\ UNCHANGED <<channel, configured, private, call, payload, status, attempt_count,
                     delay, removal, echo, posts, unclear>>
  BY DEF LateShow, DeliveryInv, TypeOK, entryVars
<1>2. TypeOK /\ CallShape /\ PostsCounted /\ WellAddressed /\ CopiesCounted
  BY DEF DeliveryInv
<1>3. Audience = Meant /\ Audience' = Audience /\ Meant' = Meant /\ Meant \in Audiences
  BY <1>1, <1>2 DEF WellAddressed, Audience, Meant, Audiences
<1>4. seen["room"] \in Nat /\ seen["caller"] \in Nat /\ unclear \in Nat
  BY <1>1, <1>2 DEF TypeOK, Audiences
<1>5. seen' = [seen EXCEPT ![Meant] = seen[Meant] + 1]
  BY <1>1, <1>3
<1>6. TypeOK'
  BY <1>1, <1>2, <1>3, <1>5 DEF TypeOK, Audiences
<1>7. CallShape' /\ PostsCounted'
  BY <1>1, <1>2 DEF CallShape, PostsCounted, Live
<1>8. WellAddressed'
  BY <1>1, <1>2, <1>3, <1>4, <1>5 DEF WellAddressed, Meant, Audiences
<1>9. seen'["room"] + seen'["caller"] + late' = seen["room"] + seen["caller"] + late
  BY <1>1, <1>4, <1>5 DEF Meant, Audiences
<1>10. CopiesCounted'
  BY <1>1, <1>2, <1>9 DEF CopiesCounted, CopiesAreExplained, Live
<1>11. QED
  BY <1>6, <1>7, <1>8, <1>10 DEF DeliveryInv

\* Every step, of the worker, the platform or the host, keeps the invariant.
LEMMA StepKeepsInvariant == DeliveryInv /\ [Next]_vars => DeliveryInv'
<1> SUFFICES ASSUME DeliveryInv, [Next]_vars PROVE DeliveryInv'
  OBVIOUS
<1> USE DEF Live
<1>1. CASE NotConfigured
  <2>1. /\ ~configured /\ status = "pending" /\ status' \in {"failed", "dlq"}
        /\ UNCHANGED <<channel, configured, private, call, payload, attempt_count, delay,
                       removal, seen, late, echo, posts, unclear>>
    BY <1>1 DEF NotConfigured
  <2>2. QED
    BY <2>1 DEF DeliveryInv, TypeOK, CallShape, PostsCounted, WellAddressed, CopiesCounted,
                CopiesAreExplained, Audience, Meant
<1>2. CASE SendPrivateReply
  <2>1. Audience' = Meant
    BY <1>2, Addresses DEF SendPrivateReply, Post, Meant
  <2>2. QED
    BY <1>2, <2>1, Addresses, PostKeepsInvariant DEF SendPrivateReply
<1>3. CASE OpenDm
  BY <1>3 DEF OpenDm, entryVars, DeliveryInv, TypeOK, CallShape, PostsCounted, WellAddressed,
              CopiesCounted, CopiesAreExplained, Audience, Meant
<1>4. CASE Attempt
  <2>1. Audience' = Meant
    BY <1>4, Addresses DEF Attempt, Post, Meant
  <2>2. QED
    BY <1>4, <2>1, Addresses, PostKeepsInvariant DEF Attempt
<1>5. ASSUME NEW answer \in Answers, FinishOpenDm(answer) PROVE DeliveryInv'
  <2>1. call = "open_dm" /\ private /\ configured /\ status = "pending"
    BY <1>5 DEF FinishOpenDm, DeliveryInv, CallShape
  <2>2. CASE CallResult(answer) = Ok
    <3>1. Post(PrivatePayload("dm"))
      BY <1>5, <2>2 DEF FinishOpenDm
    <3>2. Audience' = Meant
      BY <2>1, <3>1, Addresses DEF Post, Meant
    <3>3. QED
      BY <2>1, <3>1, <3>2, Addresses, PostKeepsInvariant
  <2>3. CASE CallResult(answer) # Ok
    <3>1. /\ status' = "failed" /\ call' = "none"
          /\ UNCHANGED <<channel, configured, private, payload, attempt_count, delay,
                         removal, seen, late, echo, posts, unclear>>
      BY <1>5, <2>3 DEF FinishOpenDm
    <3>2. QED
      BY <2>1, <3>1 DEF DeliveryInv, TypeOK, CallShape, PostsCounted, WellAddressed,
                        CopiesCounted, CopiesAreExplained, Audience, Meant
  <2>4. QED
    BY <2>2, <2>3
<1>6. ASSUME NEW answer \in Answers, FinishPost(answer) PROVE DeliveryInv'
  BY <1>6, FinishPostKeepsInvariant
<1>7. CASE DeleteMessage
  BY <1>7 DEF DeleteMessage, entryVars, DeliveryInv, TypeOK, CallShape, PostsCounted,
              WellAddressed, CopiesCounted, CopiesAreExplained, Audience, Meant
<1>8. ASSUME NEW answer \in Answers, FinishDelete(answer) PROVE DeliveryInv'
  BY <1>8 DEF FinishDelete, entryVars, DeliveryInv, TypeOK, CallShape, PostsCounted,
              WellAddressed, CopiesCounted, CopiesAreExplained, Audience, Meant
<1>9. CASE LateShow
  BY <1>9, LateShowKeepsInvariant
<1>10. CASE UNCHANGED vars
  BY <1>10 DEF vars, entryVars, DeliveryInv, TypeOK, CallShape, PostsCounted, WellAddressed,
               CopiesCounted, CopiesAreExplained, Audience, Meant
<1>11. QED
  BY <1>1, <1>2, <1>3, <1>4, <1>5, <1>6, <1>7, <1>8, <1>9, <1>10 DEF Next

\* The inductive invariant that the theorems rest on.
LEMMA DeliveryIsInvariant == Spec => []DeliveryInv
BY InitDelivers, StepKeepsInvariant, PTL DEF Spec
------------------------------------------------------------------------------
\* The queue entry keeps its types; the attempt count stays within one of the limit.
THEOREM TypeCorrect == Spec => []TypeOK
<1>1. DeliveryInv => TypeOK
  BY DEF DeliveryInv
<1>2. QED
  BY <1>1, DeliveryIsInvariant, PTL

\* Whatever the platform answers, a message is posted at most once more than there
\* are retries.
THEOREM PostsStayBounded == Spec => []PostsAreBounded
<1>1. DeliveryInv => PostsAreBounded
  BY DEF DeliveryInv, PostsCounted, PostsAreBounded
<1>2. QED
  BY <1>1, DeliveryIsInvariant, PTL

\* A private reply is shown to the caller only, also when the platform shows it late.
THEOREM PrivateRepliesStayPrivate == Spec => []PrivateStaysPrivate
<1>1. DeliveryInv => PrivateStaysPrivate
  BY DEF DeliveryInv, WellAddressed, PrivateStaysPrivate
<1>2. QED
  BY <1>1, DeliveryIsInvariant, PTL

\* What is recorded as sent has been shown to those it is meant for.
THEOREM SentIsShown == Spec => []SentMeansShown
<1>1. DeliveryInv => SentMeansShown
  BY DEF DeliveryInv, WellAddressed, SentMeansShown, Meant
<1>2. QED
  BY <1>1, DeliveryIsInvariant, PTL

\* No copy of a message is without an answer that left open whether a post had
\* taken effect, but one.
THEOREM CopiesStayExplained == Spec => []CopiesAreExplained
<1>1. DeliveryInv => CopiesAreExplained
  BY DEF DeliveryInv, CopiesCounted
<1>2. QED
  BY <1>1, DeliveryIsInvariant, PTL

\* What delete_message reports as removed is gone from the room and does not come back.
THEOREM RemovedIsGone == Spec => []RemovedMeansGone
<1>1. Init => RemovedMeansGone
  BY DEF Init, RemovedMeansGone
<1>2. RemovedMeansGone /\ [Next]_vars => RemovedMeansGone'
  <2> SUFFICES ASSUME RemovedMeansGone, [Next]_vars PROVE RemovedMeansGone'
    OBVIOUS
  <2>1. CASE removal' = removal /\ echo' = echo
    BY <2>1 DEF RemovedMeansGone
  <2>2. CASE DeleteMessage
    BY <2>2 DEF DeleteMessage, RemovedMeansGone
  <2>3. ASSUME NEW answer \in Answers, FinishDelete(answer) PROVE RemovedMeansGone'
    BY <2>3 DEF FinishDelete, Fates, RemovedMeansGone
  <2>4. CASE NotConfigured \/ SendPrivateReply \/ OpenDm \/ Attempt \/ LateShow
    BY <2>1, <2>4 DEF NotConfigured, SendPrivateReply, OpenDm, Attempt, LateShow, Post
  <2>5. ASSUME NEW answer \in Answers, FinishOpenDm(answer) \/ FinishPost(answer)
        PROVE  RemovedMeansGone'
    BY <2>1, <2>5 DEF FinishOpenDm, FinishPost, Post
  <2>6. CASE UNCHANGED vars
    BY <2>1, <2>6 DEF vars
  <2>7. QED
    BY <2>2, <2>3, <2>4, <2>5, <2>6 DEF Next
<1>3. QED
  BY <1>1, <1>2, PTL DEF Spec
==============================================================================
