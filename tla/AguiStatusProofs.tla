--------------------------- MODULE AguiStatusProofs ---------------------------
(***************************************************************************)
(* Theorems about AguiStatus, for all values of its constants.             *)
(***************************************************************************)
EXTENDS AguiStatus, TLAPS

(***************************************************************************)
(* The throttle.  The invariant carries the bound on the number of status  *)
(* edits up to the time of the last edit, which the throttle compares with *)
(* the clock before it lets the next one go.                               *)
(***************************************************************************)
ClockTypeOK ==
  /\ now \in Nat
  /\ edits \in Nat
  /\ lastEdit \in {Never} \cup Nat
  /\ task \in Tasks

EditsUpToLast ==
  /\ lastEdit = Never => edits = 0
  /\ lastEdit # Never => /\ lastEdit <= now
                         /\ edits > 0 => (edits - 1) * edit_min_interval <= lastEdit

ThrottleInv == ClockTypeOK /\ EditsUpToLast

\* One more edit, an interval later, keeps the bound.
LEMMA OneMoreEdit ==
  ASSUME NEW n \in Nat \ {0}, NEW d \in Nat, NEW a \in Nat, NEW b \in Nat,
         (n - 1) * d <= a, a + d <= b
  PROVE  n * d <= b
<1>1. n * d = (n - 1) * d + d
  OBVIOUS
<1>2. (n - 1) * d \in Int
  OBVIOUS
<1>3. QED
  BY <1>1, <1>2

\* Sending a status edit keeps the invariant.
LEMMA SendKeepsThrottle ==
  ASSUME ThrottleInv, NEW kind, SendStatus(kind), now' = now
  PROVE  ThrottleInv'
<1> USE StatusAssumption DEF ThrottleInv, SendStatus
<1>1. ClockTypeOK'
  BY DEF ClockTypeOK, Tasks
<1>2. lastEdit' = now /\ edits' = edits + 1 /\ now \in Nat /\ now # Never
  BY DEF ClockTypeOK, Never
<1>3. edits * edit_min_interval <= now
  <2>1. CASE edits = 0
    BY <2>1 DEF ClockTypeOK
  <2>2. CASE edits # 0
    <3>1. /\ edits \in Nat \ {0}
          /\ lastEdit \in Nat
          /\ lastEdit <= now
          /\ (edits - 1) * edit_min_interval <= lastEdit
      BY <2>2 DEF ClockTypeOK, EditsUpToLast
    <3>2. lastEdit + edit_min_interval <= now
      BY <1>2, <3>1 DEF ShouldThrottleEdit, Never
    <3>3. QED
      BY <1>2, <3>1, <3>2, OneMoreEdit
  <2>3. QED
    BY <2>1, <2>2
<1>4. edits' - 1 = edits
  BY <1>2 DEF ClockTypeOK
<1>5. EditsUpToLast'
  BY <1>2, <1>3, <1>4 DEF EditsUpToLast, Never
<1>6. QED
  BY <1>1, <1>5

\* Every step keeps the invariant.
LEMMA StepKeepsThrottle == ThrottleInv /\ [Next]_vars => ThrottleInv'
<1> SUFFICES ASSUME ThrottleInv, [Next]_vars PROVE ThrottleInv'
  OBVIOUS
<1> USE DEF taskVars, platformVars, pastVars, hostVars, Tasks
<1>a. ASSUME UNCHANGED <<now, edits, lastEdit>>,
             task' \in Tasks
      PROVE  ThrottleInv'
  BY <1>a DEF ThrottleInv, ClockTypeOK, EditsUpToLast
<1>1. CASE UNCHANGED vars
  BY <1>1, <1>a DEF vars, ThrottleInv, ClockTypeOK
<1>2. CASE Open \/ CloseStream \/ FinishEdit \/ FinishFinalize \/ ApplyLate
  BY <1>2, <1>a DEF Open, CloseStream, FinishEdit, FinishFinalize, ApplyLate, ThrottleInv,
                    ClockTypeOK
<1>3. ASSUME NEW kind \in EventKinds, ConsumeEvent(kind)
      PROVE  ThrottleInv'
  <2>1. CASE SendStatus(kind)
    BY <1>3, <2>1, SendKeepsThrottle DEF ConsumeEvent
  <2>2. CASE DropStatus(kind)
    BY <1>3, <2>2, <1>a DEF ConsumeEvent, DropStatus, ThrottleInv, ClockTypeOK
  <2>3. QED
    BY <1>3, <2>1, <2>2 DEF ConsumeEvent
<1>4. CASE Finalize
  <2>1. lastEdit' = now /\ UNCHANGED <<now, edits>> /\ task' = "finalizing"
    BY <1>4 DEF Finalize
  <2>2. edits > 0 => (edits - 1) * edit_min_interval <= now
    <3> SUFFICES ASSUME edits > 0
                 PROVE  (edits - 1) * edit_min_interval <= now
      OBVIOUS
    <3>1. /\ (edits - 1) * edit_min_interval <= lastEdit
          /\ lastEdit <= now
          /\ lastEdit \in Nat /\ now \in Nat /\ edits - 1 \in Nat
      BY DEF ThrottleInv, ClockTypeOK, EditsUpToLast
    <3> DEFINE p == (edits - 1) * edit_min_interval
    <3>2. p \in Int
      BY <3>1, StatusAssumption
    <3> HIDE DEF p
    <3>3. p <= now
      BY <3>1, <3>2 DEF p
    <3>4. QED
      BY <3>3 DEF p
  <2>3. QED
    BY <2>1, <2>2 DEF ThrottleInv, ClockTypeOK, EditsUpToLast, Never
<1>5. CASE Tick
  BY <1>5 DEF Tick, ThrottleInv, ClockTypeOK, EditsUpToLast, Never
<1>6. QED
  BY <1>1, <1>2, <1>3, <1>4, <1>5 DEF Next

\* The client never exceeds one status edit per interval on average, for any
\* interval, any run of events and any pattern of answers.
THEOREM StatusEditsKeepTheRate == Spec => []StatusEditsAreSpaced
<1>1. Init => ThrottleInv
  BY DEF Init, ThrottleInv, ClockTypeOK, EditsUpToLast, Never, Tasks
<1>2. ThrottleInv /\ [Next]_vars => ThrottleInv'
  BY StepKeepsThrottle
<1>3. ThrottleInv => StatusEditsAreSpaced
  <2> SUFFICES ASSUME ThrottleInv, edits > 0
               PROVE  (edits - 1) * edit_min_interval <= now
    BY DEF StatusEditsAreSpaced
  <2> DEFINE p == (edits - 1) * edit_min_interval
  <2>1. p <= lastEdit /\ lastEdit <= now /\ lastEdit \in Nat /\ now \in Nat
    BY DEF ThrottleInv, ClockTypeOK, EditsUpToLast
  <2>2. p \in Int
    BY StatusAssumption DEF ThrottleInv, ClockTypeOK
  <2> HIDE DEF p
  <2>3. p <= now
    BY <2>1, <2>2
  <2>4. QED
    BY <2>3 DEF p
<1>4. QED
  BY <1>1, <1>2, <1>3, PTL DEF Spec
-------------------------------------------------------------------------------
(***************************************************************************)
(* The message's contents.  Until the turn is done, nothing the platform   *)
(* shows or may still apply is newer than the events consumed, and an edit *)
(* is outstanding after its call only if that call failed.                 *)
(***************************************************************************)
ContentTypeOK ==
  /\ task \in Tasks
  /\ faulty \in BOOLEAN
  /\ events \in 0..MaxEvents
  /\ shown \in Content
  /\ edit \in Content
  /\ late \subseteq Content

NothingFromTheFuture ==
  task # "done" => shown.n <= events /\ \A e \in late : e.n <= events

EditIsCurrent ==
  /\ task = "editing" => edit.n = events
  /\ task = "finalizing" => edit = Reply

LateIsFaulty == late # {} => faulty

AdvanceInv ==
  /\ ContentTypeOK
  /\ NothingFromTheFuture
  /\ EditIsCurrent
  /\ LateIsFaulty
  /\ ReplyLandsWithoutFaults

\* Every step keeps the invariant.
LEMMA StepKeepsAdvance == AdvanceInv /\ [Next]_vars => AdvanceInv'
<1> SUFFICES ASSUME AdvanceInv, [Next]_vars PROVE AdvanceInv'
  OBVIOUS
<1> USE StatusAssumption DEF taskVars, platformVars, pastVars, hostVars, Tasks
<1>a. ASSUME UNCHANGED <<faulty, events, shown, edit, late, result>>,
             task' = task \/ (task' \in {"ready", "fallback"} /\ task # "done")
      PROVE  AdvanceInv'
  BY <1>a DEF AdvanceInv, ContentTypeOK, NothingFromTheFuture, EditIsCurrent, LateIsFaulty,
              ReplyLandsWithoutFaults
<1>b. ASSUME NEW answer, PlatformAnswers(answer)
      PROVE  /\ shown' \in {shown, edit}
             /\ late' \subseteq late \cup {edit}
             /\ faulty' \in BOOLEAN
             /\ late' # {} => faulty'
             /\ ~faulty' => shown' = edit
  <2>1. shown' \in {shown, edit} /\ late' \subseteq late \cup {edit}
    BY <1>b DEF PlatformAnswers
  <2>2. faulty' \in BOOLEAN /\ (~faulty' => shown' = edit)
    BY <1>b DEF PlatformAnswers
  <2>3. late' # {} => faulty'
    <3>1. CASE answer = "timeout"
      BY <1>b, <3>1 DEF PlatformAnswers, Changes
    <3>2. CASE answer # "timeout"
      BY <1>b, <3>2 DEF PlatformAnswers, AdvanceInv, LateIsFaulty
    <3>3. QED
      BY <3>1, <3>2
  <2>4. QED
    BY <2>1, <2>2, <2>3
<1>1. CASE UNCHANGED vars
  BY <1>1, <1>a DEF vars
<1>2. CASE Open
  BY <1>2, <1>a DEF Open
<1>3. CASE CloseStream \/ Tick
  BY <1>3, <1>a DEF CloseStream, Tick
<1>4. ASSUME NEW kind \in EventKinds, ConsumeEvent(kind)
      PROVE  AdvanceInv'
  <2>1. /\ task = "ready" /\ events' = events + 1 /\ events' \in 0..MaxEvents
        /\ UNCHANGED <<shown, late, faulty>>
    BY <1>4 DEF ConsumeEvent, AdvanceInv, ContentTypeOK
  <2>2. \/ task' = "editing" /\ edit'.n = events' /\ edit' \in Content
        \/ task' = "ready" /\ edit' = edit
    <3>1. CASE SendStatus(kind)
      <4>1. StatusText(kind) \in Texts
        BY <3>1 DEF SendStatus, HasText, StatusText, EventKinds, Texts
      <4>2. events + 1 \in 0..(MaxEvents + 1)
        BY DEF AdvanceInv, ContentTypeOK
      <4>3. QED
        BY <2>1, <3>1, <4>1, <4>2 DEF SendStatus, Content
    <3>2. CASE DropStatus(kind)
      BY <2>1, <3>2 DEF DropStatus
    <3>3. QED
      BY <1>4, <3>1, <3>2 DEF ConsumeEvent
  <2>3. \A n \in 0..(MaxEvents + 1) : n <= events => n <= events'
    BY <2>1 DEF AdvanceInv, ContentTypeOK
  <2>4. NothingFromTheFuture'
    BY <2>1, <2>3 DEF AdvanceInv, ContentTypeOK, NothingFromTheFuture, Content
  <2>5. QED
    BY <2>1, <2>2, <2>4
    DEF AdvanceInv, ContentTypeOK, EditIsCurrent, LateIsFaulty, ReplyLandsWithoutFaults
<1>5. CASE FinishEdit
  <2>1. /\ task = "editing" /\ task' \in {"ready", "abandoned"} /\ UNCHANGED <<events, edit>>
        /\ \E answer : PlatformAnswers(answer)
    BY <1>5 DEF FinishEdit
  <2>2. ContentTypeOK' /\ LateIsFaulty'
    BY <1>b, <2>1 DEF AdvanceInv, ContentTypeOK, LateIsFaulty
  <2>3. edit.n <= events
    BY <2>1 DEF AdvanceInv, EditIsCurrent, ContentTypeOK
  <2>4. NothingFromTheFuture'
    BY <1>b, <2>1, <2>3 DEF AdvanceInv, NothingFromTheFuture
  <2>5. QED
    BY <2>1, <2>2, <2>4 DEF AdvanceInv, EditIsCurrent, ReplyLandsWithoutFaults
<1>6. CASE Finalize
  <2>1. Reply \in Content
    BY DEF Reply, Content, Texts
  <2>2. QED
    BY <1>6, <2>1 DEF Finalize, AdvanceInv, ContentTypeOK, NothingFromTheFuture, EditIsCurrent,
                      LateIsFaulty, ReplyLandsWithoutFaults
<1>7. CASE FinishFinalize
  <2>1. /\ task = "finalizing" /\ task' = "done" /\ UNCHANGED <<events, edit>>
        /\ \E answer : PlatformAnswers(answer)
    BY <1>7 DEF FinishFinalize
  <2>2. ContentTypeOK' /\ LateIsFaulty'
    BY <1>b, <2>1 DEF AdvanceInv, ContentTypeOK, LateIsFaulty
  <2>3. ReplyLandsWithoutFaults'
    <3>1. PICK answer \in EditAnswers : PlatformAnswers(answer) /\ result' = EditResult(answer)
      BY <1>7 DEF FinishFinalize
    <3>2. ~faulty' => result' = "ok"
      BY <3>1 DEF PlatformAnswers, Changes, EditResult, NoAnswer
    <3>3. QED
      BY <1>b, <2>1, <3>1, <3>2 DEF AdvanceInv, EditIsCurrent, ReplyLandsWithoutFaults, Reply
  <2>4. QED
    BY <2>1, <2>2, <2>3 DEF AdvanceInv, NothingFromTheFuture, EditIsCurrent
<1>8. CASE ApplyLate
  <2>1. PICK e \in late : shown' = e /\ late' = late \ {e} /\ UNCHANGED <<taskVars, faulty>>
    BY <1>8 DEF ApplyLate
  <2>2. faulty
    BY DEF AdvanceInv, LateIsFaulty
  <2>3. QED
    BY <2>1, <2>2 DEF AdvanceInv, ContentTypeOK, NothingFromTheFuture, EditIsCurrent,
                      LateIsFaulty, ReplyLandsWithoutFaults
<1>9. QED
  BY <1>1, <1>2, <1>3, <1>4, <1>5, <1>6, <1>7, <1>8 DEF Next

\* No step takes the message back, save a late edit.
LEMMA StepAdvances ==
  AdvanceInv /\ [Next]_vars => [shown'.n < shown.n => faulty /\ shown' \in late]_vars
<1> SUFFICES ASSUME AdvanceInv, Next, shown'.n < shown.n
             PROVE  faulty /\ shown' \in late
  OBVIOUS
<1> USE DEF taskVars, platformVars, pastVars, hostVars, Tasks
<1>0. shown.n \in Nat
  BY StatusAssumption DEF AdvanceInv, ContentTypeOK, Content
<1>a. ASSUME shown' = shown PROVE FALSE
  BY <1>0, <1>a
<1>1. CASE Open \/ CloseStream \/ Finalize \/ Tick \/ \E kind \in EventKinds : ConsumeEvent(kind)
  BY <1>1, <1>a DEF Open, CloseStream, Finalize, Tick, ConsumeEvent
<1>2. CASE FinishEdit \/ FinishFinalize
  <2>1. shown' = shown \/ shown' = edit
    BY <1>2 DEF FinishEdit, FinishFinalize, PlatformAnswers
  <2>2. shown.n <= edit.n
    <3>1. CASE FinishEdit
      BY <3>1 DEF FinishEdit, AdvanceInv, NothingFromTheFuture, EditIsCurrent
    <3>2. CASE FinishFinalize
      BY <3>2, StatusAssumption
      DEF FinishFinalize, AdvanceInv, NothingFromTheFuture, EditIsCurrent, Reply, ContentTypeOK,
          Content
    <3>3. QED
      BY <1>2, <3>1, <3>2
  <2>3. edit.n \in Nat
    BY StatusAssumption DEF AdvanceInv, ContentTypeOK, Content
  <2>4. QED
    BY <1>0, <1>a, <2>1, <2>2, <2>3
<1>3. CASE ApplyLate
  BY <1>3 DEF ApplyLate, AdvanceInv, LateIsFaulty
<1>4. QED
  BY <1>1, <1>2, <1>3 DEF Next

\* The initial state satisfies the invariant.
LEMMA InitAdvances == Init => AdvanceInv
<1> SUFFICES ASSUME Init PROVE AdvanceInv
  OBVIOUS
<1>1. Placeholder \in Content /\ Placeholder.n = 0
  BY StatusAssumption DEF Placeholder, Content, Texts
<1>2. ContentTypeOK
  <2>1. events \in 0..MaxEvents
    BY StatusAssumption DEF Init
  <2>2. shown \in Content /\ edit \in Content
    BY <1>1 DEF Init
  <2>3. QED
    BY <2>1, <2>2 DEF Init, ContentTypeOK, Tasks
<1>3. NothingFromTheFuture /\ LateIsFaulty
  BY <1>1 DEF Init, NothingFromTheFuture, LateIsFaulty
<1>4. QED
  BY <1>2, <1>3 DEF Init, AdvanceInv, EditIsCurrent, ReplyLandsWithoutFaults

\* The message only moves forward, save for an edit that the client gave up
\* after a timeout and that the platform applies late.
THEOREM StatusOnlyAdvances == Spec => ShownAdvances
BY InitAdvances, StepKeepsAdvance, StepAdvances, PTL DEF Spec, ShownAdvances

\* When no call failed, the turn ends with the reply in place of the status, and finalize
\* says so.
THEOREM ReplyEndsTheTurn == Spec => []ReplyLandsWithoutFaults
<1>1. AdvanceInv => ReplyLandsWithoutFaults
  BY DEF AdvanceInv
<1>2. QED
  BY <1>1, InitAdvances, StepKeepsAdvance, PTL DEF Spec

(***************************************************************************)
(* Types.  That a status edit is sent only for an event bounds the edits   *)
(* by the events consumed.                                                 *)
(***************************************************************************)
TypeInv == TypeOK /\ edits <= events

\* What the platform does with an edit keeps the types of what it shows.
LEMMA PlatformKeepsTypes ==
  ASSUME TypeOK, NEW answer, PlatformAnswers(answer)
  PROVE  shown' \in Content /\ late' \subseteq Content /\ faulty' \in BOOLEAN
         /\ unanswered' \in BOOLEAN
BY DEF TypeOK, PlatformAnswers

\* Consuming an event keeps the types, whether its status is sent or dropped.
LEMMA EventKeepsTypes ==
  ASSUME TypeInv, NEW kind \in EventKinds, ConsumeEvent(kind)
  PROVE  TypeInv'
<1> USE StatusAssumption DEF TypeInv, TypeOK, ConsumeEvent
<1>1. events' \in 0..MaxEvents /\ closed' \in BOOLEAN
  OBVIOUS
<1>2. CASE SendStatus(kind)
  <2>1. [text |-> StatusText(kind), n |-> events + 1] \in Content
    BY <1>2 DEF SendStatus, HasText, StatusText, EventKinds, Texts, Content
  <2>2. /\ lastEdit' \in 0..MaxTime /\ task' = "editing" /\ edit' \in Content
        /\ edits' \in 0..MaxEvents /\ edits' <= events'
    BY <1>2, <2>1 DEF SendStatus
  <2>3. QED
    BY <1>1, <2>2 DEF platformVars, hostVars, Tasks
<1>3. CASE DropStatus(kind)
  BY <1>1, <1>3 DEF DropStatus, platformVars, hostVars
<1>4. QED
  BY <1>2, <1>3

\* Every step keeps the types.
LEMMA StepKeepsTypes == TypeInv /\ [Next]_vars => TypeInv'
<1> SUFFICES ASSUME TypeInv, [Next]_vars PROVE TypeInv'
  OBVIOUS
<1> USE StatusAssumption DEF TypeInv, taskVars, platformVars, pastVars, hostVars, Tasks
<1>1. CASE UNCHANGED vars
  BY <1>1 DEF vars, TypeOK
<1>2. CASE Open
  BY <1>2 DEF Open, TypeOK
<1>3. CASE CloseStream
  BY <1>3 DEF CloseStream, TypeOK
<1>4. CASE \E kind \in EventKinds : ConsumeEvent(kind)
  BY <1>4, EventKeepsTypes
<1>5. CASE FinishEdit
  <2>1. shown' \in Content /\ late' \subseteq Content /\ faulty' \in BOOLEAN
         /\ unanswered' \in BOOLEAN
    BY <1>5, PlatformKeepsTypes DEF FinishEdit
  <2>2. QED
    BY <1>5, <2>1 DEF FinishEdit, TypeOK
<1>6. CASE Finalize
  <2>1. Reply \in Content
    BY DEF Reply, Content, Texts
  <2>2. QED
    BY <1>6, <2>1 DEF Finalize, TypeOK
<1>7. CASE FinishFinalize
  <2>1. shown' \in Content /\ late' \subseteq Content /\ faulty' \in BOOLEAN
         /\ unanswered' \in BOOLEAN
    BY <1>7, PlatformKeepsTypes DEF FinishFinalize
  <2>2. result' \in {"ok", "err"}
    BY <1>7 DEF FinishFinalize, EditResult
  <2>3. QED
    BY <1>7, <2>1, <2>2 DEF FinishFinalize, TypeOK
<1>8. CASE ApplyLate
  BY <1>8 DEF ApplyLate, TypeOK
<1>9. CASE Tick
  BY <1>9 DEF Tick, TypeOK
<1>10. QED
  BY <1>1, <1>2, <1>3, <1>4, <1>5, <1>6, <1>7, <1>8, <1>9 DEF Next

\* The turn keeps its types, and sends no more edits than there were events.
THEOREM TypeCorrect == Spec => []TypeOK
<1>1. Init => TypeInv
  <2> SUFFICES ASSUME Init PROVE TypeInv
    OBVIOUS
  <2>1. Placeholder \in Content
    BY StatusAssumption DEF Placeholder, Content, Texts
  <2>2. now \in 0..MaxTime /\ events \in 0..MaxEvents /\ edits \in 0..MaxEvents
    BY StatusAssumption DEF Init
  <2>3. edit \in Content /\ shown \in Content
    BY <2>1 DEF Init
  <2>4. edits <= events
    BY DEF Init
  <2>5. late \subseteq Content /\ lastEdit \in {Never} \cup 0..MaxTime
    BY DEF Init
  <2>6. closed \in BOOLEAN /\ faulty \in BOOLEAN
    BY DEF Init
  <2>7. QED
    BY <2>2, <2>3, <2>4, <2>5, <2>6 DEF Init, TypeInv, TypeOK, Tasks
<1>2. TypeInv => TypeOK
  BY DEF TypeInv
<1>3. QED
  BY <1>1, <1>2, StepKeepsTypes, PTL DEF Spec
===============================================================================
