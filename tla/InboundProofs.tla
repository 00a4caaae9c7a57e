----------------------------- MODULE InboundProofs -----------------------------
(***************************************************************************)
(* Theorems about Inbound, for any bodies and any number of requests.      *)
(*                                                                         *)
(* The proof has two layers.  Every step of a handler either suspends it   *)
(* or answers with messages that fit the item they were parsed from        *)
(* (HandlersFit, one case per action); and any such step keeps the         *)
(* invariant, whatever the other requests are doing (FittingKeepsInv).     *)
(***************************************************************************)
EXTENDS Inbound, TLAPS

Req == [body: Bodies, phase: Phases, status: {0, 200, 400, 401},
        stripped: BOOLEAN, out: Seq(SUBSET Message)]

\* What AddressingIsRight asks of one message.
MessageIsRight(m) ==
  LET i == m.item
      always == \/ i.direct \/ i.kind \in {"button", "referral"}
                \/ i.channel \in {"messenger", "whatsapp", "discord"}
                \/ i.channel = "telegram" /\ i.pointed /\ "bot_id" \in identity
  IN /\ always => m.addressed
     /\ m.addressed => always \/ i.names
     /\ m.stripped => m.addressed /\ i.suffix = "us"
     /\ m.warm /\ i.names => m.addressed /\ (m.stripped <=> i.suffix = "us")

\* The message shows that the username was known.
NeedsName(m) ==
  \/ m.stripped
  \/ m.item.channel = "telegram" /\ m.item.kind = "message"
     /\ m.addressed /\ ~m.item.direct /\ ~m.item.pointed

\* The items of the messages parsed from one item.
Items(messages) == {m.item : m \in messages}

\* A suspended handler is where it is for a reason, and no suffix was stripped before.
SuspendedForAReason ==
  \A r \in DOMAIN requests :
    LET q == requests[r]
        i == q.body[1]
    IN /\ ~q.stripped
       /\ q.phase = "acknowledge" => i.channel = "telegram" /\ i.kind = "button"
       /\ q.phase \in {"suffix", "mention"} =>
            /\ i.channel = "telegram" /\ i.kind = "message"
            /\ identity = {"bot_id", "bot_token"}
       /\ q.phase = "mention" => ~i.direct /\ ~i.pointed

\* Whoever had the name left it in the cache.
NameIsCached ==
  \A r \in DOMAIN requests : \A n \in DOMAIN requests[r].out :
    \A m \in requests[r].out[n] : NeedsName(m) => cached

InboundInv ==
  /\ TypeOK
  /\ SuspendedForAReason
  /\ NameIsCached
  /\ ReceivesInputs
  /\ AddressingIsRight

\* The request r moves on and nothing else about the requests changes.
Updated(r, phase, status, out) ==
  /\ requests' \in Seq(Req)
  /\ DOMAIN requests' = DOMAIN requests
  /\ \A q \in DOMAIN requests \ {r} : requests'[q] = requests[q]
  /\ requests'[r].body = requests[r].body
  /\ requests'[r].phase = phase
  /\ requests'[r].status = status
  /\ ~requests'[r].stripped
  /\ requests'[r].out = out

\* The handler of r waits for an answer of Telegram.
Suspends(r) ==
  LET i == ItemOf(r)
  IN \E phase \in {"acknowledge", "suffix", "mention"} :
       /\ Updated(r, phase, 0, requests[r].out)
       /\ phase = "acknowledge" => i.channel = "telegram" /\ i.kind = "button"
       /\ phase \in {"suffix", "mention"} =>
            /\ i.channel = "telegram" /\ i.kind = "message"
            /\ identity = {"bot_id", "bot_token"}
            /\ ~cached'
       /\ phase = "mention" => ~i.direct /\ ~i.pointed

\* The handler of r ends, with messages that fit the body.
Fits(r, status, out) ==
  /\ out \in Seq(SUBSET Message)
  /\ Len(out) = Len(requests[r].body)
  /\ \A n \in DOMAIN requests[r].body :
       /\ status = 200 => Items(out[n]) = {i \in {requests[r].body[n]} : IsInput(i)}
       /\ \A m \in out[n] : MessageIsRight(m) /\ (NeedsName(m) => cached')

Ends(r) ==
  \E status \in {200, 400, 401}, out \in Seq(SUBSET Message) :
    Updated(r, "done", status, out) /\ Fits(r, status, out)

\* The step of the handler of r does one or the other; the cache only fills.
FittingStep(r) ==
  /\ r \in DOMAIN requests
  /\ requests[r].phase # "done"
  /\ cached => cached'
  /\ cached' \in BOOLEAN
  /\ identity' = identity
  /\ mirror' \in [Channels -> SUBSET Emojis]
  /\ Suspends(r) \/ Ends(r)
------------------------------------------------------------------------------
\* What the types say of one request.
LEMMA RequestTypes ==
  ASSUME TypeOK, NEW r \in DOMAIN requests
  PROVE  /\ requests \in Seq(Req)
         /\ requests[r] \in Req
         /\ requests[r].body \in Bodies
         /\ requests[r].body \in Seq(Item)
         /\ DOMAIN requests[r].body # {}
         /\ 1 \in DOMAIN requests[r].body
         /\ \A n \in DOMAIN requests[r].body : requests[r].body[n] \in Item
         /\ requests[r].out \in Seq(SUBSET Message)
         /\ DOMAIN requests[r].out = DOMAIN requests[r].body
<1>1. requests \in Seq(Req)
  BY DEF TypeOK, Req
<1>2. requests[r] \in Req
  BY <1>1
<1>3. requests[r].body \in Bodies /\ requests[r].out \in Seq(SUBSET Message)
  BY <1>2 DEF Req
<1>4. requests[r].body \in Seq(Item) /\ requests[r].body # << >>
  BY <1>3, InboundAssumption
<1>5. 1 \in DOMAIN requests[r].body /\ \A n \in DOMAIN requests[r].body : requests[r].body[n] \in Item
  BY <1>4
<1>6. Len(requests[r].out) = Len(requests[r].body)
  BY DEF TypeOK
<1>7. DOMAIN requests[r].out = DOMAIN requests[r].body
  BY <1>3, <1>4, <1>6
<1> QED
  BY <1>1, <1>2, <1>3, <1>4, <1>5, <1>7

\* The three changes that handlers make to the record of a request.
Answered(q, phase, status, out) == [q EXCEPT !.phase = phase, !.status = status, !.out = out]
Awaiting(q, phase) == [q EXCEPT !.phase = phase]
AwaitingName(q, phase) == [q EXCEPT !.phase = phase, !.stripped = FALSE]

\* An answer changes the phase, the status and the messages.
LEMMA AnsweredRecord ==
  ASSUME NEW q \in Req, ~q.stripped, NEW phase \in Phases,
         NEW status \in {0, 200, 400, 401}, NEW out \in Seq(SUBSET Message)
  PROVE  LET next == Answered(q, phase, status, out)
         IN /\ next \in Req /\ next.body = q.body /\ next.phase = phase
            /\ next.status = status /\ next.out = out /\ ~next.stripped
<1> DEFINE Outs == Seq(SUBSET Message)
           Statuses == {0, 200, 400, 401}
           next == Answered(q, phase, status, out)
<1>1. /\ Req = [body: Bodies, phase: Phases, status: Statuses, stripped: BOOLEAN, out: Outs]
      /\ out \in Outs /\ status \in Statuses
  BY DEF Req
<1> HIDE DEF Outs, Statuses
<1>2. next \in Req
  BY <1>1 DEF Answered
<1>3. next.body = q.body /\ next.phase = phase /\ next.status = status /\ next.out = out
  BY <1>1 DEF Answered
<1>4. ~next.stripped
  BY <1>1 DEF Answered
<1> QED
  BY <1>2, <1>3, <1>4

\* A wait changes the phase alone.
LEMMA AwaitingRecord ==
  ASSUME NEW q \in Req, ~q.stripped, NEW phase \in Phases
  PROVE  LET next == Awaiting(q, phase)
         IN /\ next \in Req /\ next.body = q.body /\ next.phase = phase
            /\ next.status = q.status /\ next.out = q.out /\ ~next.stripped
<1> DEFINE Outs == Seq(SUBSET Message)
           Statuses == {0, 200, 400, 401}
           next == Awaiting(q, phase)
<1>1. /\ Req = [body: Bodies, phase: Phases, status: Statuses, stripped: BOOLEAN, out: Outs]
      /\ q.out \in Outs /\ q.status \in Statuses
  BY DEF Req
<1> HIDE DEF Outs, Statuses
<1>2. next \in Req
  BY <1>1 DEF Awaiting
<1>3. next.body = q.body /\ next.phase = phase /\ next.status = q.status /\ next.out = q.out
  BY <1>1 DEF Awaiting
<1>4. ~next.stripped
  BY <1>1 DEF Awaiting
<1> QED
  BY <1>2, <1>3, <1>4

\* A wait for the name, with no suffix taken off.
LEMMA AwaitingNameRecord ==
  ASSUME NEW q \in Req, ~q.stripped, NEW phase \in Phases
  PROVE  LET next == AwaitingName(q, phase)
         IN /\ next \in Req /\ next.body = q.body /\ next.phase = phase
            /\ next.status = q.status /\ next.out = q.out /\ ~next.stripped
<1> DEFINE Outs == Seq(SUBSET Message)
           Statuses == {0, 200, 400, 401}
           next == AwaitingName(q, phase)
<1>1. /\ Req = [body: Bodies, phase: Phases, status: Statuses, stripped: BOOLEAN, out: Outs]
      /\ q.out \in Outs /\ q.status \in Statuses
  BY DEF Req
<1> HIDE DEF Outs, Statuses
<1>2. next \in Req
  BY <1>1 DEF AwaitingName
<1>3. next.body = q.body /\ next.phase = phase /\ next.status = q.status /\ next.out = q.out
  BY <1>1 DEF AwaitingName
<1>4. ~next.stripped
  BY <1>1 DEF AwaitingName
<1> QED
  BY <1>2, <1>3, <1>4

\* A change of one request in place, as the handlers write it, is an update.
LEMMA ChangeUpdates ==
  ASSUME TypeOK, NEW r \in DOMAIN requests, NEW next \in Req,
         next.body = requests[r].body, ~next.stripped,
         requests' = [requests EXCEPT ![r] = next]
  PROVE  Updated(r, next.phase, next.status, next.out)
<1>1. requests \in Seq(Req)
  BY RequestTypes
<1>2. requests' \in Seq(Req) /\ DOMAIN requests' = DOMAIN requests
  BY <1>1
<1>3. requests'[r] = next /\ \A q \in DOMAIN requests \ {r} : requests'[q] = requests[q]
  BY <1>1
<1> QED
  BY <1>2, <1>3 DEF Updated

\* Answering is an update to done.
LEMMA AnswerUpdates ==
  ASSUME TypeOK, SuspendedForAReason, NEW r \in DOMAIN requests,
         NEW status \in {200, 400, 401}, NEW out \in Seq(SUBSET Message),
         Answer(r, status, out)
  PROVE  Updated(r, "done", status, out)
<1> DEFINE next == Answered(requests[r], "done", status, out)
           Outs == Seq(SUBSET Message)
           Statuses == {200, 400, 401}
<1>1. requests[r] \in Req /\ ~requests[r].stripped
  BY RequestTypes DEF SuspendedForAReason
<1>2. "done" \in Phases /\ status \in {0, 200, 400, 401}
  BY DEF Phases
<1>3. /\ next \in Req /\ next.body = requests[r].body /\ next.phase = "done"
      /\ next.status = status /\ ~next.stripped /\ next.out = out
  BY <1>1, <1>2, AnsweredRecord
<1>4. requests' = [requests EXCEPT ![r] = next]
  BY DEF Answer, Answered
<1> HIDE DEF next
<1>5. Updated(r, next.phase, next.status, next.out)
  BY <1>3, <1>4, ChangeUpdates
<1>6. next.phase = "done" /\ next.status = status /\ next.out = out
  BY <1>3
<1> QED
  BY <1>5, <1>6

\* Waiting for Telegram, the request keeps its messages and its status.
LEMMA AwaitUpdates ==
  ASSUME TypeOK, SuspendedForAReason, NEW r \in DOMAIN requests,
         requests[r].phase # "done",
         NEW phase \in {"acknowledge", "suffix", "mention"},
         \/ Await(r, phase)
         \/ requests' = [requests EXCEPT ![r].phase = phase, ![r].stripped = FALSE]
  PROVE  Updated(r, phase, 0, requests[r].out)
<1>1. requests[r] \in Req /\ ~requests[r].stripped
  BY RequestTypes DEF SuspendedForAReason
<1>2. phase \in Phases /\ requests[r].status = 0
  BY DEF Phases, TypeOK
<1>3. CASE Await(r, phase)
  <2> DEFINE next == Awaiting(requests[r], phase)
  <2>1. /\ next \in Req /\ next.body = requests[r].body /\ next.phase = phase
        /\ next.status = 0 /\ ~next.stripped /\ next.out = requests[r].out
    BY <1>1, <1>2, AwaitingRecord
  <2>2. requests' = [requests EXCEPT ![r] = next]
    BY <1>3 DEF Await, Awaiting
  <2> HIDE DEF next
  <2> QED
    BY <2>1, <2>2, ChangeUpdates
<1>4. CASE requests' = [requests EXCEPT ![r].phase = phase, ![r].stripped = FALSE]
  <2> DEFINE next == AwaitingName(requests[r], phase)
  <2>1. /\ next \in Req /\ next.body = requests[r].body /\ next.phase = phase
        /\ next.status = 0 /\ ~next.stripped /\ next.out = requests[r].out
    BY <1>1, <1>2, AwaitingNameRecord
  <2>2. requests' = [requests EXCEPT ![r] = next]
    BY <1>4 DEF AwaitingName
  <2> HIDE DEF next
  <2> QED
    BY <2>1, <2>2, ChangeUpdates
<1> QED
  BY <1>3, <1>4
------------------------------------------------------------------------------
\* What an item of a body is, field by field.
LEMMA ItemTypes ==
  ASSUME NEW i \in Item
  PROVE  /\ i.channel \in Channels
         /\ i.kind \in {"message", "button", "referral", "service", "edit", "echo",
                        "reaction", "other", "garbage"}
         /\ i.by \in {"user", "trusted", "bot"}
         /\ i.bot_id \in allowed_bot_ids \cup {"none", "unlisted"}
         /\ i.direct \in BOOLEAN
         /\ i.suffix \in {"none", "us", "neighbour"}
         /\ i.names \in BOOLEAN
         /\ i.pointed \in BOOLEAN
         /\ i.complete \in BOOLEAN
BY DEF Item

\* An item as the platforms send it, apart from the others of its body.
Plausible(i) ==
  /\ i \in Item
  /\ i.suffix = "us" => i.names
  /\ i.suffix # "none" => i.channel = "telegram" /\ i.kind = "message"
  /\ i.by = "bot" => i.kind \in {"message", "edit", "echo", "service", "other"}
  /\ i.kind = "message" =>
       IF i.channel = "slack" THEN i.bot_id = "unlisted" <=> i.by = "bot" ELSE i.by # "bot"
  /\ i.kind = "referral" => i.channel = "messenger"
  /\ i.kind = "button" => i.channel \in {"telegram", "slack", "messenger"}

\* The items of a request are plausible; Telegram's, and reactions, come alone.
LEMMA RequestItems ==
  ASSUME TypeOK, NEW r \in DOMAIN requests
  PROVE  /\ \A n \in DOMAIN requests[r].body : Plausible(requests[r].body[n])
         /\ \A n \in DOMAIN requests[r].body : requests[r].body[n].channel = ItemOf(r).channel
         /\ Plausible(ItemOf(r))
         /\ ItemOf(r).channel = "telegram" \/ ItemOf(r).kind \in {"reaction", "garbage"}
            => Len(requests[r].body) = 1
<1> DEFINE body == requests[r].body
<1>1. body \in Bodies /\ 1 \in DOMAIN body /\ \A n \in DOMAIN body : body[n] \in Item
  BY RequestTypes
<1> HIDE DEF body
<1>2. \A n \in DOMAIN body : Plausible(body[n])
  BY <1>1, InboundAssumption DEF Plausible
<1>3. \A n \in DOMAIN body : body[n].channel = body[1].channel
  BY <1>1, InboundAssumption
<1>4. body[1].channel = "telegram" \/ body[1].kind \in {"reaction", "garbage"} => Len(body) = 1
  BY <1>1, InboundAssumption
<1> QED
  BY <1>1, <1>2, <1>3, <1>4 DEF ItemOf, body

\* Without a message the body is answered right if nothing in it is an input.
LEMMA NothingFits ==
  ASSUME TypeOK, NEW r \in DOMAIN requests, NEW status \in {200, 400, 401},
         status = 200 => \A n \in DOMAIN requests[r].body : ~IsInput(requests[r].body[n])
  PROVE  /\ Nothing(requests[r].body) \in Seq(SUBSET Message)
         /\ Fits(r, status, Nothing(requests[r].body))
<1> DEFINE body == requests[r].body
           out == Nothing(body)
<1>1. body \in Seq(Item)
  BY RequestTypes
<1> HIDE DEF body
<1>2. out \in Seq(SUBSET Message) /\ Len(out) = Len(body)
  BY <1>1 DEF Nothing
<1>3. \A n \in DOMAIN body : out[n] = {}
  BY DEF Nothing
<1>4. \A n \in DOMAIN body : Items(out[n]) = {}
  BY <1>3 DEF Items
<1>5. status = 200 => \A n \in DOMAIN body : {i \in {body[n]} : IsInput(i)} = {}
  BY DEF body
<1> QED
  BY <1>2, <1>3, <1>4, <1>5 DEF Fits, body

\* Messages that are right for a body of one item are right for the body.
LEMMA SingleFits ==
  ASSUME TypeOK, NEW r \in DOMAIN requests, Len(requests[r].body) = 1,
         NEW messages \in SUBSET Message,
         Items(messages) = {i \in {ItemOf(r)} : IsInput(i)},
         \A m \in messages : MessageIsRight(m) /\ (NeedsName(m) => cached')
  PROVE  <<messages>> \in Seq(SUBSET Message) /\ Fits(r, 200, <<messages>>)
<1> DEFINE body == requests[r].body
           Right == \A m \in messages : MessageIsRight(m) /\ (NeedsName(m) => cached')
<1>1. body \in Seq(Item) /\ Len(body) = 1
  BY RequestTypes
<1>2. Right
  OBVIOUS
<1> HIDE DEF body
<1>3. DOMAIN body = {1}
  BY <1>1
<1>4. <<messages>> \in Seq(SUBSET Message) /\ Len(<<messages>>) = 1 /\ <<messages>>[1] = messages
  OBVIOUS
<1>5. Items(messages) = {i \in {body[1]} : IsInput(i)}
  BY DEF ItemOf, body
<1> QED
  BY <1>1, <1>2, <1>3, <1>4, <1>5 DEF Fits, body
------------------------------------------------------------------------------
\* A message that was parsed without waiting.
LEMMA ParsedFits ==
  ASSUME NEW i, Plausible(i), NEW addressed \in BOOLEAN,
         i.kind = "message" => i.channel # "telegram",
         (i.direct \/ i.kind \in {"button", "referral"}
            \/ i.channel \in {"messenger", "whatsapp", "discord"} \/ i.names) <=> addressed,
         i.channel = "telegram" => addressed
  PROVE  /\ Parsed(i, addressed) \in SUBSET Message
         /\ Items(Parsed(i, addressed)) = {i}
         /\ \A m \in Parsed(i, addressed) : MessageIsRight(m) /\ ~NeedsName(m)
<1> DEFINE m == [item |-> i, addressed |-> addressed, stripped |-> FALSE, warm |-> TRUE]
<1>1. Parsed(i, addressed) = {m}
  BY DEF Parsed
<1>2. m \in Message /\ m.item = i /\ m.addressed = addressed /\ ~m.stripped /\ m.warm
  BY DEF Message, Plausible
<1> HIDE DEF m
<1>3. i \in Item /\ (i.suffix = "us" => i.names)
      /\ (i.suffix # "none" => i.channel = "telegram" /\ i.kind = "message")
  BY DEF Plausible
<1>4. MessageIsRight(m)
  BY <1>2, <1>3 DEF MessageIsRight
<1>5. ~NeedsName(m)
  BY <1>2, <1>3 DEF NeedsName
<1>6. Items({m}) = {i}
  BY <1>2 DEF Items
<1> QED
  BY <1>1, <1>2, <1>4, <1>5, <1>6

\* The parsers that need not wait.
LEMMA MessagesFit ==
  ASSUME NEW i, Plausible(i), i.channel # "telegram"
  PROVE  /\ Messages(i) \in SUBSET Message
         /\ Items(Messages(i)) = {j \in {i} : IsInput(j)}
         /\ \A m \in Messages(i) : MessageIsRight(m) /\ ~NeedsName(m)
<1> DEFINE addressed == \/ i.direct \/ i.kind \in {"button", "referral"}
                        \/ i.channel \in {"messenger", "whatsapp", "discord"} \/ i.names
<1>1. i \in Item
  BY DEF Plausible
<1>2. addressed \in BOOLEAN
  OBVIOUS
<1>3. CASE IsInput(i)
  <2>1. Messages(i) = Parsed(i, addressed)
    <3>1. CASE i.channel = "slack"
      <4>1. CASE i.kind = "button"
        BY <1>3, <3>1, <4>1 DEF IsInput, Messages, SlackMessages, SlackActions
      <4>2. CASE i.kind = "message"
        <5>1. SlackAccepts(i)
          BY <1>1, <1>3, <3>1, <4>2, ItemTypes DEF IsInput, Plausible, SlackAccepts
        <5>2. addressed = (i.direct \/ i.names)
          BY <3>1, <4>2
        <5> HIDE DEF addressed
        <5> QED
          BY <3>1, <4>2, <5>1, <5>2 DEF Messages, SlackMessages
      <4> QED
        BY <1>3, <3>1, <4>1, <4>2 DEF IsInput, Plausible
    <3>2. CASE i.channel # "slack"
      <4>1. i.channel \in {"messenger", "whatsapp", "discord"}
        BY <1>1, <3>2, ItemTypes DEF Channels
      <4>2. addressed = TRUE
        BY <4>1
      <4> HIDE DEF addressed
      <4> QED
        BY <1>3, <4>1, <4>2 DEF IsInput, Plausible, Messages,
           MessengerMessages, WhatsAppMessages, DiscordMessages
    <3> QED
      BY <3>1, <3>2
  <2>2. {j \in {i} : IsInput(j)} = {i}
    BY <1>3
  <2>3. /\ Parsed(i, addressed) \in SUBSET Message
        /\ Items(Parsed(i, addressed)) = {i}
        /\ \A m \in Parsed(i, addressed) : MessageIsRight(m) /\ ~NeedsName(m)
    BY <1>2, ParsedFits
  <2> HIDE DEF addressed
  <2> QED
    BY <2>1, <2>2, <2>3
<1>4. CASE ~IsInput(i)
  <2>1. Messages(i) = {}
    <3>1. i.by \in {"user", "trusted", "bot"} /\ i.channel \in Channels
          /\ i.bot_id \in allowed_bot_ids \cup {"none", "unlisted"}
      BY <1>1, ItemTypes
    <3>2. CASE i.channel = "slack"
      <4>1. CASE i.kind = "button"
        <5>1. ~i.complete
          BY <1>4, <3>1, <3>2, <4>1 DEF IsInput, Plausible
        <5> QED
          BY <3>2, <4>1, <5>1 DEF Messages, SlackMessages, SlackActions
      <4>2. CASE i.kind = "message"
        <5>1. i.by = "bot"
          BY <1>4, <3>1, <4>2 DEF IsInput
        <5>2. ~SlackAccepts(i)
          BY <3>2, <4>2, <5>1, InboundAssumption DEF Plausible, SlackAccepts
        <5> QED
          BY <3>2, <4>2, <5>2 DEF Messages, SlackMessages
      <4> QED
        BY <3>2, <4>1, <4>2 DEF Messages, SlackMessages
    <3>3. CASE i.channel = "messenger"
      BY <1>4, <3>1, <3>3 DEF IsInput, Plausible, Messages, MessengerMessages
    <3>4. CASE i.channel \in {"whatsapp", "discord"}
      BY <1>4, <3>1, <3>4 DEF IsInput, Plausible, Messages, WhatsAppMessages, DiscordMessages
    <3> QED
      BY <3>1, <3>2, <3>3, <3>4 DEF Channels
  <2>2. Items({}) = {} /\ {j \in {i} : IsInput(j)} = {}
    BY <1>4 DEF Items
  <2> QED
    BY <2>1, <2>2
<1> QED
  BY <1>3, <1>4
------------------------------------------------------------------------------
\* The end of the parser of Telegram messages fits, if the flags it hands on are right.
LEMMA TelegramFits ==
  ASSUME TypeOK, NEW r \in DOMAIN requests,
         NEW addressed \in BOOLEAN, NEW stripped \in BOOLEAN, NEW warm \in BOOLEAN,
         MessageIsRight([item |-> ItemOf(r), addressed |-> addressed, stripped |-> stripped,
                         warm |-> warm]),
         NeedsName([item |-> ItemOf(r), addressed |-> addressed, stripped |-> stripped,
                    warm |-> warm]) => cached',
         ItemOf(r).channel = "telegram", ItemOf(r).kind = "message"
  PROVE  LET out == TelegramMessage(ItemOf(r), addressed, stripped, warm)
         IN out \in Seq(SUBSET Message) /\ Fits(r, 200, out)
<1> DEFINE i == ItemOf(r)
           m == [item |-> i, addressed |-> addressed, stripped |-> stripped, warm |-> warm]
<1>1. Plausible(i) /\ Len(requests[r].body) = 1
  BY RequestItems
<1>2. IsInput(i)
  BY <1>1, ItemTypes DEF IsInput, Plausible
<1>3. {m} \in SUBSET Message /\ m.item = i
  BY <1>1 DEF Message, Plausible
<1>4. MessageIsRight(m) /\ (NeedsName(m) => cached')
  OBVIOUS
<1>5. TelegramMessage(i, addressed, stripped, warm) = <<{m}>>
  BY DEF TelegramMessage
<1> HIDE DEF m
<1>6. Items({m}) = {j \in {i} : IsInput(j)}
  BY <1>2, <1>3 DEF Items
<1>7. \A k \in {m} : MessageIsRight(k) /\ (NeedsName(k) => cached')
  BY <1>4
<1>8. <<{m}>> \in Seq(SUBSET Message) /\ Fits(r, 200, <<{m}>>)
  BY <1>1, <1>3, <1>6, <1>7, SingleFits
<1> QED
  BY <1>5, <1>8

\* Addressing answers with a message that fits, or has a reason to ask for the name.
LEMMA AddressFits ==
  ASSUME TypeOK, SuspendedForAReason, NEW r \in DOMAIN requests, requests[r].phase # "done",
         ItemOf(r).channel = "telegram", ItemOf(r).kind = "message",
         identity' = identity, cached' \in BOOLEAN,
         NEW stripped \in BOOLEAN, NEW warm \in BOOLEAN,
         stripped => cached' /\ ItemOf(r).suffix = "us",
         warm => cached' /\ (stripped <=> ItemOf(r).suffix = "us"),
         Address(r, stripped, warm)
  PROVE  Suspends(r) \/ Ends(r)
<1> DEFINE i == ItemOf(r)
           m(addressed) ==
             [item |-> i, addressed |-> addressed, stripped |-> stripped, warm |-> warm]
           pointed == i.direct \/ ("bot_id" \in identity /\ i.pointed)
<1>1. Plausible(i)
  BY RequestItems
<1>2. /\ i.direct \in BOOLEAN /\ i.pointed \in BOOLEAN /\ i.names \in BOOLEAN
      /\ i.suffix = "us" => i.names
  BY <1>1, ItemTypes DEF Plausible
<1>3. \A addressed \in BOOLEAN :
        /\ m(addressed).item = i /\ m(addressed).addressed = addressed
        /\ m(addressed).stripped = stripped /\ m(addressed).warm = warm
  OBVIOUS
<1>4. ASSUME NEW addressed \in BOOLEAN, MessageIsRight(m(addressed)),
             NeedsName(m(addressed)) => cached',
             Answer(r, 200, TelegramMessage(i, addressed, stripped, warm))
      PROVE  Ends(r)
  <2> DEFINE out == TelegramMessage(i, addressed, stripped, warm)
  <2>1. out \in Seq(SUBSET Message) /\ Fits(r, 200, out)
    BY <1>4, TelegramFits
  <2>2. Answer(r, 200, out)
    BY <1>4
  <2> HIDE DEF out, m
  <2>3. Updated(r, "done", 200, out)
    BY <2>1, <2>2, AnswerUpdates
  <2> QED
    BY <2>1, <2>3 DEF Ends
<1>5. CASE pointed
  <2>1. Answer(r, 200, TelegramMessage(i, TRUE, stripped, warm))
    BY <1>5 DEF Address
  <2> HIDE DEF m
  <2>2. MessageIsRight(m(TRUE))
    BY <1>2, <1>3, <1>5 DEF MessageIsRight
  <2>3. NeedsName(m(TRUE)) => cached'
    BY <1>3, <1>5 DEF NeedsName
  <2> QED
    BY <1>4, <2>1, <2>2, <2>3
<1>6. CASE ~pointed /\ MustAsk'
  <2>1. requests' = [requests EXCEPT ![r].phase = "mention", ![r].stripped = stripped]
    BY <1>6 DEF Address
  <2>2. identity = {"bot_id", "bot_token"} /\ ~cached'
    BY <1>6 DEF MustAsk
  <2>3. stripped = FALSE
    BY <2>2
  <2>4. requests' = [requests EXCEPT ![r].phase = "mention", ![r].stripped = FALSE]
    BY <2>1, <2>3
  <2>5. Updated(r, "mention", 0, requests[r].out)
    BY <2>4, AwaitUpdates
  <2>6. ~i.direct /\ ~i.pointed
    BY <1>6, <2>2
  <2> QED
    BY <2>2, <2>5, <2>6 DEF Suspends
<1>7. CASE ~pointed /\ ~MustAsk'
  <2>1. Answer(r, 200, TelegramMessage(i, cached' /\ i.names, stripped, warm))
    BY <1>7 DEF Address
  <2> DEFINE addressed == cached' /\ i.names
  <2>2. addressed \in BOOLEAN
    OBVIOUS
  <2> HIDE DEF m
  <2>3. /\ m(addressed).item = i /\ (m(addressed).addressed <=> addressed)
        /\ m(addressed).stripped = stripped /\ m(addressed).warm = warm
    BY <1>3, <2>2
  <2>4. MessageIsRight(m(addressed))
    BY <1>2, <1>7, <2>3 DEF MessageIsRight
  <2>5. NeedsName(m(addressed)) => cached'
    BY <2>3 DEF NeedsName
  <2> QED
    BY <1>4, <2>1, <2>2, <2>4, <2>5
<1> QED
  BY <1>5, <1>6, <1>7
------------------------------------------------------------------------------
\* Every step of a handler suspends it for a reason or answers with what fits the body.
LEMMA HandlersFit ==
  ASSUME InboundInv, NEW r \in DOMAIN requests, Handle(r)
  PROVE  FittingStep(r)
<1> DEFINE i == ItemOf(r)
           body == requests[r].body
<1>1. TypeOK /\ SuspendedForAReason /\ cached \in BOOLEAN
      /\ mirror \in [Channels -> SUBSET Emojis]
  BY DEF InboundInv, TypeOK
<1>2. /\ \A n \in DOMAIN body : Plausible(body[n]) /\ body[n].channel = i.channel
      /\ Plausible(i)
      /\ i.channel = "telegram" \/ i.kind \in {"reaction", "garbage"} => Len(body) = 1
  BY <1>1, RequestItems
<1>3. i.complete \in BOOLEAN /\ i.suffix \in {"none", "us", "neighbour"} /\ i.names \in BOOLEAN
      /\ i.direct \in BOOLEAN /\ i.pointed \in BOOLEAN /\ i.channel \in Channels
      /\ i.kind \in {"message", "button", "referral", "service", "edit", "echo",
                     "reaction", "other", "garbage"}
  BY <1>2, ItemTypes DEF Plausible
<1>4. /\ ~requests[r].stripped
      /\ requests[r].phase = "acknowledge" => i.channel = "telegram" /\ i.kind = "button"
      /\ requests[r].phase \in {"suffix", "mention"} =>
           /\ i.channel = "telegram" /\ i.kind = "message"
           /\ identity = {"bot_id", "bot_token"}
      /\ requests[r].phase = "mention" => ~i.direct /\ ~i.pointed
  BY <1>1 DEF SuspendedForAReason, ItemOf
\* What is left to show of the disjuncts: how the handler goes on, and the shared state.
<1>5. ASSUME requests[r].phase # "done", identity' = identity,
             cached => cached', cached' \in BOOLEAN,
             mirror' \in [Channels -> SUBSET Emojis],
             Suspends(r) \/ Ends(r)
      PROVE  FittingStep(r)
  BY <1>5 DEF FittingStep
\* The handler answers; out fits.
<1>6. ASSUME NEW status \in {200, 400, 401}, NEW out \in Seq(SUBSET Message),
             Answer(r, status, out), Fits(r, status, out)
      PROVE  Ends(r)
  <2>1. Updated(r, "done", status, out)
    BY <1>1, <1>6, AnswerUpdates
  <2> QED
    BY <1>6, <2>1 DEF Ends
<1>7. ASSUME NEW status \in {200, 400, 401}, Answer(r, status, Nothing(body)),
             status = 200 => \A n \in DOMAIN body : ~IsInput(body[n])
      PROVE  Ends(r)
  <2>1. Nothing(body) \in Seq(SUBSET Message) /\ Fits(r, status, Nothing(body))
    BY <1>1, <1>7, NothingFits
  <2> QED
    BY <1>6, <1>7, <2>1
\* A body of one item that is not an input.
<1>8. ASSUME Len(body) = 1, ~IsInput(i)
      PROVE  \A n \in DOMAIN body : ~IsInput(body[n])
  <2>1. body \in Seq(Item)
    BY <1>1, RequestTypes
  <2>2. DOMAIN body = {1}
    BY <1>8, <2>1
  <2> QED
    BY <1>8, <2>2 DEF ItemOf
\* A tapped button of Telegram, acknowledged or not.
<1>9. ASSUME Answer(r, 200, <<Parsed(i, TRUE)>>), i.channel = "telegram", i.kind = "button"
      PROVE  Ends(r)
  <2>1. /\ Parsed(i, TRUE) \in SUBSET Message /\ Items(Parsed(i, TRUE)) = {i}
        /\ \A m \in Parsed(i, TRUE) : MessageIsRight(m) /\ ~NeedsName(m)
    BY <1>2, <1>9, ParsedFits
  <2>2. IsInput(i)
    BY <1>2, <1>9, ItemTypes DEF IsInput, Plausible
  <2>3. Items(Parsed(i, TRUE)) = {j \in {i} : IsInput(j)}
    BY <2>1, <2>2
  <2>4. <<Parsed(i, TRUE)>> \in Seq(SUBSET Message) /\ Fits(r, 200, <<Parsed(i, TRUE)>>)
    BY <1>1, <1>2, <1>9, <2>1, <2>3, SingleFits
  <2> QED
    BY <1>6, <1>9, <2>4
<1> HIDE DEF i, body
<1>a. CASE Reject(r)
  BY <1>1, <1>5, <1>7, <1>a DEF Reject, Request, body
<1>b. CASE RefuseBody(r)
  BY <1>1, <1>5, <1>7, <1>b DEF RefuseBody, Request, body
<1>c. CASE ParseReaction(r)
  <2>1. i.kind = "reaction" /\ requests[r].phase = "received"
        /\ Answer(r, 200, Nothing(body)) /\ identity' = identity /\ cached' = cached
    BY <1>c DEF ParseReaction, Request, i, body
  <2>2. Ends(r)
    BY <1>2, <1>7, <1>8, <2>1 DEF IsInput
  <2>3. mirror' \in [Channels -> SUBSET Emojis]
    <3> DEFINE events == ReactionEvents(i)
    <3>1. mirror' = [mirror EXCEPT ![i.channel] = (@ \cup events.added) \ events.removed]
      BY <1>c DEF ParseReaction, i
    <3>2. events.added \in SUBSET Emojis
      BY <1>2 DEF ReactionEvents, Plausible, Item
    <3> HIDE DEF events
    <3>3. (mirror[i.channel] \cup events.added) \ events.removed \in SUBSET Emojis
      BY <1>1, <1>3, <3>2
    <3> QED
      BY <1>1, <1>3, <3>1, <3>3
  <2> QED
    BY <1>1, <1>5, <2>1, <2>2, <2>3
<1>d. CASE IgnoreGatewayReaction(r)
  <2>1. i.kind = "reaction" /\ requests[r].phase = "received"
        /\ Answer(r, 200, Nothing(body)) /\ UNCHANGED <<identity, cached, mirror>>
    BY <1>d DEF IgnoreGatewayReaction, AtGateway, Request, i, body
  <2>2. Ends(r)
    BY <1>2, <1>7, <1>8, <2>1 DEF IsInput
  <2> QED
    BY <1>1, <1>5, <2>1, <2>2
<1>e. CASE ParseBatch(r)
  <2> DEFINE out == [n \in DOMAIN body |-> Messages(body[n])]
  <2>1. i.channel # "telegram" /\ requests[r].phase = "received"
        /\ Answer(r, 200, out) /\ UNCHANGED <<identity, cached, mirror>>
    BY <1>e DEF ParseBatch, Request, i, body
  <2>2. \A n \in DOMAIN body :
          /\ Messages(body[n]) \in SUBSET Message
          /\ Items(Messages(body[n])) = {j \in {body[n]} : IsInput(j)}
          /\ \A m \in Messages(body[n]) : MessageIsRight(m) /\ ~NeedsName(m)
    BY <1>2, <2>1, MessagesFit
  <2>3. body \in Seq(Item)
    BY <1>1, RequestTypes DEF body
  <2>4. out \in Seq(SUBSET Message) /\ Len(out) = Len(body)
    BY <2>2, <2>3
  <2>5. \A n \in DOMAIN body : out[n] = Messages(body[n])
    OBVIOUS
  <2> HIDE DEF out
  <2>6. Fits(r, 200, out)
    BY <2>2, <2>4, <2>5 DEF Fits, body
  <2>7. Ends(r)
    BY <1>6, <2>1, <2>4, <2>6
  <2> QED
    BY <1>1, <1>5, <2>1, <2>7
<1>f. CASE ParseCallback(r)
  <2>1. i.channel = "telegram" /\ i.kind = "button" /\ requests[r].phase = "received"
        /\ UNCHANGED <<identity, cached, mirror>>
    BY <1>f DEF ParseCallback, Request, i
  <2>2. CASE Await(r, "acknowledge")
    <3>1. Updated(r, "acknowledge", 0, requests[r].out)
      BY <1>1, <2>1, <2>2, AwaitUpdates
    <3> QED
      BY <1>1, <1>5, <2>1, <3>1 DEF Suspends, i
  <2>3. CASE Answer(r, 200, <<Parsed(i, TRUE)>>)
    BY <1>1, <1>5, <1>9, <2>1, <2>3
  <2> QED
    BY <1>f, <2>2, <2>3 DEF ParseCallback, i
<1>g. CASE FinishAcknowledge(r)
  <2>1. requests[r].phase = "acknowledge" /\ UNCHANGED <<identity, cached, mirror>>
        /\ Answer(r, 200, <<Parsed(i, TRUE)>>)
    BY <1>g DEF FinishAcknowledge, Request, i
  <2> QED
    BY <1>1, <1>4, <1>5, <1>9, <2>1
<1>h. CASE SkipUpdate(r)
  <2>1. i.channel = "telegram" /\ i.kind \in {"service", "other"}
        /\ requests[r].phase = "received"
        /\ Answer(r, 200, Nothing(body)) /\ UNCHANGED <<identity, cached, mirror>>
    BY <1>h DEF SkipUpdate, Request, i, body
  <2>2. Ends(r)
    BY <1>2, <1>7, <1>8, <2>1 DEF IsInput
  <2> QED
    BY <1>1, <1>5, <2>1, <2>2
<1>i. CASE ParseUpdate(r)
  <2>1. i.channel = "telegram" /\ i.kind = "message" /\ requests[r].phase = "received"
        /\ UNCHANGED <<identity, cached, mirror>>
    BY <1>i DEF ParseUpdate, Request, i
  <2>2. CASE MustAsk /\ Await(r, "suffix")
    <3>1. Updated(r, "suffix", 0, requests[r].out)
      BY <1>1, <2>1, <2>2, AwaitUpdates
    <3> QED
      BY <1>1, <1>5, <2>1, <2>2, <3>1 DEF Suspends, MustAsk, i
  <2>3. CASE Address(r, cached /\ i.suffix = "us", cached)
    <3> DEFINE stripped == cached /\ i.suffix = "us"
    <3>1. /\ stripped \in BOOLEAN /\ (stripped => cached /\ i.suffix = "us")
          /\ cached => (stripped <=> i.suffix = "us")
      OBVIOUS
    <3>2. Address(r, stripped, cached)
      BY <2>3
    <3> HIDE DEF stripped
    <3>3. Suspends(r) \/ Ends(r)
      BY <1>1, <2>1, <3>1, <3>2, AddressFits DEF i
    <3> QED
      BY <1>1, <1>5, <2>1, <3>3
  <2> QED
    BY <1>i, <2>2, <2>3 DEF ParseUpdate, i
<1>j. ASSUME NEW ok \in BOOLEAN, FinishSuffix(r, ok)
      PROVE  FittingStep(r)
  <2> DEFINE stripped == ok /\ i.suffix = "us"
  <2>1. requests[r].phase = "suffix" /\ identity' = identity /\ mirror' = mirror
        /\ cached' \in BOOLEAN /\ (cached => cached') /\ (ok => cached')
    BY <1>1, <1>j DEF FinishSuffix, Request
  <2>2. Address(r, stripped, FALSE)
    BY <1>j DEF FinishSuffix, i
  <2>3. stripped \in BOOLEAN /\ (stripped => cached' /\ i.suffix = "us")
    BY <2>1
  <2> HIDE DEF stripped
  <2>4. Suspends(r) \/ Ends(r)
    BY <1>1, <1>4, <2>1, <2>2, <2>3, AddressFits DEF i
  <2> QED
    BY <1>1, <1>5, <2>1, <2>4
<1>k. ASSUME NEW ok \in BOOLEAN, FinishMention(r, ok)
      PROVE  FittingStep(r)
  <2> DEFINE addressed == ok /\ i.names
             m == [item |-> i, addressed |-> addressed, stripped |-> FALSE, warm |-> FALSE]
             out == TelegramMessage(i, addressed, FALSE, FALSE)
  <2>1. requests[r].phase = "mention" /\ identity' = identity /\ mirror' = mirror
        /\ cached' \in BOOLEAN /\ (cached => cached') /\ (ok => cached')
    BY <1>1, <1>k DEF FinishMention, Request
  <2>2. requests[r].stripped = FALSE
    <3>1. requests[r].stripped \in BOOLEAN
      BY <1>1, RequestTypes DEF Req
    <3> QED
      BY <1>4, <3>1
  <2>3. Answer(r, 200, out)
    BY <1>k, <2>2 DEF FinishMention, Request, i
  <2>4. addressed \in BOOLEAN /\ (addressed => i.names) /\ (addressed => cached')
    BY <2>1
  <2>5. i.channel = "telegram" /\ i.kind = "message" /\ ~i.direct /\ ~i.pointed
    BY <1>4, <2>1
  <2> HIDE DEF addressed
  <2>6. m.item = i /\ m.addressed = addressed /\ ~m.stripped /\ ~m.warm
    OBVIOUS
  <2>7. MessageIsRight(m)
    <3> HIDE DEF m
    <3> QED
      BY <2>4, <2>5, <2>6 DEF MessageIsRight
  <2>8. NeedsName(m) => cached'
    <3> HIDE DEF m
    <3> QED
      BY <2>4, <2>6 DEF NeedsName
  <2>9. out \in Seq(SUBSET Message) /\ Fits(r, 200, out)
    BY <1>1, <2>4, <2>5, <2>7, <2>8, TelegramFits DEF i
  <2> HIDE DEF out
  <2>10. Ends(r)
    BY <1>6, <2>3, <2>9
  <2> QED
    BY <1>1, <1>5, <2>1, <2>10
<1> QED
  BY <1>a, <1>b, <1>c, <1>d, <1>e, <1>f, <1>g, <1>h, <1>i, <1>j, <1>k DEF Handle
------------------------------------------------------------------------------
\* The inputs of one item: itself or nothing.
Inputs(i) == {j \in {i} : IsInput(j)}

\* What a fitting step, of either kind, says of the request that took it.
Moves(r, phase, status, out) ==
  /\ Updated(r, phase, status, out)
  /\ status = 0 <=> phase # "done"
  /\ Len(out) = Len(requests[r].body)
  /\ phase = "acknowledge" => ItemOf(r).channel = "telegram" /\ ItemOf(r).kind = "button"
  /\ phase \in {"suffix", "mention"} =>
       /\ ItemOf(r).channel = "telegram" /\ ItemOf(r).kind = "message"
       /\ identity = {"bot_id", "bot_token"}
       /\ ~cached'
  /\ phase = "mention" => ~ItemOf(r).direct /\ ~ItemOf(r).pointed
  /\ \A n \in DOMAIN out : \A m \in out[n] : MessageIsRight(m) /\ (NeedsName(m) => cached')
  /\ status = 200 => \A n \in DOMAIN requests[r].body : Items(out[n]) = Inputs(requests[r].body[n])

\* A handler that suspends or ends moves so.
LEMMA FittingRequest ==
  ASSUME InboundInv, NEW r, FittingStep(r)
  PROVE  \E phase \in Phases, status \in {0, 200, 400, 401}, out \in Seq(SUBSET Message) :
           Moves(r, phase, status, out)
<1>1. TypeOK /\ r \in DOMAIN requests /\ (cached => cached')
  BY DEF InboundInv, FittingStep
<1>2. /\ requests[r].out \in Seq(SUBSET Message)
      /\ Len(requests[r].out) = Len(requests[r].body)
      /\ requests[r].body \in Seq(Item)
  BY <1>1, RequestTypes DEF TypeOK
<1>3. CASE Suspends(r)
  <2>1. PICK phase \in {"acknowledge", "suffix", "mention"} :
          /\ Updated(r, phase, 0, requests[r].out)
          /\ phase = "acknowledge" => ItemOf(r).channel = "telegram" /\ ItemOf(r).kind = "button"
          /\ phase \in {"suffix", "mention"} =>
               /\ ItemOf(r).channel = "telegram" /\ ItemOf(r).kind = "message"
               /\ identity = {"bot_id", "bot_token"}
               /\ ~cached'
          /\ phase = "mention" => ~ItemOf(r).direct /\ ~ItemOf(r).pointed
    BY <1>3 DEF Suspends
  <2>2. \A n \in DOMAIN requests[r].out : \A m \in requests[r].out[n] :
          MessageIsRight(m) /\ (NeedsName(m) => cached')
    BY <1>1 DEF InboundInv, AddressingIsRight, NameIsCached, MessageIsRight
  <2>3. phase \in Phases /\ phase # "done"
    BY DEF Phases
  <2> QED
    <3>1. Moves(r, phase, 0, requests[r].out)
      BY <1>2, <2>1, <2>2, <2>3 DEF Moves
    <3> QED
      BY <1>2, <2>3, <3>1
<1>4. CASE Ends(r)
  <2>1. PICK status \in {200, 400, 401}, out \in Seq(SUBSET Message) :
          Updated(r, "done", status, out) /\ Fits(r, status, out)
    BY <1>4 DEF Ends
  <2>2. Len(out) = Len(requests[r].body) /\ DOMAIN out = DOMAIN requests[r].body
    BY <1>2, <2>1 DEF Fits
  <2>3. /\ \A n \in DOMAIN out : \A m \in out[n] :
             MessageIsRight(m) /\ (NeedsName(m) => cached')
        /\ status = 200 => \A n \in DOMAIN requests[r].body :
             Items(out[n]) = Inputs(requests[r].body[n])
    BY <2>1, <2>2 DEF Fits, Inputs
  <2>4. "done" \in Phases /\ status # 0 /\ status \in {0, 200, 400, 401}
    BY DEF Phases
  <2> QED
    <3>1. Moves(r, "done", status, out)
      BY <2>1, <2>2, <2>3, <2>4 DEF Moves
    <3> QED
      BY <2>1, <2>4, <3>1
<1> QED
  BY <1>3, <1>4 DEF FittingStep

\* A fitting step of one handler keeps the invariant, for the other requests too: they are
\* as they were, and the name they relied on is still in the cache.
LEMMA FittingKeepsInv ==
  ASSUME InboundInv, NEW r, FittingStep(r)
  PROVE  InboundInv'
<1>1. /\ TypeOK /\ SuspendedForAReason /\ NameIsCached /\ ReceivesInputs /\ AddressingIsRight
      /\ r \in DOMAIN requests /\ (cached => cached') /\ cached' \in BOOLEAN
      /\ identity' = identity /\ mirror' \in [Channels -> SUBSET Emojis]
  BY DEF InboundInv, FittingStep
<1>2. PICK phase \in Phases, status \in {0, 200, 400, 401}, out \in Seq(SUBSET Message) :
        Moves(r, phase, status, out)
  BY FittingRequest
<1>3. /\ status = 0 <=> phase # "done"
      /\ Len(out) = Len(requests[r].body)
      /\ phase = "acknowledge" => ItemOf(r).channel = "telegram" /\ ItemOf(r).kind = "button"
      /\ phase \in {"suffix", "mention"} =>
           /\ ItemOf(r).channel = "telegram" /\ ItemOf(r).kind = "message"
           /\ identity = {"bot_id", "bot_token"}
      /\ phase = "mention" => ~ItemOf(r).direct /\ ~ItemOf(r).pointed
      /\ \A n \in DOMAIN out : \A m \in out[n] : MessageIsRight(m) /\ (NeedsName(m) => cached')
      /\ status = 200 =>
           \A n \in DOMAIN requests[r].body : Items(out[n]) = Inputs(requests[r].body[n])
  BY <1>2 DEF Moves
<1>4. /\ requests' \in Seq(Req) /\ DOMAIN requests' = DOMAIN requests
      /\ \A q \in DOMAIN requests : q # r => requests'[q] = requests[q]
      /\ requests'[r].body = requests[r].body /\ requests'[r].phase = phase
      /\ requests'[r].status = status /\ ~requests'[r].stripped /\ requests'[r].out = out
  BY <1>2 DEF Moves, Updated
<1>5. TypeOK'
  <2>1. \A q \in DOMAIN requests' :
          /\ requests'[q].status = 0 <=> requests'[q].phase # "done"
          /\ Len(requests'[q].out) = Len(requests'[q].body)
    <3> SUFFICES ASSUME NEW q \in DOMAIN requests
                 PROVE  /\ requests'[q].status = 0 <=> requests'[q].phase # "done"
                        /\ Len(requests'[q].out) = Len(requests'[q].body)
      BY <1>4
    <3>1. CASE q = r
      BY <1>3, <1>4, <3>1
    <3>2. CASE q # r
      BY <1>1, <1>4, <3>2 DEF TypeOK
    <3> QED
      BY <3>1, <3>2
  <2> QED
    BY <1>1, <1>4, <2>1 DEF TypeOK, Req
<1>6. SuspendedForAReason'
  <2> SUFFICES ASSUME NEW q \in DOMAIN requests
               PROVE  /\ ~requests'[q].stripped
                      /\ requests'[q].phase = "acknowledge" =>
                           /\ requests'[q].body[1].channel = "telegram"
                           /\ requests'[q].body[1].kind = "button"
                      /\ requests'[q].phase \in {"suffix", "mention"} =>
                           /\ requests'[q].body[1].channel = "telegram"
                           /\ requests'[q].body[1].kind = "message"
                           /\ identity' = {"bot_id", "bot_token"}
                      /\ requests'[q].phase = "mention" =>
                           ~requests'[q].body[1].direct /\ ~requests'[q].body[1].pointed
    BY <1>4 DEF SuspendedForAReason
  <2>1. CASE q = r
    BY <1>1, <1>3, <1>4, <2>1 DEF ItemOf
  <2>2. CASE q # r
    BY <1>1, <1>4, <2>2 DEF SuspendedForAReason
  <2> QED
    BY <2>1, <2>2
<1>7. NameIsCached'
  <2> SUFFICES ASSUME NEW q \in DOMAIN requests, NEW n \in DOMAIN requests'[q].out,
                      NEW m \in requests'[q].out[n], NeedsName(m)
               PROVE  cached'
    BY <1>4 DEF NameIsCached, NeedsName
  <2>1. CASE q = r
    BY <1>3, <1>4, <2>1
  <2>2. CASE q # r
    BY <1>1, <1>4, <2>2 DEF NameIsCached
  <2> QED
    BY <2>1, <2>2
<1>8. ReceivesInputs'
  <2> SUFFICES ASSUME NEW q \in DOMAIN requests, requests'[q].status = 200,
                      NEW n \in DOMAIN requests'[q].body
               PROVE  Items(requests'[q].out[n])
                        = Inputs(requests'[q].body[n])
    BY <1>4 DEF ReceivesInputs, Items, Inputs, IsInput
  <2>1. CASE q = r
    BY <1>3, <1>4, <2>1
  <2>2. CASE q # r
    BY <1>1, <1>4, <2>2 DEF ReceivesInputs, Items, Inputs
  <2> QED
    BY <2>1, <2>2
<1>9. AddressingIsRight'
  <2> SUFFICES ASSUME NEW q \in DOMAIN requests, NEW n \in DOMAIN requests'[q].out,
                      NEW m \in requests'[q].out[n]
               PROVE  MessageIsRight(m)
    BY <1>1, <1>4 DEF AddressingIsRight, MessageIsRight
  <2>1. CASE q = r
    BY <1>3, <1>4, <2>1
  <2>2. CASE q # r
    BY <1>1, <1>4, <2>2 DEF AddressingIsRight, MessageIsRight
  <2> QED
    BY <2>1, <2>2
<1> QED
  BY <1>5, <1>6, <1>7, <1>8, <1>9 DEF InboundInv

\* A request that has just been delivered has no messages and waits for nothing.
LEMMA DeliverKeepsInv ==
  ASSUME InboundInv, NEW body \in Bodies, Deliver(body)
  PROVE  InboundInv'
<1> DEFINE new == [body |-> body, phase |-> "received", status |-> 0,
                   stripped |-> FALSE, out |-> Nothing(body)]
           r == Len(requests) + 1
<1>1. /\ requests' = Append(requests, new) /\ identity' = identity /\ cached' = cached
      /\ mirror' = mirror
  BY DEF Deliver
<1>2. /\ TypeOK /\ SuspendedForAReason /\ NameIsCached /\ ReceivesInputs /\ AddressingIsRight
      /\ requests \in Seq(Req)
  BY DEF InboundInv, TypeOK, Req
<1>3. /\ Nothing(body) \in Seq(SUBSET Message) /\ Len(Nothing(body)) = Len(body)
      /\ \A n \in DOMAIN Nothing(body) : Nothing(body)[n] = {}
  <2>1. body \in Seq(Item)
    BY InboundAssumption
  <2> QED
    BY <2>1 DEF Nothing
<1>4. /\ new \in Req /\ new.body = body /\ new.phase = "received" /\ new.status = 0
      /\ ~new.stripped /\ new.out = Nothing(body)
  <2> DEFINE Outs == Seq(SUBSET Message)
             out == Nothing(body)
  <2>1. Req = [body: Bodies, phase: Phases, status: {0, 200, 400, 401}, stripped: BOOLEAN,
               out: Outs]
    BY DEF Req
  <2>2. out \in Outs /\ "received" \in Phases
    BY <1>3 DEF Phases
  <2> HIDE DEF Outs, out
  <2>3. [body |-> body, phase |-> "received", status |-> 0, stripped |-> FALSE, out |-> out] \in Req
    BY <2>1, <2>2
  <2> QED
    BY <2>3 DEF out
<1> HIDE DEF new
<1>5. /\ requests' \in Seq(Req) /\ DOMAIN requests' = DOMAIN requests \cup {r}
      /\ requests'[r] = new
      /\ \A q \in DOMAIN requests : requests'[q] = requests[q]
  BY <1>1, <1>2, <1>4
<1> HIDE DEF r
<1>6. TypeOK'
  <2>1. \A q \in DOMAIN requests' :
          /\ requests'[q].status = 0 <=> requests'[q].phase # "done"
          /\ Len(requests'[q].out) = Len(requests'[q].body)
    BY <1>2, <1>3, <1>4, <1>5 DEF TypeOK
  <2> QED
    BY <1>1, <1>2, <1>5, <2>1 DEF TypeOK, Req
<1>7. SuspendedForAReason'
  <2> SUFFICES ASSUME NEW q \in DOMAIN requests'
               PROVE  /\ ~requests'[q].stripped
                      /\ requests'[q].phase = "acknowledge" =>
                           /\ requests'[q].body[1].channel = "telegram"
                           /\ requests'[q].body[1].kind = "button"
                      /\ requests'[q].phase \in {"suffix", "mention"} =>
                           /\ requests'[q].body[1].channel = "telegram"
                           /\ requests'[q].body[1].kind = "message"
                           /\ identity' = {"bot_id", "bot_token"}
                      /\ requests'[q].phase = "mention" =>
                           ~requests'[q].body[1].direct /\ ~requests'[q].body[1].pointed
    BY DEF SuspendedForAReason
  <2>1. CASE q = r
    BY <1>4, <1>5, <2>1
  <2>2. CASE q \in DOMAIN requests
    BY <1>1, <1>2, <1>5, <2>2 DEF SuspendedForAReason
  <2> QED
    BY <1>5, <2>1, <2>2
<1>8. /\ \A q \in DOMAIN requests' : q # r => q \in DOMAIN requests /\ requests'[q] = requests[q]
      /\ requests'[r].status = 0
      /\ \A n \in DOMAIN requests'[r].out : requests'[r].out[n] = {}
  BY <1>3, <1>4, <1>5
<1>9. NameIsCached'
  <2> SUFFICES ASSUME NEW q \in DOMAIN requests', NEW n \in DOMAIN requests'[q].out,
                      NEW m \in requests'[q].out[n], NeedsName(m)
               PROVE  cached'
    BY DEF NameIsCached, NeedsName
  <2> QED
    BY <1>1, <1>2, <1>8 DEF NameIsCached
<1>10. ReceivesInputs'
  <2> SUFFICES ASSUME NEW q \in DOMAIN requests', requests'[q].status = 200,
                      NEW n \in DOMAIN requests'[q].body
               PROVE  Items(requests'[q].out[n]) = Inputs(requests'[q].body[n])
    BY DEF ReceivesInputs, Items, Inputs, IsInput
  <2>1. q # r
    BY <1>8
  <2> QED
    BY <1>2, <1>8, <2>1 DEF ReceivesInputs, Items, Inputs
<1>11. AddressingIsRight'
  <2> SUFFICES ASSUME NEW q \in DOMAIN requests', NEW n \in DOMAIN requests'[q].out,
                      NEW m \in requests'[q].out[n]
               PROVE  MessageIsRight(m)
    BY <1>1 DEF AddressingIsRight, MessageIsRight
  <2> QED
    BY <1>2, <1>8 DEF AddressingIsRight, MessageIsRight
<1> QED
  BY <1>6, <1>7, <1>9, <1>10, <1>11 DEF InboundInv

\* A step that changes nothing.
LEMMA StutterKeepsInv ==
  ASSUME InboundInv, UNCHANGED vars
  PROVE  InboundInv'
<1>1. requests' = requests /\ identity' = identity /\ cached' = cached /\ mirror' = mirror
  BY DEF vars
<1>2. TypeOK'
  BY <1>1 DEF InboundInv, TypeOK
<1>3. SuspendedForAReason' /\ NameIsCached'
  BY <1>1 DEF InboundInv, SuspendedForAReason, NameIsCached, NeedsName
<1>4. ReceivesInputs'
  BY <1>1 DEF InboundInv, ReceivesInputs, IsInput
<1>5. AddressingIsRight'
  BY <1>1 DEF InboundInv, AddressingIsRight
<1> QED
  BY <1>2, <1>3, <1>4, <1>5 DEF InboundInv

\* The invariant of all handlers and the cache they share.
THEOREM InboundIsRight == Spec => []InboundInv
<1>1. Init => InboundInv
  <2> SUFFICES ASSUME Init PROVE InboundInv
    OBVIOUS
  <2>1. requests = << >> /\ DOMAIN requests = {}
    BY DEF Init
  <2>2. TypeOK
    BY <2>1 DEF Init, TypeOK
  <2>3. SuspendedForAReason /\ NameIsCached /\ ReceivesInputs /\ AddressingIsRight
    BY <2>1 DEF SuspendedForAReason, NameIsCached, ReceivesInputs, AddressingIsRight
  <2> QED
    BY <2>2, <2>3 DEF InboundInv
<1>2. InboundInv /\ [Next]_vars => InboundInv'
  BY HandlersFit, FittingKeepsInv, DeliverKeepsInv, StutterKeepsInv DEF Next
<1> QED
  BY <1>1, <1>2, PTL DEF Spec

\* Every variable keeps its type, and a request has a status exactly when its handler ended.
THEOREM TypeCorrect == Spec => []TypeOK
<1>1. InboundInv => TypeOK
  BY DEF InboundInv
<1> QED
  BY <1>1, InboundIsRight, PTL

\* An accepted request yields its inputs, each once, and nothing the bot did: the parsers'
\* filters in slack, messenger, whatsapp, discord and telegram.
THEOREM InputsAreReceived == Spec => []ReceivesInputs
<1>1. InboundInv => ReceivesInputs
  BY DEF InboundInv
<1> QED
  BY <1>1, InboundIsRight, PTL

\* A message is addressed to the bot for a reason, and a suffix is taken only from its own
\* command, however the getMe calls of concurrent requests interleave and fail.
THEOREM AddressingHolds == Spec => []AddressingIsRight
<1>1. InboundInv => AddressingIsRight
  BY DEF InboundInv
<1> QED
  BY <1>1, InboundIsRight, PTL

\* Once a request had the username, no request goes on to ask for it (bot_username).
THEOREM OneResolution == Spec => OneResolutionServes
<1> DEFINE Step == \A r \in DOMAIN requests :
                     /\ requests'[r].phase \in {"suffix", "mention"}
                     /\ requests'[r].phase # requests[r].phase
                     => ~Resolved'
<1>1. InboundInv => (Resolved => cached)
  BY DEF InboundInv, SuspendedForAReason, NameIsCached, NeedsName, Resolved
<1>2. InboundInv /\ InboundInv' /\ [Next]_vars => [Step]_vars
  <2> SUFFICES ASSUME InboundInv, InboundInv', Next, NEW r \in DOMAIN requests,
                      requests'[r].phase \in {"suffix", "mention"},
                      requests'[r].phase # requests[r].phase
               PROVE  ~cached'
    <3>1. InboundInv' => (Resolved' => cached')
      BY DEF InboundInv, SuspendedForAReason, NameIsCached, NeedsName, Resolved
    <3> QED
      BY <3>1
  <2>1. ASSUME NEW q \in DOMAIN requests, Handle(q)
        PROVE  ~cached'
    <3>1. FittingStep(q)
      BY <2>1, HandlersFit
    <3>2. PICK phase \in Phases, status \in {0, 200, 400, 401}, out \in Seq(SUBSET Message) :
            Moves(q, phase, status, out)
      BY <3>1, FittingRequest
    <3>3. q = r
      BY <3>2 DEF Moves, Updated
    <3> QED
      BY <3>2, <3>3 DEF Moves, Updated
  <2>2. ASSUME NEW body \in Bodies, Deliver(body)
        PROVE  FALSE
    <3>1. requests \in Seq(Req)
      BY DEF InboundInv, TypeOK, Req
    <3> DEFINE new == [body |-> body, phase |-> "received", status |-> 0,
                       stripped |-> FALSE, out |-> Nothing(body)]
    <3>2. requests' = Append(requests, new)
      BY <2>2 DEF Deliver
    <3> HIDE DEF new
    <3>3. requests'[r] = requests[r]
      BY <3>1, <3>2
    <3> QED
      BY <3>3
  <2> QED
    BY <2>1, <2>2 DEF Next
<1>3. InboundInv /\ [Next]_vars => InboundInv'
  BY HandlersFit, FittingKeepsInv, DeliverKeepsInv, StutterKeepsInv DEF Next
<1> QED
  BY <1>2, <1>3, InboundIsRight, PTL DEF Spec, OneResolutionServes

\* The host's view of the reactions on Telegram and Slack stays right (parse_reactions):
\* a redelivered change says the same once more.
THEOREM Mirroring == Spec => ReactionsAreMirrored
<1> DEFINE Step == MirroredOn({"telegram", "slack"})
<1>1. InboundInv /\ [Next]_vars => [Step]_vars
  <2> SUFFICES ASSUME InboundInv, Next, NEW r \in DOMAIN requests,
                      requests[r].status # 200, requests'[r].status = 200,
                      ItemOf(r).kind = "reaction", ItemOf(r).channel \in {"telegram", "slack"},
                      mirror[ItemOf(r).channel] \in {ItemOf(r).old, ItemOf(r).new}
               PROVE  mirror'[ItemOf(r).channel] = ItemOf(r).new
    BY DEF MirroredOn
  <2> DEFINE i == ItemOf(r)
  <2>1. TypeOK /\ SuspendedForAReason /\ mirror \in [Channels -> SUBSET Emojis]
        /\ requests \in Seq(Req)
    BY DEF InboundInv, TypeOK, Req
  <2>2. ASSUME NEW body \in Bodies, Deliver(body)
        PROVE  FALSE
    <3> DEFINE new == [body |-> body, phase |-> "received", status |-> 0,
                       stripped |-> FALSE, out |-> Nothing(body)]
    <3>1. requests' = Append(requests, new)
      BY <2>2 DEF Deliver
    <3> HIDE DEF new
    <3>2. requests'[r] = requests[r]
      BY <2>1, <3>1
    <3> QED
      BY <3>2
  <2>3. ASSUME NEW q \in DOMAIN requests, Handle(q)
        PROVE  mirror'[i.channel] = i.new
    <3>1. q = r
      <4>1. PICK phase \in Phases, status \in {0, 200, 400, 401}, out \in Seq(SUBSET Message) :
              Moves(q, phase, status, out)
        BY <2>3, HandlersFit, FittingRequest
      <4> QED
        BY <4>1 DEF Moves, Updated
    <3>2. /\ requests[r].phase = "acknowledge" => i.kind = "button"
          /\ requests[r].phase \in {"suffix", "mention"} => i.kind = "message"
      BY <2>1 DEF SuspendedForAReason, ItemOf
    <3>3. ASSUME NEW status \in {400, 401}, Answer(r, status, Nothing(requests[r].body))
          PROVE  FALSE
      <4>1. /\ Nothing(requests[r].body) \in Seq(SUBSET Message)
            /\ Fits(r, status, Nothing(requests[r].body))
        BY <2>1, NothingFits
      <4>2. Updated(r, "done", status, Nothing(requests[r].body))
        BY <2>1, <3>3, <4>1, AnswerUpdates
      <4> QED
        BY <4>2 DEF Updated
    <3>4. ParseReaction(r)
      <4>1. ~Reject(r) /\ ~RefuseBody(r)
        BY <3>3 DEF Reject, RefuseBody, Request
      <4>2. ~IgnoreGatewayReaction(r) /\ ~ParseBatch(r) /\ ~ParseCallback(r)
            /\ ~SkipUpdate(r) /\ ~ParseUpdate(r)
        BY DEF IgnoreGatewayReaction, AtGateway, ParseBatch, ParseCallback, SkipUpdate, ParseUpdate
      <4>3. ~FinishAcknowledge(r)
            /\ \A ok \in BOOLEAN : ~FinishSuffix(r, ok) /\ ~FinishMention(r, ok)
        BY <3>2 DEF FinishAcknowledge, FinishSuffix, FinishMention, Request
      <4> QED
        BY <2>3, <3>1, <4>1, <4>2, <4>3 DEF Handle
    <3>5. mirror' = [mirror EXCEPT ![i.channel] = (@ \cup (i.new \ i.old)) \ (i.old \ i.new)]
      BY <3>4 DEF ParseReaction, ReactionEvents
    <3> DEFINE channel == i.channel  old == i.old  new == i.new
    <3>6. channel \in Channels
      BY DEF Channels
    <3>7. mirror'[channel] = (mirror[channel] \cup (new \ old)) \ (old \ new)
      BY <2>1, <3>5, <3>6
    <3>8. mirror[channel] = old \/ mirror[channel] = new
      OBVIOUS
    <3> HIDE DEF channel, old, new
    <3>9. mirror'[channel] = new
      BY <3>7, <3>8
    <3> QED
      BY <3>9 DEF channel, new
  <2> QED
    BY <2>2, <2>3 DEF Next
<1> QED
  BY <1>1, InboundIsRight, PTL DEF Spec, ReactionsAreMirrored
==============================================================================
