-------------------------------- MODULE Inbound --------------------------------
(***************************************************************************)
(* Webhook requests of the five platforms: the route of the REST server    *)
(* (verify, receive, receive_reactions) and the parsers of the transports, *)
(* with Telegram's cache of the bot's username, which concurrent requests  *)
(* share and fill across the await of a getMe call.                        *)
(*                                                                         *)
(* A body is a sequence of items: WhatsApp, Messenger and Slack actions    *)
(* come in batches.  An item is what the parser looks at, and by, which it *)
(* cannot see: who caused it.  Discord sends messages and reactions to the *)
(* gateway client (see DiscordGateway) and interactions to the webhook; a  *)
(* reaction is here for what becomes of it.                                *)
(***************************************************************************)
EXTENDS Integers, Sequences

CONSTANTS
  Bodies,           \* what the platforms may deliver
  Emojis,
  allowed_bot_ids,  \* Slack: bots that count as users
  MaxRequests       \* bound: requests delivered

Channels == {"telegram", "slack", "discord", "messenger", "whatsapp"}

Item ==
  [channel: Channels,
   kind: {"message",      \* an ordinary message; on Discord an interaction
          "button",       \* Telegram callback_query, Slack action, Messenger postback
          "referral",     \* Messenger: an m.me link was followed
          "service",      \* Telegram: a change of the group
          "edit",         \* Slack: message_changed or message_deleted
          "echo",         \* Messenger: a message of the page itself
          "reaction",
          "other",        \* receipts, pings and what no branch looks for
          "garbage"},     \* not JSON
   by: {"user", "trusted", "bot"},
   bot_id: allowed_bot_ids \cup {"none", "unlisted"},  \* Slack: as the event shows it
   direct: BOOLEAN,       \* sent in a chat with the bot alone
   suffix: {"none", "us", "neighbour"},  \* the bot that a leading /command@bot names
   names: BOOLEAN,        \* the text or caption has an @ of this bot somewhere
   pointed: BOOLEAN,      \* a reply to the bot or an entity that carries its id
   complete: BOOLEAN,     \* has the fields the parser insists on
   old: SUBSET Emojis,    \* reaction: before and after
   new: SUBSET Emojis]

\* What the platforms send.  A person shows no bot id; what the bot did comes back from
\* Slack as a message with an id that is not listed, or as an edit, which shows none.
ASSUME InboundAssumption ==
  /\ MaxRequests \in Nat
  /\ "none" \notin allowed_bot_ids /\ "unlisted" \notin allowed_bot_ids
  /\ \A b \in Bodies :
       /\ b \in Seq(Item) \ {<< >>}
       /\ \A n \in DOMAIN b :
            /\ b[n].channel = b[1].channel
            /\ b[n].suffix = "us" => b[n].names
            /\ b[n].suffix # "none" => b[n].channel = "telegram" /\ b[n].kind = "message"
            /\ b[n].by = "bot" => b[n].kind \in {"message", "edit", "echo", "service", "other"}
            /\ b[n].kind = "message" =>
                 IF b[n].channel = "slack"
                 THEN b[n].bot_id = "unlisted" <=> b[n].by = "bot"
                 ELSE b[n].by # "bot"
            /\ b[n].kind = "referral" => b[n].channel = "messenger"
            /\ b[n].kind = "button" => b[n].channel \in {"telegram", "slack", "messenger"}
            /\ b[n].kind \in {"reaction", "garbage"} => Len(b) = 1
       /\ b[1].channel \in {"telegram", "discord"} => Len(b) = 1
       /\ b[1].channel = "slack" /\ Len(b) > 1 => \A n \in DOMAIN b : b[n].kind = "button"

VARIABLES
  identity,   \* Telegram: what the transport has, of bot_id and bot_token; never changes
  cached,     \* BOT_USERNAMES has the bot's username
  requests,   \* the requests delivered so far
  mirror      \* the host: reactions it believes to be there, by channel

vars == <<identity, cached, requests, mirror>>

\* A parsed message.  warm is history: the username was known from the start.
Message == [item: Item, addressed: BOOLEAN, stripped: BOOLEAN, warm: BOOLEAN]

\* The await point of a handler: the acknowledgement of a button, or one of the two
\* places that may ask Telegram for the username.
Phases == {"received", "acknowledge", "suffix", "mention", "done"}

TypeOK ==
  /\ identity \in SUBSET {"bot_id", "bot_token"}
  /\ cached \in BOOLEAN
  /\ requests \in Seq([body: Bodies, phase: Phases, status: {0, 200, 400, 401},
                       stripped: BOOLEAN, out: Seq(SUBSET Message)])
  /\ \A r \in DOMAIN requests :
       /\ requests[r].status = 0 <=> requests[r].phase # "done"
       /\ Len(requests[r].out) = Len(requests[r].body)
  /\ mirror \in [Channels -> SUBSET Emojis]

\* The messages parsed, item by item: none, so far or after an error.
Nothing(body) == [n \in DOMAIN body |-> {}]

\* The constructors: new has neither; with_bot_token has both, or no bot_id if the token
\* does not start with one; with_bot_identity has a bot_id and fills the cache.
Init ==
  /\ identity \in SUBSET {"bot_id", "bot_token"}
  /\ cached = (identity = {"bot_id"})
  /\ requests = << >>
  /\ mirror = [c \in Channels |-> {}]

\* A platform delivers a body, for the first time or again.
Deliver(body) ==
  /\ Len(requests) < MaxRequests
  /\ requests' = Append(requests, [body |-> body, phase |-> "received", status |-> 0,
                                   stripped |-> FALSE, out |-> Nothing(body)])
  /\ UNCHANGED <<identity, cached, mirror>>
------------------------------------------------------------------------------
(***************************************************************************)
(* What the parsers make of an item, where they need not wait.             *)
(***************************************************************************)
Parsed(i, addressed) ==
  {[item |-> i, addressed |-> addressed, stripped |-> FALSE, warm |-> TRUE]}

SlackActions(i) == IF i.complete THEN Parsed(i, TRUE) ELSE {}

\* A bot whose id shows is left out unless it is trusted.
SlackAccepts(i) == i.bot_id \in allowed_bot_ids \cup {"none"}

\* Mutant: an edit is parsed like a message.
SlackMessagesAndEdits(i) ==
  CASE i.kind = "button" -> SlackActions(i)
    [] i.kind \in {"message", "edit"} /\ SlackAccepts(i) -> Parsed(i, i.direct \/ i.names)
    [] OTHER -> {}

SlackMessages(i) ==
  CASE i.kind = "button" -> SlackActions(i)
    [] i.kind = "message" /\ SlackAccepts(i) -> Parsed(i, i.direct \/ i.names)
    [] OTHER -> {}

\* A postback without a code in its referral, or without a referral, is a button.
MessengerMessages(i) ==
  IF i.kind \in {"message", "button"} \/ (i.kind = "referral" /\ i.complete)
  THEN Parsed(i, TRUE) ELSE {}

WhatsAppMessages(i) == IF i.kind = "message" THEN Parsed(i, TRUE) ELSE {}

DiscordMessages(i) == IF i.kind = "message" THEN Parsed(i, TRUE) ELSE {}

Messages(i) ==
  CASE i.channel = "slack"     -> SlackMessages(i)
    [] i.channel = "messenger" -> MessengerMessages(i)
    [] i.channel = "whatsapp"  -> WhatsAppMessages(i)
    [] i.channel = "discord"   -> DiscordMessages(i)
    [] i.channel = "telegram"  -> {}

\* Mutant: only what is new is reported.
ReactionEventsAdded(i) == [added |-> i.new \ i.old, removed |-> {}]

\* parse_reactions: the difference of the two sets (one emoji, except on Telegram).
ReactionEvents(i) == [added |-> i.new \ i.old, removed |-> i.old \ i.new]

\* Discord dispatches reactions to the gateway client, not to the webhook.
AtGateway(i) == i.channel = "discord" /\ i.kind = "reaction"

IsBad(i) ==
  \/ i.kind = "garbage"
  \/ i.kind = "reaction" /\ ~i.complete /\ ~AtGateway(i)
  \/ i.channel = "telegram" /\ i.kind = "message" /\ ~i.complete
------------------------------------------------------------------------------
(***************************************************************************)
(* The handler.                                                            *)
(***************************************************************************)
Request(r) == requests[r]
ItemOf(r) == requests[r].body[1]

\* Mutant: the handler goes on after an answer.
AnswerAndGoOn(r, status, out) ==
  requests' = [requests EXCEPT ![r].status = status, ![r].out = out]

Answer(r, status, out) ==
  requests' = [requests EXCEPT ![r].phase = "done", ![r].status = status, ![r].out = out]

Await(r, phase) == requests' = [requests EXCEPT ![r].phase = phase]

\* The signature does not verify, or a Slack request arrives too late.
Reject(r) ==
  /\ Request(r).phase = "received"
  /\ ~AtGateway(ItemOf(r))
  /\ Answer(r, 401, Nothing(Request(r).body))
  /\ UNCHANGED <<identity, cached, mirror>>

RefuseBody(r) ==
  /\ Request(r).phase = "received"
  /\ IsBad(ItemOf(r))
  /\ Answer(r, 400, Nothing(Request(r).body))
  /\ UNCHANGED <<identity, cached, mirror>>

ParseReaction(r) ==
  LET i == ItemOf(r)
      events == ReactionEvents(i)
  IN /\ Request(r).phase = "received"
     /\ i.kind = "reaction" /\ i.complete
     /\ ~AtGateway(i)
     /\ Answer(r, 200, Nothing(Request(r).body))
     /\ mirror' = [mirror EXCEPT ![i.channel] = (@ \cup events.added) \ events.removed]
     /\ UNCHANGED <<identity, cached>>

\* The gateway client reads over what it is not looking for.
IgnoreGatewayReaction(r) ==
  /\ Request(r).phase = "received"
  /\ AtGateway(ItemOf(r))
  /\ Answer(r, 200, Nothing(Request(r).body))
  /\ UNCHANGED <<identity, cached, mirror>>

\* Bodies of the platforms whose parsers do not wait.
ParseBatch(r) ==
  /\ Request(r).phase = "received"
  /\ ItemOf(r).channel # "telegram"
  /\ ItemOf(r).kind # "reaction" /\ ~IsBad(ItemOf(r))
  /\ Answer(r, 200, [n \in DOMAIN Request(r).body |-> Messages(Request(r).body[n])])
  /\ UNCHANGED <<identity, cached, mirror>>

\* A tapped button: acknowledged first, if the token is there and the tap has an id.
ParseCallback(r) ==
  /\ Request(r).phase = "received"
  /\ ItemOf(r).channel = "telegram" /\ ItemOf(r).kind = "button"
  /\ IF "bot_token" \in identity /\ ItemOf(r).complete
     THEN Await(r, "acknowledge")
     ELSE Answer(r, 200, <<Parsed(ItemOf(r), TRUE)>>)
  /\ UNCHANGED <<identity, cached, mirror>>

\* Whatever becomes of the acknowledgement, the tap is delivered.
FinishAcknowledge(r) ==
  /\ Request(r).phase = "acknowledge"
  /\ Answer(r, 200, <<Parsed(ItemOf(r), TRUE)>>)
  /\ UNCHANGED <<identity, cached, mirror>>

SkipUpdate(r) ==
  /\ Request(r).phase = "received"
  /\ ItemOf(r).channel = "telegram" /\ ItemOf(r).kind \in {"service", "other"}
  /\ Answer(r, 200, Nothing(Request(r).body))
  /\ UNCHANGED <<identity, cached, mirror>>

\* bot_username: without the name in the cache it asks, if there is a token to ask with.
MustAsk == identity = {"bot_id", "bot_token"} /\ ~cached

TelegramMessage(i, addressed, stripped, warm) ==
  <<{[item |-> i, addressed |-> addressed, stripped |-> stripped, warm |-> warm]}>>

\* Mutant: addressing looks at the text that the suffix was taken from.
AddressFromContent(r, stripped, warm) ==
  LET i == ItemOf(r)
  IN IF i.direct \/ ("bot_id" \in identity /\ i.pointed)
     THEN Answer(r, 200, TelegramMessage(i, TRUE, stripped, warm))
     ELSE IF MustAsk'
     THEN requests' = [requests EXCEPT ![r].phase = "mention", ![r].stripped = stripped]
     ELSE Answer(r, 200, TelegramMessage(i, cached' /\ i.names /\ ~stripped, stripped, warm))

\* message_addresses_bot and the end of parse_inbound.  The cache is looked up again: it
\* may have been filled since, by this request or another.
Address(r, stripped, warm) ==
  LET i == ItemOf(r)
  IN IF i.direct \/ ("bot_id" \in identity /\ i.pointed)
     THEN Answer(r, 200, TelegramMessage(i, TRUE, stripped, warm))
     ELSE IF MustAsk'
     THEN requests' = [requests EXCEPT ![r].phase = "mention", ![r].stripped = stripped]
     ELSE Answer(r, 200, TelegramMessage(i, cached' /\ i.names, stripped, warm))

\* parse_inbound of a Telegram message, up to the first getMe.
ParseUpdate(r) ==
  LET i == ItemOf(r)
  IN /\ Request(r).phase = "received"
     /\ i.channel = "telegram" /\ i.kind = "message" /\ i.complete
     /\ UNCHANGED <<identity, cached, mirror>>
     /\ IF i.suffix # "none" /\ MustAsk
        THEN Await(r, "suffix")
        ELSE Address(r, cached /\ i.suffix = "us", cached)

\* Mutant: the name is used but not kept.
FinishSuffixUncached(r, ok) ==
  /\ Request(r).phase = "suffix"
  /\ UNCHANGED <<identity, cached, mirror>>
  /\ Address(r, ok /\ ItemOf(r).suffix = "us", FALSE)

\* getMe has answered, or failed: then the suffix stays, and addressing may ask again.
FinishSuffix(r, ok) ==
  /\ Request(r).phase = "suffix"
  /\ cached' = (cached \/ ok)
  /\ UNCHANGED <<identity, mirror>>
  /\ Address(r, ok /\ ItemOf(r).suffix = "us", FALSE)

\* Mutant: after a failed getMe the message is parsed again.
FinishMentionRetried(r, ok) ==
  /\ Request(r).phase = "mention"
  /\ cached' = (cached \/ ok)
  /\ IF ok
     THEN Answer(r, 200, TelegramMessage(ItemOf(r), ItemOf(r).names, Request(r).stripped, FALSE))
     ELSE Await(r, "received")
  /\ UNCHANGED <<identity, mirror>>

\* Only the answer to this request's own getMe counts here.
FinishMention(r, ok) ==
  /\ Request(r).phase = "mention"
  /\ cached' = (cached \/ ok)
  /\ Answer(r, 200, TelegramMessage(ItemOf(r), ok /\ ItemOf(r).names, Request(r).stripped, FALSE))
  /\ UNCHANGED <<identity, mirror>>

Handle(r) ==
  \/ Reject(r) \/ RefuseBody(r)
  \/ ParseReaction(r) \/ IgnoreGatewayReaction(r) \/ ParseBatch(r)
  \/ ParseCallback(r) \/ FinishAcknowledge(r) \/ SkipUpdate(r)
  \/ ParseUpdate(r)
  \/ \E ok \in BOOLEAN : FinishSuffix(r, ok) \/ FinishMention(r, ok)

Next ==
  \/ \E body \in Bodies : Deliver(body)
  \/ \E r \in DOMAIN requests : Handle(r)

\* Handler tasks are scheduled, and calls to Telegram end by the client's timeout.
Fairness ==
  \A r \in 1..MaxRequests : WF_vars(r \in DOMAIN requests /\ Handle(r))

Spec == Init /\ [][Next]_vars /\ Fairness
------------------------------------------------------------------------------
(***************************************************************************)
(* Properties.                                                             *)
(***************************************************************************)

\* What a person, or a trusted bot, said to the bot: not an edit, nor what the bot did.
IsInput(i) ==
  /\ i.by \in {"user", "trusted"}
  /\ \/ i.kind = "message"
     \/ i.kind = "button" /\ (i.channel = "slack" => i.complete)
     \/ i.kind = "referral" /\ i.complete

\* The messages of an accepted request are its inputs, each once: no reply, echo or status
\* edit of the bot's own comes back as a message, which would start the self-reply loop,
\* and no input of a mixed batch is lost with them.
ReceivesInputs ==
  \A r \in DOMAIN requests : requests[r].status = 200 =>
    \A n \in DOMAIN requests[r].body :
      {m.item : m \in requests[r].out[n]} = {i \in {requests[r].body[n]} : IsInput(i)}

\* A message counts as addressed to the bot only for a reason, and a direct message, a tap
\* and what points at the bot always do; a message to which the name matters counts, and
\* loses its command's suffix, whenever the name was known.  A suffix is taken only from a
\* command for this bot, and the suffix that is gone still addresses it.
AddressingIsRight ==
  \A r \in DOMAIN requests : \A n \in DOMAIN requests[r].out : \A m \in requests[r].out[n] :
    LET i == m.item
        always == \/ i.direct \/ i.kind \in {"button", "referral"}
                  \/ i.channel \in {"messenger", "whatsapp", "discord"}
                  \/ i.channel = "telegram" /\ i.pointed /\ "bot_id" \in identity
    IN /\ always => m.addressed
       /\ m.addressed => always \/ i.names
       /\ m.stripped => m.addressed /\ i.suffix = "us"
       /\ m.warm /\ i.names => m.addressed /\ (m.stripped <=> i.suffix = "us")

\* Telegram: a request had the bot's username, took it off a command or found it in the text.
Resolved ==
  \E r \in DOMAIN requests :
    \/ requests[r].stripped
    \/ \E n \in DOMAIN requests[r].out : \E m \in requests[r].out[n] :
         \/ m.stripped
         \/ m.item.channel = "telegram" /\ m.item.kind = "message"
            /\ m.addressed /\ ~m.item.direct /\ ~m.item.pointed

\* "One successful resolution per process serves every subsequent webhook": once any
\* request had the username no request asks Telegram for it, not even one that failed to
\* get it just before and looks again.
OneResolutionServes ==
  [][\A r \in DOMAIN requests :
       /\ requests'[r].phase \in {"suffix", "mention"}
       /\ requests'[r].phase # requests[r].phase
       => ~Resolved']_vars

\* The host's view of one reactor's reactions stays right: if it knew them before a change,
\* or has already seen the change, it knows them after it.
MirroredOn(channels) ==
  \A r \in DOMAIN requests :
    LET i == ItemOf(r)
    IN /\ requests[r].status # 200 /\ requests'[r].status = 200
       /\ i.kind = "reaction" /\ i.channel \in channels
       /\ mirror[i.channel] \in {i.old, i.new}
       => mirror'[i.channel] = i.new

\* The parsers of Telegram, which turn two sets into events, and of Slack keep the host's
\* view of reactions right, redelivery included.
ReactionsAreMirrored == [][MirroredOn({"telegram", "slack"})]_vars

\* The comment on the gateway's intents: they make delivers_inbound_reactions "true in fact
\* and not just on paper".
DiscordReactionsAreMirrored == [][MirroredOn({"discord"})]_vars

\* Every request is answered, whatever Telegram does to the calls its handler makes.
EveryRequestIsAnswered ==
  \A r \in 1..MaxRequests :
    r \in DOMAIN requests ~> (r \in DOMAIN requests /\ requests[r].status # 0)
==============================================================================
