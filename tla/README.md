# dravr-canot: specification and verification

dravr-canot is a Rust library for messaging over WhatsApp, Messenger, Discord,
Slack and Telegram, with three programs built on it: a REST server, an MCP
server and a bridge between messaging platforms and Claude Code. This directory
holds TLA+ modules of its stateful parts, TLC configurations that check them on
small instances and proofs that TLAPS checks for every value of the constants.

## 1. The system

| component | source | state | operations |
|---|---|---|---|
| Claude channel bridge | `crates/dravr-canot-claude-channel/src/{webhook,mcp,sender_gate,main}.rs` | event queue (256 places), the loop's last sender | webhook handler per delivery; loop over stdin lines and events |
| Permission relay | `.../permission.rs` | map of pending request ids | `handle_request`, `try_consume_verdict` |
| Discord gateway client | `src/channels/discord/gateway.rs` | failure counter, bot id, per session: heartbeat flag, timer, socket | `start_gateway`, session, event loop, frame handlers |
| AG-UI status | `src/agui_status.rs`, `src/agui_consumer.rs`, `src/channels/*/agui_status.rs` | message id, time of the last edit | `open`, `set_status`, `finalize` |
| Retry schedule | `src/retry.rs` | none (the queue belongs to the host) | `compute_retry_update` |
| Channel abstraction | `src/{channel,registry,transport,error,models,factory,descriptor}.rs` | registry: channel type to adapter | `register`, `get`, default operations, `is_retryable` |
| Platform adapters | `src/channels/*/{transport,mod,renderer}.rs`, `src/meta_signature.rs` | Telegram: cache of bot usernames; else none | verify, parse messages and reactions, render, send, delete, private reply |
| Slash commands | `src/commands/` | names and aliases to commands | `register`, `try_match` |
| MCP and REST servers | `crates/dravr-canot-mcp`, `crates/dravr-canot-server` | configurations behind a lock, adapters fixed at start-up | send, `send_message`, `get_channel_config`, `set_channel_config`, `list_channels`, webhook, health |
| Rich text | `src/rich_text.rs`, `src/renderer.rs` | none | two parsers, five renderings, one way back |
| Environment | `src/{config,env_config_store,config_store}.rs` | fixed at start-up | which channels are configured |
| Turn ids, counters, tracing | `src/{turn,counter,observability}.rs` | none that changes | reads |

How they interact. A webhook delivery goes through the HTTP handler, the
channel's adapter (signature, parsing) and the sender gate into the event queue;
the MCP loop takes events from the queue, asks the permission relay whether the
text is a verdict, and writes a notification to Claude Code. Claude Code writes
lines: a tool call becomes `adapter.send`, a permission request goes through the
relay and becomes a prompt. The Discord gateway client is another way in: it
pushes messages into a bounded channel of the host. The host matches a text
against the registered commands, answers a command privately where it was given in
a shared room, and keeps a queue of outgoing payloads: it posts them with `send_raw`
and asks `is_retryable` and `compute_retry_update` what to do after a failure. While a turn is computed, the
host drives a status adapter with the AG-UI events of the run and finalizes it
with the reply. Whatever is sent goes through the renderer of its channel, which reads a
text in the HTML subset into spans and writes them in the notation of the channel. The
REST and MCP server makes adapters and configurations from the environment when it starts;
after that requests share the configurations behind a lock.

What is hard in it, and what makes each part correct:

- **Bridge and relay**: handler tasks interleave with a loop that blocks on
  network sends; the queue fills in the middle of a body; platforms deliver
  again; the process may end with messages queued. Correct: an acknowledged
  message is never silently skipped, a delivery is dealt with in order,
  neither side of the loop starves, a verdict counts once and only
  from the chat that was asked.
- **Gateway**: one task serves a timer and a socket and sometimes waits for the
  host; Discord may fail at every point or disappear. Correct: no message of a
  session is lost, a dead session is left, the client gives up exactly when the
  limit says so, the delay doubles while sessions fail and starts over after one that
  worked.
- **Status**: edits are throttled, rejected, or applied after the client gave
  them up, and an error of an edit may end the loop of the host. Correct: the rate is
  kept, the status never goes back, the turn ends in the reply.
- **Sending**: a platform may refuse, fail, or do what was asked without saying
  so; the worker retries what it may; a private reply takes two calls on Discord
  and another endpoint on Slack. Correct: a message comes to an end after a bounded
  number of posts, what counts as sent is shown, copies have a cause, nobody but
  the caller sees a private reply, and a command counts as removed only when it is.
- **Commands**: definitions arrive one by one and may collide, a matcher is a
  snapshot, matching is greedy and has a second pass after an alias. Correct: every
  key resolves, a text is read as it is meant, and a row of the menu runs the definition
  that claimed its word last.
- **Receiving**: webhook requests run side by side and share a cache that is filled
  across an await which may fail; bodies mix what a person said with receipts, edits
  and echoes of what the bot did. Correct: exactly what was said to the bot comes in,
  a message for the bot is seen as one, the host's view of reactions is right, and
  every request is answered.
- **Rich text and cards**: markup may be malformed, nested or escaped, and what a
  host puts in as text must not become markup on any channel; WhatsApp refuses cards
  whose labels are too long, too many or equal. Correct: no channel loses or invents a
  word, a tree is read back as it was written, every button stands for its action.
- **Configurations**: requests clone a configuration, await a lock or a platform, and
  use the clone, while `set_channel_config` replaces it; the health check reads one
  channel after the other. Correct: what a request uses is one configuration that was
  in force, not older than what its caller could know, and its answer was true at some
  moment of the call.

The hazards in `PROJECT.json` list these one by one, at the line where each bites.

## 2. The modules

| module | models |
|---|---|
| `PermissionRelay` | `permission.rs`: the pending map, when a text is accepted as a verdict, what both operations do to the map |
| `ApprovalLedger` | abstract: what the relay promises to Claude Code |
| `ClaudeChannel` | `webhook.rs`, `mcp.rs`, `sender_gate.rs`, `main.rs`, composed with the relay |
| `MCClaudeChannel`, `MCClaudeChannelLive` | two small instances of it |
| `DiscordGateway` | `gateway.rs` with Discord, the connection and the host as environment |
| `AguiStatus` | `agui_status.rs` and the three adapters, with the run and the platform as environment |
| `Commands` | `commands/registry.rs`, `commands/matcher.rs`: registration, matching, the menu |
| `MCCommands` | a vocabulary for it |
| `Inbound` | the webhook route of the REST server, `parse_inbound` and `parse_reactions` of the five channels, the cache of Telegram usernames, with the platforms and the host's view of reactions as environment |
| `MCInbound` | bodies of every kind |
| `RichText` | `rich_text.rs`: the parsers of both notations and the renderings |
| `Renderers` | `channels/*/renderer.rs`: what each channel makes of every kind of content |
| `Rendering` | a host that writes a message, with the readers of each notation |
| `MCRendering` | the characters and cards that matter |
| `ServerConfig` | `env_config_store.rs`, `factory.rs`, `registry.rs`, start-up of both servers, `state.rs`, `send.rs`, `health.rs`, the MCP tools |
| `MCServerConfig` | Discord and WhatsApp in six environments |
| `OutboundDelivery` | `send`, `send_raw`, `send_private_reply` and `delete_message` of the five channels, `is_retryable`, `retry.rs`, with the host's worker and the platform as environment |
| `MCOutboundDelivery` | the delay schedule of `models.rs` |
| `ClaudeChannelProofs`, `DiscordGatewayProofs`, `AguiStatusProofs`, `CommandsProofs`, `OutboundDeliveryProofs`, `InboundProofs`, `RenderingProofs`, `ServerConfigProofs` | theorems |

### ClaudeChannel and PermissionRelay

| TLA+ | code |
|---|---|
| `queue` | the `mpsc` channel of `EVENT_BUFFER_SIZE` |
| `cursor[b]` | how far the handler of body `b` is in its `for msg in &messages` |
| `answers[b]` | status codes returned so far; the length numbers the deliveries |
| `lastSender`, `pending` | `last_sender`, `pending_requests` |
| `loop` | the await point of the MCP loop: idle in `select!`, sending a prompt, sending a reply, gone |
| `stdin`, `stdout` | pipes to and from Claude Code |
| `working`, `lines` | Claude Code: the chat it serves, lines written |
| `handled`, `asks`, `verdicts`, `answeredBy` | history |

A webhook handler is `StartDelivery` or `RejectDelivery`, then one
`HandlerStep` per message, so that handlers interleave at every `try_send`.
`HandleChannelEvent` is all of `handle_channel_event`: the map is changed, a
notification is written and the sender recorded in one step, for nothing else
runs in that task. When the write fails the map has changed and the loop ends.
A handler that awaits the network is two actions, `HandlePermissionRequest` and
`FinishPrompt`, or `HandleCall` and `FinishReply`. One body has at most one
handler at a time: overlapping handlers of one body differ from those of two
equal bodies only in name.

`ApprovalLedger` knows only whether the relay is alive (`running`), which ids are open for
which endpoint, and how often each was opened and answered. An opening goes away by an
answer of its endpoint (`Answer`), by being moved (`Ask`), or together with the relay
(`Lose`, when stdout breaks under the verdict; `Stop`). So a relay that forgets an id
because a foreign chat named it does not implement the ledger.

A text is reduced to the id it names when it has the shape of a verdict, and to
whether it says yes. Adapters and configurations exist for every channel of
`Channels`, as `main` builds both from the same list.

### DiscordGateway

`phase` is where the one task is: connecting, waiting for HELLO, in the
`select!` of the event loop, in `tx.send`, in the three seconds after
INVALID_SESSION, between sessions, in the backoff, stopped. `failures`,
`botKnown`, `ackPending` are `consecutive_failures`,
`bot_user_id.is_some()`, `heartbeat_ack_pending`; `dropped` and `reached` are the
`SessionOutcome`. `wire` is what Discord has sent and the task has not
read, `due` the ticks of the interval not served. While the task is not in
`select!` neither shrinks, which is how a slow host ends a healthy session. The
heartbeats of the timer and those Discord asks for are both counted in `beats`,
and each may be acknowledged. `barren` counts sessions since one that saw READY;
it is history and no guard reads it. So is `stage`, how far the session really came;
`reached` is what the code believes of it.

### AguiStatus

One turn on one of the three channels. `task` is the await point of the
consumer; `lastEdit` is `last_edit_at`; `edit` the edit in flight. The answers a
call can get are those the code tells apart, channel by channel
(`SlackEditAnswers`, `TelegramEditAnswers`, `DiscordEditAnswers`); `EditResult`
is what `edit_message_force` makes of them. The platform is `shown` and `late`,
the edits the client gave up after its timeout and which may still be applied.
The consumer belongs to the host, and the documentation describes two, told apart by
`swallows`. Both await each edit and finalize at the end of the stream. The one swallows
the error of an edit, as `agui_status.rs:72-73` demands of callers of `set_status`; the
other is the loop of `agui_status.rs:106-109`, in which `?` leaves the turn (`abandoned`)
as soon as `drive_status_updates` has passed an error on (`:122`). `NoAnswer` says which
answers are errors: none but a missing one.

### Commands

`definitions` and `lookup` are the two maps of `CommandRegistry`,
`sorted_commands` the keys a `CommandMatcher` took with it; since only the longest
match counts, it is a set. `order` is history: the names in the order they were registered. `Register` is `register`, refused for a name that is
taken; `FromRegistry` builds a matcher at any moment, so that old matchers meet
newer registries. A text or a trigger is its sequence of lower-case words: the
code's test for a prefix followed by a space or the end is then a prefix of
sequences, and the longest key in bytes among the prefixes of one text is the
longest in words. `Gap`, the empty word between two spaces, keeps apart what
`trim`, `starts_with` and `split_whitespace` tell apart. `TryMatch` is `try_match`
with its two passes; `Meaning` says without passes what a text should mean.
`BotCommandList` is the set of entries that `dedup_by` chooses from. Keys may collide: the
menu is made of `definitions`, a word that is typed goes through `lookup`, and
`LastToClaim` says by `order` alone whose word it is.

### OutboundDelivery

One message. If it is for the room it has an `OutboundQueueEntry` (`status`,
`attempt_count`, `delay` for `next_retry_at`) and the host's worker posts it; if
it is `private`, it is a reply to a command given in a room, and the host also asks
for the removal of that command (`removal`). `call` is the request being awaited.
`Answers` are those the transports tell apart and `CallResult` what all of them
make of them: they differ only in Slack's `ok: false`. `payload` keeps what decides
who is shown the message: endpoint, recipient, the user of an ephemeral message
and the thread. The platform is `seen`, `late` (posts the client gave up that
may still be shown) and `echo`; `Fates` says which answers leave open whether a
call took effect. `posts` and `unclear` are history. The worker is not in this
repository: `Settle` does what `is_retryable` and the doc of `RetryDecision` say it
should, and nothing is assumed of how long it waits.

### Inbound

A body is a sequence of items, for Slack actions, Messenger and WhatsApp come in
batches. An `Item` has what a parser looks at, and `by`, who really caused it, which
the parser cannot see and the properties can: Slack's own edits carry no `bot_id`.
The parsers that do not wait are operators (`SlackMessages`, `MessengerMessages`, ...)
and their request is one step, `ParseBatch`; a Telegram request is one action per
stretch between awaits. `phase` is the await point: acknowledging a tap, or `getMe` for
the suffix of a command or for a mention. `identity` says which of `bot_id` and
`bot_token` the transport was built with, `cached` whether `BOT_USERNAMES` has the name.
As in the code, the cache is looked up again for the mention, and only the outcome of
the request's own second `getMe` counts after that. `suffix` and `names` are what
`strip_command_bot_suffix` and `text_mentions_username` find in the text. `mirror` is a
host that applies reaction events, for one reactor on one message of each channel.
Verification is a free choice of `Reject`; the status codes are those of
`webhook.rs`. Discord's reactions, which come through the gateway client, are here for
what becomes of them (`IgnoreGatewayReaction`). The messages of a request are kept item
by item in `out`, which says where each came from; `warm` in a message is history.

### RichText, Renderers and Rendering

A text is a sequence of characters; a complete tag and an HTML entity count as one
character each, for the code treats half a tag as ordinary text. `Parse` and
`ParseMarkdown` walk a text as `parse` and `parse_markdown` do: a `Cursor` is what their
loops carry (the spans, a buffer of literal text, what is not read), `ParseRound` and
`ParseMarkdownRound` are one round each, and the loop is as many rounds as there are
characters, for a round at the end changes nothing. `TryMatchTag` takes the first close of its kind and nests nothing;
`TryMatchMarkdown` tries the delimiters longest first and `FindCloser` skips a delimiter
that is escaped, part of a longer run or after white space. A payload keeps what a reader
sees and can press. For a card `RenderCard` chooses as the code does between reply
buttons, a list and text, `UniqueTitles` cuts the labels and numbers those that become
equal; the caps are constants. In `Rendering` a host writes one character or one button
per step, so that TLC goes through every text and every card up to the bounds. The
readers (`TelegramReads`, `MetaAccepts`, `Decode`) are written from what the platforms
take and know nothing of the renderers; `WellFormed` is the set of trees that the markdown
subset can spell.

### ServerConfig

`registered` is the registry, fixed once `main` has made the state; `configs` is the map
behind the lock. `StartServer` reads an environment as `EnvConfigStore::from_env` does
(`FromEnv`, `Load`), makes the adapters that `create_adapter_from_config` accepts
(`Adapters`: Discord needs its application id) and seeds the configurations of all.
`StartOther` is the MCP server alone, which registers nothing, and a host with a registry
of its own. A request is a record; each action is the stretch of a handler between two
awaits: `Send` up to the lock, `Read` the clone, `Deliver` the adapter's call,
`SetChannelConfig` and `Write`, `Health` and one `Ask` per channel in any order. A
configuration is the set of its fields that are present, with the number of the write it
comes from, which no guard reads. `ledger` (what was written), `known` (the latest
version some caller had been told of) and `floor` (`known` when a request began) are
history.

## 3. The runs

| run | instance | what it shows |
|---|---|---|
| `claude_channel` | two channels, a body that answers a request twice from one chat around a message that is not admitted, a body that answers it from the same chat id on the other channel, each delivered up to twice, a request id and the empty one, queue of 2, two stdin lines | types; `AckedIsAccounted`; `HandledWithoutGaps`; `OneVerdictPerAsk`; `ImplementsLedger` |
| `claude_channel_live` | open mode, two bodies delivered and a permission asked for again and again without end, queue of 2, an empty sender | `AcceptedIsHandled`, `LinesAreTaken` |
| `claude_channel_routing` | as the first | violated: `PromptReachesTrigger` |
| `discord_gateway` | limit 2, delays 1000 to 3000, host channel of 1, two messages and two frames in flight | types; `StopsOnlyWhenExhausted`; `SessionWithoutGaps`; `BackoffDoubles`; `DeadSessionIsLeft` |
| `discord_gateway_gives_up` | limit 1 | violated: `GivesUpWhenExhausted` |
| `agui_status` | all three channels, both hosts, interval 2, four events, clock to 5 | types; `StatusEditsAreSpaced`; `ReplyLandsWithoutFaults`; `ShownAdvances`; `FinishedRunIsFinalized` |
| `commands` | six definitions: subcommands of two and three words, aliases, one that takes the key of another, one that takes a name; every text of up to four words over eight | types; `LookupResolves`; `MatchIsMeaning`; `MenuReachesCommands` |
| `outbound_delivery` | all five channels, limit 3, delays 1, 5, 30 as in the code | types; `PrivateStaysPrivate`; `SentMeansShown`; `CopiesAreExplained`; `PostsAreBounded`; `RemovedMeansGone`; `EveryMessageEnds` |
| `inbound` | every transport identity, 49 bodies, every pair of them, two emojis, one trusted bot | types; `ReceivesInputs`; `AddressingIsRight`; `OneResolutionServes`; `ReactionsAreMirrored`; `EveryRequestIsAnswered` |
| `inbound_discord_reactions` | as the first | violated: `DiscordReactionsAreMirrored` |
| `rendering` | every HTML text of up to five of ten characters, every markdown text of up to six of six, every card of up to four of seven actions with three titles and three bodies; caps scaled down to 2 buttons, 3 rows, titles of 3 and 4 | `MarkupSurvives`; `MarkdownSurvives`; `WhatsAppCardsAreUsable` |
| `server_config` | six environments, the MCP server, every registry of a host; three requests of any kind on two channels, two sets of arguments | types; `NothingStaleIsUsed`; `AnswersAreTrue` |

Bounds, and why they are enough. The queue of 2 is smaller than the admitted
messages of the two bodies, so it fills between bodies and inside one; two
deliveries of each give redelivery after every kind of answer. Two lines give a
request and its repetition, or a request and a tool call; with one id a repeated
registration, a reply from the wrong channel, a repeated reply and one after the
verdict all occur. In the gateway a limit of 2 with a cap of 3000 reaches the doubling, the cap
and the reset; one place in the host channel makes every second message wait;
one tick pending beside the served one is enough for a burst.
The live run has the same counters, and `MCClaudeChannelLive` forgets what they
remember of what is over: a body that was answered may be delivered again
(`ForgetDeliveries`), Claude Code may write as many lines again as were taken
(`ForgetLines`). Both go on for ever, and then neither property holds by itself: with
weak in place of strong fairness of `HandleChannelEvent` the run finds a loop that takes
lines only, and a `select!` that always tries the queue first starves stdin.
In the gateway `MaxBarren`, two above the limit, only stops the history counter where the properties no longer
tell numbers apart. Four events and an interval of 2 on a clock to 5 give edits
inside and outside the interval on both sides of a dropped one. Four words are one
more than the longest command, so that arguments follow it, and with a gap they
put two spaces inside a command, before an argument and at either end. `MatchIsMeaning`
is stated for registries without collisions (`Tidy`): where two definitions claim a key,
what a text means depends on who came last. Most orders of registration pass through
such registries, and old matchers meet them too. `MenuReachesCommands` is about every
registry; among the six definitions one has the word of another for an alias and may come
before it or after it, and two have the same name. `OutboundDelivery` needs no bound: the
retry limit ends it. Two requests are what it takes for one to fill the cache while the other waits, before its first or
between its two lookups; a third would only find what one of them left. Five characters of HTML hold a run inside
a run, two runs side by side and a run closed by the wrong tag; six of markdown hold a bold
run with an escape in it, and an italic one around a longer run of asterisks. The caps of
cards are scaled, the labels with them: cut labels become equal, also to a label that
looks numbered; four actions are one more than a list takes. A card without a word, in
title or body, is outside `WhatsAppCardsAreUsable`. Three requests are a write, a read and
somebody who was told of the write in between. Bounds on
the environment (`MaxRequests`, `MaxDeliveries`, `MaxLines`, `MaxMessages`, `MaxWire`, `MaxBeats`,
`MaxDue`, `MaxEvents`, `MaxTime`) appear only as guards of environment
actions. Deadlock is not checked: each of these programs may rightly come
to rest, the bridge after its end, the gateway when stopped, the turn when done,
the message when settled, the webhook when nothing comes in, the registry when everything is registered,
the message when it is written, the server when all requests are answered.

Three runs find documented behaviour that the code does not have; `PROJECT.json`
quotes the lines. In short: prompts go to the last active sender and not to the
one who triggered the conversation; after one READY the gateway never gives up
any more; reactions on Discord never reach the host, although the gateway
client subscribes to them.

Other differences between text and code, met while modelling, have no run of their own:

- `agui_status.rs:83-86` says that finalize returns an error when the channel rejects the
  final update, and `slack/agui_status.rs:389-390` that the reply always lands. A
  rejected edit returns `Ok` on every channel (`EditResult`), so the caller learns nothing
  while the message still shows a status. `ReplyLandsWithoutFaults` is what does hold.
- `slack/agui_status.rs:47-50` says that the user always sees the most recent status. A
  status inside the interval is dropped for good (`DropStatus`).
- `retry.rs:37` speaks of `MAX_RETRY_ATTEMPTS` failures, and it is the failure
  after those that dead-letters a message (`PostsAreBounded` bounds the posts from above,
  by one more than the limit).
- `agui_status.rs:72-73` says that callers of `set_status` must swallow transient errors and
  keep consuming events, and `:113-115` that `drive_status_updates` errs only on
  unrecoverable failures. It passes on every error with `?` (`:122`), a timed-out edit is
  one on all three channels, and the loop shown for hosts (`:106-109`) passes it on again:
  one slow edit ends the turn with the placeholder on display and the reply unsent.
  `FinishedRunIsFinalized` states for which host and after which answers.
- `gateway.rs:539` promises a backoff "with jitter"; the delay is exact, so clients that
  lost Discord together come back together. `BackoffDoubles` states the exact delays.
- `tests/bot_command_list_aliases.rs:189-191` has a command keep its menu row when another
  takes its word as an alias, "otherwise the description shown belongs to a different
  command than the one the tap will run". The row is kept (`registry.rs:110-111`), but
  `register` has given the word to the later definition (`registry.rs:46-48`), so the row
  shows `help` and the tap runs the other. `MenuReachesCommands` says what a tap runs.
- `matcher.rs:79` lets a single pass suffice for aliases, which it does for aliases of one
  word, as in the definitions checked, but not for an alias that begins with another
  command.
- `rich_text.rs:254-260` offers `escape_markdown` for names in a markdown template. A name
  that ends in a backslash or an asterisk, put between the marks of bold, is not read
  back in bold: `find_closer` takes the escaped backslash before the mark for an escape,
  and the escaped asterisk for a part of a longer run. `MarkdownSurvives` leaves these
  names out.
- The renderers say `supports_cards`, and only WhatsApp's minds the caps of its platform.
  Messenger is sent any number of buttons (`messenger/renderer.rs:73-90`) where the platform
  takes three, Discord one row of any length (`discord/renderer.rs:67-91`) where it takes
  five: such a card is refused whole. `WhatsAppCardsAreUsable` is about WhatsApp alone.
- `main.rs:70` of the server says that channels can be configured with
  `set_channel_config`. The tool stores a configuration and registers no adapter, so a
  send on such a channel answers `channel_not_found`; and the `webhook_secret` that
  `tools/config.rs` takes reaches no adapter, for adapters are made once, at start-up.
- `env_config_store.rs` lists `DISCORD_APPLICATION_ID` and
  `META_WHATSAPP_PHONE_NUMBER_ID` as optional. Without the first no adapter is made,
  without the second every send fails (`AdapterNeeds`, `Credentials`).

Fairness. *Bridge*: the runtime schedules handler tasks (weak fairness of
`HandlerStep`), sends return because the HTTP client has a timeout of 30 seconds
(weak fairness of `FinishPrompt`, `FinishReply`), and `tokio::select!` starts
polling at a random branch, so a branch that is ready again and again is taken
(strong fairness of events and of lines). *Gateway*: likewise `select!` (strong
fairness of `HeartbeatTick` and of reading a frame), the timer fires, sleeps end,
and a host that listens keeps consuming. Nothing is assumed of Discord, nor that
connecting ends. *Status*: the consumer task is scheduled and every call ends by
its timeout; nothing is assumed of the run or of the platform. *Sending*: calls end
by the client's timeout and the worker takes up what is due; nothing is assumed of
the platform. *Receiving*: handler tasks are scheduled and calls to
Telegram end. `Commands`, `Rendering` and `ServerConfig` have no liveness: nothing must
ever be registered or written, and that a request is answered is up to the platform's call
and to a fair lock, neither of which is in this repository.

## 4. The proofs

Assumptions are the named ones of the modules: sizes and bounds are natural
numbers, a queue has at least one place, a tick of the timer can wait (`MaxDue`),
the reserved values `None`, `NoId` and `EmptyId` are not what they must not be taken
for, a host writes no entity as one character (`HostWritesNoEntity`:
what it types as `&lt;` is an ampersand and letters; only a renderer makes the entity),
a card is made of texts (`CardsAssumption`), and the caps of WhatsApp's cards leave room for
an ordinal in a title (`CapsAssumption`: titles of three characters or more, and so few
controls that their ordinals have two digits; the code's caps are titles of 20 and 24 and
3 and 10 controls, `whatsapp/renderer.rs:103-112`).
One theorem has a hypothesis of its own, `BackoffFollowsItsSchedule`, named below.

- `ClaudeChannelProofs`: `TypeCorrect` proves `TypeOK`, with the bound of the
  queue, action by action. `VerdictsAreNotReplayed` proves `OneVerdictPerAsk`.
  That invariant is not inductive: nothing in it stops a pending id from having
  had its verdict. `LedgerInv` adds the pending entry to the count, verdicts plus
  pending entries never exceed registrations, and is inductive.
  `RelayImplementsLedger` proves that initial states are initial states of
  `ApprovalLedger` and that each step is `Ask`, `Answer`, `Lose`, `Stop` or a stutter;
  the argument needs that an accepted verdict comes from the endpoint in the map.
  `DeliveriesHaveNoGaps` proves `HandledWithoutGaps` and `AcknowledgedIsKept` proves
  `AckedIsAccounted`, both from `DeliveryInv`. What the loop has dealt with has no gaps
  because what comes before a queued message is dealt with or stands in front of it
  (`QueuedInOrder`); that holds because what a handler has passed is dealt with
  or queued (`PassedIsAccounted`); and a 200 is answered only when the handler has
  passed the whole body. `DequeueKeepsOrder` and `EnqueueKeepsOrder` say so of
  the two ends of the queue.
- `DiscordGatewayProofs`: `StopsForAReason` proves `StopsOnlyWhenExhausted`. The
  strengthening `GiveUpInv` says that the failure counter never exceeds the number
  of sessions since one that saw READY, and that a session that saw READY has the
  bot id set, so its end resets the counter. `MessagesAreNotLost` proves
  `SessionWithoutGaps` from `GapInv`: the messages on the wire are numbered
  consecutively up to the last one sent, and those delivered are all before the
  first of them. `BackoffFollowsItsSchedule` proves `BackoffDoubles`: `DelayIsDue` says
  that a client that waits does so for the delay of its failure counter, and
  `DelayDoubles` that one failure more doubles the delay up to the cap.
  `OutcomeIsKnown` ties what the code believes of a session to what it was: READY sets the
  bot id, and until a session has seen READY the belief is right. The theorem
  supposes a limit of at most 31, where the code stops shifting (`gateway.rs:543`); the limit
  of the code is 10. `TypeCorrect` proves
  `TypeOK`, which is not inductive in `beats`, the heartbeats Discord owes an answer:
  `BeatsInv` bounds them together with the acknowledgements and requests on the wire and
  with the one beat of the timer that no missing acknowledgement holds back.
- `AguiStatusProofs`: `StatusEditsKeepTheRate` proves `StatusEditsAreSpaced`
  from `ThrottleInv`, which ties the number of edits to the time of the last one.
  `StatusOnlyAdvances` proves `ShownAdvances` from `AdvanceInv`: the edit in flight
  is never older than what is shown, and all edits given up are marked as faults.
  `ReplyEndsTheTurn` proves `ReplyLandsWithoutFaults`. `TypeCorrect` adds that there
  are no more edits than events.
- `CommandsProofs`: `TypeCorrect`, and `LookupsResolve` proves `LookupResolves`,
  which is inductive with the types: `Insert` overwrites a key only with the
  definition it enters in the same step, and no key is ever removed, which is why
  a matcher of any age holds no dead key. `MatchingIsRight` proves `MatchIsMeaning` for
  texts of any length. The greedy passes go wrong if a matcher knows one key of
  a command and not another; `MatcherIsClosed` says that with tidy keys it never does,
  whatever was registered since it was built. `MenuIsRight` proves
  `MenuReachesCommands` for definitions with any keys in common. Its invariant is
  `LastClaimantHasKey`, a key leads to the last definition in `order` that claims it;
  `OneWordRuns` says that one word runs what its key leads to, since no other prefix
  fits and nothing is left for the second pass.
- `OutboundDeliveryProofs`: all invariants, `RemovedMeansGone` by itself, four and the
  types from `DeliveryInv`. `CallShape` says which calls a message of each kind can have under
  way; `PostsCounted` ties posts to `attempt_count` and the call under way;
  `WellAddressed` says that a payload that was posted reaches exactly those the
  message is meant for; `CopiesCounted` says that a message that is still alive has
  as many copies as unclear answers at most, which leaves room for the one that
  settles it.
- `InboundProofs`: all properties of `Inbound` but the one under fairness, from
  `InboundInv`. It adds to the properties that a handler waits for Telegram only
  where the code lets it (`SuspendedForAReason`: no suffix was taken off a message
  that still waits for the name), and that whoever had the name left it in the
  cache (`NameIsCached`), which is why `OneResolutionServes` holds: a handler asks
  only when the cache is empty. The argument has two layers. `HandlersFit`: each
  step of a handler suspends it or answers with messages that fit the item they
  were parsed from, one case per action. `FittingKeepsInv`: a step that fits keeps
  the invariant for all requests. `InboundAssumption` says what platforms send; an
  input that a platform may not send is not covered.

- `ServerConfigProofs`: all three properties, from `ConfigInv`. `Latest` says that the
  configuration in force is the last one of the ledger, that no caller knows of a later
  one, and that every channel with an adapter has one where the server was started from
  the environment. `Sound` says that what a request holds was written, or is its own, and
  that it began knowing no more than is known now. `Truthful` adds to the answers the part
  of a health check already done: a channel that was configured has been told of or is
  still to be asked. Each action changes one request and at most one entry of `configs`
  or `known`, which only grows; so the other requests keep what is said of them.

- `RenderingProofs`: `MarkupIsSafe` proves `MarkupSurvives` and `MarkdownIsSafe` proves
  `MarkdownSurvives`, for texts of any length over any characters. The properties speak of
  one state, so the work is in the parsers and renderers, by induction over texts: a
  set of texts for which a statement holds contains the empty one and, with a text, the
  text longer by a character. Every round of `parse` keeps the whole text, in spans, buffer
  and rest together (`ParseLosesNothing`), which gives the first conjunct of `MarkupSurvives`;
  what each renderer writes of each span, and what its reader makes of it, gives the others but one.
  That one, and all of `MarkdownSurvives`, are about a parser that reads what a renderer
  wrote. `Ends` turns a loop into the function from each of its states to the one it
  stops in; `ReadsBack` says what that function must do with the piece that a renderer
  writes of one span, in front of whatever may follow; `TreeReadsBack` then reads whole
  trees back, one span after the other. It is used for the HTML subset
  (`RichTextReadsBack`) and for Discord's markdown (`DiscordReadsBack`). The inductive
  statement about `parse_markdown` is `Spells`, not `WellFormed`: the parser itself yields
  trees that `WellFormed` excludes (a code run may hold a back quote behind
  a backslash, which closes nothing), and they too are read back. The first two conjuncts of
  `MarkdownSurvives` are stated for texts without a tag of the HTML subset in them, as
  `rich_text.rs:427-430` allows for: that subset has no escape for a tag, so literal `<b>x</b>`
  in markdown becomes bold on the way. The characters of the run hold no tag.
  `WhatsAppCardsStayUsable` proves `WhatsAppCardsAreUsable` for cards with any number of actions of any
  length, sent to WhatsApp. The point is that the loop of `unique_titles`, which numbers a title until it is a
  new one, ends, and with a title within its cap: no two ordinals make the same title
  (`CandidatesDiffer`, from the last two characters), so among as many candidates as there
  are titles and one, one is free (`OneIsFree`). `UniqueFacts` then carries
  distinct, visible titles within the cap through all actions.

Only model-checked: what holds under fairness (`AcceptedIsHandled`, `LinesAreTaken`,
`DeadSessionIsLeft`, `FinishedRunIsFinalized`, `EveryMessageEnds`,
`EveryRequestIsAnswered`), since liveness is out of this prover's reach. Every other
property of a passing run is proved.

## 5. Not modelled

Wording, logging, JSON layout and the values of credentials. Within the modelled
parts: signatures and the window of Slack's timestamp check, the markup Slack's parser
strips from a text, sequence numbers of heartbeats, the fields of a parsed Discord message,
topic ids, the fields of received media, ids by which a host may recognise redelivered
messages (a Messenger referral has none), letters whose lower case has another length in
bytes (`matcher.rs:102`), a prompt whose message could not be sent (`permission.rs:183`: its
id stays pending, which the models allow), and the fields `is_active` and `tenant_id` of a
configuration, which are stored and shown and decide nothing. `config.rs` reads limits once; turn
ids, counters and tracing have no state that changes.

## 6. Plan

1. `StatusTurns`: two turns in one channel. `last_edit_at` is per adapter, the limit of the
   platform per channel, so together they may exceed it (`slack/agui_status.rs:88`).
2. An abstract `Outbox` that `OutboundDelivery` implements, and the composition of
   a command given in a room with the private reply and the removal.
3. An abstract register that `ServerConfig` implements: each read and each write at one
   moment of its call.
