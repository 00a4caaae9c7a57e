----------------------------- MODULE ServerConfig -----------------------------
(***************************************************************************)
(* The configurations of the unified server: how its channels come out of  *)
(* the environment at start-up, and the requests that read and replace     *)
(* them while it runs: sends by REST and by MCP, get_channel_config,       *)
(* set_channel_config, list_channels and the health check.  Each access to *)
(* the configurations awaits a lock, so requests interleave there; the     *)
(* registry never changes.                                                 *)
(*                                                                         *)
(* A configuration is the set of its fields that are present, and the      *)
(* version it was written as.                                              *)
(***************************************************************************)
EXTENDS Naturals, Sequences

CONSTANTS Channels,      \* those of the five that the program is built with
          Environments,  \* per channel, the fields whose variable is set and not empty
          ArgumentSets,  \* the fields a caller may give a configuration
          Requests       \* bound: the requests handled

Fields == {"api_key", "api_secret", "webhook_secret", "verify_token", "account_id",
           "phone_number", "bot_token"}

ASSUME ServerConfigAssumption ==
  /\ Channels # {}
  /\ Channels \subseteq {"slack", "telegram", "whatsapp", "discord", "messenger"}
  /\ Environments \subseteq [Channels -> SUBSET Fields]
  /\ ArgumentSets \subseteq SUBSET Fields

VARIABLES
  launcher,    \* the program that built the state
  registered,  \* ServerState.registry
  configs,     \* ServerState.configs
  ledger,      \* history: per channel, the configurations written, by version
  known,       \* history: per channel, the latest version a caller was told of
  requests     \* what each request asks, how far it is, and what it holds

vars == <<launcher, registered, configs, ledger, known, requests>>

Config == [version: Nat, has: SUBSET Fields]
Absent == [version |-> 0, has |-> {}]
Own(has) == [version |-> 0, has |-> has]

\* A send that brings its own configuration, a send that does not, by REST and by MCP, and
\* the four others.
Sends == {"send_own", "send", "send_message"}
Kinds == Sends \cup {"get", "set", "health", "list"}

Steps == {"idle", "reading", "sending", "writing", "asking", "done", "answered"}

Answers == {"none", "not_registered", "not_configured", "sent", "failed",
            "configured", "ok", "degraded"}

\* config: the one it has cloned, brought or will write; left and told: of the channels a
\* health check goes through, those not asked yet and those found configured; floor is
\* history: known when the request began.
Request ==
  [kind: Kinds, channel: Channels, step: Steps, config: Config, left: SUBSET Channels,
   told: SUBSET Channels, answer: Answers, floor: [Channels -> Nat]]

------------------------------------------------------------------------------
(***************************************************************************)
(* Start-up.                                                               *)
(***************************************************************************)
Token(ch) == IF ch \in {"telegram", "discord"} THEN "bot_token" ELSE "api_key"

Required(ch) == {Token(ch), "webhook_secret"}

Optional(ch) == CASE ch = "whatsapp"  -> {"phone_number", "verify_token"}
                  [] ch = "discord"   -> {"account_id"}
                  [] ch = "messenger" -> {"verify_token"}
                  [] OTHER            -> {}

Load(ch, env) == Required(ch) \cup (Optional(ch) \cap env)

\* EnvConfigStore::from_env: the channels whose required variables are there.
FromEnv(env) == {ch \in Channels : Required(ch) \subseteq env[ch]}

\* create_adapter_from_config's fields.
AdapterNeeds(ch) ==
  {"webhook_secret"} \cup (IF ch = "discord" THEN {"account_id"} ELSE {})

Adapters(env) == {ch \in FromEnv(env) : AdapterNeeds(ch) \subseteq Load(ch, env[ch])}

\* Mutant: the adapters are registered, the configurations forgotten.
SeededNever(env) == {}

\* The channels whose configuration main hands to the state: all that are configured,
\* with an adapter or without.
Seeded(env) == FromEnv(env)

\* Nothing is asked yet: kind and channel mean nothing before a request begins.
Idle(ch) ==
  [kind |-> "list", channel |-> ch, step |-> "idle", config |-> Absent, left |-> {},
   told |-> {}, answer |-> "none", floor |-> [c \in Channels |-> 0]]

\* main with the channels of the environment.
StartServer(env) ==
  /\ launcher = "server"
  /\ registered = Adapters(env)
  /\ ledger = [ch \in Channels |-> IF ch \in Seeded(env) THEN <<Load(ch, env[ch])>> ELSE << >>]

\* The MCP server on its own registers nothing; a host that builds the router on a state of
\* its own registers what it likes.  Neither has configurations.
StartOther ==
  /\ \/ launcher = "mcp" /\ registered = {}
     \/ launcher = "host" /\ registered \in SUBSET Channels
  /\ ledger = [ch \in Channels |-> << >>]

Written(ch, n) == IF n = 0 THEN Absent ELSE [version |-> n, has |-> ledger[ch][n]]

Init ==
  /\ StartOther \/ \E env \in Environments : StartServer(env)
  /\ configs = [ch \in Channels |-> Written(ch, Len(ledger[ch]))]
  /\ known = [ch \in Channels |-> Len(ledger[ch])]
  /\ requests = [r \in Requests |-> Idle(CHOOSE ch \in Channels : TRUE)]

------------------------------------------------------------------------------
(***************************************************************************)
(* The requests.  A step ends where the handler awaits the lock of the     *)
(* configurations, or the platform.                                        *)
(***************************************************************************)
GetConfig(ch) == configs[ch]

Became(r, state) ==
  /\ requests' = [requests EXCEPT ![r] = state]
  /\ UNCHANGED <<launcher, registered>>

\* A new request, at its first step.
Begun(k, ch, state) ==
  [Idle(ch) EXCEPT !.kind = k, !.floor = known, !.step = state]

\* send::handle and the tool send_message: the adapter, then the configuration.
Send(r, k, ch, has) ==
  /\ requests[r].step = "idle" /\ k \in Sends
  /\ \/ /\ ch \notin registered
        /\ Became(r, [Begun(k, ch, "done") EXCEPT !.answer = "not_registered"])
     \/ /\ ch \in registered /\ k = "send_own"
        /\ Became(r, [Begun(k, ch, "sending") EXCEPT !.config = Own(has)])
     \/ /\ ch \in registered /\ k # "send_own"
        /\ Became(r, Begun(k, ch, "reading"))
  /\ UNCHANGED <<configs, ledger, known>>

\* A request to read a configuration or to replace it: no adapter is needed.
GetChannelConfig(r, ch) ==
  /\ requests[r].step = "idle"
  /\ Became(r, Begun("get", ch, "reading"))
  /\ UNCHANGED <<configs, ledger, known>>

SetChannelConfig(r, ch, has) ==
  /\ requests[r].step = "idle"
  /\ Became(r, [Begun("set", ch, "writing") EXCEPT !.config = Own(has)])
  /\ UNCHANGED <<configs, ledger, known>>

\* ServerState::get_config, behind the lock: a clone, or none.
Read(r) ==
  LET q == requests[r]
      c == GetConfig(q.channel)
  IN /\ q.step = "reading"
     /\ \/ /\ c = Absent
           /\ Became(r, [q EXCEPT !.step = "done", !.answer = "not_configured"])
        \/ /\ c # Absent /\ q.kind = "get"
           /\ Became(r, [q EXCEPT !.step = "done", !.config = c, !.answer = "ok"])
        \/ /\ c # Absent /\ q.kind # "get"
           /\ Became(r, [q EXCEPT !.step = "sending", !.config = c])
     /\ UNCHANGED <<configs, ledger, known>>

\* What an adapter's send takes from the configuration.
Credentials(ch) == {Token(ch)} \cup (IF ch = "whatsapp" THEN {"phone_number"} ELSE {})

\* adapter.send: without its credentials it fails before it calls the platform.
Deliver(r, outcome) ==
  LET q == requests[r] IN
  /\ q.step = "sending"
  /\ outcome = "failed" \/ (outcome = "sent" /\ Credentials(q.channel) \subseteq q.config.has)
  /\ Became(r, [q EXCEPT !.step = "done", !.answer = outcome])
  /\ UNCHANGED <<configs, ledger, known>>

\* Mutant: the new fields are added to those that were there.
WriteMerged(r) ==
  LET q == requests[r]
      c == [q.config EXCEPT !.version = Len(ledger[q.channel]) + 1]
  IN /\ q.step = "writing"
     /\ configs' = [configs EXCEPT ![q.channel] = [c EXCEPT !.has = @ \cup configs[q.channel].has]]
     /\ ledger' = [ledger EXCEPT ![q.channel] = Append(@, c.has)]
     /\ Became(r, [q EXCEPT !.step = "done", !.config = c, !.answer = "configured"])
     /\ UNCHANGED known

\* ServerState::set_config, behind the lock: the whole configuration is replaced.
Write(r) ==
  LET q == requests[r]
      c == [q.config EXCEPT !.version = Len(ledger[q.channel]) + 1]
  IN /\ q.step = "writing"
     /\ configs' = [configs EXCEPT ![q.channel] = c]
     /\ ledger' = [ledger EXCEPT ![q.channel] = Append(@, c.has)]
     /\ Became(r, [q EXCEPT !.step = "done", !.config = c, !.answer = "configured"])
     /\ UNCHANGED known

\* health::handle: one read of the configurations per registered channel, in any order.
Health(r, ch) ==
  /\ requests[r].step = "idle"
  /\ IF registered = {}
     THEN Became(r, [Begun("health", ch, "done") EXCEPT !.answer = "degraded"])
     ELSE Became(r, [Begun("health", ch, "asking") EXCEPT !.left = registered])
  /\ UNCHANGED <<configs, ledger, known>>

\* Mutant: the channel just asked stays on the list.
AskAgain(r, ch) ==
  LET q == requests[r] IN
  /\ q.step = "asking" /\ ch \in q.left
  /\ Became(r, [q EXCEPT !.told = @ \cup (IF GetConfig(ch) # Absent THEN {ch} ELSE {}),
                         !.step = IF q.left = {ch} THEN "done" ELSE "asking",
                         !.answer = IF q.left = {ch} THEN "ok" ELSE "none"])
  /\ UNCHANGED <<configs, ledger, known>>

Ask(r, ch) ==
  LET q == requests[r] IN
  /\ q.step = "asking" /\ ch \in q.left
  /\ Became(r, [q EXCEPT !.left = @ \ {ch},
                         !.told = @ \cup (IF GetConfig(ch) # Absent THEN {ch} ELSE {}),
                         !.step = IF q.left = {ch} THEN "done" ELSE "asking",
                         !.answer = IF q.left = {ch} THEN "ok" ELSE "none"])
  /\ UNCHANGED <<configs, ledger, known>>

\* list_channels waits for nothing.
ListChannels(r, ch) ==
  /\ requests[r].step = "idle"
  /\ Became(r, [Begun("list", ch, "done") EXCEPT !.told = registered, !.answer = "ok"])
  /\ UNCHANGED <<configs, ledger, known>>

\* The caller has the answer, and with it knows of the configuration behind it.
Answer(r) ==
  LET q == requests[r] IN
  /\ q.step = "done"
  /\ Became(r, [q EXCEPT !.step = "answered"])
  /\ known' = [known EXCEPT ![q.channel] = IF q.config.version > @ THEN q.config.version ELSE @]
  /\ UNCHANGED <<configs, ledger>>

Next ==
  \E r \in Requests, ch \in Channels :
    \/ \E k \in Sends, has \in ArgumentSets : Send(r, k, ch, has)
    \/ GetChannelConfig(r, ch)
    \/ \E has \in ArgumentSets : SetChannelConfig(r, ch, has)
    \/ Read(r)
    \/ \E outcome \in {"sent", "failed"} : Deliver(r, outcome)
    \/ Write(r)
    \/ Health(r, ch)
    \/ Ask(r, ch)
    \/ ListChannels(r, ch)
    \/ Answer(r)

Spec == Init /\ [][Next]_vars

------------------------------------------------------------------------------
Configured(ch) == configs[ch].version > 0

\* Requests hold whole configurations, and only a health check goes through channels.
TypeOK ==
  /\ launcher \in {"server", "mcp", "host"}
  /\ registered \subseteq Channels
  /\ configs \in [Channels -> Config]
  /\ ledger \in [Channels -> Seq(SUBSET Fields)]
  /\ known \in [Channels -> Nat]
  /\ requests \in [Requests -> Request]
  /\ \A r \in Requests :
       requests[r].step = "asking" <=> (requests[r].kind = "health" /\ requests[r].left # {})

\* What a request has taken from the state: a send or a get that found a configuration.
Took(q) ==
  q.kind \in {"send", "send_message", "get"} /\ q.config.version > 0

\* Configurations are read and replaced whole (config.rs:208, state.rs:53-60): whatever
\* requests run meanwhile, one that sends or shows a configuration holds exactly one that
\* somebody wrote, and none older than any a caller had been told of when it began -
\* written, read or sent with.
NothingStaleIsUsed ==
  \A r \in Requests :
    LET q == requests[r] IN
    Took(q) =>
      /\ q.config.version \in q.floor[q.channel]..Len(ledger[q.channel])
      /\ q.config.has = ledger[q.channel][q.config.version]

\* Answers tell the truth about the whole span of a request (send.rs:55-88,
\* health.rs:30-57, tools/config.rs:58-67, tools/send.rs:112-122): "not configured" is said
\* only if nobody had been told of a configuration before, and never by a send of the
\* server that read its channels from the environment; a message is sent only with its
\* credentials; the health check misses no channel that was configured before it began and
\* invents none, although it reads the channels one by one.
AnswersAreTrue ==
  \A r \in Requests :
    LET q == requests[r] IN
    /\ q.answer = "not_configured" =>
         q.floor[q.channel] = 0 /\ (q.kind \in Sends => launcher # "server")
    /\ q.answer = "sent" => /\ q.channel \in registered
                            /\ Credentials(q.channel) \subseteq q.config.has
    /\ q.kind = "health" /\ q.answer = "ok" =>
         /\ {ch \in registered : q.floor[ch] > 0} \subseteq q.told
         /\ q.told \subseteq {ch \in registered : Configured(ch)}
==============================================================================
