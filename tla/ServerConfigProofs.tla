-------------------------- MODULE ServerConfigProofs --------------------------
(***************************************************************************)
(* Theorems about ServerConfig, for any channels, environment and number   *)
(* of requests.                                                            *)
(***************************************************************************)
EXTENDS ServerConfig, TLAPS

\* A version is nothing, or one that was written to the channel.
IsWritten(c, ch) ==
  /\ c.version <= Len(ledger[ch])
  /\ c.version > 0 => c.has = ledger[ch][c.version]

\* The state holds the last configuration written, and nobody was told of a later one.
Latest ==
  \A ch \in Channels :
    /\ configs[ch].version = Len(ledger[ch])
    /\ configs[ch].version = 0 => configs[ch] = Absent
    /\ IsWritten(configs[ch], ch)
    /\ known[ch] <= Len(ledger[ch])
    /\ launcher = "server" /\ ch \in registered => Len(ledger[ch]) > 0

\* Where a request stands: what it holds was written, its caller knew no more when it
\* began than is known now, and it is answered at its last step.
Sound(q) ==
  /\ IsWritten(q.config, q.channel)
  /\ \A ch \in Channels : q.floor[ch] <= known[ch]
  /\ Took(q) => q.config.version >= q.floor[q.channel]
  /\ q.step \notin {"done", "answered"} => q.answer = "none"
  /\ q.step = "sending" \/ (q.step = "reading" /\ q.kind \in Sends) => q.channel \in registered
  /\ q.step = "reading" => q.kind \in Sends \cup {"get"}
  /\ q.step = "writing" => q.config.version = 0

\* What its answer says is true, of the part of a health check already done too.
Truthful(q) ==
  /\ q.answer = "not_configured" =>
       q.floor[q.channel] = 0 /\ (q.kind \in Sends => launcher # "server")
  /\ q.answer = "sent" => q.channel \in registered /\ Credentials(q.channel) \subseteq q.config.has
  /\ q.kind = "health" =>
       /\ \A ch \in registered : q.floor[ch] > 0 => ch \in q.told \cup q.left
       /\ \A ch \in q.told : ch \in registered /\ Configured(ch)
       /\ q.left \subseteq registered
       /\ q.answer = "ok" => q.left = {}

ConfigInv ==
  TypeOK /\ Latest /\ \A r \in Requests : Sound(requests[r]) /\ Truthful(requests[r])

\* A request as the type invariant knows it.
Typed(q) ==
  /\ q \in Request
  /\ q.step = "asking" <=> (q.kind = "health" /\ q.left # {})
------------------------------------------------------------------------------
(***************************************************************************)
(* Start-up.                                                               *)
(***************************************************************************)
\* The loaders produce fields (env_config_store.rs:119-161).
LEMMA LoadFields == ASSUME NEW ch, NEW env PROVE Load(ch, env) \subseteq Fields
  BY DEF Load, Required, Optional, Token, Fields

\* A program starts with the last configurations written, and with nothing asked.
LEMMA InitInv == Init => ConfigInv
<1> SUFFICES ASSUME Init PROVE ConfigInv
  OBVIOUS
<1> DEFINE idle == Idle(CHOOSE ch \in Channels : TRUE)
<1>1. (CHOOSE ch \in Channels : TRUE) \in Channels
  BY ServerConfigAssumption
<1>2. /\ idle \in Request /\ idle.kind = "list" /\ idle.step = "idle" /\ idle.left = {}
      /\ idle.config = Absent /\ idle.answer = "none" /\ idle.channel \in Channels
      /\ idle.floor = [c \in Channels |-> 0]
  BY <1>1 DEF Idle, Request, Config, Absent, Kinds, Sends, Steps, Answers
<1>3. ledger \in [Channels -> Seq(SUBSET Fields)]
  <2>1. CASE StartOther
    BY <2>1 DEF StartOther
  <2>2. CASE \E env \in Environments : StartServer(env)
    <3>1. PICK env \in Environments : StartServer(env)
      BY <2>2
    <3>2. \A ch \in Channels : <<Load(ch, env[ch])>> \in Seq(SUBSET Fields)
      <4> TAKE ch \in Channels
      <4>1. Load(ch, env[ch]) \in SUBSET Fields
        BY LoadFields
      <4> HIDE DEF Fields
      <4> QED
        BY <4>1
    <3>3. << >> \in Seq(SUBSET Fields)
      OBVIOUS
    <3> QED
      BY <3>1, <3>2, <3>3 DEF StartServer
  <2> QED
    BY <2>1, <2>2 DEF Init
<1>4. launcher \in {"server", "mcp", "host"} /\ registered \subseteq Channels
  BY DEF Init, StartOther, StartServer, Adapters, FromEnv
<1>5. \A ch \in Channels : Len(ledger[ch]) \in Nat
  BY <1>3
<1>6. ASSUME NEW ch \in Channels
      PROVE /\ configs[ch] \in Config
            /\ configs[ch].version = Len(ledger[ch])
            /\ configs[ch].version = 0 => configs[ch] = Absent
            /\ IsWritten(configs[ch], ch)
            /\ known[ch] = Len(ledger[ch])
  <2>1. configs[ch] = Written(ch, Len(ledger[ch])) /\ known[ch] = Len(ledger[ch])
    BY DEF Init
  <2>2. CASE Len(ledger[ch]) = 0
    BY <2>1, <2>2 DEF Written, Absent, Config, IsWritten
  <2>3. CASE Len(ledger[ch]) # 0
    <3>1. Len(ledger[ch]) \in 1..Len(ledger[ch])
      BY <2>3, <1>5
    <3>2. ledger[ch][Len(ledger[ch])] \in SUBSET Fields
      BY <3>1, <1>3
    <3> QED
      BY <2>1, <2>3, <3>2, <1>5 DEF Written, Config, IsWritten
  <2> QED
    BY <2>2, <2>3
<1>7. ASSUME NEW ch \in Channels, launcher = "server", ch \in registered
      PROVE  Len(ledger[ch]) > 0
  <2>1. PICK env \in Environments : StartServer(env)
    BY <1>7 DEF Init, StartOther
  <2>2. ledger[ch] = <<Load(ch, env[ch])>>
    BY <2>1, <1>7 DEF StartServer, Seeded, Adapters
  <2> QED
    BY <2>2
<1>8. configs \in [Channels -> Config] /\ known \in [Channels -> Nat]
  BY <1>5, <1>6 DEF Init
<1>9. requests = [r \in Requests |-> idle]
  BY DEF Init
<1>10. TypeOK
  BY <1>2, <1>3, <1>4, <1>8, <1>9 DEF TypeOK
<1>11. Latest
  <2> SUFFICES ASSUME NEW ch \in Channels
               PROVE  /\ configs[ch].version = Len(ledger[ch])
                      /\ configs[ch].version = 0 => configs[ch] = Absent
                      /\ IsWritten(configs[ch], ch)
                      /\ known[ch] <= Len(ledger[ch])
                      /\ launcher = "server" /\ ch \in registered => Len(ledger[ch]) > 0
    BY DEF Latest
  <2>1. Len(ledger[ch]) \in Nat /\ known[ch] = Len(ledger[ch])
    BY <1>5, <1>6
  <2> QED
    BY <2>1, <1>6, <1>7
<1>12. Sound(idle)
  <2> HIDE DEF idle
  <2>1. idle.config.version = 0
    BY <1>2 DEF Absent
  <2>2. IsWritten(idle.config, idle.channel)
    BY <2>1, <1>2, <1>5 DEF IsWritten
  <2>3. \A ch \in Channels : idle.floor[ch] <= known[ch]
    BY <1>2, <1>8
  <2> QED
    BY <1>2, <2>1, <2>2, <2>3 DEF Sound, Took
<1>13. Truthful(idle)
  BY <1>2 DEF Truthful
<1> QED
  BY <1>9, <1>10, <1>11, <1>12, <1>13 DEF ConfigInv
------------------------------------------------------------------------------
(***************************************************************************)
(* Steps that leave the configurations alone.                              *)
(***************************************************************************)
\* A step that leaves the configurations alone keeps the invariant if the request it moves
\* is in order afterwards.
LEMMA QuietStep ==
  ASSUME ConfigInv, NEW r \in Requests, NEW q,
         Became(r, q), UNCHANGED <<configs, ledger, known>>,
         Typed(q), Sound(q), Truthful(q)
  PROVE  ConfigInv'
<1>1. requests' = [requests EXCEPT ![r] = q] /\ requests \in [Requests -> Request]
  BY DEF Became, ConfigInv, TypeOK
<1>2. UNCHANGED <<launcher, registered, configs, ledger, known>>
  BY DEF Became
<1>3. \A s \in Requests : requests'[s] = IF s = r THEN q ELSE requests[s]
  BY <1>1
<1>4. TypeOK'
  BY <1>1, <1>2, <1>3 DEF ConfigInv, TypeOK, Typed
<1>5. Latest'
  BY <1>2 DEF ConfigInv, Latest, IsWritten
<1>6. ASSUME NEW s \in Requests PROVE Sound(requests[s])' /\ Truthful(requests[s])'
  <2>1. PICK p : p = requests'[s] /\ Sound(p) /\ Truthful(p)
    BY <1>3 DEF ConfigInv
  <2>2. Sound(p)' /\ Truthful(p)'
    BY <1>2, <2>1 DEF Sound, Truthful, IsWritten, Took, Configured
  <2> QED
    BY <2>1, <2>2
<1> QED
  BY <1>4, <1>5, <1>6 DEF ConfigInv

\* A request just begun knows what is known, and holds nothing or an unwritten configuration.
LEMMA BegunInOrder ==
  ASSUME ConfigInv, NEW k \in Kinds, NEW ch \in Channels, NEW st \in Steps
  PROVE  LET q == Begun(k, ch, st)
         IN /\ q \in Request /\ q.kind = k /\ q.channel = ch /\ q.step = st /\ q.config = Absent
            /\ q.left = {} /\ q.told = {} /\ q.answer = "none" /\ q.floor = known
  BY DEF ConfigInv, TypeOK, Begun, Idle, Request, Config, Absent, Answers

\* Sends: the adapter is looked up when the request begins.
LEMMA SendInv ==
  ASSUME ConfigInv, NEW r \in Requests, NEW k \in Sends, NEW ch \in Channels,
         NEW has \in ArgumentSets, Send(r, k, ch, has)
  PROVE  ConfigInv'
<1>1. k \in Kinds /\ k # "health" /\ k # "get" /\ k # "set"
  BY DEF Kinds, Sends
<1>2. Own(has) \in Config /\ Own(has).version = 0
  BY ServerConfigAssumption DEF Own, Config
<1>3. Len(ledger[ch]) \in Nat /\ known \in [Channels -> Nat]
  BY DEF ConfigInv, TypeOK
<1>4. CASE ch \notin registered
  <2> DEFINE b == Begun(k, ch, "done")
             q == [b EXCEPT !.answer = "not_registered"]
  <2>1. b \in Request /\ b.kind = k /\ b.channel = ch /\ b.step = "done" /\ b.config = Absent
        /\ b.left = {} /\ b.told = {} /\ b.answer = "none" /\ b.floor = known
    BY <1>1, BegunInOrder DEF Steps
  <2> HIDE DEF b
  <2>2. Typed(q)
    BY <1>1, <2>1 DEF Typed, Request, Answers
  <2>3. Sound(q) /\ Truthful(q)
    BY <1>1, <1>3, <2>1 DEF Sound, Truthful, IsWritten, Absent, Took, Request
  <2> QED
    BY <1>4, <2>2, <2>3, QuietStep DEF Send, b
<1>5. CASE ch \in registered /\ k = "send_own"
  <2> DEFINE b == Begun(k, ch, "sending")
             q == [b EXCEPT !.config = Own(has)]
  <2>1. b \in Request /\ b.kind = k /\ b.channel = ch /\ b.step = "sending" /\ b.config = Absent
        /\ b.left = {} /\ b.told = {} /\ b.answer = "none" /\ b.floor = known
    BY <1>1, BegunInOrder DEF Steps
  <2> HIDE DEF b
  <2>2. Typed(q)
    BY <1>1, <1>2, <2>1 DEF Typed, Request
  <2>3. Sound(q) /\ Truthful(q)
    BY <1>1, <1>2, <1>3, <1>5, <2>1 DEF Sound, Truthful, IsWritten, Took, Request
  <2> QED
    BY <1>5, <2>2, <2>3, QuietStep DEF Send, b
<1>6. CASE ch \in registered /\ k # "send_own"
  <2> DEFINE b == Begun(k, ch, "reading")
  <2>1. b \in Request /\ b.kind = k /\ b.channel = ch /\ b.step = "reading" /\ b.config = Absent
        /\ b.left = {} /\ b.told = {} /\ b.answer = "none" /\ b.floor = known
    BY <1>1, BegunInOrder DEF Steps
  <2> HIDE DEF b
  <2>2. Typed(b)
    BY <1>1, <2>1 DEF Typed
  <2>3. Sound(b) /\ Truthful(b)
    BY <1>1, <1>3, <1>6, <2>1 DEF Sound, Truthful, IsWritten, Absent, Took
  <2> QED
    BY <1>6, <2>2, <2>3, QuietStep DEF Send, b
<1> QED
  BY <1>4, <1>5, <1>6

\* A request to read a configuration begins.
LEMMA GetInv ==
  ASSUME ConfigInv, NEW r \in Requests, NEW ch \in Channels, GetChannelConfig(r, ch)
  PROVE  ConfigInv'
<1> DEFINE b == Begun("get", ch, "reading")
<1>1. /\ b \in Request /\ b.kind = "get" /\ b.channel = ch /\ b.step = "reading"
      /\ b.config = Absent
      /\ b.left = {} /\ b.told = {} /\ b.answer = "none" /\ b.floor = known
  <2>1. "get" \in Kinds /\ "reading" \in Steps
    BY DEF Kinds, Steps
  <2> QED
    BY <2>1, BegunInOrder
<1>2. Len(ledger[ch]) \in Nat /\ known \in [Channels -> Nat]
  BY DEF ConfigInv, TypeOK
<1> HIDE DEF b
<1>3. Typed(b)
  BY <1>1 DEF Typed
<1>4. Sound(b) /\ Truthful(b)
  BY <1>1, <1>2 DEF Sound, Truthful, IsWritten, Absent, Took, Sends
<1> QED
  BY <1>3, <1>4, QuietStep DEF GetChannelConfig, b

\* A request to replace a configuration begins.
LEMMA SetInv ==
  ASSUME ConfigInv, NEW r \in Requests, NEW ch \in Channels, NEW has \in ArgumentSets,
         SetChannelConfig(r, ch, has)
  PROVE  ConfigInv'
<1> DEFINE b == Begun("set", ch, "writing")
           q == [b EXCEPT !.config = Own(has)]
<1>1. /\ b \in Request /\ b.kind = "set" /\ b.channel = ch /\ b.step = "writing"
      /\ b.config = Absent
      /\ b.left = {} /\ b.told = {} /\ b.answer = "none" /\ b.floor = known
  BY BegunInOrder DEF Steps, Kinds
<1>2. Own(has) \in Config /\ Own(has).version = 0
  BY ServerConfigAssumption DEF Own, Config
<1>3. Len(ledger[ch]) \in Nat /\ known \in [Channels -> Nat]
  BY DEF ConfigInv, TypeOK
<1> HIDE DEF b
<1>4. Typed(q)
  BY <1>1, <1>2 DEF Typed, Request
<1>5. Sound(q) /\ Truthful(q)
  BY <1>1, <1>2, <1>3 DEF Sound, Truthful, IsWritten, Took, Request
<1> QED
  BY <1>4, <1>5, QuietStep DEF SetChannelConfig, b

\* The configuration is cloned under the lock (state.rs:53-55).
LEMMA ReadInv ==
  ASSUME ConfigInv, NEW r \in Requests, Read(r)
  PROVE  ConfigInv'
<1> DEFINE q == requests[r]
           c == configs[q.channel]
<1>1. /\ q.step = "reading" /\ q.answer = "none"
      /\ Typed(q) /\ Sound(q) /\ Truthful(q) /\ q \in Request /\ q.channel \in Channels
  BY DEF ConfigInv, TypeOK, Typed, Sound, Read, Request
<1>2. /\ c \in Config /\ Len(ledger[q.channel]) \in Nat /\ c.version = Len(ledger[q.channel])
      /\ IsWritten(c, q.channel) /\ (c.version = 0 => c = Absent)
      /\ known[q.channel] <= Len(ledger[q.channel]) /\ known[q.channel] \in Nat
      /\ q.floor[q.channel] \in Nat /\ q.floor[q.channel] <= known[q.channel]
      /\ (launcher = "server" /\ q.channel \in registered => Len(ledger[q.channel]) > 0)
  BY <1>1 DEF ConfigInv, TypeOK, Latest, Sound, Request
<1> HIDE DEF q, c
<1>3. CASE /\ c = Absent
           /\ Became(r, [q EXCEPT !.step = "done", !.answer = "not_configured"])
  <2> DEFINE p == [q EXCEPT !.step = "done", !.answer = "not_configured"]
  <2>1. c.version = 0
    BY <1>3 DEF Absent
  <2>2. q.floor[q.channel] = 0 /\ (q.kind \in Sends => launcher # "server")
    BY <2>1, <1>1, <1>2 DEF Sound
  <2>3. Typed(p)
    BY <1>1 DEF Typed, Request, Steps, Answers
  <2>4. Sound(p) /\ Truthful(p)
    BY <1>1, <2>2 DEF Sound, Truthful, Took, Request, IsWritten
  <2> QED
    BY <1>3, <2>3, <2>4, QuietStep DEF Read
<1>4. CASE /\ c # Absent /\ q.kind = "get"
           /\ Became(r, [q EXCEPT !.step = "done", !.config = c, !.answer = "ok"])
  <2> DEFINE p == [q EXCEPT !.step = "done", !.config = c, !.answer = "ok"]
  <2>1. Typed(p)
    BY <1>1, <1>2, <1>4 DEF Typed, Request, Steps, Answers
  <2>2. Sound(p) /\ Truthful(p)
    BY <1>1, <1>2, <1>4 DEF Sound, Truthful, Took, Request, Config
  <2> QED
    BY <1>4, <2>1, <2>2, QuietStep DEF Read
<1>5. CASE /\ c # Absent /\ q.kind # "get"
           /\ Became(r, [q EXCEPT !.step = "sending", !.config = c])
  <2> DEFINE p == [q EXCEPT !.step = "sending", !.config = c]
  <2>1. q.kind \in Sends
    BY <1>1, <1>5 DEF Sound
  <2>2. Typed(p)
    BY <1>1, <1>2 DEF Typed, Request, Steps
  <2>3. Sound(p) /\ Truthful(p)
    BY <1>1, <1>2, <2>1 DEF Sound, Truthful, Took, Request, Config
  <2> QED
    BY <1>5, <2>2, <2>3, QuietStep DEF Read
<1> QED
  BY <1>3, <1>4, <1>5 DEF Read, GetConfig, q, c

\* The platform answers, or the adapter lacks its credentials.
LEMMA DeliverInv ==
  ASSUME ConfigInv, NEW r \in Requests, NEW outcome \in {"sent", "failed"}, Deliver(r, outcome)
  PROVE  ConfigInv'
<1> DEFINE q == requests[r]
           p == [q EXCEPT !.step = "done", !.answer = outcome]
<1>1. /\ Typed(q) /\ Sound(q) /\ Truthful(q) /\ q \in Request
      /\ q.step = "sending" /\ q.channel \in registered
      /\ outcome = "sent" => Credentials(q.channel) \subseteq q.config.has
      /\ Became(r, p) /\ UNCHANGED <<configs, ledger, known>>
  BY DEF ConfigInv, TypeOK, Typed, Sound, Deliver, Request
<1> HIDE DEF q
<1>2. Typed(p)
  BY <1>1 DEF Typed, Request, Steps, Answers
<1>3. Sound(p) /\ Truthful(p)
  BY <1>1 DEF Sound, Truthful, Took, Request, IsWritten
<1> QED
  BY <1>1, <1>2, <1>3, QuietStep

\* A health check begins (health.rs:30-33), or the channels are listed.
LEMMA HealthInv ==
  ASSUME ConfigInv, NEW r \in Requests, NEW ch \in Channels,
         Health(r, ch) \/ ListChannels(r, ch)
  PROVE  ConfigInv'
<1>1. Len(ledger[ch]) \in Nat /\ known \in [Channels -> Nat] /\ registered \subseteq Channels
  BY DEF ConfigInv, TypeOK
<1>2. CASE Health(r, ch) /\ registered = {}
  <2> DEFINE b == Begun("health", ch, "done")
             q == [b EXCEPT !.answer = "degraded"]
  <2>1. b \in Request /\ b.kind = "health" /\ b.channel = ch /\ b.step = "done"
        /\ b.config = Absent
        /\ b.left = {} /\ b.told = {} /\ b.answer = "none" /\ b.floor = known
    BY BegunInOrder DEF Steps, Kinds
  <2> HIDE DEF b
  <2>2. Typed(q)
    BY <2>1 DEF Typed, Request, Answers
  <2>3. Sound(q) /\ Truthful(q)
    BY <1>1, <1>2, <2>1 DEF Sound, Truthful, IsWritten, Absent, Took, Request, Sends
  <2> QED
    BY <1>2, <2>2, <2>3, QuietStep DEF Health, b
<1>3. CASE Health(r, ch) /\ registered # {}
  <2> DEFINE b == Begun("health", ch, "asking")
             q == [b EXCEPT !.left = registered]
  <2>1. b \in Request /\ b.kind = "health" /\ b.channel = ch /\ b.step = "asking"
        /\ b.config = Absent
        /\ b.left = {} /\ b.told = {} /\ b.answer = "none" /\ b.floor = known
    BY BegunInOrder DEF Steps, Kinds
  <2> HIDE DEF b
  <2>2. Typed(q)
    BY <1>1, <1>3, <2>1 DEF Typed, Request
  <2>3. Sound(q) /\ Truthful(q)
    BY <1>1, <2>1 DEF Sound, Truthful, IsWritten, Absent, Took, Request, Sends
  <2> QED
    BY <1>3, <2>2, <2>3, QuietStep DEF Health, b
<1>4. CASE ListChannels(r, ch)
  <2> DEFINE b == Begun("list", ch, "done")
             q == [b EXCEPT !.told = registered, !.answer = "ok"]
  <2>1. b \in Request /\ b.kind = "list" /\ b.channel = ch /\ b.step = "done"
        /\ b.config = Absent
        /\ b.left = {} /\ b.told = {} /\ b.answer = "none" /\ b.floor = known
    BY BegunInOrder DEF Steps, Kinds
  <2> HIDE DEF b
  <2>2. Typed(q)
    BY <1>1, <2>1 DEF Typed, Request, Answers
  <2>3. Sound(q) /\ Truthful(q)
    BY <1>1, <2>1 DEF Sound, Truthful, IsWritten, Absent, Took, Request, Sends
  <2> QED
    BY <1>4, <2>2, <2>3, QuietStep DEF ListChannels, b
<1> QED
  BY <1>2, <1>3, <1>4

\* A health check reads the configuration of its next channel.
LEMMA AskInv ==
  ASSUME ConfigInv, NEW r \in Requests, NEW ch \in Channels, Ask(r, ch)
  PROVE  ConfigInv'
<1> DEFINE q == requests[r]
           found == IF configs[ch] # Absent THEN {ch} ELSE {}
           p == [q EXCEPT !.left = @ \ {ch}, !.told = @ \cup found,
                          !.step = IF q.left = {ch} THEN "done" ELSE "asking",
                          !.answer = IF q.left = {ch} THEN "ok" ELSE "none"]
<1>1. /\ Typed(q) /\ Sound(q) /\ Truthful(q) /\ q \in Request /\ q.kind = "health"
      /\ q.step = "asking" /\ ch \in q.left
      /\ Became(r, p) /\ UNCHANGED <<configs, ledger, known>>
  BY DEF ConfigInv, TypeOK, Typed, Sound, Ask, GetConfig
<1>2. /\ configs[ch] \in Config /\ configs[ch].version = Len(ledger[ch])
      /\ (configs[ch].version = 0 => configs[ch] = Absent)
      /\ known[ch] <= Len(ledger[ch]) /\ known[ch] \in Nat /\ Len(ledger[ch]) \in Nat
      /\ q.floor[ch] <= known[ch] /\ q.floor[ch] \in Nat
  BY <1>1 DEF ConfigInv, TypeOK, Latest, Sound, Request
<1>3. (q.floor[ch] > 0 => configs[ch] # Absent) /\ (configs[ch] # Absent => Configured(ch))
  BY <1>2 DEF Absent, Configured, Config
<1> HIDE DEF q
<1>4. Typed(p)
  <2>1. q.left \ {ch} # {} <=> q.left # {ch}
    BY <1>1
  <2>2. p \in Request
    BY <1>1 DEF Request, Steps, Answers
  <2>3. p.kind = "health" /\ p.left = q.left \ {ch} /\ (p.step = "asking" <=> q.left # {ch})
    BY <1>1 DEF Request
  <2> HIDE DEF p
  <2> QED
    BY <2>1, <2>2, <2>3 DEF Typed
<1>5. Sound(p)
  BY <1>1 DEF Sound, Took, Request, IsWritten, Sends
<1>6. Truthful(p)
  <2>1. /\ p.kind = "health" /\ p.left = q.left \ {ch} /\ p.told = q.told \cup found
        /\ p.floor = q.floor /\ p.answer \in {"ok", "none"} /\ (p.answer = "ok" => q.left = {ch})
    BY <1>1 DEF Request
  <2>2. ASSUME NEW c \in registered, q.floor[c] > 0 PROVE c \in p.told \cup p.left
    BY <1>1, <1>3, <2>1, <2>2 DEF Truthful
  <2>3. ASSUME NEW c \in p.told PROVE c \in registered /\ Configured(c)
    <3>1. CASE c \in q.told
      BY <1>1, <3>1 DEF Truthful
    <3>2. CASE c = ch /\ configs[ch] # Absent
      BY <1>1, <1>3, <3>2 DEF Truthful
    <3> QED
      BY <2>1, <2>3, <3>1, <3>2
  <2>4. p.left \subseteq registered /\ (p.answer = "ok" => p.left = {})
    BY <1>1, <2>1 DEF Truthful
  <2> HIDE DEF p
  <2> QED
    BY <2>1, <2>2, <2>3, <2>4 DEF Truthful
<1> QED
  BY <1>1, <1>4, <1>5, <1>6, QuietStep
------------------------------------------------------------------------------
(***************************************************************************)
(* Steps that change what is written or known.                             *)
(***************************************************************************)
\* A new configuration takes the next version of its channel, and those before it stay.
LEMMA AppendKeeps ==
  ASSUME NEW l \in Seq(SUBSET Fields), NEW has \in SUBSET Fields
  PROVE  /\ Len(Append(l, has)) = Len(l) + 1 /\ Append(l, has) \in Seq(SUBSET Fields)
         /\ Append(l, has)[Len(l) + 1] = has
         /\ \A n \in Nat : n > 0 /\ n <= Len(l) => Append(l, has)[n] = l[n]
  <1> HIDE DEF Fields
  <1> QED
    OBVIOUS

\* A configuration is replaced under the lock (state.rs:58-60).
LEMMA WriteInv ==
  ASSUME ConfigInv, NEW r \in Requests, Write(r)
  PROVE  ConfigInv'
<1>0. PICK q, w, c, p :
        /\ q = requests[r] /\ w = q.channel
        /\ c = [q.config EXCEPT !.version = Len(ledger[w]) + 1]
        /\ p = [q EXCEPT !.step = "done", !.config = c, !.answer = "configured"]
  OBVIOUS
<1>1. /\ Typed(q) /\ Sound(q) /\ Truthful(q) /\ q \in Request /\ w \in Channels
      /\ q.step = "writing" /\ q.config \in Config
      /\ requests' = [requests EXCEPT ![r] = p]
      /\ configs' = [configs EXCEPT ![w] = c]
      /\ ledger' = [ledger EXCEPT ![w] = Append(@, c.has)]
      /\ UNCHANGED <<launcher, registered, known>>
  BY <1>0 DEF ConfigInv, TypeOK, Typed, Write, Became, Request
<1>2. /\ requests \in [Requests -> Request] /\ configs \in [Channels -> Config]
      /\ ledger \in [Channels -> Seq(SUBSET Fields)] /\ known \in [Channels -> Nat]
  BY DEF ConfigInv, TypeOK
<1>3. c \in Config /\ c.version = Len(ledger[w]) + 1 /\ c.has \in SUBSET Fields
  <2>1. Len(ledger[w]) + 1 \in Nat
    BY <1>1, <1>2
  <2> QED
    BY <1>0, <1>1, <2>1 DEF Config
<1>4. /\ Len(ledger'[w]) = Len(ledger[w]) + 1 /\ ledger'[w] \in Seq(SUBSET Fields)
      /\ ledger'[w][Len(ledger[w]) + 1] = c.has
      /\ \A n \in Nat : n > 0 /\ n <= Len(ledger[w]) => ledger'[w][n] = ledger[w][n]
  BY <1>1, <1>2, <1>3, AppendKeeps
<1>5. \A ch \in Channels : ch # w => ledger'[ch] = ledger[ch] /\ configs'[ch] = configs[ch]
  BY <1>1, <1>2
<1>6. /\ configs'[w] = c /\ Len(ledger[w]) \in Nat
      /\ \A ch \in Channels : Len(ledger[ch]) \in Nat
  BY <1>1, <1>2
<1>7. \A d \in Config, ch \in Channels : IsWritten(d, ch) => IsWritten(d, ch)'
  BY <1>4, <1>5, <1>6 DEF IsWritten, Config
<1>8. \A ch \in Channels : Configured(ch) => Configured(ch)'
  BY <1>3, <1>5, <1>6 DEF Configured
<1>9. Typed(p) /\ p.config = c /\ p.channel = w /\ p \in Request
  BY <1>0, <1>1, <1>3 DEF Typed, Request, Steps, Answers
<1>10. TypeOK'
  <2>1. requests' \in [Requests -> Request] /\ configs' \in [Channels -> Config]
    BY <1>1, <1>2, <1>3, <1>9
  <2>2. ledger' \in [Channels -> Seq(SUBSET Fields)]
    BY <1>1, <1>2, <1>4
  <2>3. \A s \in Requests : requests'[s] = IF s = r THEN p ELSE requests[s]
    BY <1>1, <1>2
  <2> QED
    BY <1>1, <1>9, <2>1, <2>2, <2>3 DEF ConfigInv, TypeOK, Typed
<1>11. Latest'
  <2> SUFFICES ASSUME NEW ch \in Channels
               PROVE  /\ configs'[ch].version = Len(ledger'[ch])
                      /\ configs'[ch].version = 0 => configs'[ch] = Absent
                      /\ IsWritten(configs[ch], ch)'
                      /\ known'[ch] <= Len(ledger'[ch])
                      /\ launcher' = "server" /\ ch \in registered' => Len(ledger'[ch]) > 0
    BY DEF Latest
  <2>1. CASE ch = w
    BY <2>1, <1>1, <1>2, <1>3, <1>4, <1>6 DEF ConfigInv, Latest, IsWritten
  <2>2. CASE ch # w
    BY <2>2, <1>1, <1>5 DEF ConfigInv, Latest, IsWritten
  <2> QED
    BY <2>1, <2>2
<1>12. ASSUME NEW s \in Requests PROVE Sound(requests[s])' /\ Truthful(requests[s])'
  <2>1. CASE s = r
    <3>1. /\ p.step = "done" /\ p.answer = "configured" /\ p.floor = q.floor /\ p.kind = q.kind
          /\ p.left = q.left /\ p.told = q.told
      BY <1>0, <1>1 DEF Request
    <3>2. requests'[s] = p
      BY <2>1, <1>1, <1>2
    <3>3. IsWritten(c, w)'
      BY <1>3, <1>4, <1>6 DEF IsWritten
    <3>4. p.floor[w] <= known[w] /\ known[w] <= Len(ledger[w]) /\ p.floor[w] \in Nat
      BY <1>0, <1>1, <1>2, <3>1 DEF ConfigInv, Latest, Sound, Request
    <3>5. Sound(p)'
      BY <1>1, <1>2, <1>3, <1>6, <1>9, <3>1, <3>3, <3>4 DEF Sound, Took
    <3>6. Truthful(p)'
      BY <1>1, <1>8, <3>1, <1>9 DEF Truthful, Typed, Request
    <3> QED
      BY <3>2, <3>5, <3>6
  <2>2. CASE s # r
    <3>1. PICK o : o = requests[s] /\ o \in Request /\ Sound(o) /\ Truthful(o)
      BY <1>2 DEF ConfigInv
    <3>2. requests'[s] = o
      BY <2>2, <3>1, <1>1, <1>2
    <3>3. IsWritten(o.config, o.channel)'
      BY <3>1, <1>7 DEF Sound, Request
    <3>4. Sound(o)'
      BY <3>1, <3>3, <1>1 DEF Sound, Took
    <3>5. Truthful(o)'
      BY <3>1, <1>1, <1>8, <1>2 DEF Truthful, Request
    <3> QED
      BY <3>2, <3>4, <3>5
  <2> QED
    BY <2>1, <2>2
<1> QED
  BY <1>10, <1>11, <1>12 DEF ConfigInv

\* A caller hears of the configuration behind its answer.
LEMMA AnswerInv ==
  ASSUME ConfigInv, NEW r \in Requests, Answer(r)
  PROVE  ConfigInv'
<1> DEFINE q == requests[r]
           w == q.channel
           p == [q EXCEPT !.step = "answered"]
<1>1. /\ Typed(q) /\ Sound(q) /\ Truthful(q) /\ q \in Request /\ w \in Channels
      /\ q.step = "done" /\ q.config.version \in Nat /\ IsWritten(q.config, w)
      /\ requests' = [requests EXCEPT ![r] = p]
      /\ known' = [known EXCEPT ![w] = IF q.config.version > @ THEN q.config.version ELSE @]
      /\ UNCHANGED <<launcher, registered, configs, ledger>>
  BY DEF ConfigInv, TypeOK, Typed, Answer, Became, Request, Config, Sound
<1>2. /\ requests \in [Requests -> Request] /\ configs \in [Channels -> Config]
      /\ ledger \in [Channels -> Seq(SUBSET Fields)] /\ known \in [Channels -> Nat]
  BY DEF ConfigInv, TypeOK
<1> HIDE DEF q, w
<1>3. /\ known' \in [Channels -> Nat] /\ \A ch \in Channels : known[ch] <= known'[ch]
      /\ \A ch \in Channels : known'[ch] <= Len(ledger[ch])
  <2>1. \A ch \in Channels : known[ch] <= Len(ledger[ch])
    BY DEF ConfigInv, Latest
  <2> QED
    BY <1>1, <1>2, <2>1 DEF IsWritten
<1>4. Typed(p) /\ p \in Request
  BY <1>1 DEF Typed, Request, Steps
<1>5. \A s \in Requests : requests'[s] = IF s = r THEN p ELSE requests[s]
  BY <1>1, <1>2
<1>6. requests' \in [Requests -> Request]
  BY <1>1, <1>2, <1>4
<1>7. Sound(p) /\ Truthful(p)
  BY <1>1 DEF Sound, Truthful, Took, Request, w
<1> HIDE DEF p
<1>8. TypeOK'
  BY <1>1, <1>3, <1>4, <1>5, <1>6 DEF ConfigInv, TypeOK, Typed
<1>9. Latest'
  BY <1>1, <1>3 DEF ConfigInv, Latest, IsWritten
<1>10. ASSUME NEW s \in Requests PROVE Sound(requests[s])' /\ Truthful(requests[s])'
  <2>1. PICK o : o = requests'[s] /\ o \in Request /\ Sound(o) /\ Truthful(o)
    BY <1>4, <1>5, <1>7, <1>2 DEF ConfigInv
  <2>2. \A ch \in Channels : o.floor[ch] <= known'[ch]
    <3>1. \A ch \in Channels : o.floor[ch] <= known[ch]
      BY <2>1 DEF Sound
    <3>2. o.floor \in [Channels -> Nat]
      BY <2>1 DEF Request
    <3> QED
      BY <3>1, <3>2, <1>2, <1>3
  <2>3. Sound(o)' /\ Truthful(o)'
    BY <2>1, <2>2, <1>1 DEF Sound, Truthful, IsWritten, Took, Configured
  <2> QED
    BY <2>1, <2>3
<1> QED
  BY <1>8, <1>9, <1>10 DEF ConfigInv
------------------------------------------------------------------------------
(***************************************************************************)
(* The theorems.                                                           *)
(***************************************************************************)
\* The invariant holds in every reachable state.
THEOREM ConfigInvariant == Spec => []ConfigInv
<1>1. Init => ConfigInv
  BY InitInv
<1>2. ConfigInv /\ [Next]_vars => ConfigInv'
  <2> SUFFICES ASSUME ConfigInv, [Next]_vars PROVE ConfigInv'
    OBVIOUS
  <2>1. CASE UNCHANGED vars
    BY <2>1 DEF vars, ConfigInv, TypeOK, Latest, Sound, Truthful, IsWritten, Took, Configured
  <2>2. ASSUME NEW r \in Requests, NEW ch \in Channels,
               \E k \in Sends, has \in ArgumentSets : Send(r, k, ch, has)
        PROVE  ConfigInv'
    BY <2>2, SendInv
  <2>3. ASSUME NEW r \in Requests, NEW ch \in Channels, GetChannelConfig(r, ch)
        PROVE  ConfigInv'
    BY <2>3, GetInv
  <2>4. ASSUME NEW r \in Requests, NEW ch \in Channels,
               \E has \in ArgumentSets : SetChannelConfig(r, ch, has)
        PROVE  ConfigInv'
    BY <2>4, SetInv
  <2>5. ASSUME NEW r \in Requests, Read(r) PROVE ConfigInv'
    BY <2>5, ReadInv
  <2>6. ASSUME NEW r \in Requests, \E outcome \in {"sent", "failed"} : Deliver(r, outcome)
        PROVE  ConfigInv'
    BY <2>6, DeliverInv
  <2>7. ASSUME NEW r \in Requests, Write(r) PROVE ConfigInv'
    BY <2>7, WriteInv
  <2>8. ASSUME NEW r \in Requests, NEW ch \in Channels, Health(r, ch) \/ ListChannels(r, ch)
        PROVE  ConfigInv'
    BY <2>8, HealthInv
  <2>9. ASSUME NEW r \in Requests, NEW ch \in Channels, Ask(r, ch) PROVE ConfigInv'
    BY <2>9, AskInv
  <2>10. ASSUME NEW r \in Requests, Answer(r) PROVE ConfigInv'
    BY <2>10, AnswerInv
  <2> QED
    BY <2>1, <2>2, <2>3, <2>4, <2>5, <2>6, <2>7, <2>8, <2>9, <2>10 DEF Next
<1> QED
  BY <1>1, <1>2, PTL DEF Spec

\* Every variable keeps its type, and every request its shape.
THEOREM TypeCorrect == Spec => []TypeOK
  BY ConfigInvariant, PTL DEF ConfigInv

\* However sends, reads and replacements interleave, a request that takes a configuration
\* takes one whole, and none older than its caller could know of.
THEOREM NothingStale == Spec => []NothingStaleIsUsed
<1>1. ConfigInv => NothingStaleIsUsed
  <2> SUFFICES ASSUME ConfigInv, NEW r \in Requests, Took(requests[r])
               PROVE  /\ requests[r].config.version \in
                           requests[r].floor[requests[r].channel]..Len(ledger[requests[r].channel])
                      /\ requests[r].config.has =
                           ledger[requests[r].channel][requests[r].config.version]
    BY DEF NothingStaleIsUsed
  <2>1. PICK q : q = requests[r] /\ q \in Request /\ Sound(q) /\ Took(q)
    BY DEF ConfigInv, TypeOK
  <2>2. Len(ledger[q.channel]) \in Nat
    BY <2>1 DEF ConfigInv, TypeOK, Request
  <2>3. q.config.version \in Nat /\ q.floor[q.channel] \in Nat
    BY <2>1 DEF Request, Config
  <2> QED
    BY <2>1, <2>2, <2>3 DEF Sound, IsWritten, Took
<1> QED
  BY <1>1, ConfigInvariant, PTL

\* Whatever is configured while they run, the answers of sends and health checks are true.
THEOREM TrueAnswers == Spec => []AnswersAreTrue
<1>1. ConfigInv => AnswersAreTrue
  <2> SUFFICES ASSUME ConfigInv, NEW r \in Requests, NEW q, q = requests[r]
               PROVE  /\ q.answer = "not_configured" =>
                           q.floor[q.channel] = 0 /\ (q.kind \in Sends => launcher # "server")
                      /\ q.answer = "sent" => /\ q.channel \in registered
                                              /\ Credentials(q.channel) \subseteq q.config.has
                      /\ q.kind = "health" /\ q.answer = "ok" =>
                           /\ {ch \in registered : q.floor[ch] > 0} \subseteq q.told
                           /\ q.told \subseteq {ch \in registered : Configured(ch)}
    BY DEF AnswersAreTrue
  <2>1. Truthful(q)
    BY DEF ConfigInv
  <2> QED
    BY <2>1 DEF Truthful
<1> QED
  BY <1>1, ConfigInvariant, PTL
==============================================================================
