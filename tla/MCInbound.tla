------------------------------- MODULE MCInbound -------------------------------
(***************************************************************************)
(* Bodies of every kind a parser tells apart, and the mixed batches.       *)
(***************************************************************************)
EXTENDS Inbound

CONSTANTS thumb, heart, trusted_bot

MCEmojis == {thumb, heart}
MCAllowed == {trusted_bot}

From(channel) ==
  [channel |-> channel, kind |-> "message", by |-> "user", bot_id |-> "none",
   direct |-> channel \in {"messenger", "whatsapp"}, suffix |-> "none", names |-> FALSE,
   pointed |-> FALSE, complete |-> TRUE, old |-> {}, new |-> {}]

Kind(channel, kind) == [From(channel) EXCEPT !.kind = kind]
FromBot(channel, kind) == [Kind(channel, kind) EXCEPT !.by = "bot"]
Incomplete(i) == [i EXCEPT !.complete = FALSE]
Direct(i) == [i EXCEPT !.direct = TRUE]
Naming(i) == [i EXCEPT !.names = TRUE]
Command(i, bot) == [i EXCEPT !.suffix = bot, !.names = @ \/ bot = "us"]
Reaction(channel, old, new) == [Kind(channel, "reaction") EXCEPT !.old = old, !.new = new]

Telegram ==
  LET t == From("telegram")
  IN {t, Direct(t), Naming(t), [t EXCEPT !.pointed = TRUE],
      Command(t, "us"), Command(t, "neighbour"), Command(Naming(t), "neighbour"),
      Command(Direct(t), "us"), Incomplete(t),
      Kind("telegram", "button"), Incomplete(Kind("telegram", "button")),
      FromBot("telegram", "service"), Kind("telegram", "other")}

Slack ==
  LET s == From("slack")
  IN {s, Direct(s), Naming(s),
      [s EXCEPT !.by = "trusted", !.bot_id = trusted_bot],
      [FromBot("slack", "message") EXCEPT !.bot_id = "unlisted"],
      FromBot("slack", "edit"), Kind("slack", "edit"),
      Kind("slack", "button"), Kind("slack", "other")}

Others ==
  {From("discord"), Kind("discord", "other"),
   From("messenger"), Kind("messenger", "button"), FromBot("messenger", "echo"),
   Kind("messenger", "referral"), Incomplete(Kind("messenger", "referral")),
   From("whatsapp"), FromBot("whatsapp", "other")}

Reactions ==
  {Reaction("telegram", {}, {thumb}), Reaction("telegram", {thumb}, {heart}),
   Reaction("telegram", {thumb}, {thumb, heart}), Reaction("telegram", {thumb}, {}),
   Reaction("slack", {}, {thumb}), Reaction("slack", {thumb}, {}),
   Reaction("discord", {}, {thumb}),
   Incomplete(Reaction("telegram", {}, {thumb})), Incomplete(Reaction("slack", {}, {thumb}))}

Batches ==
  {<<From("messenger"), FromBot("messenger", "echo"), Kind("messenger", "referral")>>,
   <<FromBot("messenger", "echo"), Kind("messenger", "button")>>,
   <<FromBot("whatsapp", "other"), From("whatsapp"), From("whatsapp")>>,
   <<Kind("slack", "button"), Incomplete(Kind("slack", "button"))>>}

MCBodies ==
  {<<i>> : i \in Telegram \cup Slack \cup Others \cup Reactions
                 \cup {Kind(c, "garbage") : c \in Channels}}
    \cup Batches
==============================================================================
