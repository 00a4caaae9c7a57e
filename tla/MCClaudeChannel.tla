--------------------------- MODULE MCClaudeChannel ---------------------------
(***************************************************************************)
(* Small instances of ClaudeChannel for TLC.                               *)
(***************************************************************************)
EXTENDS ClaudeChannel, TLC

CONSTANTS slack, telegram, room, alice, eve, r1, b1, b2

Plain == [id |-> NoId, allow |-> FALSE]
Yes   == [id |-> r1, allow |-> TRUE]
No    == [id |-> r1, allow |-> FALSE]

Msg(sender, where, text) == [sender |-> sender, room |-> where, text |-> text]

\* One body answers twice around a message that is not admitted, so that a request
\* can be answered, and answered again; the other answers from the same chat id
\* on another channel.
MCBody ==
  b1 :> [channel |-> slack,
         msgs |-> <<Msg(alice, room, Yes), Msg(eve, room, Plain), Msg(alice, room, Yes)>>]
  @@ b2 :> [channel |-> telegram, msgs |-> <<Msg(alice, room, No)>>]
==============================================================================
