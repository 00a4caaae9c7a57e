------------------------- MODULE MCClaudeChannelLive -------------------------
(***************************************************************************)
(* The open-mode instance of ClaudeChannel for the liveness properties:    *)
(* every sender is allowed, one message has an empty sender, and Claude    *)
(* Code asks for one permission again and again.                           *)
(*                                                                         *)
(* The traffic is endless.  The bounds MaxDeliveries and MaxLines count    *)
(* what the history remembers, so history that is no longer needed is      *)
(* forgotten, and both the platforms and Claude Code go on for ever.       *)
(***************************************************************************)
EXTENDS ClaudeChannel, TLC

CONSTANTS slack, room, alice, r1, b1, b2

Msg(sender, where, id) ==
  [sender |-> sender, room |-> where, text |-> [id |-> id, allow |-> TRUE]]

MCBody ==
  b1 :> [channel |-> slack,
         msgs |-> <<Msg(EmptySender, room, NoId), Msg(alice, room, r1)>>]
  @@ b2 :> [channel |-> slack, msgs |-> <<Msg(alice, room, NoId), Msg(alice, room, NoId)>>]

\* Claude Code has caught up, every delivery of b has been answered and none of
\* its messages is queued: the platform may start over with b.
ForgetDeliveries(b) ==
  /\ stdout = << >>
  /\ cursor[b] = 0
  /\ answers[b] # << >>
  /\ b \notin {t.body : t \in Queued}
  /\ answers' = [answers EXCEPT ![b] = << >>]
  /\ handled' = {t \in handled : t.body # b}
  /\ UNCHANGED <<queue, cursor, lastSender, loop, stdin, stdout, claudeVars, relayVars>>

\* Claude Code may write as many lines again as the loop has taken.
ForgetLines ==
  /\ lines # Len(stdin)
  /\ lines' = Len(stdin)
  /\ asks' = [r \in RequestIds |-> 0]
  /\ verdicts' = [r \in RequestIds |-> 0]
  /\ answeredBy' = [r \in RequestIds |-> None]
  /\ UNCHANGED <<pending, queue, webVars, lastSender, loop, stdin, stdout, working, handled>>

LiveNext ==
  \/ Next
  \/ \E b \in Deliverables : ForgetDeliveries(b)
  \/ ForgetLines

LiveSpec == Init /\ [][LiveNext]_vars /\ Fairness
==============================================================================
