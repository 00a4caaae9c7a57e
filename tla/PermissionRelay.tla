--------------------------- MODULE PermissionRelay ---------------------------
(***************************************************************************)
(* The permission relay of dravr-canot-claude-channel (permission.rs):     *)
(* the map of outstanding tool-approval requests, the parsing of an        *)
(* inbound text as a verdict, and the two operations that change the map.  *)
(*                                                                         *)
(* A text is abstracted to what the relay can tell apart: the request id   *)
(* it names when it has the shape "yes <id>" or "no <id>" (NoId for every  *)
(* other text) and whether its word is an approval.  Case folding is part  *)
(* of the abstraction: "YES ABCDE" and "yes abcde" are the same text.      *)
(***************************************************************************)
EXTENDS Naturals

CONSTANTS
  Channels,    \* channel types that have an adapter and a configuration
  Senders,     \* platform sender ids
  Rooms,       \* platform conversation ids
  RequestIds,  \* request ids Claude Code may put into a permission request
  VerdictIds,  \* the ids the verdict pattern can match, [a-km-z]{5}
  EmptyId,     \* the empty (or absent) request id
  NoId,        \* "this text is not a verdict"
  None         \* absence of a value

ASSUME RelayAssumption ==
  /\ VerdictIds \subseteq RequestIds
  /\ EmptyId \notin VerdictIds
  /\ NoId \notin RequestIds

VARIABLE pending  \* pending_requests: request id -> routing context, or None

\* Where a prompt goes and a verdict must come from: channel type and chat id.
\* A conversation-less message uses the sender id as its chat id.
Endpoint == [channel: Channels, chat: Rooms \cup Senders]

Text == [id: RequestIds \cup {NoId}, allow: BOOLEAN]

ASSUME NoneIsNoEndpoint == None \notin Endpoint

RelayTypeOK == pending \in [RequestIds -> Endpoint \cup {None}]

RelayInit == pending = [r \in RequestIds |-> None]

\* The text matches the verdict pattern.
IsVerdict(text) == text.id \in VerdictIds

(***************************************************************************)
(* try_consume_verdict answers Some(..): the id is outstanding and the     *)
(* reply comes from the channel and the chat the prompt was bound to.      *)
(***************************************************************************)
AcceptsVerdict(text, at) ==
  /\ IsVerdict(text)
  /\ pending[text.id] # None
  /\ pending[text.id].channel = at.channel
  /\ pending[text.id].chat = at.chat

\* Mutant: the entry is looked up and never removed.
PendingKeptAfterVerdict(text, at) == pending

\* Mutant: an entry that belongs to another chat is not put back.
PendingUsedUpByAnyReply(text, at) ==
  IF IsVerdict(text) THEN [pending EXCEPT ![text.id] = None] ELSE pending

\* The map afterwards: an accepted id is removed; an entry that was removed to
\* be looked at and belongs to another chat has been put back.
PendingAfterVerdict(text, at) ==
  IF AcceptsVerdict(text, at) THEN [pending EXCEPT ![text.id] = None] ELSE pending

(***************************************************************************)
(* handle_request up to the send: an empty id is ignored, any other id is  *)
(* bound to the endpoint, replacing an earlier binding of the same id.     *)
(***************************************************************************)
PendingAfterRequest(id, at) ==
  IF id = EmptyId THEN pending ELSE [pending EXCEPT ![id] = at]
==============================================================================
