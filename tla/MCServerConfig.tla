---------------------------- MODULE MCServerConfig ----------------------------
(***************************************************************************)
(* The two channels whose start-up and sending differ most, in every state *)
(* of their environment.                                                   *)
(***************************************************************************)
EXTENDS ServerConfig, TLC

CONSTANTS r1, r2, r3

\* Discord has no application id, or all it needs, or no bot token; WhatsApp has no phone
\* number, or nothing.
MCEnvironments ==
  {[discord |-> d, whatsapp |-> w] :
     d \in {{"bot_token", "webhook_secret"},
            {"bot_token", "webhook_secret", "account_id"},
            {"webhook_secret", "account_id"}},
     w \in {{"api_key", "webhook_secret", "verify_token"}, {}}}

MCArgumentSets == {{"bot_token", "api_key", "phone_number"}, {"webhook_secret"}}

Symmetry == Permutations(Requests)
==============================================================================
