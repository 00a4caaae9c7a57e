-------------------------- MODULE MCOutboundDelivery --------------------------
(***************************************************************************)
(* OutboundDelivery with the retry schedule of the code (models.rs).       *)
(***************************************************************************)
EXTENDS OutboundDelivery

Delays == <<1, 5, 30>>
==============================================================================
