-------------------------- MODULE MCWebhookDelivery --------------------------
(***************************************************************************)
(* WebhookDelivery on a small instance: one webhook, two workers, one of   *)
(* which may die.                                                          *)
(***************************************************************************)
EXTENDS WebhookDelivery, TLC

CONSTANT created

\* A webhook is subscribed to the event or to nothing.
MCEventSets == {{}, {created}}
=============================================================================
