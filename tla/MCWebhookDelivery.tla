--------------------------- MODULE MCWebhookDelivery ---------------------------
(***************************************************************************)
(* WebhookDelivery for TLC: the configurations give it one hook, one event *)
(* and three attempts.                                                     *)
(***************************************************************************)
EXTENDS WebhookDelivery
=============================================================================
