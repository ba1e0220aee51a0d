-------------------------- MODULE MCWebhookLedger --------------------------
(* Model-checking instances of WebhookLedger. *)
EXTENDS WebhookLedger

CONSTANTS e1, e2, r1, r2, w1, w2
============================================================================
