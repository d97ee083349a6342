-------------------------- MODULE MCWebhookDelivery --------------------------
(* Small instances of WebhookDelivery for TLC: the first event is enqueued twice. *)
EXTENDS WebhookDelivery

Enqueued == [t \in Tasks |-> IF t \in {1, 2} THEN "first" ELSE "second"]
=============================================================================
