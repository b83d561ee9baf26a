------------------------- MODULE MCWebhookDelivery -------------------------
(* Small instances of WebhookDelivery for TLC. *)
EXTENDS WebhookDelivery

\* Events and webhooks are interchangeable.
Symmetry == Permutations(Events) \cup Permutations(Hooks)
=============================================================================
