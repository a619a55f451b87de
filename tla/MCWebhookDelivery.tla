-------------------------- MODULE MCWebhookDelivery --------------------------
(* Instances of WebhookDelivery for TLC. *)
EXTENDS WebhookDelivery, TLC

\* Safety runs only: apps, deliveries and runs are interchangeable.
WebhookSymmetry == Permutations(Apps) \cup Permutations(Deliveries) \cup Permutations(Runs)
=============================================================================
