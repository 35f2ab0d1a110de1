--------------------------- MODULE MCWebhookQueue ---------------------------
(* Instances of WebhookQueue for TLC. *)
EXTENDS WebhookQueue, TLC

Symmetry == Permutations(Tasks) \cup Permutations(Workers)
=============================================================================
