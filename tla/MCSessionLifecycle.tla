------------------------- MODULE MCSessionLifecycle -------------------------
(* Instances of SessionLifecycle for TLC. *)
EXTENDS SessionLifecycle, TLC

Symmetry == Permutations(Workers) \cup Permutations(Viewers) \cup Permutations(Sessions)
=============================================================================
