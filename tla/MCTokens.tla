------------------------------ MODULE MCTokens ------------------------------
(* Instances of Tokens for TLC: two pages, of which one makes the calls. *)
EXTENDS Tokens, TLC

CONSTANTS p1, p2, c1, c2

MCPages == {p1, p2}
MCCalls == {c1, c2}
MCPageOf == c1 :> p1 @@ c2 :> p1
=============================================================================
