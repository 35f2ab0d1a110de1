------------------------------ MODULE MCRunner ------------------------------
(* Instances of Runner for TLC: messages of one, two and three lines.        *)
EXTENDS Runner, TLC

CONSTANTS m1, m2, m3

MCMessages == {m1, m2, m3}
MCText == m1 :> <<"words">> @@ m2 :> <<"words", "words">> @@ m3 :> <<"words", "blank", "words">>
=============================================================================
