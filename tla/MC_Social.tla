------------------------------ MODULE MC_Social ------------------------------
(***************************************************************************)
(* An instance of Social for TLC: Ann and Bob, two requests at a time.     *)
(***************************************************************************)
EXTENDS Social, TLC

CONSTANTS Ann, Bob, R1, R2

Pair == {Ann, Bob}
Tabs == {R1, R2}

\* Nothing tells one user from the other, or one request from another.
PairSymmetry == Permutations(Pair) \cup Permutations(Tabs)
=============================================================================
