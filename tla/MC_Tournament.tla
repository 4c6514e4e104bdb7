---------------------------- MODULE MC_Tournament ----------------------------
(***************************************************************************)
(* Instances of Tournament for TLC: a bracket of four, with a fifth user   *)
(* who may take a seat that is given up.                                   *)
(***************************************************************************)
EXTENDS Tournament, TLC

CONSTANTS Ann, Bob, Cleo, Dan, Eve

Four == {Ann, Bob, Cleo, Dan}
Five == {Ann, Bob, Cleo, Dan, Eve}

\* Nothing tells the users who did not create the tournament from each other.
FiveSymmetry == Permutations(Five \ {Creator})
=============================================================================
