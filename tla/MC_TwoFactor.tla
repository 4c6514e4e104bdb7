---------------------------- MODULE MC_TwoFactor ----------------------------
(***************************************************************************)
(* An instance of TwoFactor for TLC: two requests, two setups of two codes.*)
(***************************************************************************)
EXTENDS TwoFactor, TLC

CONSTANTS r1, r2, s1, s2, k1, k2

TwoRequests == {r1, r2}
TwoSetups == {s1, s2}
TwoSlots == {k1, k2}

\* Nothing tells one request, or one setup that was not started, from another.
RequestSymmetry == Permutations(TwoRequests) \cup Permutations(TwoSetups)
=============================================================================
