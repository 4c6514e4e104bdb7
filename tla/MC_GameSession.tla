--------------------------- MODULE MC_GameSession ---------------------------
(***************************************************************************)
(* An instance of GameSession for TLC: two players who keep meeting.       *)
(***************************************************************************)
EXTENDS GameSession, TLC

CONSTANTS Ann, Bob

Players == {Ann, Bob}

\* Nothing tells one player from another.
PlayerSymmetry == Permutations(Players)
=============================================================================
