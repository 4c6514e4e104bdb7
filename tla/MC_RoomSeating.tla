--------------------------- MODULE MC_RoomSeating ---------------------------
(***************************************************************************)
(* RoomSeating for TLC: two users who are alike and a bot.                *)
(***************************************************************************)
EXTENDS RoomSeating, TLC

CONSTANTS Ann, Bob, Robot

Users == {Ann, Bob}
Robots == {Robot}

UserSymmetry == Permutations(Users)
=============================================================================
