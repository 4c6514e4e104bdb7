------------------------------- MODULE MC_Auth -------------------------------
(***************************************************************************)
(* Auth for TLC.                                                           *)
(***************************************************************************)
EXTENDS Auth, TLC

CONSTANTS r1, r2, old, new, mail1

Two == {r1, r2}
Passwords == {old, new}
OneMail == {mail1}
=============================================================================
