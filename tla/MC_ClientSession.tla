--------------------------- MODULE MC_ClientSession ---------------------------
(***************************************************************************)
(* Instances of ClientSession for TLC; their bounds are in the .cfg files. *)
(***************************************************************************)
EXTENDS ClientSession
=============================================================================
