---------------------------- MODULE MCSubAgents ---------------------------
(***************************************************************************)
(* The instance for TLC: its bounds are in the .cfg files.                 *)
(***************************************************************************)
EXTENDS SubAgents
=============================================================================
