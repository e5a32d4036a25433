---------------------------- MODULE MCWellBehaved ---------------------------
(***************************************************************************)
(* Instances of CmdAgent whose peers are well behaved.                     *)
(***************************************************************************)
EXTENDS MCCmdAgent, WellBehaved
=============================================================================
