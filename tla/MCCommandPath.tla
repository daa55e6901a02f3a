--------------------------- MODULE MCCommandPath ---------------------------
(***************************************************************************)
(* Instances of CommandPath for TLC.                                       *)
(***************************************************************************)
EXTENDS CommandPath
=============================================================================
