-------------------------------- MODULE MCLog -------------------------------
(***************************************************************************)
(* The log for TLC.                                                        *)
(***************************************************************************)
EXTENDS Log
=============================================================================
