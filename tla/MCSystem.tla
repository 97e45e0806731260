------------------------------ MODULE MCSystem ------------------------------
(***************************************************************************)
(* The process for TLC.                                                    *)
(***************************************************************************)
EXTENDS System
=============================================================================
