------------------------------- MODULE MCPool -------------------------------
(***************************************************************************)
(* The pool for TLC.                                                       *)
(***************************************************************************)
EXTENDS Pool
=============================================================================
