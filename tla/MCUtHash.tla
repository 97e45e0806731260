------------------------------ MODULE MCUtHash ------------------------------
(***************************************************************************)
(* The hash table for TLC.  Addresses are interchangeable, also for the    *)
(* refinement: the map that is implemented does not mention them.          *)
(***************************************************************************)
EXTENDS UtHash, TLC

Symmetric == Permutations(Elements)
=============================================================================
