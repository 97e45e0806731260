----------------------------- MODULE MCLService -----------------------------
(***************************************************************************)
(* The Lua layer for TLC.                                                  *)
(***************************************************************************)
EXTENDS LService, TLC

Symmetric == Permutations(Short) \cup Permutations(Services) \cup Permutations(Blocks)
=============================================================================
