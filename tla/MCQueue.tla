------------------------------ MODULE MCQueue -------------------------------
(***************************************************************************)
(* The lock-free ring for TLC: four slots, so that the indices wrap while  *)
(* the ring is neither full nor empty, and two interchangeable values.     *)
(***************************************************************************)
EXTENDS Queue, TLC

Symmetric == Permutations(Values)
=============================================================================
