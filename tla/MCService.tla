----------------------------- MODULE MCService ------------------------------
(***************************************************************************)
(* One service for TLC.  Clients and messages are interchangeable, which   *)
(* the safety runs use; the liveness run does without symmetry.            *)
(***************************************************************************)
EXTENDS Service, TLC

Symmetric == Permutations(Clients) \cup Permutations(Messages)
=============================================================================
