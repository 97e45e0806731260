-------------------------------- MODULE Map ---------------------------------
(***************************************************************************)
(* What a registry promises: a map from keys to pointers, in which a key   *)
(* is bound only while it is free, and stays bound until it is deleted.    *)
(***************************************************************************)
CONSTANTS
  Keys,
  Pointers,
  NULL      (* What an unbound key is bound to. *)

VARIABLE bound

Init == bound = [k \in Keys |-> NULL]

Bind(k, p) ==
  /\ bound[k] = NULL
  /\ bound' = [bound EXCEPT ![k] = p]

Unbind(k) ==
  /\ bound[k] # NULL
  /\ bound' = [bound EXCEPT ![k] = NULL]

Next == \E k \in Keys : Unbind(k) \/ \E p \in Pointers : Bind(k, p)

Spec == Init /\ [][Next]_bound
=============================================================================
