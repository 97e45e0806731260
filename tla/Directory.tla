----------------------------- MODULE Directory ------------------------------
(***************************************************************************)
(* What a pool promises to its threads: two tables, in which a key is      *)
(* bound once and for all.  A call asks about one key of one table, with a *)
(* pointer to bind it to or without; it takes effect at one moment before  *)
(* it returns, and its answer is what that key was bound to at that moment.*)
(***************************************************************************)
CONSTANTS
  Threads,   (* Those that share the pool.                   *)
  Tables,    (* The tables of the pool.                      *)
  Keys,      (* What is bound in them ...                    *)
  Pointers,  (* ... and to what.                             *)
  NULL       (* An unbound key, and no pointer in a look-up. *)

VARIABLES
  bound,     (* The pointer each table gives for each key.                *)
  asked,     (* The call each thread has made: none or one, a sequence.   *)
  answer     (* The answer it has had: none or one, likewise.             *)

vars == <<bound, asked, answer>>

Questions == [table : Tables, key : Keys, ptr : Pointers \cup {NULL}]

Init ==
  /\ bound = [tb \in Tables |-> [k \in Keys |-> NULL]]
  /\ asked = [t \in Threads |-> <<>>]
  /\ answer = [t \in Threads |-> <<>>]

Ask(t, q) ==
  /\ asked[t] = <<>>
  /\ asked' = [asked EXCEPT ![t] = <<q>>]
  /\ UNCHANGED <<bound, answer>>

(* The moment of the call that t has made, q: a free key is bound if there   *)
(* is a pointer to bind it to, and any other stays as it is.                 *)
Answer(t, q) ==
  LET there == bound[q.table][q.key]
  IN  /\ asked[t] = <<q>> /\ answer[t] = <<>>
      /\ answer' = [answer EXCEPT ![t] = <<there>>]
      /\ bound' = IF there = NULL THEN [bound EXCEPT ![q.table][q.key] = q.ptr] ELSE bound
      /\ UNCHANGED asked

Return(t) ==
  /\ answer[t] # <<>>
  /\ asked' = [asked EXCEPT ![t] = <<>>]
  /\ answer' = [answer EXCEPT ![t] = <<>>]
  /\ UNCHANGED bound

Next == \E t \in Threads : Return(t) \/ \E q \in Questions : Ask(t, q) \/ Answer(t, q)

Spec == Init /\ [][Next]_vars
=============================================================================
