-------------------------------- MODULE Ring --------------------------------
(***************************************************************************)
(* The arithmetic of the ring in src/queue.c: positions in the array       *)
(* data[], the number of elements between head and tail, the full test,    *)
(* and the sequence of elements a pair (head, tail) denotes.  Queue uses   *)
(* it for the ring on its own, Service for the inbox of one service.       *)
(***************************************************************************)
EXTENDS Integers, Sequences

CONSTANT
  Size    (* The size given to queue_new_ptr: _SERVICE_MQ_DEF_SIZE_ = 1024. *)

(***************************************************************************)
(* queue_new asserts ispow2(size), which lets 0 and 1 through as well.     *)
(* They are left out: a ring of size 1 is always full and one of size 0    *)
(* has no slot at all.  The int of C bounds the exponent.                  *)
(***************************************************************************)
ASSUME SizeAssumption ==
  /\ Size \in Nat
  /\ Size > 1
  /\ \E k \in 1..30 : Size = 2^k

Positions == 0..(Size - 1)

\* One slot stays empty, so that head = tail means "no element".
Capacity == Size - 1

(* p & (q->size - 1), which for a power of two is the remainder. *)
queue_position(p) == p % Size

(* tail - head, corrected by one lap when the ring has wrapped. *)
queue_length(head, tail) ==
  LET len == tail - head IN IF len < 0 THEN len + Size ELSE len

(* The test of queue_push_open: one more element would make head = tail. *)
IsFull(head, tail) == queue_position(tail + 1) = head

(* The elements of the ring, oldest first. *)
Contents(data, head, tail) ==
  [i \in 1..queue_length(head, tail) |-> data[queue_position(head + i - 1)]]
=============================================================================
