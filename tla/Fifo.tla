-------------------------------- MODULE Fifo --------------------------------
(***************************************************************************)
(* What a queue of src/queue.h promises to its one reader and one writer:  *)
(* a bounded first-in first-out queue whose operations take effect         *)
(* atomically.  A push that returns 1 found the queue full at that moment, *)
(* and a pop that returns NULL found it empty.                             *)
(***************************************************************************)
EXTENDS Naturals, Sequences

CONSTANTS
  Values,     (* What can be queued: non-zero ints, non-NULL pointers. *)
  NULL,       (* The result of a pop that found nothing.               *)
  Bound       (* The number of elements the queue holds at most.       *)

VARIABLES
  items,      (* The queued elements, oldest first.         *)
  pushRet,    (* What the last push returned: 0 is success. *)
  popRet      (* What the last pop returned.                *)

vars == <<items, pushRet, popRet>>

Init ==
  /\ items = <<>>
  /\ pushRet = 0
  /\ popRet = NULL

Push(v) ==
  /\ Len(items) < Bound
  /\ items' = Append(items, v)
  /\ pushRet' = 0
  /\ UNCHANGED popRet

PushFull ==
  /\ Len(items) = Bound
  /\ pushRet' = 1
  /\ UNCHANGED <<items, popRet>>

Pop ==
  /\ items # <<>>
  /\ popRet' = Head(items)
  /\ items' = Tail(items)
  /\ UNCHANGED pushRet

PopEmpty ==
  /\ items = <<>>
  /\ popRet' = NULL
  /\ UNCHANGED <<items, pushRet>>

Next ==
  \/ \E v \in Values : Push(v)
  \/ PushFull
  \/ Pop
  \/ PopEmpty

Spec == Init /\ [][Next]_vars
=============================================================================
