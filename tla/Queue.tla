-------------------------------- MODULE Queue -------------------------------
(***************************************************************************)
(* src/queue.c as its header allows it to be used: one thread pushes, one  *)
(* thread pops, and no lock is held.  Every access to shared memory (an    *)
(* atomic load or store of head or tail, a plain read or write of a slot)  *)
(* is a step of its own.  A third thread only asks for the length, as the  *)
(* monitoring loops of test.c and test.lua do.  The int and the pointer    *)
(* queues run the same code on elements of different width.                *)
(***************************************************************************)
EXTENDS Ring

CONSTANTS
  Values,   (* The elements: queue_push_* asserts that none of them is 0 or NULL. *)
  NULL,     (* What queue_pop_* returns when there is no element.                *)
  Observers (* Threads that only call queue_length.                              *)

ASSUME NULLAssumption == NULL \notin Values
ASSUME ThreadAssumption == Observers \cap {"writer", "reader"} = {}

VARIABLES
  head, tail,   (* The two atomic ints of struct queue.                        *)
  data,         (* The slots; malloc leaves them uninitialised, here NULL.     *)
  pc,           (* Where each thread is inside a call; "idle" outside.         *)
  ltail, lhead, (* Each thread's local copies of tail and head; like every     *)
                (* local below they are cleared when the call returns.         *)
  arg,          (* The argument v of the push under way.                       *)
  read,         (* The local v of queue_pop_*.                                 *)
  pushRet,      (* What the last push returned.                                *)
  popRet,       (* What the last pop returned.                                 *)
  length,       (* What each thread's queue_length is about to return.         *)
  aborted       (* An assert of the queue has failed: the process is gone.     *)

shared == <<head, tail, data>>
results == <<pushRet, popRet, length>>
vars == <<shared, pc, ltail, lhead, arg, read, results, aborted>>

Threads == {"writer", "reader"} \cup Observers

LengthStates == {"idle", "len_head", "len_tail", "len_done"}
PushStates == {"push_open", "push_write", "push_close"}
PopStates == {"pop_open", "pop_read", "pop_close"}

Init ==
  /\ head = 0
  /\ tail = 0
  /\ data = [p \in Positions |-> NULL]
  /\ pc = [t \in Threads |-> "idle"]
  /\ ltail = [t \in Threads |-> 0]
  /\ lhead = [t \in Threads |-> 0]
  /\ arg = NULL
  /\ read = NULL
  /\ pushRet = 0
  /\ popRet = NULL
  /\ length = [t \in Threads |-> 0]
  /\ aborted = FALSE

Goto(t, from, to) ==
  /\ pc[t] = from
  /\ pc' = [pc EXCEPT ![t] = to]

\* The call of thread t returns and its locals go out of scope.
Return(t, from) ==
  /\ Goto(t, from, "idle")
  /\ ltail' = [ltail EXCEPT ![t] = 0]
  /\ lhead' = [lhead EXCEPT ![t] = 0]
  /\ length' = [length EXCEPT ![t] = 0]

PushReturn(from, ret) ==
  /\ Return("writer", from)
  /\ arg' = NULL
  /\ pushRet' = ret
  /\ UNCHANGED <<read, popRet>>

PopReturn(from, ret) ==
  /\ Return("reader", from)
  /\ read' = NULL
  /\ popRet' = ret
  /\ UNCHANGED <<arg, pushRet>>

\* assert(cond): a failed assertion ends the process.
CAssert(cond) == aborted' = ~cond

-----------------------------------------------------------------------------
(* Plausible slips in the operations below; nothing in Next refers to them. *)

PushOpenHead_Overfull ==      \* full only when every slot is taken
  /\ IF queue_length(head, ltail["writer"]) = Size
     THEN PushReturn("push_open", 1)
     ELSE /\ Goto("writer", "push_open", "push_write")
          /\ UNCHANGED <<ltail, lhead, arg, read, results>>
  /\ UNCHANGED <<shared, aborted>>

PopOpenTail_NoEmptyTest ==    \* pops whatever the slot holds
  /\ Goto("reader", "pop_open", "pop_read")
  /\ UNCHANGED <<shared, ltail, lhead, arg, read, results, aborted>>

PushWrite_PublishFirst ==     \* tail is advanced before the slot is written
  /\ Goto("writer", "push_write", "push_close")
  /\ tail' = queue_position(ltail["writer"] + 1)
  /\ UNCHANGED <<head, data, ltail, lhead, arg, read, results, aborted>>

PopClose_NoWrap ==            \* head is not brought back into the ring
  /\ PopReturn("pop_close", read)
  /\ CAssert(head = lhead["reader"])
  /\ head' = lhead["reader"] + 1
  /\ UNCHANGED <<tail, data>>

LengthOf_NoLap(h, t) ==       \* len is not corrected when the ring has wrapped
  IF t < h THEN 0 ELSE t - h

-----------------------------------------------------------------------------
(* queue_push_int, queue_push_ptr: only the writer.                          *)

\* queue_push_open loads tail ...
PushOpen(v) ==
  /\ Goto("writer", "idle", "push_open")
  /\ arg' = v
  /\ ltail' = [ltail EXCEPT !["writer"] = tail]
  /\ UNCHANGED <<shared, lhead, read, results, aborted>>

\* ... then head: when the ring is full the push returns 1.
PushOpenHead ==
  /\ IF IsFull(head, ltail["writer"])
     THEN PushReturn("push_open", 1)
     ELSE /\ Goto("writer", "push_open", "push_write")
          /\ UNCHANGED <<ltail, lhead, arg, read, results>>
  /\ UNCHANGED <<shared, aborted>>

\* data[tail] = v, a plain store.
PushWrite ==
  /\ Goto("writer", "push_write", "push_close")
  /\ data' = [data EXCEPT ![ltail["writer"]] = arg]
  /\ UNCHANGED <<head, tail, ltail, lhead, arg, read, results, aborted>>

\* queue_push_close: the element becomes visible.
PushClose ==
  /\ PushReturn("push_close", 0)
  /\ CAssert(tail = ltail["writer"])
  /\ tail' = queue_position(ltail["writer"] + 1)
  /\ UNCHANGED <<head, data>>

-----------------------------------------------------------------------------
(* queue_pop_int, queue_pop_ptr: only the reader.                            *)

\* queue_pop_open loads head ...
PopOpen ==
  /\ Goto("reader", "idle", "pop_open")
  /\ lhead' = [lhead EXCEPT !["reader"] = head]
  /\ UNCHANGED <<shared, ltail, arg, read, results, aborted>>

\* ... then tail: when they are equal the pop returns NULL (0).
PopOpenTail ==
  /\ IF lhead["reader"] = tail
     THEN PopReturn("pop_open", NULL)
     ELSE /\ Goto("reader", "pop_open", "pop_read")
          /\ UNCHANGED <<ltail, lhead, arg, read, results>>
  /\ UNCHANGED <<shared, aborted>>

\* v = data[head], a plain load.
PopRead ==
  /\ Goto("reader", "pop_read", "pop_close")
  /\ read' = data[lhead["reader"]]
  /\ UNCHANGED <<shared, ltail, lhead, arg, results, aborted>>

\* queue_pop_close: the slot may be written again.
PopClose ==
  /\ PopReturn("pop_close", read)
  /\ CAssert(head = lhead["reader"])
  /\ head' = queue_position(lhead["reader"] + 1)
  /\ UNCHANGED <<tail, data>>

-----------------------------------------------------------------------------
(* queue_length: any thread.  C leaves the order of the two loads open.      *)

LengthOf(h, t) == queue_length(h, t)

LengthLoadTail(t) ==
  /\ ltail' = [ltail EXCEPT ![t] = tail]
  /\ \/ /\ Goto(t, "idle", "len_head")
        /\ UNCHANGED length
     \/ /\ Goto(t, "len_tail", "len_done")
        /\ length' = [length EXCEPT ![t] = LengthOf(lhead[t], tail)]
  /\ UNCHANGED <<shared, lhead, arg, read, pushRet, popRet, aborted>>

LengthLoadHead(t) ==
  /\ lhead' = [lhead EXCEPT ![t] = head]
  /\ \/ /\ Goto(t, "idle", "len_tail")
        /\ UNCHANGED length
     \/ /\ Goto(t, "len_head", "len_done")
        /\ length' = [length EXCEPT ![t] = LengthOf(head, ltail[t])]
  /\ UNCHANGED <<shared, ltail, arg, read, pushRet, popRet, aborted>>

LengthReturn(t) ==
  /\ Return(t, "len_done")
  /\ UNCHANGED <<shared, arg, read, pushRet, popRet, aborted>>

-----------------------------------------------------------------------------
Writer == (\E v \in Values : PushOpen(v)) \/ PushOpenHead \/ PushWrite \/ PushClose

Reader == PopOpen \/ PopOpenTail \/ PopRead \/ PopClose

Length(t) == LengthLoadTail(t) \/ LengthLoadHead(t) \/ LengthReturn(t)

Next ==
  /\ ~aborted
  /\ \/ Writer
     \/ Reader
     \/ \E t \in Threads : Length(t)

Spec == Init /\ [][Next]_vars

-----------------------------------------------------------------------------
(* Every variable stays in the range its C type and its code give it; in     *)
(* particular head and tail never leave the ring.                            *)
TypeOK ==
  /\ head \in Positions
  /\ tail \in Positions
  /\ data \in [Positions -> Values \cup {NULL}]
  /\ pc \in [Threads -> LengthStates \cup PushStates \cup PopStates]
  /\ \A t \in Threads : /\ pc[t] \in PushStates => t = "writer"
                        /\ pc[t] \in PopStates => t = "reader"
  /\ ltail \in [Threads -> Positions]
  /\ lhead \in [Threads -> Positions]
  /\ arg \in Values \cup {NULL}
  /\ read \in Values \cup {NULL}
  /\ pushRet \in {0, 1}
  /\ popRet \in Values \cup {NULL}
  /\ length \in [Threads -> Positions]
  /\ aborted \in BOOLEAN

(* The assertions "Allow only one writer" and "Allow only one reader" of     *)
(* queue_push_close and queue_pop_close never fail.                          *)
AssertsHold == ~aborted

(* The plain accesses to a slot never overlap: while the writer is about to  *)
(* store into a slot, the reader is not about to load the same slot.         *)
NoSlotRace ==
  pc["writer"] = "push_write" /\ pc["reader"] = "pop_read"
    => ltail["writer"] # lhead["reader"]

(* What the caller of queue_length may rely on when it gets the answer       *)
(* without a lock: the reader has at least that many elements to pop, the    *)
(* writer has at most that many in the ring, and it stays so until that      *)
(* thread's next call.  A third thread only gets a number a ring can have.   *)
OwnerLengthBounds ==
  /\ pc["reader"] = "len_done" => length["reader"] \in 0..queue_length(head, tail)
  /\ pc["writer"] = "len_done" => length["writer"] \in queue_length(head, tail)..Capacity
  /\ \A t \in Threads : length[t] \in 0..Capacity

(* The lock-free ring implements the atomic bounded queue of module Fifo:    *)
(* a push takes effect when tail is stored, a pop when head is stored, and   *)
(* a refused call when it loads the other side's index.                      *)
Abstract ==
  INSTANCE Fifo WITH items <- Contents(data, head, tail), Bound <- Capacity

FifoSpec == Abstract!Spec
=============================================================================
