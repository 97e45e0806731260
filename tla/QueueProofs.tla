---------------------------- MODULE QueueProofs -----------------------------
(***************************************************************************)
(* What holds of the lock-free ring for every size, every set of values    *)
(* and any number of observing threads.                                    *)
(***************************************************************************)
EXTENDS Queue, RingProofs

(* The writer's copy of tail stays exact because only the writer moves tail; *)
(* room it has seen stays, because the reader only makes more.               *)
WriterInv ==
  /\ pc["writer"] \in PushStates => ltail["writer"] = tail /\ arg \in Values
  /\ pc["writer"] \in {"push_write", "push_close"} => ~IsFull(head, tail)
  /\ pc["writer"] = "push_close" => data[tail] = arg

(* The same for the reader: elements it has seen stay.                       *)
ReaderInv ==
  /\ pc["reader"] \in PopStates => lhead["reader"] = head
  /\ pc["reader"] \in {"pop_read", "pop_close"} => head # tail
  /\ pc["reader"] = "pop_close" => read = data[head]

(* Inside queue_length, the index a thread does not own may have moved since *)
(* it was loaded, but only in one direction.                                 *)
LengthInv ==
  /\ pc["reader"] = "len_tail" => lhead["reader"] = head
  /\ pc["reader"] = "len_head"
       => queue_length(head, ltail["reader"]) <= queue_length(head, tail)
  /\ pc["writer"] = "len_head" => ltail["writer"] = tail
  /\ pc["writer"] = "len_tail"
       => queue_length(lhead["writer"], tail) >= queue_length(head, tail)
  /\ OwnerLengthBounds

Inv == TypeOK /\ AssertsHold /\ WriterInv /\ ReaderInv /\ LengthInv

-----------------------------------------------------------------------------
(* Every state of the ring is well typed: head and tail stay in the ring.    *)
LEMMA InitInv == Init => Inv
<1>1. ASSUME Init PROVE queue_length(head, tail) = 0
  BY <1>1, SizeAssumption DEF Init, queue_length
<1>2. 0 \in Positions /\ 0 \in 0..Capacity
  BY SizeAssumption DEF Positions, Capacity
<1>3. ASSUME Init PROVE TypeOK
  BY <1>2, <1>3 DEF Init, TypeOK, LengthStates, PushStates, PopStates
<1>4. ASSUME Init PROVE AssertsHold /\ WriterInv /\ ReaderInv
  BY <1>4 DEF Init, AssertsHold, WriterInv, ReaderInv, PushStates, PopStates, Threads
<1>5. ASSUME Init PROVE LengthInv
  BY <1>2, <1>5 DEF Init, LengthInv, OwnerLengthBounds, Threads
<1>6. QED
  BY <1>3, <1>4, <1>5 DEF Inv

(* queue_length of two indices in the ring is a position as well.            *)
LEMMA LengthInRing ==
  ASSUME NEW h \in Positions, NEW t \in Positions
  PROVE  queue_length(h, t) \in Positions /\ queue_length(h, t) \in Int
<1>1. queue_length(h, t) \in 0..Capacity
  BY LengthFacts
<1>2. QED
  BY <1>1, SizeAssumption DEF Capacity, Positions

LEMMA TypeStep == Inv /\ [Next]_vars => TypeOK'
<1> SUFFICES ASSUME Inv, [Next]_vars PROVE TypeOK'
  OBVIOUS
<1> USE DEF Inv, TypeOK, LengthStates, PushStates, PopStates, Threads, results, shared
<1>1. 0 \in Positions
  BY SizeAssumption DEF Positions
<1>2. ASSUME NEW v \in Values, PushOpen(v) PROVE TypeOK'
  BY <1>2 DEF PushOpen, Goto
<1>3. CASE PushOpenHead
  <2>1. CASE IsFull(head, ltail["writer"])
    <3>1. PushReturn("push_open", 1) /\ UNCHANGED <<shared, aborted>>
      BY <1>3, <2>1 DEF PushOpenHead
    <3>2. QED
      BY <1>1, <3>1 DEF PushReturn, Return, Goto
  <2>2. CASE ~IsFull(head, ltail["writer"])
    <3>1. /\ Goto("writer", "push_open", "push_write")
          /\ UNCHANGED <<shared, ltail, lhead, arg, read, results, aborted>>
      BY <1>3, <2>2 DEF PushOpenHead
    <3>2. QED
      BY <3>1 DEF Goto
  <2>3. QED
    BY <2>1, <2>2
<1>4. CASE PushWrite
  BY <1>4 DEF PushWrite, Goto
<1>5. CASE PushClose
  <2>1. queue_position(tail + 1) \in Positions
    BY <1>5, PushIndex DEF PushClose, PushReturn, Return, Goto, WriterInv
  <2>2. ltail["writer"] = tail
    BY <1>5 DEF PushClose, PushReturn, Return, Goto, WriterInv
  <2>3. QED
    BY <1>1, <1>5, <2>1, <2>2 DEF PushClose, PushReturn, Return, Goto, CAssert
<1>6. CASE PopOpen
  BY <1>6 DEF PopOpen, Goto
<1>7. CASE PopOpenTail
  <2>1. CASE lhead["reader"] = tail
    <3>1. PopReturn("pop_open", NULL) /\ UNCHANGED <<shared, aborted>>
      BY <1>7, <2>1 DEF PopOpenTail
    <3>2. QED
      BY <1>1, <3>1 DEF PopReturn, Return, Goto
  <2>2. CASE lhead["reader"] # tail
    <3>1. /\ Goto("reader", "pop_open", "pop_read")
          /\ UNCHANGED <<shared, ltail, lhead, arg, read, results, aborted>>
      BY <1>7, <2>2 DEF PopOpenTail
    <3>2. QED
      BY <3>1 DEF Goto
  <2>3. QED
    BY <2>1, <2>2
<1>8. CASE PopRead
  BY <1>8 DEF PopRead, Goto
<1>9. CASE PopClose
  <2>1. queue_position(head + 1) \in Positions
    BY <1>9, PopIndex DEF PopClose, PopReturn, Return, Goto, ReaderInv
  <2>2. lhead["reader"] = head
    BY <1>9 DEF PopClose, PopReturn, Return, Goto, ReaderInv
  <2>3. QED
    BY <1>1, <1>9, <2>1, <2>2 DEF PopClose, PopReturn, Return, Goto, CAssert
<1>10. ASSUME NEW t \in Threads, LengthLoadTail(t) PROVE TypeOK'
  <2>1. LengthOf(lhead[t], tail) \in Positions
    BY LengthInRing DEF LengthOf
  <2>2. CASE Goto(t, "idle", "len_head") /\ UNCHANGED length
    BY <1>10, <2>2 DEF LengthLoadTail, Goto
  <2>3. CASE /\ Goto(t, "len_tail", "len_done")
             /\ length' = [length EXCEPT ![t] = LengthOf(lhead[t], tail)]
    BY <1>10, <2>1, <2>3 DEF LengthLoadTail, Goto
  <2>4. QED
    BY <1>10, <2>2, <2>3 DEF LengthLoadTail
<1>11. ASSUME NEW t \in Threads, LengthLoadHead(t) PROVE TypeOK'
  <2>1. LengthOf(head, ltail[t]) \in Positions
    BY LengthInRing DEF LengthOf
  <2>2. CASE Goto(t, "idle", "len_tail") /\ UNCHANGED length
    BY <1>11, <2>2 DEF LengthLoadHead, Goto
  <2>3. CASE /\ Goto(t, "len_head", "len_done")
             /\ length' = [length EXCEPT ![t] = LengthOf(head, ltail[t])]
    BY <1>11, <2>1, <2>3 DEF LengthLoadHead, Goto
  <2>4. QED
    BY <1>11, <2>2, <2>3 DEF LengthLoadHead
<1>12. ASSUME NEW t \in Threads, LengthReturn(t) PROVE TypeOK'
  BY <1>1, <1>12 DEF LengthReturn, Return, Goto
<1>13. CASE UNCHANGED vars
  BY <1>13 DEF vars
<1>14. QED
  BY <1>2, <1>3, <1>4, <1>5, <1>6, <1>7, <1>8, <1>9, <1>10, <1>11, <1>12, <1>13
     DEF Next, Writer, Reader, Length

-----------------------------------------------------------------------------
(* The other parts of the invariant, one lemma for each group of steps.  In  *)
(* a step of the writer only what relates tail to the reader can be at risk, *)
(* in a step of the reader only what relates head to the writer.             *)
Rest == AssertsHold /\ WriterInv /\ ReaderInv /\ LengthInv

\* A thread that leaves head and tail alone and ends outside queue_length and
\* outside push and pop disturbs nobody.
LEMMA ReturnStep ==
  ASSUME Inv, NEW t \in Threads, NEW from, Return(t, from),
         UNCHANGED <<shared, aborted>>,
         UNCHANGED arg \/ t = "writer", UNCHANGED read \/ t = "reader"
  PROVE  Rest'
<1> USE DEF Inv, TypeOK, Return, Goto, shared, PushStates, PopStates
<1>1. 0 \in 0..Capacity
  BY SizeAssumption DEF Capacity
<1>2. AssertsHold'
  BY DEF AssertsHold
<1>3. WriterInv'
  BY DEF WriterInv, Threads
<1>4. ReaderInv'
  BY DEF ReaderInv, Threads
<1>5. LengthInv'
  BY <1>1 DEF LengthInv, OwnerLengthBounds, Threads
<1>6. QED
  BY <1>2, <1>3, <1>4, <1>5 DEF Rest

\* A call of queue_push_*.
LEMMA WriterStep == Inv /\ Writer => Rest'
<1> SUFFICES ASSUME Inv, Writer PROVE Rest'
  OBVIOUS
<1> USE DEF Inv, TypeOK, shared, results, PushStates, PopStates
<1>1. ASSUME NEW v \in Values, PushOpen(v) PROVE Rest'
  <2>1. AssertsHold' /\ WriterInv'
    BY <1>1 DEF PushOpen, Goto, AssertsHold, WriterInv, Threads
  <2>2. ReaderInv'
    BY <1>1 DEF PushOpen, Goto, ReaderInv, Threads
  <2>3. LengthInv'
    BY <1>1 DEF PushOpen, Goto, LengthInv, OwnerLengthBounds, Threads
  <2>4. QED
    BY <2>1, <2>2, <2>3 DEF Rest
<1>2. ASSUME PushOpenHead, IsFull(head, ltail["writer"]) PROVE Rest'
  <2>1. PushReturn("push_open", 1) /\ UNCHANGED <<shared, aborted>>
    BY <1>2 DEF PushOpenHead
  <2>2. QED
    BY <2>1, ReturnStep DEF PushReturn, Threads
<1>3. ASSUME PushOpenHead, ~IsFull(head, ltail["writer"]) PROVE Rest'
  <2>1. /\ Goto("writer", "push_open", "push_write")
        /\ UNCHANGED <<shared, ltail, lhead, arg, read, results, aborted>>
    BY <1>3 DEF PushOpenHead
  <2>2. ltail["writer"] = tail
    BY <2>1 DEF Goto, WriterInv
  <2>3. AssertsHold' /\ WriterInv'
    <3>1. (~IsFull(head, tail))'
      BY <1>3, <2>1, <2>2
    <3>2. QED
      BY <2>1, <3>1 DEF Goto, AssertsHold, WriterInv, Threads
  <2>4. ReaderInv'
    BY <2>1 DEF Goto, ReaderInv, Threads
  <2>5. LengthInv'
    BY <2>1 DEF Goto, LengthInv, OwnerLengthBounds, Threads
  <2>6. QED
    BY <2>3, <2>4, <2>5 DEF Rest
<1>4. ASSUME PushWrite PROVE Rest'
  <2>1. ltail["writer"] = tail /\ ~IsFull(head, tail)
    BY <1>4 DEF PushWrite, Goto, WriterInv
  <2>2. AssertsHold' /\ WriterInv'
    <3>1. (~IsFull(head, tail))'
      BY <1>4, <2>1 DEF PushWrite
    <3>2. QED
      BY <1>4, <2>1, <3>1 DEF PushWrite, Goto, AssertsHold, WriterInv, Threads
  <2>3. ReaderInv'
    BY <1>4, <2>1 DEF PushWrite, Goto, ReaderInv, Threads
  <2>4. LengthInv'
    BY <1>4 DEF PushWrite, Goto, LengthInv, OwnerLengthBounds, Threads
  <2>5. QED
    BY <2>2, <2>3, <2>4 DEF Rest
<1>5. ASSUME PushClose PROVE Rest'
  <2> USE DEF PushClose, PushReturn, Return, Goto
  <2>1. ltail["writer"] = tail /\ ~IsFull(head, tail)
    BY <1>5 DEF WriterInv
  <2>2. /\ tail' \in Positions
        /\ tail' # head
        /\ queue_length(head, tail') = queue_length(head, tail) + 1
    BY <1>5, <2>1, PushIndex
  <2>3. AssertsHold' /\ WriterInv'
    BY <1>5, <2>1 DEF CAssert, AssertsHold, WriterInv, Threads
  <2>4. ReaderInv'
    BY <1>5, <2>2 DEF ReaderInv, Threads
  <2>5. LengthInv'
    <3>1. /\ queue_length(head, tail) \in Int
          /\ queue_length(head, ltail["reader"]) \in Int
          /\ 0 \in 0..Capacity
      BY LengthInRing, SizeAssumption DEF Threads, Capacity
    <3>2. QED
      BY <1>5, <2>2, <3>1 DEF LengthInv, OwnerLengthBounds, Threads, Positions
  <2>6. QED
    BY <2>3, <2>4, <2>5 DEF Rest
<1>6. QED
  BY <1>1, <1>2, <1>3, <1>4, <1>5 DEF Writer

\* A call of queue_pop_*.
LEMMA ReaderStep == Inv /\ Reader => Rest'
<1> SUFFICES ASSUME Inv, Reader PROVE Rest'
  OBVIOUS
<1> USE DEF Inv, TypeOK, shared, results, PushStates, PopStates
<1>1. ASSUME PopOpen PROVE Rest'
  <2>1. AssertsHold' /\ WriterInv'
    BY <1>1 DEF PopOpen, Goto, AssertsHold, WriterInv, Threads
  <2>2. ReaderInv'
    BY <1>1 DEF PopOpen, Goto, ReaderInv, Threads
  <2>3. LengthInv'
    BY <1>1 DEF PopOpen, Goto, LengthInv, OwnerLengthBounds, Threads
  <2>4. QED
    BY <2>1, <2>2, <2>3 DEF Rest
<1>2. ASSUME PopOpenTail, lhead["reader"] = tail PROVE Rest'
  <2>1. PopReturn("pop_open", NULL) /\ UNCHANGED <<shared, aborted>>
    BY <1>2 DEF PopOpenTail
  <2>2. QED
    BY <2>1, ReturnStep DEF PopReturn, Threads
<1>3. ASSUME PopOpenTail, lhead["reader"] # tail PROVE Rest'
  <2>1. /\ Goto("reader", "pop_open", "pop_read")
        /\ UNCHANGED <<shared, ltail, lhead, arg, read, results, aborted>>
    BY <1>3 DEF PopOpenTail
  <2>2. AssertsHold' /\ WriterInv'
    BY <2>1 DEF Goto, AssertsHold, WriterInv, Threads
  <2>3. ReaderInv'
    BY <1>3, <2>1 DEF Goto, ReaderInv, Threads
  <2>4. LengthInv'
    BY <2>1 DEF Goto, LengthInv, OwnerLengthBounds, Threads
  <2>5. QED
    BY <2>2, <2>3, <2>4 DEF Rest
<1>4. ASSUME PopRead PROVE Rest'
  <2>1. AssertsHold' /\ WriterInv'
    BY <1>4 DEF PopRead, Goto, AssertsHold, WriterInv, Threads
  <2>2. ReaderInv'
    BY <1>4 DEF PopRead, Goto, ReaderInv, Threads
  <2>3. LengthInv'
    BY <1>4 DEF PopRead, Goto, LengthInv, OwnerLengthBounds, Threads
  <2>4. QED
    BY <2>1, <2>2, <2>3 DEF Rest
<1>5. ASSUME PopClose PROVE Rest'
  <2> USE DEF PopClose, PopReturn, Return, Goto
  <2>1. lhead["reader"] = head /\ head # tail
    BY <1>5 DEF ReaderInv
  <2>2. /\ head' \in Positions
        /\ ~IsFull(head', tail)
        /\ queue_length(head', tail) = queue_length(head, tail) - 1
    BY <1>5, <2>1, PopIndex
  <2>3. AssertsHold' /\ WriterInv'
    <3>1. (~IsFull(head, tail))'
      BY <1>5, <2>2
    <3>2. QED
      BY <1>5, <2>1, <3>1 DEF CAssert, AssertsHold, WriterInv, Threads
  <2>4. ReaderInv'
    BY <1>5 DEF ReaderInv, Threads
  <2>5. LengthInv'
    <3>1. /\ queue_length(head, tail) \in Int
          /\ queue_length(lhead["writer"], tail) \in Int
          /\ 0 \in 0..Capacity
      BY LengthInRing, SizeAssumption DEF Threads, Capacity
    <3>2. QED
      BY <1>5, <2>2, <3>1 DEF LengthInv, OwnerLengthBounds, Threads, Positions
  <2>6. QED
    BY <2>3, <2>4, <2>5 DEF Rest
<1>6. QED
  BY <1>1, <1>2, <1>3, <1>4, <1>5 DEF Reader

\* A call of queue_length, by any thread.
LEMMA LengthStep == ASSUME Inv, NEW t \in Threads, Length(t) PROVE Rest'
<1> USE DEF Inv, TypeOK, shared, results, PushStates, PopStates, Goto
<1>1. /\ queue_length(head, tail) \in 0..Capacity
      /\ LengthOf(lhead[t], tail) \in 0..Capacity
      /\ LengthOf(head, ltail[t]) \in 0..Capacity
  BY LengthFacts DEF LengthOf
<1>2. Capacity \in Int
  BY SizeAssumption DEF Capacity
<1>3. ASSUME LengthLoadTail(t) PROVE Rest'
  <2> USE DEF LengthLoadTail
  <2>1. AssertsHold' /\ WriterInv'
    BY <1>3 DEF AssertsHold, WriterInv, Threads
  <2>2. ReaderInv'
    BY <1>3 DEF ReaderInv, Threads
  <2>3. LengthInv'
    <3>1. CASE Goto(t, "idle", "len_head") /\ UNCHANGED length
      BY <1>1, <1>2, <1>3, <3>1 DEF LengthInv, OwnerLengthBounds, Threads
    <3>2. CASE /\ Goto(t, "len_tail", "len_done")
               /\ length' = [length EXCEPT ![t] = LengthOf(lhead[t], tail)]
      <4>1. /\ t = "reader" => LengthOf(lhead[t], tail) = queue_length(head, tail)
            /\ t = "writer" => LengthOf(lhead[t], tail) >= queue_length(head, tail)
        BY <3>2 DEF LengthInv, LengthOf
      <4>2. QED
        BY <1>1, <1>2, <1>3, <3>2, <4>1 DEF LengthInv, OwnerLengthBounds, Threads
    <3>3. QED
      BY <1>3, <3>1, <3>2
  <2>4. QED
    BY <2>1, <2>2, <2>3 DEF Rest
<1>4. ASSUME LengthLoadHead(t) PROVE Rest'
  <2> USE DEF LengthLoadHead
  <2>1. AssertsHold' /\ WriterInv'
    BY <1>4 DEF AssertsHold, WriterInv, Threads
  <2>2. ReaderInv'
    BY <1>4 DEF ReaderInv, Threads
  <2>3. LengthInv'
    <3>1. CASE Goto(t, "idle", "len_tail") /\ UNCHANGED length
      BY <1>1, <1>2, <1>4, <3>1 DEF LengthInv, OwnerLengthBounds, Threads
    <3>2. CASE /\ Goto(t, "len_head", "len_done")
               /\ length' = [length EXCEPT ![t] = LengthOf(head, ltail[t])]
      <4>1. /\ t = "reader" => LengthOf(head, ltail[t]) <= queue_length(head, tail)
            /\ t = "writer" => LengthOf(head, ltail[t]) = queue_length(head, tail)
        BY <3>2 DEF LengthInv, LengthOf
      <4>2. QED
        BY <1>1, <1>2, <1>4, <3>2, <4>1 DEF LengthInv, OwnerLengthBounds, Threads
    <3>3. QED
      BY <1>4, <3>1, <3>2
  <2>4. QED
    BY <2>1, <2>2, <2>3 DEF Rest
<1>5. ASSUME LengthReturn(t) PROVE Rest'
  BY <1>5, ReturnStep DEF LengthReturn
<1>6. QED
  BY <1>3, <1>4, <1>5 DEF Length

LEMMA InvStep == Inv /\ [Next]_vars => Inv'
<1> SUFFICES ASSUME Inv, [Next]_vars PROVE Inv'
  OBVIOUS
<1>1. TypeOK'
  BY TypeStep
<1>2. CASE Next
  BY <1>1, <1>2, WriterStep, ReaderStep, LengthStep DEF Next, Rest, Inv
<1>3. CASE UNCHANGED vars
  BY <1>1, <1>3 DEF vars, shared, results, Inv, AssertsHold, WriterInv, ReaderInv,
                    LengthInv, OwnerLengthBounds
<1>4. QED
  BY <1>2, <1>3

LEMMA Invariance == Spec => []Inv
BY InitInv, InvStep, PTL DEF Spec

-----------------------------------------------------------------------------
(* In every reachable state every variable is in its range: neither index    *)
(* of the ring ever leaves the array, for any size of the ring.              *)
THEOREM TypeCorrect == Spec => []TypeOK
<1>1. Inv => TypeOK
  BY DEF Inv
<1>2. QED
  BY <1>1, Invariance, PTL

(* The assertions of queue_push_close and queue_pop_close never fail as long *)
(* as one thread pushes and one thread pops.                                 *)
THEOREM NeverAborts == Spec => []AssertsHold
<1>1. Inv => AssertsHold
  BY DEF Inv
<1>2. QED
  BY <1>1, Invariance, PTL

(* The plain accesses to the slots never race.                               *)
THEOREM RaceFree == Spec => []NoSlotRace
<1>1. Inv => NoSlotRace
  BY DEF Inv, NoSlotRace, WriterInv, ReaderInv, PushStates, PopStates
<1>2. QED
  BY <1>1, Invariance, PTL

(* An owner's answer from queue_length stays a safe bound until its next     *)
(* call, whatever the other side does meanwhile.                             *)
THEOREM LengthIsSafe == Spec => []OwnerLengthBounds
<1>1. Inv => OwnerLengthBounds
  BY DEF Inv, LengthInv
<1>2. QED
  BY <1>1, Invariance, PTL

-----------------------------------------------------------------------------
(* The lock-free ring is the atomic queue of module Fifo: a push happens     *)
(* when tail is stored, a pop when head is stored, and every other step      *)
(* leaves the queue as it is.                                                *)
Items == Contents(data, head, tail)

\* What a slot may hold.
Slot == Values \cup {NULL}

LEMMA ItemsFacts ==
  ASSUME Inv
  PROVE  /\ Items \in Seq(Slot)
         /\ Len(Items) = queue_length(head, tail)
         /\ Len(Items) \in 0..Capacity
         /\ Len(Items) = Capacity <=> IsFull(head, tail)
         /\ Len(Items) = 0 <=> head = tail
         /\ \A v \in Slot : Contents([data EXCEPT ![tail] = v], head, tail) = Items
         /\ ~IsFull(head, tail) =>
              \A v \in Slot :
                Contents([data EXCEPT ![tail] = v], head, queue_position(tail + 1))
                  = Append(Items, v)
         /\ head # tail =>
              /\ Items # <<>>
              /\ Head(Items) = data[head]
              /\ Contents(data, queue_position(head + 1), tail) = Tail(Items)
<1>1. data \in [Positions -> Slot] /\ head \in Positions /\ tail \in Positions
  BY DEF Inv, TypeOK, Slot
<1>2. Items \in Seq(Slot) /\ Len(Items) = queue_length(head, tail)
  BY <1>1, ContentsIsSeq DEF Items
<1>3. /\ Len(Items) \in 0..Capacity
      /\ Len(Items) = Capacity <=> IsFull(head, tail)
      /\ Len(Items) = 0 <=> head = tail
  BY <1>1, <1>2, LengthFacts
<1>4. ASSUME NEW v \in Slot
      PROVE  Contents([data EXCEPT ![tail] = v], head, tail) = Items
  <2> DEFINE d2 == [data EXCEPT ![tail] = v]
  <2>1. d2 \in [Positions -> Slot] /\ \A p \in Positions : p # tail => d2[p] = data[p]
    BY <1>1
  <2> HIDE DEF d2
  <2>2. Contents(d2, head, tail) = Contents(data, head, tail)
    BY <1>1, <2>1, ContentsWrite
  <2>3. QED
    BY <2>2 DEF d2, Items
<1>5. ASSUME ~IsFull(head, tail), NEW v \in Slot
      PROVE  Contents([data EXCEPT ![tail] = v], head, queue_position(tail + 1))
               = Append(Items, v)
  BY <1>1, <1>5, ContentsPush DEF Items
<1>6. ASSUME head # tail
      PROVE  /\ Items # <<>>
             /\ Head(Items) = data[head]
             /\ Contents(data, queue_position(head + 1), tail) = Tail(Items)
  BY <1>1, <1>6, ContentsPop DEF Items
<1>7. QED
  BY <1>2, <1>3, <1>4, <1>5, <1>6

LEMMA FifoInit == Init => Abstract!Init
<1> SUFFICES ASSUME Init PROVE Abstract!Init
  OBVIOUS
<1>1. Inv
  BY InitInv
<1>2. Items \in Seq(Slot) /\ Len(Items) = queue_length(head, tail)
  BY <1>1, ItemsFacts
<1>3. queue_length(head, tail) = 0
  BY SizeAssumption DEF Init, queue_length
<1>4. Items = <<>>
  BY <1>2, <1>3, EmptySeq
<1>5. QED
  BY <1>4 DEF Init, Abstract!Init, Items

LEMMA FifoStep == Inv /\ [Next]_vars => [Abstract!Next]_(Abstract!vars)
<1> SUFFICES ASSUME Inv, [Next]_vars PROVE [Abstract!Next]_(Abstract!vars)
  OBVIOUS
<1> USE DEF Inv, TypeOK, shared, results, PushStates, PopStates, Goto
<1>1. /\ Items \in Seq(Slot)
      /\ Len(Items) \in 0..Capacity
      /\ Len(Items) = Capacity <=> IsFull(head, tail)
      /\ Len(Items) = 0 <=> head = tail
  BY ItemsFacts
<1>2. ASSUME UNCHANGED <<data, head, tail, pushRet, popRet>>
      PROVE  [Abstract!Next]_(Abstract!vars)
  BY <1>2 DEF Abstract!vars
<1>3. ASSUME PushOpenHead, IsFull(head, ltail["writer"]) PROVE Abstract!PushFull
  <2>1. PushReturn("push_open", 1) /\ UNCHANGED <<shared, aborted>>
    BY <1>3 DEF PushOpenHead
  <2>2. ltail["writer"] = tail
    BY <2>1 DEF PushReturn, Return, WriterInv
  <2>3. QED
    BY <1>1, <1>3, <2>1, <2>2 DEF PushReturn, Abstract!PushFull, Items
<1>4. ASSUME PushWrite PROVE UNCHANGED <<Items, pushRet, popRet>>
  <2>1. ltail["writer"] = tail /\ arg \in Slot
    BY <1>4 DEF PushWrite, WriterInv, Slot
  <2>2. Contents([data EXCEPT ![tail] = arg], head, tail) = Items
    BY <2>1, ItemsFacts
  <2>3. QED
    BY <1>4, <2>1, <2>2 DEF PushWrite, Items
<1>5. ASSUME PushClose PROVE \E v \in Values : Abstract!Push(v)
  <2> USE DEF PushClose, PushReturn, Return
  <2>1. ltail["writer"] = tail /\ ~IsFull(head, tail) /\ arg \in Values /\ data[tail] = arg
    BY <1>5 DEF WriterInv
  <2>2. data = [data EXCEPT ![tail] = arg]
    BY <2>1
  <2>3. Contents(data, head, queue_position(tail + 1)) = Append(Items, arg)
    <3>1. arg \in Slot
      BY <2>1 DEF Slot
    <3>2. Contents([data EXCEPT ![tail] = arg], head, queue_position(tail + 1))
            = Append(Items, arg)
      BY <2>1, <3>1, ItemsFacts
    <3>3. QED
      BY <2>2, <3>2
  <2>4. Len(Items) < Capacity
    BY <1>1, <2>1, SizeAssumption DEF Capacity
  <2>5. Abstract!Push(arg)
    BY <1>5, <2>1, <2>3, <2>4 DEF Abstract!Push, Items
  <2>6. QED
    BY <2>1, <2>5
<1>6. ASSUME PopOpenTail, lhead["reader"] = tail PROVE Abstract!PopEmpty
  <2>1. PopReturn("pop_open", NULL) /\ UNCHANGED <<shared, aborted>>
    BY <1>6 DEF PopOpenTail
  <2>2. head = tail
    BY <1>6, <2>1 DEF PopReturn, Return, ReaderInv
  <2>3. Items = <<>>
    BY <1>1, <2>2, EmptySeq
  <2>4. QED
    BY <2>1, <2>3 DEF PopReturn, Abstract!PopEmpty, Items
<1>7. ASSUME PopClose PROVE Abstract!Pop
  <2> USE DEF PopClose, PopReturn, Return
  <2>1. lhead["reader"] = head /\ head # tail /\ read = data[head]
    BY <1>7 DEF ReaderInv
  <2>2. /\ Items # <<>>
        /\ Head(Items) = data[head]
        /\ Contents(data, queue_position(head + 1), tail) = Tail(Items)
    BY <2>1, ItemsFacts
  <2>3. QED
    BY <1>7, <2>1, <2>2 DEF Abstract!Pop, Items
<1>8. ASSUME Writer PROVE [Abstract!Next]_(Abstract!vars)
  <2>1. ASSUME NEW v \in Values, PushOpen(v)
        PROVE  UNCHANGED <<data, head, tail, pushRet, popRet>>
    BY <2>1 DEF PushOpen
  <2>2. ASSUME PushOpenHead, ~IsFull(head, ltail["writer"])
        PROVE  UNCHANGED <<data, head, tail, pushRet, popRet>>
    BY <2>2 DEF PushOpenHead
  <2>3. ASSUME PushWrite PROVE UNCHANGED Abstract!vars
    BY <1>4, <2>3 DEF Abstract!vars, Items
  <2>4. QED
    BY <1>2, <1>3, <1>5, <1>8, <2>1, <2>2, <2>3 DEF Writer, Abstract!Next
<1>9. ASSUME Reader PROVE [Abstract!Next]_(Abstract!vars)
  <2>1. ASSUME PopOpen PROVE UNCHANGED <<data, head, tail, pushRet, popRet>>
    BY <2>1 DEF PopOpen
  <2>2. ASSUME PopOpenTail, lhead["reader"] # tail
        PROVE  UNCHANGED <<data, head, tail, pushRet, popRet>>
    BY <2>2 DEF PopOpenTail
  <2>3. ASSUME PopRead PROVE UNCHANGED <<data, head, tail, pushRet, popRet>>
    BY <2>3 DEF PopRead
  <2>4. QED
    BY <1>2, <1>6, <1>7, <1>9, <2>1, <2>2, <2>3 DEF Reader, Abstract!Next
<1>10. ASSUME NEW t \in Threads, Length(t) PROVE [Abstract!Next]_(Abstract!vars)
  <2>1. UNCHANGED <<data, head, tail, pushRet, popRet>>
    BY <1>10 DEF Length, LengthLoadTail, LengthLoadHead, LengthReturn
  <2>2. QED
    BY <1>2, <2>1
<1>11. CASE UNCHANGED vars
  BY <1>2, <1>11 DEF vars
<1>12. QED
  BY <1>8, <1>9, <1>10, <1>11 DEF Next

(* The ring implements the bounded first-in first-out queue, for every size, *)
(* every set of values and every number of observers.                        *)
THEOREM ImplementsFifo == Spec => FifoSpec
<1>1. Spec => Abstract!Init /\ [][Abstract!Next]_(Abstract!vars)
  BY FifoInit, FifoStep, Invariance, PTL DEF Spec
<1>2. QED
  BY <1>1 DEF FifoSpec, Abstract!Spec
=============================================================================
