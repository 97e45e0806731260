--------------------------- MODULE ServiceProofs ----------------------------
(***************************************************************************)
(* What holds of one service for every inbox size, any number of clients,  *)
(* any set of messages and every limit of the Lua stack.                   *)
(***************************************************************************)
EXTENDS Service, RingProofs

(* The lock of cond.h excludes: a sender between cond_trigger_begin and      *)
(* cond_trigger_end holds it, with the flag up; what it has read of the ring *)
(* stays true.                                                               *)
SenderInv ==
  \A s \in Senders :
    /\ spc[s] \in {"push", "close", "end"} => mutex = s /\ flag
    /\ spc[s] = "close" => stail[s] = tail /\ ~IsFull(head, tail)
    /\ spc[s] # "idle" => smsg[s] \in Messages
    /\ spc[s] # "end" => pushRet[s] = 0

(* The same for the worker between cond_wait_begin and cond_wait_end, except *)
(* while it waits.                                                           *)
WorkerInv ==
  /\ wpc \in {"check", "test", "pop", "close", "end"} => mutex = Worker
  /\ wpc \in {"pop", "close"} => head # tail
  /\ wpc = "close" => whead = head
  /\ wpc \in {"end", "call", "run"} => msg \in Messages
  /\ ~InLua => LuaDone
  /\ wpc = "run" /\ failure = "none" => luaTop + 2 <= LuaSlots

(* What the flag says: up only if a message is there, is about to be, or has *)
(* just been taken; down while the worker waits only if there is none. While  *)
(* the worker sleeps on a message, its sender has yet to signal.             *)
FlagInv ==
  /\ flag => \/ head # tail
             \/ wpc = "end"
             \/ \E s \in Senders : spc[s] \in {"push", "close"}
  /\ wpc \in {"test", "waiting", "woken"} /\ ~flag => head = tail
  /\ wpc = "waiting" => head = tail \/ \E s \in Senders : spc[s] = "end"

(* Only messages that were sent are in the inbox, never an unwritten slot.   *)
InboxInv == Inbox \in Seq(Messages)

Inv ==
  /\ TypeOK
  /\ QueueAssertsHold
  /\ SenderInv
  /\ WorkerInv
  /\ FlagInv
  /\ InboxInv

-----------------------------------------------------------------------------
(* The worker is a sender, and nobody is none.                               *)
LEMMA SendersFacts == Worker \in Senders /\ Nobody \notin Senders
BY ThreadsAssumption DEF Senders

\* What a slot of the ring may hold.
Slot == Messages \cup {NULL}

(* The facts about Contents in the terms of the inbox.                       *)
LEMMA InboxFacts ==
  ASSUME TypeOK
  PROVE  /\ Inbox \in Seq(Slot)
         /\ Len(Inbox) = QueueLength
         /\ Len(Inbox) \in 0..Capacity
         /\ Len(Inbox) = Capacity <=> IsFull(head, tail)
         /\ Len(Inbox) = 0 <=> head = tail
         /\ ~IsFull(head, tail) =>
              \A m \in Slot :
                Contents([data EXCEPT ![tail] = m], head, queue_position(tail + 1))
                  = Append(Inbox, m)
         /\ head # tail =>
              /\ Inbox # <<>>
              /\ Head(Inbox) = data[head]
              /\ Contents(data, queue_position(head + 1), tail) = Tail(Inbox)
<1>1. data \in [Positions -> Slot] /\ head \in Positions /\ tail \in Positions
  BY DEF TypeOK, Slot
<1>2. Inbox \in Seq(Slot) /\ Len(Inbox) = QueueLength
  BY <1>1, ContentsIsSeq DEF Inbox, QueueLength
<1>3. /\ Len(Inbox) \in 0..Capacity
      /\ Len(Inbox) = Capacity <=> IsFull(head, tail)
      /\ Len(Inbox) = 0 <=> head = tail
  BY <1>1, <1>2, LengthFacts DEF QueueLength
<1>4. ASSUME ~IsFull(head, tail), NEW m \in Slot
      PROVE  Contents([data EXCEPT ![tail] = m], head, queue_position(tail + 1))
               = Append(Inbox, m)
  BY <1>1, <1>4, ContentsPush DEF Inbox
<1>5. ASSUME head # tail
      PROVE  /\ Inbox # <<>>
             /\ Head(Inbox) = data[head]
             /\ Contents(data, queue_position(head + 1), tail) = Tail(Inbox)
  BY <1>1, <1>5, ContentsPop DEF Inbox
<1>6. QED
  BY <1>2, <1>3, <1>4, <1>5

(* The inbox starts empty, unlocked, with nobody inside.                     *)
LEMMA InitInv == Init => Inv
<1> SUFFICES ASSUME Init PROVE Inv
  OBVIOUS
<1> USE DEF Init
<1>1. 0 \in Positions /\ 0 \in 0..LuaSlots
  BY SizeAssumption, LuaAssumption DEF Positions
<1>2. TypeOK
  BY <1>1 DEF TypeOK, SenderStates, WorkerStates
<1>3. SenderInv /\ WorkerInv /\ FlagInv /\ QueueAssertsHold
  BY SendersFacts DEF SenderInv, WorkerInv, FlagInv, QueueAssertsHold, InLua, LuaDone
<1>4. InboxInv
  <2>1. Inbox = <<>>
    BY <1>2, InboxFacts, EmptySeq
  <2>2. QED
    BY <2>1 DEF InboxInv
<1>5. QED
  BY <1>2, <1>3, <1>4 DEF Inv

-----------------------------------------------------------------------------
(* One lemma for the calls of service_send, one for the worker's thread.     *)

LEMMA SendStep ==
  ASSUME Inv, failure = "none", NEW s \in Senders,
         (\E m \in Messages : Send(s, m)) \/ TriggerBegin(s) \/ SendSteps(s)
  PROVE  Inv'
<1> USE DEF TypeOK, ring, sender, worker, SenderGoto, WorkerGoto, InLua, LuaDone,
            pthread_mutex_lock, pthread_mutex_unlock, pthread_cond_signal, CAssert
<1> USE DEF Inv
<1>1. ASSUME NEW m \in Messages, Send(s, m) PROVE Inv'
  <2> USE DEF Send
  <2>1. TypeOK' /\ QueueAssertsHold'
    BY <1>1, SendersFacts DEF TypeOK, SenderStates, WorkerStates, QueueAssertsHold
  <2>2. SenderInv'
    BY <1>1, SendersFacts DEF SenderInv
  <2>3. WorkerInv'
    BY <1>1, SendersFacts DEF SenderInv, WorkerInv
  <2>4. FlagInv'
    BY <1>1, SendersFacts DEF SenderInv, WorkerInv, FlagInv
  <2>5. InboxInv'
    BY <1>1, SendersFacts DEF InboxInv, Inbox
  <2>6. QED
    BY <2>1, <2>2, <2>3, <2>4, <2>5 DEF Inv
<1>2. ASSUME TriggerBegin(s) PROVE Inv'
  <2> USE DEF TriggerBegin
  <2>1. TypeOK' /\ QueueAssertsHold'
    BY <1>2, SendersFacts DEF TypeOK, SenderStates, WorkerStates, QueueAssertsHold
  <2>2. SenderInv'
    BY <1>2, SendersFacts DEF SenderInv
  <2>3. WorkerInv'
    BY <1>2, SendersFacts DEF SenderInv, WorkerInv
  <2>4. FlagInv'
    BY <1>2, SendersFacts DEF SenderInv, WorkerInv, FlagInv
  <2>5. InboxInv'
    BY <1>2, SendersFacts DEF InboxInv, Inbox
  <2>6. QED
    BY <2>1, <2>2, <2>3, <2>4, <2>5 DEF Inv
<1>3. ASSUME PushOpen(s), IsFull(head, tail) PROVE Inv'
  <2>1. /\ SenderGoto(s, "push", "end")
        /\ pushRet' = [pushRet EXCEPT ![s] = 1]
        /\ UNCHANGED <<stail, ring, flag, mutex, smsg, worker, failure>>
    BY <1>3 DEF PushOpen
  <2>2. head # tail
    BY <1>3, LengthFacts, SizeAssumption DEF Capacity
  <2>3. TypeOK' /\ QueueAssertsHold'
    BY <1>3, SendersFacts, <2>1, <2>2 DEF TypeOK, SenderStates, WorkerStates, QueueAssertsHold
  <2>4. SenderInv'
    BY <1>3, SendersFacts, <2>1, <2>2 DEF SenderInv
  <2>5. WorkerInv'
    BY <1>3, SendersFacts, <2>1, <2>2 DEF SenderInv, WorkerInv
  <2>6. FlagInv'
    BY <1>3, SendersFacts, <2>1, <2>2 DEF SenderInv, WorkerInv, FlagInv
  <2>7. InboxInv'
    BY <1>3, SendersFacts, <2>1, <2>2 DEF InboxInv, Inbox
  <2>8. QED
    BY <2>3, <2>4, <2>5, <2>6, <2>7 DEF Inv
<1>4. ASSUME PushOpen(s), ~IsFull(head, tail) PROVE Inv'
  <2>1. /\ SenderGoto(s, "push", "close")
        /\ stail' = [stail EXCEPT ![s] = tail]
        /\ UNCHANGED <<pushRet, ring, flag, mutex, smsg, worker, failure>>
    BY <1>4 DEF PushOpen
  <2>2. TypeOK' /\ QueueAssertsHold'
    BY <1>4, SendersFacts, <2>1 DEF TypeOK, SenderStates, WorkerStates, QueueAssertsHold
  <2>3. SenderInv'
    BY <1>4, SendersFacts, <2>1 DEF SenderInv
  <2>4. WorkerInv'
    BY <1>4, SendersFacts, <2>1 DEF SenderInv, WorkerInv
  <2>5. FlagInv'
    BY <1>4, SendersFacts, <2>1 DEF SenderInv, WorkerInv, FlagInv
  <2>6. InboxInv'
    BY <1>4, SendersFacts, <2>1 DEF InboxInv, Inbox
  <2>7. QED
    BY <2>2, <2>3, <2>4, <2>5, <2>6 DEF Inv
<1>5. ASSUME PushClose(s) PROVE Inv'
  <2> USE DEF PushClose
  <2>1. stail[s] = tail /\ ~IsFull(head, tail) /\ smsg[s] \in Messages
    BY <1>5 DEF SenderInv
  <2>2. tail' \in Positions /\ tail' # head
    BY <1>5, <2>1, PushIndex
  <2>3. TypeOK' /\ QueueAssertsHold'
    BY <1>5, SendersFacts, <2>1, <2>2 DEF TypeOK, SenderStates, WorkerStates, QueueAssertsHold
  <2>4. SenderInv'
    BY <1>5, SendersFacts, <2>1, <2>2 DEF SenderInv
  <2>5. WorkerInv'
    BY <1>5, SendersFacts, <2>1, <2>2 DEF SenderInv, WorkerInv
  <2>6. FlagInv'
    BY <1>5, SendersFacts, <2>1, <2>2 DEF SenderInv, WorkerInv, FlagInv
  <2>7. InboxInv'
    <3>1. Inbox' = Append(Inbox, smsg[s])
      BY <1>5, <2>1, InboxFacts DEF Inbox, Slot
    <3>2. QED
      BY <2>1, <3>1, AppendProperties DEF InboxInv
  <2>8. QED
    BY <2>3, <2>4, <2>5, <2>6, <2>7 DEF Inv
<1>6. ASSUME TriggerEnd(s) PROVE Inv'
  <2> USE DEF TriggerEnd
  <2>1. wpc' \in WorkerStates
    BY <1>6 DEF WorkerStates
  <2>2. 0 \in Positions
    BY SizeAssumption DEF Positions
  <2>3. TypeOK' /\ QueueAssertsHold'
    BY <1>6, <2>1, <2>2, SendersFacts DEF TypeOK, SenderStates, WorkerStates, QueueAssertsHold
  <2>4. SenderInv'
    BY <1>6, SendersFacts DEF SenderInv
  <2>5. WorkerInv'
    BY <1>6, SendersFacts DEF SenderInv, WorkerInv
  <2>6. FlagInv'
    BY <1>6, SendersFacts DEF SenderInv, WorkerInv, FlagInv
  <2>7. InboxInv'
    BY <1>6, SendersFacts DEF InboxInv, Inbox
  <2>8. QED
    BY <2>3, <2>4, <2>5, <2>6, <2>7 DEF Inv
<1>7. QED
  BY <1>1, <1>2, <1>3, <1>4, <1>5, <1>6 DEF SendSteps

LEMMA WorkerStep ==
  ASSUME Inv, failure = "none",
         Start \/ WaitBegin \/ Relock \/ SpuriousWakeup \/ WorkerSteps \/ LuaReturns
  PROVE  Inv'
<1> USE DEF TypeOK, ring, sender, worker, SenderGoto, WorkerGoto, InLua, LuaDone,
            pthread_mutex_lock, pthread_mutex_unlock, pthread_cond_signal, CAssert
<1> USE DEF Inv
<1>1. ASSUME Start PROVE Inv'
  <2> USE DEF Start
  <2>1. TypeOK' /\ QueueAssertsHold'
    BY <1>1, SendersFacts DEF TypeOK, SenderStates, WorkerStates, QueueAssertsHold
  <2>2. SenderInv'
    BY <1>1, SendersFacts DEF SenderInv
  <2>3. WorkerInv'
    BY <1>1, SendersFacts DEF SenderInv, WorkerInv
  <2>4. FlagInv'
    BY <1>1, SendersFacts DEF SenderInv, WorkerInv, FlagInv
  <2>5. InboxInv'
    BY <1>1, SendersFacts DEF InboxInv, Inbox
  <2>6. QED
    BY <2>1, <2>2, <2>3, <2>4, <2>5 DEF Inv
<1>2. ASSUME WaitBegin PROVE Inv'
  <2> USE DEF WaitBegin
  <2>1. TypeOK' /\ QueueAssertsHold'
    BY <1>2, SendersFacts DEF TypeOK, SenderStates, WorkerStates, QueueAssertsHold
  <2>2. SenderInv'
    BY <1>2, SendersFacts DEF SenderInv
  <2>3. WorkerInv'
    BY <1>2, SendersFacts DEF SenderInv, WorkerInv
  <2>4. FlagInv'
    BY <1>2, SendersFacts DEF SenderInv, WorkerInv, FlagInv
  <2>5. InboxInv'
    BY <1>2, SendersFacts DEF InboxInv, Inbox
  <2>6. QED
    BY <2>1, <2>2, <2>3, <2>4, <2>5 DEF Inv
<1>3. ASSUME Relock PROVE Inv'
  <2> USE DEF Relock
  <2>1. TypeOK' /\ QueueAssertsHold'
    BY <1>3, SendersFacts DEF TypeOK, SenderStates, WorkerStates, QueueAssertsHold
  <2>2. SenderInv'
    BY <1>3, SendersFacts DEF SenderInv
  <2>3. WorkerInv'
    BY <1>3, SendersFacts DEF SenderInv, WorkerInv
  <2>4. FlagInv'
    BY <1>3, SendersFacts DEF SenderInv, WorkerInv, FlagInv
  <2>5. InboxInv'
    BY <1>3, SendersFacts DEF InboxInv, Inbox
  <2>6. QED
    BY <2>1, <2>2, <2>3, <2>4, <2>5 DEF Inv
<1>4. ASSUME SpuriousWakeup PROVE Inv'
  <2> USE DEF SpuriousWakeup
  <2>1. TypeOK' /\ QueueAssertsHold'
    BY <1>4, SendersFacts DEF TypeOK, SenderStates, WorkerStates, QueueAssertsHold
  <2>2. SenderInv'
    BY <1>4, SendersFacts DEF SenderInv
  <2>3. WorkerInv'
    BY <1>4, SendersFacts DEF SenderInv, WorkerInv
  <2>4. FlagInv'
    BY <1>4, SendersFacts DEF SenderInv, WorkerInv, FlagInv
  <2>5. InboxInv'
    BY <1>4, SendersFacts DEF InboxInv, Inbox
  <2>6. QED
    BY <2>1, <2>2, <2>3, <2>4, <2>5 DEF Inv
<1>5. ASSUME CheckLength PROVE Inv'
  <2>1. /\ WorkerGoto("check", IF head = tail THEN "test" ELSE "pop")
        /\ UNCHANGED <<ring, flag, mutex, sender, msg, whead, luaTop, failure>>
    BY <1>5, LengthFacts DEF CheckLength, QueueLength
  <2>2. TypeOK' /\ QueueAssertsHold'
    BY <1>5, SendersFacts, <2>1 DEF TypeOK, SenderStates, WorkerStates, QueueAssertsHold
  <2>3. SenderInv'
    BY <1>5, SendersFacts, <2>1 DEF SenderInv
  <2>4. WorkerInv'
    BY <1>5, SendersFacts, <2>1 DEF SenderInv, WorkerInv
  <2>5. FlagInv'
    BY <1>5, SendersFacts, <2>1 DEF SenderInv, WorkerInv, FlagInv
  <2>6. InboxInv'
    BY <1>5, SendersFacts, <2>1 DEF InboxInv, Inbox
  <2>7. QED
    BY <2>2, <2>3, <2>4, <2>5, <2>6 DEF Inv
<1>6. ASSUME CondWait, flag PROVE Inv'
  <2>1. /\ WorkerGoto("test", "pop")
        /\ UNCHANGED <<ring, flag, mutex, sender, msg, whead, luaTop, failure>>
    BY <1>6 DEF CondWait
  <2>2. TypeOK' /\ QueueAssertsHold'
    BY <1>6, SendersFacts, <2>1 DEF TypeOK, SenderStates, WorkerStates, QueueAssertsHold
  <2>3. SenderInv'
    BY <1>6, SendersFacts, <2>1 DEF SenderInv
  <2>4. WorkerInv'
    <3>1. head # tail
      BY <1>6, <2>1, SendersFacts DEF SenderInv, WorkerInv, FlagInv
    <3>2. QED
      BY <1>6, <2>1, <3>1, SendersFacts DEF WorkerInv
  <2>5. FlagInv'
    BY <1>6, SendersFacts, <2>1 DEF SenderInv, WorkerInv, FlagInv
  <2>6. InboxInv'
    BY <1>6, SendersFacts, <2>1 DEF InboxInv, Inbox
  <2>7. QED
    BY <2>2, <2>3, <2>4, <2>5, <2>6 DEF Inv
<1>7. ASSUME CondWait, ~flag PROVE Inv'
  <2>1. /\ WorkerGoto("test", "waiting")
        /\ mutex' = Nobody
        /\ UNCHANGED <<ring, flag, sender, msg, whead, luaTop, failure>>
    BY <1>7 DEF CondWait
  <2>2. TypeOK' /\ QueueAssertsHold'
    BY <1>7, SendersFacts, <2>1 DEF TypeOK, SenderStates, WorkerStates, QueueAssertsHold
  <2>3. SenderInv'
    BY <1>7, SendersFacts, <2>1 DEF SenderInv
  <2>4. WorkerInv'
    BY <1>7, SendersFacts, <2>1 DEF SenderInv, WorkerInv
  <2>5. FlagInv'
    BY <1>7, SendersFacts, <2>1 DEF SenderInv, WorkerInv, FlagInv
  <2>6. InboxInv'
    BY <1>7, SendersFacts, <2>1 DEF InboxInv, Inbox
  <2>7. QED
    BY <2>2, <2>3, <2>4, <2>5, <2>6 DEF Inv
<1>8. ASSUME PopOpen PROVE Inv'
  <2>1. head # tail /\ QueueLength > 0
    BY <1>8, LengthFacts, SizeAssumption DEF PopOpen, WorkerInv, QueueLength, Capacity
  <2>2. /\ WorkerGoto("pop", "close")
        /\ whead' = head
        /\ UNCHANGED <<ring, flag, mutex, sender, msg, luaTop, failure>>
    BY <1>8, <2>1 DEF PopOpen
  <2>3. TypeOK' /\ QueueAssertsHold'
    BY <1>8, SendersFacts, <2>1, <2>2 DEF TypeOK, SenderStates, WorkerStates, QueueAssertsHold
  <2>4. SenderInv'
    BY <1>8, SendersFacts, <2>1, <2>2 DEF SenderInv
  <2>5. WorkerInv'
    BY <1>8, SendersFacts, <2>1, <2>2 DEF SenderInv, WorkerInv
  <2>6. FlagInv'
    BY <1>8, SendersFacts, <2>1, <2>2 DEF SenderInv, WorkerInv, FlagInv
  <2>7. InboxInv'
    BY <1>8, SendersFacts, <2>1, <2>2 DEF InboxInv, Inbox
  <2>8. QED
    BY <2>3, <2>4, <2>5, <2>6, <2>7 DEF Inv
<1>9. ASSUME PopClose PROVE Inv'
  <2> USE DEF PopClose
  <2>1. whead = head /\ head # tail
    BY <1>9 DEF WorkerInv
  <2>2. head' \in Positions /\ ~IsFull(head', tail)
    BY <1>9, <2>1, PopIndex
  <2>3. Inbox' = Tail(Inbox) /\ Inbox # <<>> /\ msg' = Head(Inbox)
    BY <1>9, <2>1, InboxFacts DEF Inbox
  <2>4. Inbox' \in Seq(Messages) /\ msg' \in Messages
    BY <2>3, HeadTailProperties DEF InboxInv
  <2>5. 0 \in Positions
    BY SizeAssumption DEF Positions
  <2>6. TypeOK' /\ QueueAssertsHold'
    BY <1>9, SendersFacts, <2>1, <2>2, <2>4, <2>5 DEF TypeOK, SenderStates, WorkerStates, QueueAssertsHold
  <2>7. SenderInv'
    BY <1>9, SendersFacts, <2>1, <2>2 DEF SenderInv
  <2>8. WorkerInv'
    BY <1>9, SendersFacts, <2>1, <2>4 DEF WorkerInv
  <2>9. FlagInv'
    BY <1>9, SendersFacts, <2>1, <2>2 DEF SenderInv, WorkerInv, FlagInv
  <2>10. InboxInv'
    BY <2>4 DEF InboxInv
  <2>11. QED
    BY <2>6, <2>7, <2>8, <2>9, <2>10 DEF Inv
<1>10. ASSUME WaitEnd PROVE Inv'
  <2> USE DEF WaitEnd
  <2>1. TypeOK' /\ QueueAssertsHold'
    BY <1>10, SendersFacts DEF TypeOK, SenderStates, WorkerStates, QueueAssertsHold
  <2>2. SenderInv'
    BY <1>10, SendersFacts DEF SenderInv, WorkerInv
  <2>3. WorkerInv'
    BY <1>10, SendersFacts DEF SenderInv, WorkerInv
  <2>4. FlagInv'
    BY <1>10, SendersFacts DEF SenderInv, WorkerInv, FlagInv
  <2>5. InboxInv'
    BY <1>10, SendersFacts DEF InboxInv, Inbox
  <2>6. QED
    BY <2>1, <2>2, <2>3, <2>4, <2>5 DEF Inv
<1>11. ASSUME CallHandler PROVE Inv'
  <2> USE DEF CallHandler
  <2>1. TypeOK' /\ QueueAssertsHold'
    BY <1>11, SendersFacts, LuaAssumption DEF TypeOK, SenderStates, WorkerStates, QueueAssertsHold
  <2>2. SenderInv'
    BY <1>11, SendersFacts, LuaAssumption DEF SenderInv
  <2>3. WorkerInv'
    BY <1>11, SendersFacts, LuaAssumption DEF SenderInv, WorkerInv
  <2>4. FlagInv'
    BY <1>11, SendersFacts, LuaAssumption DEF SenderInv, WorkerInv, FlagInv
  <2>5. InboxInv'
    BY <1>11, SendersFacts, LuaAssumption DEF InboxInv, Inbox
  <2>6. QED
    BY <2>1, <2>2, <2>3, <2>4, <2>5 DEF Inv
<1>12. ASSUME NEW o \in InitOutcomes, InitLua(o) PROVE Inv'
  <2> USE DEF InitLua
  <2>1. TypeOK' /\ QueueAssertsHold'
    BY <1>12, SendersFacts DEF TypeOK, SenderStates, WorkerStates, QueueAssertsHold
  <2>2. SenderInv'
    BY <1>12, SendersFacts DEF SenderInv
  <2>3. WorkerInv'
    BY <1>12, SendersFacts DEF SenderInv, WorkerInv
  <2>4. FlagInv'
    BY <1>12, SendersFacts DEF SenderInv, WorkerInv, FlagInv
  <2>5. InboxInv'
    BY <1>12, SendersFacts DEF InboxInv, Inbox
  <2>6. QED
    BY <2>1, <2>2, <2>3, <2>4, <2>5 DEF Inv
<1>13. ASSUME HandlerReturns PROVE Inv'
  <2> USE DEF HandlerReturns
  <2>1. TypeOK' /\ QueueAssertsHold'
    BY <1>13, SendersFacts DEF TypeOK, SenderStates, WorkerStates, QueueAssertsHold
  <2>2. SenderInv'
    BY <1>13, SendersFacts DEF SenderInv
  <2>3. WorkerInv'
    BY <1>13, SendersFacts DEF SenderInv, WorkerInv
  <2>4. FlagInv'
    BY <1>13, SendersFacts DEF SenderInv, WorkerInv, FlagInv
  <2>5. InboxInv'
    BY <1>13, SendersFacts DEF InboxInv, Inbox
  <2>6. QED
    BY <2>1, <2>2, <2>3, <2>4, <2>5 DEF Inv
<1>14. ASSUME HandlerFails PROVE Inv'
  <2> USE DEF HandlerFails
  <2>1. luaTop' \in 0..LuaSlots
    BY <1>14, LuaAssumption DEF WorkerInv
  <2>2. TypeOK' /\ QueueAssertsHold'
    BY <1>14, <2>1, SendersFacts DEF TypeOK, SenderStates, WorkerStates, QueueAssertsHold
  <2>3. SenderInv'
    BY <1>14, SendersFacts, LuaAssumption DEF SenderInv
  <2>4. WorkerInv'
    BY <1>14, SendersFacts, LuaAssumption DEF SenderInv, WorkerInv
  <2>5. FlagInv'
    BY <1>14, SendersFacts, LuaAssumption DEF SenderInv, WorkerInv, FlagInv
  <2>6. InboxInv'
    BY <1>14, SendersFacts, LuaAssumption DEF InboxInv, Inbox
  <2>7. QED
    BY <2>2, <2>3, <2>4, <2>5, <2>6 DEF Inv
<1>15. QED
  BY <1>1, <1>2, <1>3, <1>4, <1>5, <1>6, <1>7, <1>8, <1>9, <1>10, <1>11, <1>12, <1>13, <1>14 DEF WorkerSteps, LuaReturns

LEMMA InvStep == Inv /\ [Next]_vars => Inv'
<1> SUFFICES ASSUME Inv, [Next]_vars PROVE Inv'
  OBVIOUS
<1>1. CASE failure = "none" /\ Running
  BY <1>1, SendStep, WorkerStep DEF Running
<1>2. CASE UNCHANGED vars
  BY <1>2 DEF vars, ring, sender, worker, Inv, TypeOK, QueueAssertsHold, SenderInv,
              WorkerInv, FlagInv, InboxInv, Inbox, InLua, LuaDone
<1>3. QED
  BY <1>1, <1>2 DEF Next, Exited

LEMMA Invariance == Spec => []Inv
BY InitInv, InvStep, PTL DEF Spec

-----------------------------------------------------------------------------
(* Every variable of a service stays in its range; in particular the Lua     *)
(* stack never grows past its limit without the process ending.              *)
THEOREM TypeCorrect == Spec => []TypeOK
<1>1. Inv => TypeOK
  BY DEF Inv
<1>2. QED
  BY <1>1, Invariance, PTL

(* However many threads call service_send, the assertions "Allow only one    *)
(* writer" and "Allow only one reader" of the queue never fail.              *)
THEOREM LockExcludes == Spec => []QueueAssertsHold
<1>1. Inv => QueueAssertsHold
  BY DEF Inv
<1>2. QED
  BY <1>1, Invariance, PTL

(* The guarded pop of service_routine_wrap is never skipped, so that the     *)
(* handler never gets a message that is stale or uninitialised.              *)
THEOREM PopNeverSkipped == Spec => []NeverStale
<1>1. Inv => NeverStale
  <2> SUFFICES ASSUME Inv, wpc = "pop" PROVE QueueLength > 0
    BY DEF NeverStale
  <2>1. head \in Positions /\ tail \in Positions /\ head # tail
    BY DEF Inv, TypeOK, WorkerInv
  <2>2. QueueLength \in 0..Capacity /\ QueueLength # 0
    BY <2>1, LengthFacts DEF QueueLength
  <2>3. QED
    BY <2>2, SizeAssumption DEF Capacity
<1>2. QED
  BY <1>1, Invariance, PTL

(* The worker never sleeps on a message whose sender has already signalled.  *)
THEOREM WakeupsArrive == Spec => []NoLostWakeup
<1>1. Inv => NoLostWakeup
  BY LengthFacts DEF Inv, TypeOK, FlagInv, NoLostWakeup, QueueLength
<1>2. QED
  BY <1>1, Invariance, PTL

-----------------------------------------------------------------------------
(* The service is a mailbox: a send takes effect when the push is closed, or *)
(* is refused when the push is opened; the worker takes a message when the   *)
(* pop is closed and is done with it when Lua returns.                       *)
Handling == IF wpc \in {"end", "call", "run"} THEN msg ELSE NULL

OutcomeOf(s) ==
  IF spc[s] # "end" THEN "none" ELSE IF pushRet[s] = 0 THEN "accepted" ELSE "dropped"

Outcome == [s \in Senders |-> OutcomeOf(s)]

\* The refinement mapping in these terms.
LEMMA AbstractVars ==
  Inbox' = Inbox /\ Handling' = Handling /\ Outcome' = Outcome => UNCHANGED Abstract!vars
BY DEF Abstract!vars, Handling, Outcome, OutcomeOf

LEMMA MailboxInit == Init => Abstract!Init
<1> SUFFICES ASSUME Init PROVE Abstract!Init
  OBVIOUS
<1>1. Inbox = <<>>
  <2>1. Inv
    BY InitInv
  <2>2. QED
    BY <2>1, InboxFacts, EmptySeq DEF Inv, Init
<1>2. QED
  BY <1>1 DEF Init, Abstract!Init

LEMMA MailboxSend ==
  ASSUME Inv, NEW s \in Senders,
         (\E m \in Messages : Send(s, m)) \/ TriggerBegin(s) \/ SendSteps(s)
  PROVE  [Abstract!Next]_(Abstract!vars)
<1> USE DEF ring, sender, worker, SenderGoto
<1>1. TypeOK
  BY DEF Inv
<1>2. pushRet[s] = 0 \/ spc[s] = "end"
  BY DEF Inv, SenderInv
<1>3. ASSUME UNCHANGED <<ring, wpc, msg, pushRet>>, spc[s] # "end",
             NEW to, spc' = [spc EXCEPT ![s] = to], to # "end"
      PROVE  UNCHANGED Abstract!vars
  <2>1. Inbox' = Inbox /\ Handling' = Handling
    BY <1>3 DEF Inbox, Handling
  <2>2. Outcome' = Outcome
    BY <1>1, <1>3 DEF Outcome, OutcomeOf, TypeOK
  <2>3. QED
    BY <2>1, <2>2, AbstractVars
<1>4. ASSUME NEW m \in Messages, Send(s, m) PROVE UNCHANGED Abstract!vars
  BY <1>3, <1>4 DEF Send
<1>5. ASSUME TriggerBegin(s) PROVE UNCHANGED Abstract!vars
  BY <1>3, <1>5 DEF TriggerBegin
<1>6. ASSUME PushOpen(s), ~IsFull(head, tail) PROVE UNCHANGED Abstract!vars
  BY <1>3, <1>6 DEF PushOpen
<1>7. ASSUME PushOpen(s), IsFull(head, tail) PROVE Abstract!Refuse(s)
  <2>1. /\ SenderGoto(s, "push", "end")
        /\ pushRet' = [pushRet EXCEPT ![s] = 1]
        /\ UNCHANGED <<ring, worker>>
    BY <1>7 DEF PushOpen
  <2>2. Len(Inbox) = Capacity /\ Inbox' = Inbox /\ Handling' = Handling
    BY <1>1, <1>7, <2>1, InboxFacts DEF Inbox, Handling
  <2>3. Outcome[s] = "none" /\ Outcome' = [Outcome EXCEPT ![s] = "dropped"]
    <3>1. ASSUME NEW r \in Senders
          PROVE  OutcomeOf(r)' = IF r = s THEN "dropped" ELSE OutcomeOf(r)
      BY <1>1, <2>1 DEF OutcomeOf, TypeOK
    <3>2. OutcomeOf(s) = "none"
      BY <2>1 DEF OutcomeOf
    <3>3. QED
      BY <3>1, <3>2 DEF Outcome
  <2>4. QED
    BY <2>2, <2>3 DEF Abstract!Refuse, Handling, Outcome, OutcomeOf
<1>8. ASSUME PushClose(s) PROVE \E m \in Messages : Abstract!Accept(s, m)
  <2> USE DEF PushClose
  <2>1. stail[s] = tail /\ ~IsFull(head, tail) /\ smsg[s] \in Messages
    BY <1>8 DEF Inv, SenderInv
  <2>2. Len(Inbox) < Capacity
    BY <1>1, <2>1, InboxFacts, SizeAssumption DEF Capacity
  <2>3. Inbox' = Append(Inbox, smsg[s]) /\ Handling' = Handling
    BY <1>1, <1>8, <2>1, InboxFacts DEF Inbox, Handling, Slot
  <2>4. Outcome[s] = "none" /\ Outcome' = [Outcome EXCEPT ![s] = "accepted"]
    BY <1>1, <1>2, <1>8 DEF Outcome, OutcomeOf, TypeOK
  <2>5. PICK m \in Messages : m = smsg[s]
    BY <2>1
  <2>6. Abstract!Accept(s, m)
    BY <2>2, <2>3, <2>4, <2>5 DEF Abstract!Accept, Handling, Outcome, OutcomeOf
  <2>7. QED
    BY <2>6
<1>9. ASSUME TriggerEnd(s) PROVE Abstract!Return(s)
  <2> USE DEF TriggerEnd, pthread_cond_signal
  <2>1. Inbox' = Inbox /\ Handling' = Handling
    BY <1>9 DEF Inbox, Handling
  <2>2. Outcome[s] # "none" /\ Outcome' = [Outcome EXCEPT ![s] = "none"]
    BY <1>1, <1>9 DEF Outcome, OutcomeOf, TypeOK
  <2>3. QED
    BY <2>1, <2>2 DEF Abstract!Return, Handling, Outcome, OutcomeOf
<1>10. QED
  BY <1>4, <1>5, <1>6, <1>7, <1>8, <1>9 DEF SendSteps, Abstract!Next

LEMMA MailboxWorker ==
  ASSUME Inv,
         Start \/ WaitBegin \/ Relock \/ SpuriousWakeup \/ WorkerSteps \/ LuaReturns
  PROVE  [Abstract!Next]_(Abstract!vars)
<1> USE DEF ring, sender, WorkerGoto
<1>1. ASSUME UNCHANGED <<ring, sender>>, Handling' = Handling
      PROVE  UNCHANGED Abstract!vars
  BY <1>1, AbstractVars DEF Inbox, Outcome, OutcomeOf
<1>2. ASSUME Start \/ WaitBegin \/ Relock \/ SpuriousWakeup
      PROVE  UNCHANGED Abstract!vars
  BY <1>1, <1>2 DEF Start, WaitBegin, Relock, SpuriousWakeup, Handling
<1>3. ASSUME CheckLength \/ CondWait PROVE UNCHANGED Abstract!vars
  BY <1>1, <1>3 DEF CheckLength, CondWait, Handling
<1>4. ASSUME PopOpen PROVE UNCHANGED Abstract!vars
  <2>1. head \in Positions /\ tail \in Positions /\ head # tail
    BY <1>4 DEF Inv, TypeOK, WorkerInv, PopOpen
  <2>2. QueueLength > 0
    BY <2>1, LengthFacts, SizeAssumption DEF QueueLength, Capacity
  <2>3. QED
    BY <1>1, <1>4, <2>2 DEF PopOpen, Handling
<1>5. ASSUME PopClose PROVE Abstract!Take
  <2> USE DEF PopClose
  <2>1. whead = head /\ head # tail
    BY <1>5 DEF Inv, WorkerInv
  <2>2. Inbox # <<>> /\ msg' = Head(Inbox) /\ Inbox' = Tail(Inbox)
    BY <1>5, <2>1, InboxFacts DEF Inv, Inbox
  <2>3. Handling = NULL /\ Handling' = Head(Inbox) /\ Outcome' = Outcome
    BY <1>5, <2>2 DEF Handling, Outcome, OutcomeOf
  <2>4. QED
    BY <2>2, <2>3 DEF Abstract!Take, Handling, Outcome, OutcomeOf
<1>6. ASSUME WaitEnd \/ CallHandler PROVE UNCHANGED Abstract!vars
  BY <1>1, <1>6 DEF WaitEnd, CallHandler, Handling
<1>7. ASSUME NEW o \in InitOutcomes, InitLua(o) PROVE UNCHANGED Abstract!vars
  BY <1>1, <1>7 DEF InitLua, Handling
<1>8. ASSUME HandlerReturns \/ HandlerFails PROVE Abstract!Finish
  <2>1. Handling # NULL
    BY <1>8, MessagesAssumption DEF Inv, WorkerInv, HandlerReturns, HandlerFails, Handling
  <2>2. Handling' = NULL /\ Inbox' = Inbox /\ Outcome' = Outcome
    BY <1>8 DEF HandlerReturns, HandlerFails, Handling, Inbox, Outcome, OutcomeOf
  <2>3. QED
    BY <2>1, <2>2 DEF Abstract!Finish, Handling, Outcome, OutcomeOf
<1>9. QED
  BY <1>2, <1>3, <1>4, <1>5, <1>6, <1>7, <1>8 DEF WorkerSteps, LuaReturns, Abstract!Next

LEMMA MailboxStep == Inv /\ [Next]_vars => [Abstract!Next]_(Abstract!vars)
<1> SUFFICES ASSUME Inv, [Next]_vars PROVE [Abstract!Next]_(Abstract!vars)
  OBVIOUS
<1>1. CASE failure = "none" /\ Running
  BY <1>1, MailboxSend, MailboxWorker DEF Running
<1>2. CASE UNCHANGED vars
  BY <1>2, AbstractVars DEF vars, ring, sender, worker, Inbox, Handling, Outcome, OutcomeOf
<1>3. QED
  BY <1>1, <1>2 DEF Next, Exited

(* What service_send puts into the inbox is handed to Lua once, in order and *)
(* one at a time, and a message is dropped only by a full inbox: for every   *)
(* inbox size, any number of clients and any messages.                       *)
THEOREM ImplementsMailbox == Spec => MailboxSpec
<1>1. Spec => Abstract!Init /\ [][Abstract!Next]_(Abstract!vars)
  BY MailboxInit, MailboxStep, Invariance, PTL DEF Spec
<1>2. QED
  BY <1>1 DEF MailboxSpec, Abstract!Spec
=============================================================================
