------------------------------- MODULE Service ------------------------------
(***************************************************************************)
(* One service of src/service.c: its inbox (the ring of src/queue.c), the  *)
(* mutex, condition variable and flag of src/cond.h that guard it, the     *)
(* threads that call service_send, and the thread that runs                *)
(* service_routine_wrap.  The Lua handler runs without the lock and may    *)
(* itself send to its own service, so the worker is a sender too.          *)
(*                                                                         *)
(* The ring is accessed under the mutex only; the steps that open and      *)
(* close a push or a pop are kept apart so that the mutex, and not the     *)
(* model, is what makes them exclusive.                                    *)
(***************************************************************************)
EXTENDS Ring

CONSTANTS
  Clients,       (* Threads outside the service that call service_send.       *)
  Worker,        (* The thread created by service_start.                      *)
  Nobody,        (* The holder of a free mutex.                               *)
  Messages,      (* The pointers sent; queue_push_ptr asserts v != NULL.      *)
  NULL,          (* An uninitialised pointer.                                 *)
  InitOutcomes,  (* What loading the service's code may come to: see InitLua. *)
  LuaSlots       (* How far the stack of a lua_State may grow (LuaJIT's       *)
                 (* limit; it bounds luaTop).                                 *)

ASSUME ThreadsAssumption ==
  /\ Worker \notin Clients
  /\ Nobody \notin Clients \cup {Worker}
ASSUME MessagesAssumption == NULL \notin Messages
ASSUME LuaAssumption ==
  /\ InitOutcomes \subseteq {"handler", "nil", "error"}
  /\ LuaSlots \in Nat

Senders == Clients \cup {Worker}

VARIABLES
  head, tail, data,  (* s->q: the ring.                                          *)
  flag,              (* s->c->flag.                                              *)
  mutex,             (* The holder of s->c->lock.                                *)
  spc,               (* Where each sender is inside service_send.                *)
  smsg,              (* The argument msg of that call.                           *)
  stail,             (* The local tail of its queue_push_ptr.                    *)
  pushRet,           (* What its queue_push_ptr returned; service_send drops it. *)
  wpc,               (* Where the worker is.                                     *)
  msg,               (* The local msg of service_routine_wrap, declared outside  *)
                     (* its loop and never reset.                                *)
  whead,             (* The local head of the worker's queue_pop_ptr.            *)
  luaTop,            (* Values left behind on the stack of s->L.                 *)
  failure            (* Why the process ended: "none" while it runs.             *)

ring == <<head, tail, data>>
sender == <<spc, smsg, stail, pushRet>>
worker == <<wpc, msg, whead, luaTop>>
vars == <<ring, flag, mutex, sender, worker, failure>>

(* service_new; the thread is created later, by service_start. *)
Init ==
  /\ head = 0
  /\ tail = 0
  /\ data = [p \in Positions |-> NULL]
  /\ flag = FALSE
  /\ mutex = Nobody
  /\ spc = [s \in Senders |-> "idle"]
  /\ smsg = [s \in Senders |-> NULL]
  /\ stail = [s \in Senders |-> 0]
  /\ pushRet = [s \in Senders |-> 0]
  /\ wpc = "unborn"
  /\ msg = NULL
  /\ whead = 0
  /\ luaTop = 0
  /\ failure = "none"

QueueLength == queue_length(head, tail)
Inbox == Contents(data, head, tail)

SenderGoto(s, from, to) ==
  /\ spc[s] = from
  /\ spc' = [spc EXCEPT ![s] = to]

WorkerGoto(from, to) ==
  /\ wpc = from
  /\ wpc' = to

pthread_mutex_lock(t) ==
  /\ mutex = Nobody
  /\ mutex' = t

pthread_mutex_unlock == mutex' = Nobody

(* The worker is the only thread that ever waits on the condition. *)
pthread_cond_signal == wpc' = IF wpc = "waiting" THEN "woken" ELSE wpc

(* assert(cond) of the C library: when it fails the process is aborted. *)
CAssert(cond, what) == failure' = IF cond THEN "none" ELSE what

(* Lua code is running on the worker's thread: the chunk, or the handler. *)
InLua == wpc \in {"init", "run"}

(* ... and is not inside a call of service_send. *)
LuaDone == spc[Worker] = "idle"

-----------------------------------------------------------------------------
(* Plausible slips in the operations below; nothing in Next refers to them.  *)

TriggerBegin_NoLock(s) ==     \* the flag is set without taking the lock
  /\ SenderGoto(s, "begin", "push")
  /\ mutex' = s
  /\ flag' = TRUE
  /\ UNCHANGED <<ring, smsg, stail, pushRet, worker, failure>>

TriggerEnd_NoSignal(s) ==     \* nobody is told
  /\ SenderGoto(s, "end", "idle")
  /\ pthread_mutex_unlock
  /\ smsg' = [smsg EXCEPT ![s] = NULL]
  /\ stail' = [stail EXCEPT ![s] = 0]
  /\ pushRet' = [pushRet EXCEPT ![s] = 0]
  /\ UNCHANGED <<ring, flag, worker, failure>>

CheckLength_AlwaysWait ==     \* waits for the flag even when messages are left
  /\ WorkerGoto("check", "test")
  /\ UNCHANGED <<ring, flag, mutex, sender, msg, whead, luaTop, failure>>

WaitEnd_FlagKept ==           \* the flag is not lowered
  /\ WorkerGoto("end", "call")
  /\ pthread_mutex_unlock
  /\ UNCHANGED <<ring, flag, sender, msg, whead, luaTop, failure>>

WaitEnd_StillLocked ==        \* the lock is kept while the handler runs
  /\ WorkerGoto("end", "call")
  /\ flag' = FALSE
  /\ UNCHANGED <<ring, mutex, sender, msg, whead, luaTop, failure>>

PopClose_Newest ==            \* takes the newest message, as from a stack
  /\ WorkerGoto("close", "end")
  /\ CAssert(head = whead, "queue")
  /\ msg' = data[queue_position(tail - 1)]
  /\ head' = queue_position(whead + 1)
  /\ whead' = 0
  /\ UNCHANGED <<tail, data, flag, mutex, sender, luaTop>>

PushClose_NoWrap(s) ==        \* the tail is not brought back into the ring
  /\ SenderGoto(s, "close", "end")
  /\ CAssert(tail = stail[s], "queue")
  /\ data' = [data EXCEPT ![stail[s]] = smsg[s]]
  /\ tail' = stail[s] + 1
  /\ UNCHANGED <<head, flag, mutex, smsg, stail, pushRet, worker>>

-----------------------------------------------------------------------------
(* service_send, called by a client, or by the Lua code of the service.      *)

Send(s, m) ==
  /\ s = Worker => InLua
  /\ SenderGoto(s, "idle", "begin")
  /\ smsg' = [smsg EXCEPT ![s] = m]
  /\ UNCHANGED <<ring, flag, mutex, stail, pushRet, worker, failure>>

\* cond_trigger_begin
TriggerBegin(s) ==
  /\ SenderGoto(s, "begin", "push")
  /\ pthread_mutex_lock(s)
  /\ flag' = TRUE
  /\ UNCHANGED <<ring, smsg, stail, pushRet, worker, failure>>

\* queue_push_open: a full ring makes queue_push_ptr return 1 at once.
PushOpen(s) ==
  /\ IF IsFull(head, tail)
     THEN /\ SenderGoto(s, "push", "end")
          /\ pushRet' = [pushRet EXCEPT ![s] = 1]
          /\ UNCHANGED stail
     ELSE /\ SenderGoto(s, "push", "close")
          /\ stail' = [stail EXCEPT ![s] = tail]
          /\ UNCHANGED pushRet
  /\ UNCHANGED <<ring, flag, mutex, smsg, worker, failure>>

\* data[tail] = v, then queue_push_close.
PushClose(s) ==
  /\ SenderGoto(s, "close", "end")
  /\ CAssert(tail = stail[s], "queue")
  /\ data' = [data EXCEPT ![stail[s]] = smsg[s]]
  /\ tail' = queue_position(stail[s] + 1)
  /\ UNCHANGED <<head, flag, mutex, smsg, stail, pushRet, worker>>

\* cond_trigger_end(s->c, 1); whatever the push returned, the send returns 1.
TriggerEnd(s) ==
  /\ SenderGoto(s, "end", "idle")
  /\ pthread_cond_signal
  /\ pthread_mutex_unlock
  /\ smsg' = [smsg EXCEPT ![s] = NULL]
  /\ stail' = [stail EXCEPT ![s] = 0]
  /\ pushRet' = [pushRet EXCEPT ![s] = 0]
  /\ UNCHANGED <<ring, flag, msg, whead, luaTop, failure>>

-----------------------------------------------------------------------------
(* The worker's thread.                                                      *)

\* service_start; a pthread_create that fails changes nothing.
Start ==
  /\ WorkerGoto("unborn", "init")
  /\ UNCHANGED <<ring, flag, mutex, sender, msg, whead, luaTop, failure>>

(* service_init_lua and the two asserts behind it.  "error" stands for a     *)
(* Lua state that cannot be made, code that does not load, and a chunk that  *)
(* raises an error: s->L stays NULL.  "nil" is a chunk that returns nothing, *)
(* for which luaL_ref gives a negative reference.                            *)
InitLua(outcome) ==
  /\ WorkerGoto("init", "begin")
  /\ LuaDone
  /\ CAssert(outcome \notin {"error", "nil"}, "init")
  /\ UNCHANGED <<ring, flag, mutex, sender, msg, whead, luaTop>>

\* cond_wait_begin
WaitBegin ==
  /\ WorkerGoto("begin", "check")
  /\ pthread_mutex_lock(Worker)
  /\ UNCHANGED <<ring, flag, sender, msg, whead, luaTop, failure>>

\* if (queue_length(s->q) == 0) cond_wait(s->c)
CheckLength ==
  /\ IF QueueLength = 0 THEN WorkerGoto("check", "test") ELSE WorkerGoto("check", "pop")
  /\ UNCHANGED <<ring, flag, mutex, sender, msg, whead, luaTop, failure>>

\* while (!c->flag) pthread_cond_wait: waiting gives up the lock ...
CondWait ==
  /\ IF flag
     THEN WorkerGoto("test", "pop") /\ UNCHANGED mutex
     ELSE WorkerGoto("test", "waiting") /\ pthread_mutex_unlock
  /\ UNCHANGED <<ring, flag, sender, msg, whead, luaTop, failure>>

\* ... may end without a signal ...
SpuriousWakeup ==
  /\ WorkerGoto("waiting", "woken")
  /\ UNCHANGED <<ring, flag, mutex, sender, msg, whead, luaTop, failure>>

\* ... and takes the lock again before the flag is tested anew.
Relock ==
  /\ WorkerGoto("woken", "test")
  /\ pthread_mutex_lock(Worker)
  /\ UNCHANGED <<ring, flag, sender, msg, whead, luaTop, failure>>

\* if (queue_length(s->q) > 0) msg = ...: otherwise msg keeps its old value.
PopOpen ==
  /\ IF QueueLength > 0
     THEN WorkerGoto("pop", "close") /\ whead' = head
     ELSE WorkerGoto("pop", "end") /\ UNCHANGED whead
  /\ UNCHANGED <<ring, flag, mutex, sender, msg, luaTop, failure>>

\* v = data[head], then queue_pop_close.
PopClose ==
  /\ WorkerGoto("close", "end")
  /\ CAssert(head = whead, "queue")
  /\ msg' = data[whead]
  /\ head' = queue_position(whead + 1)
  /\ whead' = 0
  /\ UNCHANGED <<tail, data, flag, mutex, sender, luaTop>>

\* cond_wait_end
WaitEnd ==
  /\ WorkerGoto("end", "call")
  /\ flag' = FALSE
  /\ pthread_mutex_unlock
  /\ UNCHANGED <<ring, sender, msg, whead, luaTop, failure>>

(* service_routine_lua pushes the function and msg, outside any protected    *)
(* call: without room for them Lua panics and the process exits.             *)
CallHandler ==
  /\ WorkerGoto("call", "run")
  /\ failure' = IF luaTop + 2 > LuaSlots THEN "panic" ELSE "none"
  /\ UNCHANGED <<ring, flag, mutex, sender, msg, whead, luaTop>>

\* lua_pcall has popped both ...
HandlerReturns ==
  /\ WorkerGoto("run", "begin")
  /\ LuaDone
  /\ UNCHANGED <<ring, flag, mutex, sender, msg, whead, luaTop, failure>>

\* ... or left the error value, which is logged but never popped.
HandlerFails ==
  /\ WorkerGoto("run", "begin")
  /\ LuaDone
  /\ luaTop' = luaTop + 1
  /\ UNCHANGED <<ring, flag, mutex, sender, msg, whead, failure>>

-----------------------------------------------------------------------------
SendSteps(s) == PushOpen(s) \/ PushClose(s) \/ TriggerEnd(s)

WorkerSteps ==
  \/ CheckLength
  \/ CondWait
  \/ PopOpen
  \/ PopClose
  \/ WaitEnd
  \/ CallHandler

LuaReturns ==
  \/ \E o \in InitOutcomes : InitLua(o)
  \/ HandlerReturns
  \/ HandlerFails

Running ==
  \/ \E s \in Senders : (\E m \in Messages : Send(s, m)) \/ TriggerBegin(s) \/ SendSteps(s)
  \/ Start
  \/ WaitBegin
  \/ Relock
  \/ SpuriousWakeup
  \/ WorkerSteps
  \/ LuaReturns

\* After a failed assertion or a panic the process is gone.
Exited == failure # "none" /\ UNCHANGED vars

Next == (failure = "none" /\ Running) \/ Exited

Spec == Init /\ [][Next]_vars

(* Threads that can run do run; a thread that finds the mutex free again and *)
(* again gets it in the end; Lua code returns.  Nothing makes a client send, *)
(* a service start, or a wakeup come without a signal.                       *)
Step(A) == failure = "none" /\ A

Fairness ==
  /\ WF_vars(Step(WorkerSteps))
  /\ SF_vars(Step(WaitBegin))
  /\ SF_vars(Step(Relock))
  /\ SF_vars(Step(LuaReturns))
  /\ \A s \in Senders : /\ WF_vars(Step(SendSteps(s)))
                        /\ SF_vars(Step(TriggerBegin(s)))

FairSpec == Spec /\ Fairness

-----------------------------------------------------------------------------
SenderStates == {"idle", "begin", "push", "close", "end"}
WorkerStates == {"unborn", "init", "begin", "check", "test", "waiting", "woken",
                 "pop", "close", "end", "call", "run"}

(* Every variable stays in the range its C type and its code give it.        *)
TypeOK ==
  /\ head \in Positions
  /\ tail \in Positions
  /\ data \in [Positions -> Messages \cup {NULL}]
  /\ flag \in BOOLEAN
  /\ mutex \in Senders \cup {Nobody}
  /\ spc \in [Senders -> SenderStates]
  /\ smsg \in [Senders -> Messages \cup {NULL}]
  /\ stail \in [Senders -> Positions]
  /\ pushRet \in [Senders -> {0, 1}]
  /\ wpc \in WorkerStates
  /\ msg \in Messages \cup {NULL}
  /\ whead \in Positions
  /\ luaTop \in 0..LuaSlots
  /\ failure \in {"none", "queue", "init", "panic"}

(* queue_push_close and queue_pop_close assert "Allow only one writer" and   *)
(* "Allow only one reader"; service_send may be called by many threads, and  *)
(* the lock of cond.h is what keeps both assertions true.                    *)
QueueAssertsHold == failure # "queue"

(* service_routine_wrap hands msg to Lua even if its guarded pop has been    *)
(* skipped, and msg is then the previous message, or uninitialised.  It is   *)
(* never skipped: whoever gets past the wait finds a message.                *)
NeverStale == wpc = "pop" => QueueLength > 0

(* No wakeup is lost: the worker sleeps on a non-empty inbox only while the  *)
(* sender of the message is still between its push and its signal.           *)
NoLostWakeup ==
  wpc = "waiting" => QueueLength = 0 \/ \E s \in Senders : spc[s] = "end"

(* The service implements its mailbox: what service_send puts into the inbox *)
(* is handed to the Lua function once, in order, one message at a time, and  *)
(* a message is dropped only when the inbox holds Capacity others.           *)
Abstract ==
  INSTANCE Mailbox WITH
    inbox <- Inbox,
    Bound <- Capacity,
    handling <- IF wpc \in {"end", "call", "run"} THEN msg ELSE NULL,
    outcome <- [s \in Senders |->
                  IF spc[s] # "end" THEN "none"
                  ELSE IF pushRet[s] = 0 THEN "accepted" ELSE "dropped"]

MailboxSpec == Abstract!Spec

(* README: "the thread wakes up whenever a new message arrives and begins to *)
(* process the message".  A message in the inbox of a started service is     *)
(* handled some time, however many others are sent, unless the process ends. *)
EveryMessageHandled ==
  \A m \in Messages :
    (wpc # "unborn" /\ \E i \in 1..QueueLength : Inbox[i] = m)
      ~> ((wpc = "run" /\ msg = m) \/ failure # "none")

(* service_send never blocks for good: not on a full inbox, and not when the *)
(* handler sends to its own service.                                         *)
SendReturns ==
  \A s \in Senders : spc[s] = "begin" ~> (spc[s] = "idle" \/ failure # "none")

-----------------------------------------------------------------------------
(* What the sources say and the code does not do.                            *)

(* service.c:174, at the pop: "designated behaviour: throw msg away, leave   *)
(* only the last one".                                                       *)
OnlyTheLastIsLeft == wpc = "end" => QueueLength = 0

(* service.c:114, at the call of the handler: "one input, no output".        *)
NoOutputLeft == wpc = "begin" => luaTop = 0
=============================================================================
