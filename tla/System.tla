-------------------------------- MODULE System ------------------------------
(***************************************************************************)
(* A whole process: main programs and services, all of them Lua code, that *)
(* create services in one pool, find them by name and send to each other.  *)
(* A call of the pool or of an inbox is one step here, as modules Pool and *)
(* Service allow: they implement Directory and Mailbox, whose tables and   *)
(* inboxes these are.  What is left is the order of the calls: a service   *)
(* is found before it is built, sent to before it runs, or never runs.     *)
(***************************************************************************)
EXTENDS Naturals, Sequences, FiniteSets

CONSTANTS
  Mains,     (* Threads that run a main program.                             *)
  MaxMade,   (* Bounds how many services are made.                           *)
  Names,     (* Their names in the pool.                                     *)
  NULL,
  Room,      (* How many messages an inbox holds: 1023 in the program.       *)
  MaxSent,   (* Bounds how many messages are sent.                           *)
  LuaSlots   (* How far the stack of a lua_State may grow: see Service.      *)

(* A service has the number of its making; so has the thread that works for  *)
(* it.  A message has the name it was sent to, if any, and its number.       *)
Services == 1..MaxMade

Threads == Mains \cup Services
Messages == [via : Names \cup {NULL}, no : 1..MaxSent]

ASSUME ThreadsAssumption == Mains \cap Services = {} /\ NULL \notin Services \cup Names
ASSUME BoundsAssumption == MaxMade \in Nat /\ {Room, MaxSent, LuaSlots} \subseteq Nat

VARIABLES
  bound,     (* The service the pool gives for each name.                    *)
  stage,     (* "none", "named" (in the pool, no inbox yet) or "ready".      *)
  worker,    (* What each service's thread does: "none" before it exists,    *)
             (* "init" in the chunk, "wait" at the inbox, "run" in the       *)
             (* handler.                                                     *)
  inbox,     (* The messages accepted, oldest first ...                      *)
  handled,   (* ... and those taken out, of which the last is in the         *)
             (* handler while that runs.                                     *)
  pc,        (* Where the Lua code of each thread is: "idle", "build" and    *)
             (* "start" inside new_service, "held" with a handle to use.     *)
  handle,    (* That service; NULL if the name looked up is unknown.         *)
  via,       (* The name it was found by, NULL if the thread created it.     *)
  sent,      (* How many messages have been sent; they are numbered.         *)
  lost,      (* The numbers of those that nobody accepted.                   *)
  over       (* "abort": the process was aborted, by an assertion or by Lua; *)
             (* "undefined": anything may have happened; "no" while it runs. *)

caller == <<pc, handle, via>>
post == <<inbox, handled, sent, lost>>
vars == <<bound, stage, worker, caller, post, over>>

Init ==
  /\ bound = [n \in Names |-> NULL]
  /\ stage = [s \in Services |-> "none"]
  /\ worker = [s \in Services |-> "none"]
  /\ inbox = [s \in Services |-> <<>>]
  /\ handled = [s \in Services |-> <<>>]
  /\ pc = [t \in Threads |-> "idle"]
  /\ handle = [t \in Threads |-> NULL]
  /\ via = [t \in Threads |-> NULL]
  /\ sent = 0
  /\ lost = {}
  /\ over = "no"

\* A main program always runs, a service in its chunk and in its handler.
At(t, where) ==
  /\ over = "no"
  /\ t \in Services => worker[t] \in {"init", "run"}
  /\ pc[t] = where

\* The service to be made next.
IsNext(s) ==
  /\ stage[s] = "none"
  /\ \A r \in Services : r < s => stage[r] # "none"

Hold(t, s, n) ==
  /\ pc' = [pc EXCEPT ![t] = "held"]
  /\ handle' = [handle EXCEPT ![t] = s]
  /\ via' = [via EXCEPT ![t] = n]

Worker(s, from, to) ==
  /\ over = "no"
  /\ worker[s] = from
  /\ worker' = [worker EXCEPT ![s] = to]

-----------------------------------------------------------------------------
(* Plausible slips in the operations below; nothing in Next refers to them.  *)

NewService_Rebinds(t, n, s) ==  \* the latest service of a name is found
  /\ At(t, "idle")
  /\ IsNext(s)
  /\ stage' = [stage EXCEPT ![s] = "named"]
  /\ bound' = [bound EXCEPT ![n] = s]
  /\ pc' = [pc EXCEPT ![t] = "build"]
  /\ handle' = [handle EXCEPT ![t] = s]
  /\ UNCHANGED <<worker, via, post, over>>

Accept_NoRoomTest(s, m) ==      \* a full inbox takes one more
  /\ inbox' = [inbox EXCEPT ![s] = Append(@, m)]
  /\ UNCHANGED lost

InitLua_EmptyInbox(s) ==        \* a service starts with an inbox of its own
  /\ At(s, "idle")
  /\ Worker(s, "init", "wait")
  /\ inbox' = [inbox EXCEPT ![s] = <<>>]
  /\ UNCHANGED <<bound, stage, caller, handled, sent, lost, over>>

HandlerEnds_Retries(s) ==       \* the message of a failed handler is queued anew
  /\ At(s, "idle")
  /\ Worker(s, "run", "wait")
  /\ inbox' = [inbox EXCEPT ![s] = Append(@, handled[s][Len(handled[s])])]
  /\ handled' = [handled EXCEPT ![s] = SubSeq(@, 1, Len(@) - 1)]
  /\ UNCHANGED <<bound, stage, caller, sent, lost, over>>

HandlerEnds_Exits(s) ==         \* the thread ends with its handler
  /\ At(s, "idle")
  /\ Worker(s, "run", "none")
  /\ UNCHANGED <<bound, stage, caller, post, over>>

-----------------------------------------------------------------------------
(* Creating a service and starting its thread.                               *)

\* service_new: the name goes to the first service that is filed under it.
NewService(t, n, s) ==
  /\ At(t, "idle")
  /\ IsNext(s)
  /\ stage' = [stage EXCEPT ![s] = "named"]
  /\ bound' = [bound EXCEPT ![n] = IF @ = NULL THEN s ELSE @]
  /\ pc' = [pc EXCEPT ![t] = "build"]
  /\ handle' = [handle EXCEPT ![t] = s]
  /\ UNCHANGED <<worker, via, post, over>>

\* ... which makes the queue and the condition afterwards.
Build(t) ==
  /\ At(t, "build")
  /\ stage' = [stage EXCEPT ![handle[t]] = "ready"]
  /\ pc' = [pc EXCEPT ![t] = "start"]
  /\ UNCHANGED <<bound, worker, handle, via, post, over>>

(* A failed pthread_create changes nothing.  A second worker would share the *)
(* Lua state of the first, and one without a queue has nothing to wait on.   *)
service_start(s) ==
  \/ UNCHANGED <<worker, over>>
  \/ /\ stage[s] = "ready" /\ worker[s] = "none"
     /\ worker' = [worker EXCEPT ![s] = "init"]
     /\ UNCHANGED over
  \/ /\ ~(stage[s] = "ready" /\ worker[s] = "none")
     /\ over' = "undefined"
     /\ UNCHANGED worker

\* new_service drops the result and returns the handle.
StartNew(t) ==
  /\ At(t, "start")
  /\ service_start(handle[t])
  /\ Hold(t, handle[t], NULL)
  /\ UNCHANGED <<bound, stage, post>>

\* The start method of a handle, wherever it comes from.
StartAgain(t) ==
  /\ At(t, "held")
  /\ handle[t] # NULL
  /\ service_start(handle[t])
  /\ UNCHANGED <<bound, stage, caller, post>>

(* service_free of a service with a thread takes the inbox away from under   *)
(* it, and of one without closes the Lua state NULL.                         *)
service_free(t) ==
  /\ At(t, "held")
  /\ handle[t] # NULL
  /\ over' = "undefined"
  /\ UNCHANGED <<bound, stage, worker, caller, post>>

-----------------------------------------------------------------------------
(* Sending.                                                                  *)

\* query_service, and the look-up of pool:send.
QueryService(t, n) ==
  /\ At(t, "idle")
  /\ Hold(t, bound[n], n)
  /\ UNCHANGED <<bound, stage, worker, post, over>>

\* service_send: a full inbox drops the message without a word.
Accept(s, m) ==
  IF Len(inbox[s]) < Room
  THEN inbox' = [inbox EXCEPT ![s] = Append(@, m)] /\ UNCHANGED lost
  ELSE lost' = lost \cup {m.no} /\ UNCHANGED inbox

\* pool:send does nothing about an unknown name, nor about a service not built.
Send(t) ==
  LET m == [via |-> via[t], no |-> sent + 1]
  IN  /\ At(t, "held")
      /\ sent < MaxSent
      /\ sent' = sent + 1
      /\ \/ /\ handle[t] = NULL
            /\ lost' = lost \cup {m.no}
            /\ UNCHANGED <<inbox, over>>
         \/ /\ handle[t] # NULL /\ stage[handle[t]] = "ready"
            /\ Accept(handle[t], m)
            /\ UNCHANGED over
         \/ /\ handle[t] # NULL /\ stage[handle[t]] # "ready"
            /\ over' = "undefined"
            /\ lost' = lost \cup {m.no}
            /\ UNCHANGED inbox
      /\ UNCHANGED <<bound, stage, worker, caller, handled>>

\* The Lua code goes on to something else.
Drop(t) ==
  /\ At(t, "held")
  /\ pc' = [pc EXCEPT ![t] = "idle"]
  /\ handle' = [handle EXCEPT ![t] = NULL]
  /\ via' = [via EXCEPT ![t] = NULL]
  /\ UNCHANGED <<bound, stage, worker, post, over>>

-----------------------------------------------------------------------------
(* service_routine_wrap.                                                     *)

InitLua(s) ==
  /\ At(s, "idle")
  /\ Worker(s, "init", "wait")
  /\ UNCHANGED <<bound, stage, caller, post, over>>

\* One chunk that fails takes the process with it.
InitFails(s) ==
  /\ At(s, "idle")
  /\ worker[s] = "init"
  /\ over' = "abort"
  /\ UNCHANGED <<bound, stage, worker, caller, post>>

(* Every handler that has failed has left a value on the stack of s->L, for  *)
(* good: the call of the next one may find no room there, and Lua panics.    *)
MayPanic(s) == Len(handled[s]) + 2 > LuaSlots

Take(s) ==
  /\ Worker(s, "wait", "run")
  /\ inbox[s] # <<>>
  /\ handled' = [handled EXCEPT ![s] = Append(@, Head(inbox[s]))]
  /\ inbox' = [inbox EXCEPT ![s] = Tail(@)]
  /\ over' \in {"no"} \cup (IF MayPanic(s) THEN {"abort"} ELSE {})
  /\ UNCHANGED <<bound, stage, caller, sent, lost>>

\* The handler returns, or fails, which is logged: how many did is left open.
HandlerEnds(s) ==
  /\ At(s, "idle")
  /\ Worker(s, "run", "wait")
  /\ UNCHANGED <<bound, stage, caller, post, over>>

-----------------------------------------------------------------------------
Creates(t) ==
  \/ \E n \in Names, s \in Services : NewService(t, n, s)
  \/ Build(t)
  \/ StartNew(t)

Uses(t) ==
  \/ \E n \in Names : QueryService(t, n)
  \/ Send(t)
  \/ StartAgain(t)
  \/ service_free(t)
  \/ Drop(t)

Works(s) == InitLua(s) \/ InitFails(s) \/ Take(s) \/ HandlerEnds(s)

\* Nothing is said of a process that was aborted or is undefined.
Over == over # "no" /\ UNCHANGED vars

Next ==
  \/ \E t \in Threads : Creates(t) \/ Uses(t)
  \/ \E s \in Services : Works(s)
  \/ Over

Spec == Init /\ [][Next]_vars

(* The thread of a service runs on: it comes to the end of new_service, lets *)
(* go of a handle, takes a message that is there ...                         *)
RunsOn(s) == Build(s) \/ StartNew(s) \/ Drop(s) \/ Take(s)

(* ... and its Lua code comes to its end, whatever it calls on the way.      *)
LuaEnds(s) == InitLua(s) \/ InitFails(s) \/ HandlerEnds(s)

Fairness == \A s \in Services : WF_vars(RunsOn(s)) /\ SF_vars(LuaEnds(s))

FairSpec == Spec /\ Fairness

-----------------------------------------------------------------------------
\* All that has come to a service, in the order of its coming.
Received(s) == handled[s] \o inbox[s]

TypeOK ==
  /\ bound \in [Names -> Services \cup {NULL}]
  /\ stage \in [Services -> {"none", "named", "ready"}]
  /\ worker \in [Services -> {"none", "init", "wait", "run"}]
  /\ inbox \in [Services -> Seq(Messages)]
  /\ \A s \in Services : Len(inbox[s]) <= Room
  /\ handled \in [Services -> Seq(Messages)]
  /\ pc \in [Threads -> {"idle", "build", "start", "held"}]
  /\ handle \in [Threads -> Services \cup {NULL}]
  /\ via \in [Threads -> Names \cup {NULL}]
  /\ sent \in 0..MaxSent
  /\ lost \subseteq 1..MaxSent
  /\ over \in {"no", "abort", "undefined"}

(* Messages sent to a name all come to one service, whoever sends them and   *)
(* however old the look-up is, although several services are created under   *)
(* that name and only some of them run (service.c:135, registry.c:18).       *)
OneAddress ==
  \A s \in Services : \A i \in DOMAIN Received(s) :
    Received(s)[i].via # NULL => bound[Received(s)[i].via] = s

(* A message that was sent is in one place: with one service, in its inbox   *)
(* or handled, or lost, because it was refused when it was sent.  Nothing is *)
(* lost in between: not if it was accepted before the service's thread was   *)
(* started (service.c:188), nor because a handler failed (service.c:116).    *)
Accounted ==
  \A i \in 1..sent :
    (IF i \in lost THEN 1 ELSE 0)
      + Cardinality({p \in Services \X (1..MaxSent) :
                       p[2] \in DOMAIN Received(p[1]) /\ Received(p[1])[p[2]].no = i}) = 1

(* A service handles messages in the order in which the calls of             *)
(* service_send took effect, whoever made them and through whichever         *)
(* handles, and whether or not the service was running at the time.          *)
InOrder ==
  \A s \in Services : \A i, j \in DOMAIN Received(s) :
    i < j => Received(s)[i].no < Received(s)[j].no

(* Every message a service has accepted is handled once its thread exists,   *)
(* even if it came before, or a first pthread_create had failed and nobody   *)
(* noticed (lservice.lua:103), and whatever came before it failed; unless    *)
(* the process was aborted or is undefined.                                  *)
AcceptedIsHandled ==
  \A i \in 1..MaxSent :
    LET In(q) == \E k \in DOMAIN q : q[k].no = i
    IN  (\E s \in Services : In(inbox[s]) /\ worker[s] # "none")
          ~> (\E s \in Services : In(handled[s])) \/ over # "no"
=============================================================================
