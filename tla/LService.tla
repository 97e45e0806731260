------------------------------ MODULE LService ------------------------------
(***************************************************************************)
(* src/lua/lservice.lua as one Lua program uses it: creating services in a *)
(* pool and sending to them, with what becomes of the memory blocks that   *)
(* the user's serializer packs.  A call of the Lua layer is one action,    *)
(* whose failure at any point leaves behind what it did up to there; the   *)
(* C functions under it are those of modules Pool and Service.             *)
(***************************************************************************)
EXTENDS Naturals, Sequences, FiniteSets

CONSTANTS
  Short,     (* Names of at most 30 characters ...                          *)
  Long,      (* ... and longer ones, which service_new asserts away.        *)
  Services,  (* Addresses of service_t: bounds how many services are made.  *)
  Blocks,    (* Addresses of packed blocks: bounds how many are made.       *)
  Nil,       (* Lua's nil.                                                  *)
  Pointer,   (* A pointer of the user's own, packed by nobody here.         *)
  MaxInbox   (* Bounds the messages waiting in one inbox.                   *)

ASSUME NamesAssumption == Short \cap Long = {} /\ Nil \notin Short \cup Long
ASSUME BlocksAssumption == Nil \notin Blocks /\ Pointer \notin Blocks \cup {Nil}
ASSUME InboxAssumption == MaxInbox \in Nat

VARIABLES
  serializer, (* M.serializer.pack has been set.                            *)
  made,       (* The services made so far.                                  *)
  started,    (* Those that have a thread.                                  *)
  directory,  (* The services the pool finds by name.                       *)
  config,     (* The config pointer of each service, until it is read.      *)
  inbox,      (* The messages each service has not handled yet.             *)
  live,       (* Blocks packed and not freed.                               *)
  dead,       (* Blocks that have been freed.                               *)
  result,     (* How the last call ended: "ok", "error" (a Lua error) or    *)
              (* "abort" (an assertion in C), after which there is no more. *)
  called      (* The name it was given if it was one of new_service.        *)

pool == <<made, started, directory, config, inbox>>
vars == <<serializer, pool, live, dead, result, called>>

(* The argument tables of new_service: where the code is and what the        *)
(* configuration is.  "other" is a value the FFI cannot make a pointer of.   *)
Codes == {"code", "path", "missing file", "none"}
Data == {"nil", "table", "pointer", "other"}
Arguments == [name : Short \cup Long \cup {Nil}, code : Codes, config : Data]

Init ==
  /\ serializer = FALSE
  /\ made = {}
  /\ started = {}
  /\ directory = [n \in Short |-> Nil]
  /\ config = [s \in Services |-> Nil]
  /\ inbox = [s \in Services |-> <<>>]
  /\ live = {}
  /\ dead = {}
  /\ result = "ok"
  /\ called = Nil

Fresh == Blocks \ (live \cup dead)

\* M.serializer.pack has been called once for each block of bs.
Pack(bs) ==
  /\ bs \subseteq Fresh
  /\ live' = live \cup bs

\* assert(M.serializer.pack, "serializer not specified")
CannotPack(kind) == kind = "table" /\ ~serializer

\* The pointers that reach C for a value of this kind, packed into bs if a table.
PointersFor(kind, bs) ==
  CASE kind = "table" -> bs [] kind = "pointer" -> {Pointer} [] OTHER -> {Nil}

Returns(how) ==
  /\ result # "abort"
  /\ result' = how

-----------------------------------------------------------------------------
(* Plausible slips in the operations below; nothing in Next refers to them.  *)

Deliver_Twice(s, p) ==         \* a send that is retried after it has succeeded
  /\ Returns(IF p = Nil THEN "abort" ELSE "ok")
  /\ inbox' = [inbox EXCEPT ![s] = IF p = Nil \/ Len(@) + 2 > MaxInbox THEN @ ELSE @ \o <<p, p>>]
  /\ UNCHANGED <<made, started, directory, config>>

Deliver_NoAssert(s, p) ==      \* a NULL message gets into the inbox
  /\ Returns("ok")
  /\ inbox' = [inbox EXCEPT ![s] = IF Len(@) = MaxInbox THEN @ ELSE Append(@, p)]
  /\ UNCHANGED <<made, started, directory, config>>

Make_NotIfTaken(n, c, start) == \* there is no second service of one name
  IF n \in Short /\ directory[n] # Nil
  THEN UNCHANGED pool
  ELSE \E s \in Services \ made :
         /\ made' = made \cup {s}
         /\ started' \in {started} \cup (IF start THEN {started \cup {s}} ELSE {})
         /\ config' = [config EXCEPT ![s] = c]
         /\ directory' = [m \in Short |-> IF m = n THEN s ELSE directory[m]]
         /\ UNCHANGED inbox

-----------------------------------------------------------------------------
(* pool:new_service, and M.new under it and on its own.                      *)

(* service_new: a name, if there is one, is bound unless it is taken; and    *)
(* service_start if wanted, which may fail without a word.                   *)
Make(n, c, start) ==
  \E s \in Services \ made :
    /\ made' = made \cup {s}
    /\ started' \in {started} \cup (IF start THEN {started \cup {s}} ELSE {})
    /\ config' = [config EXCEPT ![s] = c]
    /\ directory' = [m \in Short |-> IF m = n /\ directory[m] = Nil THEN s ELSE directory[m]]
    /\ UNCHANGED inbox

\* The first assertion: "please specify name or path".
NoNameNoPath(t) == t.name = Nil /\ t.code \in {"code", "none"}

\* M.new: "service name not specified", then the code must be there.
MNewFails(t, pooled) == (pooled /\ t.name = Nil) \/ t.code \in {"missing file", "none"}

(* The FFI takes only pointers, and service_new checks the name of a service *)
(* in a pool; by then the configuration has been packed, into last.          *)
MNew(t, pooled, packed) ==
  \/ /\ MNewFails(t, pooled) \/ CannotPack(t.config)
     /\ Returns("error")
     /\ Pack(packed)
     /\ UNCHANGED pool
  \/ /\ ~MNewFails(t, pooled) /\ ~CannotPack(t.config)
     /\ \E last \in (IF t.config = "table" THEN Fresh \ packed ELSE {Nil}) :
          /\ Pack(packed \cup ({last} \ {Nil}))
          /\ \/ /\ t.config = "other" \/ (pooled /\ t.name \in Long)
                /\ Returns(IF t.config = "other" THEN "error" ELSE "abort")
                /\ UNCHANGED pool
             \/ /\ t.config # "other" /\ ~(pooled /\ t.name \in Long)
                /\ Returns("ok")
                /\ \E c \in PointersFor(t.config, {last}) :
                     Make(IF pooled THEN t.name ELSE Nil, c, pooled)

(* The configuration is packed by new_service and again by M.new, which gets *)
(* t.config; and M.new gets t.name, not the name that has been cut to 30.    *)
NewService(t) ==
  /\ called' = t.name
  /\ \/ /\ NoNameNoPath(t) \/ CannotPack(t.config)
        /\ Returns("error")
        /\ UNCHANGED <<pool, live>>
     \/ /\ ~NoNameNoPath(t) /\ ~CannotPack(t.config)
        /\ \E first \in (IF t.config = "table" THEN Fresh ELSE {Nil}) :
             MNew(t, TRUE, {first} \ {Nil})
  /\ UNCHANGED <<serializer, dead>>

\* M.new without a pool: the name does not matter, and no thread is started.
New(t) ==
  /\ called' = Nil
  /\ t.name = Nil
  /\ MNew(t, FALSE, {})
  /\ UNCHANGED <<serializer, dead>>

\* The start method: pthread_create may fail, of which a number is the only sign.
Start(s) ==
  /\ Returns("ok")
  /\ called' = Nil
  /\ s \in made \ started
  /\ started' \in {started, started \cup {s}}
  /\ UNCHANGED <<serializer, made, directory, config, inbox, live, dead>>

-----------------------------------------------------------------------------
(* pool:send and service:send.                                               *)

\* service_send: NULL is asserted away, a full inbox drops the message.
Deliver(s, p) ==
  /\ Returns(IF p = Nil THEN "abort" ELSE "ok")
  /\ inbox' = [inbox EXCEPT ![s] = IF p = Nil \/ Len(@) = MaxInbox THEN @ ELSE Append(@, p)]
  /\ UNCHANGED <<made, started, directory, config>>

(* A table is packed first, whether or not there is anybody to send it to:   *)
(* s is Nil for a name the pool does not know.                               *)
SendTo(s, kind) ==
  /\ called' = Nil
  /\ \/ /\ CannotPack(kind)
        /\ Returns("error")
        /\ UNCHANGED <<pool, live>>
     \/ /\ ~CannotPack(kind)
        /\ \E b \in (IF kind = "table" THEN Fresh ELSE {Nil}) :
             /\ Pack({b} \ {Nil})
             /\ \/ s = Nil /\ Returns("ok") /\ UNCHANGED pool
                \/ s # Nil /\ kind = "other" /\ Returns("error") /\ UNCHANGED pool
                \/ /\ s # Nil /\ kind # "other"
                   /\ \E p \in PointersFor(kind, {b}) : Deliver(s, p)
  /\ UNCHANGED <<serializer, dead>>

PoolSend(n, kind) == SendTo(IF n \in Short THEN directory[n] ELSE Nil, kind)

ServiceSend(s, kind) == s \in made /\ SendTo(s, kind)

-----------------------------------------------------------------------------
(* The service's side, and the user's.                                       *)

\* unpack_remove reads a block and frees it.
Free(p) ==
  /\ live' = live \ {p}
  /\ dead' = dead \cup ({p} \ {Pointer})

\* M.input: the deserializer is called on the configuration, if there is one.
Input(s) ==
  /\ Returns("ok")
  /\ called' = Nil
  /\ s \in started
  /\ config[s] # Nil
  /\ config' = [config EXCEPT ![s] = Nil]
  /\ Free(config[s])
  /\ UNCHANGED <<serializer, made, started, directory, inbox>>

\* The handler of hello.lua, whose script has read the configuration before.
hello(s) ==
  /\ Returns("ok")
  /\ called' = Nil
  /\ s \in started
  /\ config[s] = Nil
  /\ inbox[s] # <<>>
  /\ inbox' = [inbox EXCEPT ![s] = Tail(@)]
  /\ Free(Head(inbox[s]))
  /\ UNCHANGED <<serializer, made, started, directory, config>>

\* service.serializer = seri
SetSerializer ==
  /\ Returns("ok")
  /\ called' = Nil
  /\ serializer' = TRUE
  /\ UNCHANGED <<pool, live, dead>>

-----------------------------------------------------------------------------
Aborted == result = "abort" /\ UNCHANGED vars

Next ==
  \/ \E t \in Arguments : NewService(t) \/ New(t)
  \/ \E n \in Short \cup Long, kind \in Data : PoolSend(n, kind)
  \/ \E s \in Services :
       \/ \E kind \in Data : ServiceSend(s, kind)
       \/ Start(s)
       \/ Input(s)
       \/ hello(s)
  \/ SetSerializer
  \/ Aborted

Spec == Init /\ [][Next]_vars

-----------------------------------------------------------------------------
(* Only pointers get into an inbox, never NULL, and never more than fit.     *)
TypeOK ==
  /\ serializer \in BOOLEAN
  /\ started \subseteq made /\ made \subseteq Services
  /\ directory \in [Short -> Services \cup {Nil}]
  /\ config \in [Services -> Blocks \cup {Nil, Pointer}]
  /\ inbox \in [Services -> Seq(Blocks \cup {Pointer})]
  /\ \A s \in Services : Len(inbox[s]) <= MaxInbox
  /\ live \subseteq Blocks
  /\ dead \subseteq Blocks
  /\ result \in {"ok", "error", "abort"}
  /\ called \in Short \cup Long \cup {Nil}

\* Place 0 of a service is its configuration, the others are its inbox.
Place(s, i) == IF i = 0 THEN config[s] ELSE inbox[s][i]
PlacesOf(s) == 0..Len(inbox[s])

\* The places a block is kept for somebody to read and free.
Places(b) ==
  {p \in Services \X (0..MaxInbox) : p[2] \in PlacesOf(p[1]) /\ Place(p[1], p[2]) = b}

(* A packed block has one owner: what is kept for a service is not freed and *)
(* not kept anywhere else, so that no message and no configuration is read   *)
(* after it has been freed or freed twice.                                   *)
OneOwner == \A b \in Blocks : Cardinality(Places(b)) <= (IF b \in live THEN 1 ELSE 0)

(* Nobody will ever free a packed block that is kept nowhere.  A call loses  *)
(* at most one, and one it has packed itself: the first packing of a         *)
(* configuration (lservice.lua:91), or a message that nobody accepts         *)
(* (lservice.lua:123).  What is kept for a service is never lost, whether    *)
(* its name was taken, its start failed or its inbox is full.                *)
Lost == {b \in live : Places(b) = {}}

LostOnce ==
  [][result' # "abort" => Lost' \ Lost \subseteq Fresh /\ Cardinality(Lost' \ Lost) <= 1]_vars

-----------------------------------------------------------------------------
(* What the sources say and the code does not do.                            *)

(* lservice.lua:86, in new_service: "if #name > 30 then name =               *)
(* string.sub(name, 1, 30) end": a name that is too long is cut.             *)
LongNamesAreCut == called \in Long => result # "abort"
=============================================================================
