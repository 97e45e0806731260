-------------------------------- MODULE Pool --------------------------------
(***************************************************************************)
(* The pool of src/service.c and the registry under it: threads create     *)
(* services, look services up to send to them, and bind and look up shared *)
(* variables.  One lock guards both tables; a service is filled in by its  *)
(* creator without it.  A hash table is a function from the keys that have *)
(* an entry to the pointers a look-up finds; UtHash models how.            *)
(***************************************************************************)
EXTENDS Naturals, Sequences

CONSTANTS
  Threads,   (* Threads that share the pool, the services' own among them. *)
  Nobody,    (* The holder of a free lock.                                 *)
  Names,     (* Keys: names of services and of variables, at most 30 long. *)
  Services,  (* Addresses malloc may give to a service_t.                  *)
  Variables, (* Pointers that threads register.                            *)
  NULL

ASSUME NobodyAssumption == Nobody \notin Threads
ASSUME PointersAssumption ==
  /\ NULL \notin Services \cup Variables
  /\ Services \cap Variables = {}

VARIABLES
  lock,       (* The holder of pool->lock.                                     *)
  services, variables,   (* The two tables of the pool.                       *)
  stage,      (* How much of each service exists: see Stages.                  *)
  sname,      (* s->name, "" for a service outside the pool.                   *)
  pc,         (* Where each thread is; "held" is between two calls, with the   *)
              (* answer to a look-up in hand, "build" inside service_new.      *)
  table,      (* Which table the call under way is about.                      *)
  key, ptr,   (* Its arguments; ptr is NULL in a look-up.                      *)
  found,      (* The result of its registry_get.                               *)
  undefined   (* A service was sent to that has no inbox: anything may happen. *)

tables == <<services, variables>>
call == <<table, key, ptr, found>>
vars == <<lock, tables, stage, sname, pc, call, undefined>>

(* service_new zeroes the struct, makes the queue, allocates the condition,  *)
(* initialises it; service_start creates the thread.                         *)
Stages == <<"unborn", "named", "queue", "cond", "ready", "started">>
StageNames == {Stages[i] : i \in DOMAIN Stages}

NoEntries == [k \in {} |-> NULL]

\* What service_send needs: s->c with an initialised lock, and s->q.
HasInbox(s) == stage[s] \in {"ready", "started"}

Init ==
  /\ lock = Nobody
  /\ services = NoEntries
  /\ variables = NoEntries
  /\ stage = [s \in Services |-> "unborn"]
  /\ sname = [s \in Services |-> NULL]
  /\ pc = [t \in Threads |-> "idle"]
  /\ table = [t \in Threads |-> NULL]
  /\ key = [t \in Threads |-> NULL]
  /\ ptr = [t \in Threads |-> NULL]
  /\ found = [t \in Threads |-> NULL]
  /\ undefined = FALSE

Goto(t, from, to) ==
  /\ pc[t] = from
  /\ pc' = [pc EXCEPT ![t] = to]

TableOf(tb) == IF tb = "services" THEN services ELSE variables

(* HASH_FIND_STR, which gives NULL for an empty table as well.               *)
Lookup(entries, k) == IF k \in DOMAIN entries THEN entries[k] ELSE NULL

(* HASH_ADD_STR: a new entry hides an older one with its key.                *)
With(entries, k, p) == [x \in DOMAIN entries \cup {k} |-> IF x = k THEN p ELSE entries[x]]

registry_get(tb, k) == Lookup(TableOf(tb), k)

\* The call returns, and its locals are gone.
Forget(t) ==
  /\ table' = [table EXCEPT ![t] = NULL]
  /\ key' = [key EXCEPT ![t] = NULL]
  /\ ptr' = [ptr EXCEPT ![t] = NULL]
  /\ found' = [found EXCEPT ![t] = NULL]

Call(t, tb, k, p) ==
  /\ Goto(t, "idle", "lock")
  /\ table' = [table EXCEPT ![t] = tb]
  /\ key' = [key EXCEPT ![t] = k]
  /\ ptr' = [ptr EXCEPT ![t] = p]
  /\ UNCHANGED <<lock, tables, found, undefined>>

-----------------------------------------------------------------------------
(* Plausible slips in the operations below; nothing in Next refers to them.  *)

Get_NoDuplicateTest(t) ==      \* a key that is taken is bound again
  /\ Goto(t, "get", IF ptr[t] # NULL THEN "add" ELSE "unlock")
  /\ found' = [found EXCEPT ![t] = registry_get(table[t], key[t])]
  /\ UNCHANGED <<lock, tables, stage, sname, table, key, ptr, undefined>>

Get_NoPtrTest(t) ==            \* a look-up of an unknown key binds it to NULL
  LET r == registry_get(table[t], key[t])
  IN  /\ Goto(t, "get", IF r = NULL THEN "add" ELSE "unlock")
      /\ found' = [found EXCEPT ![t] = r]
      /\ UNCHANGED <<lock, tables, stage, sname, table, key, ptr, undefined>>

Get_WrongTable(t) ==           \* the services are searched, as in the other function
  LET r == registry_get("services", key[t])
  IN  /\ Goto(t, "get", IF ptr[t] # NULL /\ r = NULL THEN "add" ELSE "unlock")
      /\ found' = [found EXCEPT ![t] = r]
      /\ UNCHANGED <<lock, tables, stage, sname, table, key, ptr, undefined>>

Unlock_Retry(t) ==             \* a look-up that finds nothing is tried again
  /\ lock' = Nobody
  /\ \/ /\ ptr[t] = NULL
        /\ Goto(t, "unlock", IF found[t] = NULL THEN "lock" ELSE "held")
        /\ UNCHANGED call
     \/ /\ ptr[t] # NULL /\ table[t] = "services"
        /\ Goto(t, "unlock", "build")
        /\ UNCHANGED call
     \/ /\ ptr[t] # NULL /\ table[t] = "variables"
        /\ Goto(t, "unlock", "idle")
        /\ Forget(t)
  /\ UNCHANGED <<tables, stage, sname, undefined>>

Add_HeadByValue(t) ==          \* the head of an empty table is set in a copy only
  LET Grow(tb) == IF tb = NoEntries THEN tb ELSE With(tb, key[t], ptr[t])
  IN  /\ Goto(t, "add", "unlock")
      /\ \/ /\ table[t] = "services"
            /\ services' = Grow(services)
            /\ UNCHANGED variables
         \/ /\ table[t] = "variables"
            /\ variables' = Grow(variables)
            /\ UNCHANGED services
      /\ UNCHANGED <<lock, stage, sname, call, undefined>>

-----------------------------------------------------------------------------
(* The calls.                                                                *)

\* service_new(pool, name, ...): malloc and memset.
NewService(t, n, s) ==
  /\ stage[s] = "unborn"
  /\ Call(t, "services", n, s)
  /\ stage' = [stage EXCEPT ![s] = "named"]
  /\ sname' = [sname EXCEPT ![s] = n]

\* service_new(NULL, ...): the service belongs to no pool.
NewPrivate(t, s) ==
  /\ stage[s] = "unborn"
  /\ Goto(t, "idle", "build")
  /\ stage' = [stage EXCEPT ![s] = "named"]
  /\ ptr' = [ptr EXCEPT ![t] = s]
  /\ UNCHANGED <<lock, tables, sname, table, key, found, undefined>>

\* service_pool_query_service
QueryService(t, n) ==
  /\ Call(t, "services", n, NULL)
  /\ UNCHANGED <<stage, sname>>

\* service_pool_registry with a pointer binds it, without one looks it up.
Registry(t, n, p) ==
  /\ Call(t, "variables", n, p)
  /\ UNCHANGED <<stage, sname>>

-----------------------------------------------------------------------------
(* Their bodies: everything between lock and unlock.                         *)

Lock(t) ==
  /\ Goto(t, "lock", "get")
  /\ lock = Nobody
  /\ lock' = t
  /\ UNCHANGED <<tables, stage, sname, call, undefined>>

\* registry_get, on its own or as the duplicate test of registry_put.
Get(t) ==
  LET r == registry_get(table[t], key[t])
  IN  /\ Goto(t, "get", IF ptr[t] # NULL /\ r = NULL THEN "add" ELSE "unlock")
      /\ found' = [found EXCEPT ![t] = r]
      /\ UNCHANGED <<lock, tables, stage, sname, table, key, ptr, undefined>>

\* registry_put: the new entry.
Add(t) ==
  /\ Goto(t, "add", "unlock")
  /\ \/ /\ table[t] = "services"
        /\ services' = With(services, key[t], ptr[t])
        /\ UNCHANGED variables
     \/ /\ table[t] = "variables"
        /\ variables' = With(variables, key[t], ptr[t])
        /\ UNCHANGED services
  /\ UNCHANGED <<lock, stage, sname, call, undefined>>

(* A look-up gives its answer, service_new goes on whether or not its name   *)
(* was free, and service_pool_registry returns the pointer it was given.     *)
Unlock(t) ==
  /\ lock' = Nobody
  /\ \/ /\ ptr[t] = NULL
        /\ Goto(t, "unlock", "held")
        /\ UNCHANGED call
     \/ /\ ptr[t] # NULL /\ table[t] = "services"
        /\ Goto(t, "unlock", "build")
        /\ UNCHANGED call
     \/ /\ ptr[t] # NULL /\ table[t] = "variables"
        /\ Goto(t, "unlock", "idle")
        /\ Forget(t)
  /\ UNCHANGED <<tables, stage, sname, undefined>>

\* The rest of service_new, without the lock: a stage at a time.
Build(t) ==
  /\ pc[t] = "build"
  /\ \E i \in 2..(Len(Stages) - 2) :
       /\ stage[ptr[t]] = Stages[i]
       /\ stage' = [stage EXCEPT ![ptr[t]] = Stages[i + 1]]
  /\ UNCHANGED <<lock, tables, sname, pc, call, undefined>>

\* service_start, whose result new_service ignores: the thread may be missing.
Start(t) ==
  /\ Goto(t, "build", "idle")
  /\ stage[ptr[t]] = "ready"
  /\ \E created \in BOOLEAN :
       stage' = [stage EXCEPT ![ptr[t]] = IF created THEN "started" ELSE "ready"]
  /\ Forget(t)
  /\ UNCHANGED <<lock, tables, sname, undefined>>

\* if ptr ~= nil then service_send(ptr, msg)
Send(t) ==
  /\ pc[t] = "held"
  /\ table[t] = "services"
  /\ found[t] # NULL
  /\ undefined' = ~HasInbox(found[t])
  /\ UNCHANGED <<lock, tables, stage, sname, pc, call>>

\* The caller has no more use for the answer.
Drop(t) ==
  /\ Goto(t, "held", "idle")
  /\ Forget(t)
  /\ UNCHANGED <<lock, tables, stage, sname, undefined>>

-----------------------------------------------------------------------------
Calls(t) ==
  \/ \E s \in Services : NewPrivate(t, s) \/ \E n \in Names : NewService(t, n, s)
  \/ \E n \in Names : QueryService(t, n) \/ \E p \in Variables \cup {NULL} : Registry(t, n, p)

Body(t) == Get(t) \/ Add(t) \/ Unlock(t) \/ Build(t) \/ Start(t)

Use(t) == Send(t) \/ Drop(t)

\* Nothing is said of the program once its behaviour is undefined.
Halted == undefined /\ UNCHANGED vars

Next ==
  \/ ~undefined /\ \E t \in Threads : Calls(t) \/ Lock(t) \/ Body(t) \/ Use(t)
  \/ Halted

Spec == Init /\ [][Next]_vars

(* A running thread runs on, and gets a lock that is free again and again.   *)
Fairness ==
  \A t \in Threads : /\ WF_vars(~undefined /\ Body(t))
                     /\ SF_vars(~undefined /\ Lock(t))

FairSpec == Spec /\ Fairness

-----------------------------------------------------------------------------
Pointers == Services \cup Variables

Entries(P) == UNION {[K -> P] : K \in SUBSET Names}

(* The two tables hold services and variables respectively, and no entry is  *)
(* ever bound to NULL: a key that is found has a pointer.                    *)
TypeOK ==
  /\ lock \in Threads \cup {Nobody}
  /\ services \in Entries(Services)
  /\ variables \in Entries(Variables)
  /\ stage \in [Services -> StageNames]
  /\ sname \in [Services -> Names \cup {NULL}]
  /\ pc \in [Threads -> {"idle", "lock", "get", "add", "unlock", "build", "held"}]
  /\ table \in [Threads -> {"services", "variables", NULL}]
  /\ key \in [Threads -> Names \cup {NULL}]
  /\ ptr \in [Threads -> Pointers \cup {NULL}]
  /\ found \in [Threads -> Pointers \cup {NULL}]
  /\ undefined \in BOOLEAN

(* Two threads that have looked up one key, be it of a service or of a       *)
(* variable, at whatever moments, hold the same pointer: a thread never      *)
(* works on a variable that others no longer find, although those that       *)
(* register it may each bring a pointer of their own (registry.c:18).        *)
LookupsAgree ==
  \A t, u \in Threads :
    /\ pc[t] = "held" /\ pc[u] = "held"
    /\ table[t] = table[u] /\ key[t] = key[u]
    /\ found[t] # NULL /\ found[u] # NULL
    => found[t] = found[u]

(* A service that a thread finds under a name has that name, and a service   *)
(* that has been built is found under its name unless another one is: the    *)
(* name it was given and the place it was filed under never come apart.      *)
FiledUnderName ==
  /\ \A t \in Threads :
       pc[t] = "held" /\ table[t] = "services" /\ found[t] # NULL => sname[found[t]] = key[t]
  /\ \A s \in Services :
       HasInbox(s) /\ sname[s] # NULL => registry_get("services", sname[s]) # NULL

(* The pool implements the directory: keys are bound once, and a call is     *)
(* answered with what the key it asked about, in the table it asked about,   *)
(* is bound to at the moment it reads the table, or binds it.                *)
TableNames == {"services", "variables"}

Bindings == [tb \in TableNames |-> [k \in Names |-> registry_get(tb, k)]]

Calling(t) == pc[t] \in {"lock", "get", "add", "unlock", "held"}

Asked ==
  [t \in Threads |->
     IF Calling(t) THEN <<[table |-> table[t], key |-> key[t], ptr |-> ptr[t]]>> ELSE <<>>]

Answers == [t \in Threads |-> IF pc[t] \in {"unlock", "held"} THEN <<found[t]>> ELSE <<>>]

Abstract ==
  INSTANCE Directory WITH
    Tables <- TableNames, Keys <- Names,
    bound <- Bindings, asked <- Asked, answer <- Answers

DirectorySpec == Abstract!Spec

(* Every call on the pool returns: none of its paths keeps the lock.         *)
CallsReturn ==
  \A t \in Threads : pc[t] = "lock" ~> (pc[t] \in {"idle", "held"} \/ undefined)

-----------------------------------------------------------------------------
(* What the sources say and the code does not do.                            *)

(* lservice.lua:126, pool:send: "if ptr ~= nil then" the service can be sent *)
(* to; likewise for the handle of query_service, at test2.lua:36.            *)
FoundHasInbox ==
  \A t \in Threads :
    pc[t] = "held" /\ table[t] = "services" /\ found[t] # NULL => HasInbox(found[t])
=============================================================================
