----------------------------- MODULE PoolProofs -----------------------------
(***************************************************************************)
(* What holds of a pool for any number of threads, names, services and     *)
(* variables.                                                              *)
(***************************************************************************)
EXTENDS Pool, TLAPS

(* What each thread knows of its call: its arguments, that it alone is past  *)
(* the lock, that a key it is about to bind is free, and that what it has    *)
(* found in a table is there still.                                          *)
CallInv ==
  \A t \in Threads :
    /\ pc[t] \in {"lock", "get", "add", "unlock", "held"} =>
         table[t] \in TableNames /\ key[t] \in Names
    /\ pc[t] \in {"lock", "get", "add", "unlock"} =>
         /\ table[t] = "services" => ptr[t] \in Services \cup {NULL}
         /\ table[t] = "variables" => ptr[t] \in Variables \cup {NULL}
    /\ pc[t] \in {"get", "add", "unlock"} => lock = t
    /\ pc[t] = "add" =>
         ptr[t] # NULL /\ registry_get(table[t], key[t]) = NULL /\ found[t] = NULL
    /\ pc[t] = "held" => ptr[t] = NULL
    /\ pc[t] = "build" => ptr[t] \in Services
    /\ pc[t] \in {"unlock", "held"} /\ ptr[t] = NULL /\ found[t] # NULL =>
         found[t] = registry_get(table[t], key[t])

Inv ==
  /\ TypeOK
  /\ CallInv

-----------------------------------------------------------------------------
(* The tables.                                                               *)

(* What is found is a pointer of the kind the table holds.                   *)
LEMMA LookupType ==
  ASSUME NEW P, NEW entries \in Entries(P), NEW k
  PROVE  Lookup(entries, k) \in P \cup {NULL}
BY DEF Entries, Lookup

(* A new entry is found under its key, and leaves the others as they were.   *)
LEMMA LookupWith ==
  ASSUME NEW entries, NEW k, NEW p
  PROVE  \A x : Lookup(With(entries, k, p), x) = IF x = k THEN p ELSE Lookup(entries, x)
BY DEF Lookup, With

(* It is of the kind the table holds.                                        *)
LEMMA WithType ==
  ASSUME NEW P, NEW entries \in Entries(P), NEW k \in Names, NEW p \in P
  PROVE  With(entries, k, p) \in Entries(P)
<1> DEFINE more == DOMAIN entries \cup {k}
<1>1. PICK K \in SUBSET Names : entries \in [K -> P]
  BY DEF Entries
<1>2. more \in SUBSET Names
  BY <1>1
<1>3. \A x \in more : (IF x = k THEN p ELSE entries[x]) \in P
  BY <1>1
<1>4. With(entries, k, p) \in [more -> P]
  BY <1>3 DEF With
<1>5. QED
  BY <1>2, <1>4 DEF Entries

(* A table without entries has the type of any table, and gives nothing.     *)
LEMMA Empty ==
  /\ \A P : NoEntries \in Entries(P)
  /\ \A k : Lookup(NoEntries, k) = NULL
<1>1. DOMAIN NoEntries = {}
  BY DEF NoEntries
<1>2. \A P : NoEntries \in [{} -> P]
  BY DEF NoEntries
<1>3. QED
  BY <1>1, <1>2 DEF Entries, Lookup

-----------------------------------------------------------------------------
(* The invariant.                                                            *)

(* A look-up in either table answers with a pointer of that table's kind.    *)
LEMMA GetType ==
  ASSUME Inv, NEW tb \in TableNames, NEW k
  PROVE  /\ registry_get(tb, k) \in Pointers \cup {NULL}
         /\ tb = "services" => registry_get(tb, k) \in Services \cup {NULL}
<1>1. services \in Entries(Services) /\ variables \in Entries(Variables)
  BY DEF Inv, TypeOK
<1>2. Lookup(services, k) \in Services \cup {NULL}
  BY <1>1, LookupType
<1>3. Lookup(variables, k) \in Variables \cup {NULL}
  BY <1>1, LookupType
<1>4. QED
  BY <1>2, <1>3 DEF registry_get, TableOf, TableNames, Pointers

(* The names of the stages.                                                  *)
LEMMA StageNamesFacts ==
  StageNames = {"unborn", "named", "queue", "cond", "ready", "started"}
<1>1. DOMAIN Stages = 1..6
  BY DEF Stages
<1>2. StageNames = {Stages[1], Stages[2], Stages[3], Stages[4], Stages[5], Stages[6]}
  BY <1>1 DEF StageNames
<1>3. QED
  BY <1>2 DEF Stages

(* An empty pool.                                                            *)
LEMMA InitInv == Init => Inv
<1> SUFFICES ASSUME Init PROVE Inv
  OBVIOUS
<1>1. TypeOK
  <2>1. stage \in [Services -> StageNames]
    BY StageNamesFacts DEF Init
  <2>3. services \in Entries(Services) /\ variables \in Entries(Variables)
    BY Empty DEF Init
  <2>4. /\ sname \in [Services -> Names \cup {NULL}]
        /\ pc \in [Threads -> {"idle", "lock", "get", "add", "unlock", "build", "held"}]
        /\ table \in [Threads -> {"services", "variables", NULL}]
        /\ key \in [Threads -> Names \cup {NULL}]
    BY DEF Init
  <2>5. ptr \in [Threads -> Pointers \cup {NULL}] /\ found \in [Threads -> Pointers \cup {NULL}]
    BY DEF Init
  <2>6. lock \in Threads \cup {Nobody} /\ undefined \in BOOLEAN
    BY DEF Init
  <2>7. QED
    BY <2>1, <2>3, <2>4, <2>5, <2>6 DEF TypeOK
<1>2. CallInv
  BY DEF Init, CallInv
<1>3. QED
  BY <1>1, <1>2 DEF Inv

(* Steps that leave the tables alone: what was found is still found.         *)
LEMMA SameTables ==
  ASSUME UNCHANGED tables
  PROVE  \A tb, k : registry_get(tb, k)' = registry_get(tb, k)
BY DEF tables, registry_get, TableOf

(* The beginning of a call.                                                  *)
LEMMA CallStep ==
  ASSUME Inv, NEW t \in Threads, NEW tb \in TableNames, NEW k \in Names,
         NEW p \in Pointers \cup {NULL}, Call(t, tb, k, p),
         p # NULL => IF tb = "services" THEN p \in Services ELSE p \in Variables
  PROVE  /\ CallInv'
         /\ lock \in Threads \cup {Nobody} => lock' \in Threads \cup {Nobody}
         /\ UNCHANGED <<lock, tables, found, undefined>>
         /\ pc' \in [Threads -> {"idle", "lock", "get", "add", "unlock", "build", "held"}]
         /\ table' \in [Threads -> {"services", "variables", NULL}]
         /\ key' \in [Threads -> Names \cup {NULL}]
         /\ ptr' \in [Threads -> Pointers \cup {NULL}]
<1> USE DEF Call, Goto
<1>1. \A x, y : registry_get(x, y)' = registry_get(x, y)
  BY SameTables DEF Inv
<1>2. CallInv'
  BY <1>1 DEF Inv, CallInv, TypeOK, TableNames
<1>3. QED
  BY <1>1, <1>2 DEF Inv, TypeOK, TableNames

(* The steps of a thread keep it.                                         *)
LEMMA CallsStep ==
  ASSUME Inv, NEW t \in Threads, Calls(t)
  PROVE  Inv'
<1>1. ASSUME NEW s \in Services, NEW n \in Names, NewService(t, n, s) PROVE Inv'
  <2>1. Call(t, "services", n, s) /\ s \in Pointers
    BY <1>1 DEF NewService, Pointers
  <2>2. /\ stage' \in [Services -> StageNames]
        /\ sname' \in [Services -> Names \cup {NULL}]
    BY <1>1, StageNamesFacts DEF NewService, Inv, TypeOK
  <2>3. QED
    BY <2>1, <2>2, CallStep DEF Inv, TypeOK, tables, TableNames
<1>2. ASSUME NEW s \in Services, NewPrivate(t, s) PROVE Inv'
  <2> USE DEF NewPrivate, Goto
  <2>1. TypeOK'
    BY <1>2, StageNamesFacts DEF Inv, TypeOK, tables, Pointers
  <2>2. \A x, y : registry_get(x, y)' = registry_get(x, y)
    BY <1>2, SameTables DEF Inv
  <2>3. CallInv'
    BY <1>2, <2>2 DEF Inv, CallInv, TypeOK
  <2>4. QED
    BY <2>1, <2>2, <2>3 DEF Inv
<1>3. ASSUME NEW n \in Names, QueryService(t, n) PROVE Inv'
  <2>1. Call(t, "services", n, NULL) /\ UNCHANGED <<stage, sname>>
    BY <1>3 DEF QueryService
  <2>2. QED
    BY <2>1, CallStep DEF Inv, TypeOK, tables, TableNames
<1>4. ASSUME NEW n \in Names, NEW p \in Variables \cup {NULL}, Registry(t, n, p) PROVE Inv'
  <2>1. Call(t, "variables", n, p) /\ UNCHANGED <<stage, sname>>
    BY <1>4 DEF Registry
  <2>2. QED
    BY <2>1, CallStep DEF Inv, TypeOK, tables, TableNames, Pointers
<1>5. QED
  BY <1>1, <1>2, <1>3, <1>4 DEF Calls

LEMMA LockStep ==
  ASSUME Inv, NEW t \in Threads, Lock(t)
  PROVE  Inv'
<1> USE DEF Lock, Goto
<1>1. TypeOK'
  BY DEF Inv, TypeOK, tables, call
<1>2. \A x, y : registry_get(x, y)' = registry_get(x, y)
  BY SameTables DEF Inv
<1>3. CallInv'
  BY <1>2, NobodyAssumption DEF Inv, CallInv, TypeOK, call
<1>4. QED
  BY <1>1, <1>2, <1>3 DEF Inv

LEMMA GetStep ==
  ASSUME Inv, NEW t \in Threads, Get(t)
  PROVE  Inv'
<1> DEFINE r == registry_get(table[t], key[t])
<1>1. table[t] \in TableNames /\ lock = t
  BY DEF Inv, CallInv, Get, Goto
<1>2. r \in Pointers \cup {NULL}
  BY <1>1, GetType
<1>3. /\ pc[t] = "get"
      /\ pc' = [pc EXCEPT ![t] = IF ptr[t] # NULL /\ r = NULL THEN "add" ELSE "unlock"]
      /\ found' = [found EXCEPT ![t] = r]
      /\ UNCHANGED <<lock, tables, stage, sname, table, key, ptr, undefined>>
  BY DEF Get, Goto
<1>4. \A x, y : registry_get(x, y)' = registry_get(x, y)
  BY <1>3, SameTables DEF Inv
<1> HIDE DEF r
<1>5. TypeOK'
  BY <1>2, <1>3 DEF Inv, TypeOK, tables
<1>6. CallInv'
  <2>1. CASE ptr[t] # NULL /\ r = NULL
    <3>1. pc' = [pc EXCEPT ![t] = "add"]
      BY <1>3, <2>1
    <3>2. QED
      BY <1>1, <1>3, <1>4, <2>1, <3>1 DEF Inv, CallInv, TypeOK, r
  <2>2. CASE ~(ptr[t] # NULL /\ r = NULL)
    <3>1. pc' = [pc EXCEPT ![t] = "unlock"]
      BY <1>3, <2>2
    <3>2. QED
      BY <1>1, <1>3, <1>4, <2>2, <3>1 DEF Inv, CallInv, TypeOK, r
  <2>3. QED
    BY <2>1, <2>2
<1>7. QED
  BY <1>4, <1>5, <1>6 DEF Inv

(* A key is bound: it is the only one whose look-up changes.                 *)
LEMMA AddBinds ==
  ASSUME Inv, NEW t \in Threads, Add(t)
  PROVE  /\ services' \in Entries(Services)
         /\ variables' \in Entries(Variables)
         /\ table[t] \in TableNames /\ key[t] \in Names /\ ptr[t] \in Pointers
         /\ registry_get(table[t], key[t]) = NULL
         /\ \A tb \in TableNames : \A k :
              registry_get(tb, k)' =
                IF tb = table[t] /\ k = key[t] THEN ptr[t] ELSE registry_get(tb, k)
<1>1. /\ table[t] \in TableNames /\ key[t] \in Names /\ ptr[t] # NULL
      /\ table[t] = "services" => ptr[t] \in Services
      /\ table[t] = "variables" => ptr[t] \in Variables
      /\ registry_get(table[t], key[t]) = NULL
  BY DEF Inv, CallInv, Add, Goto
<1>2. services \in Entries(Services) /\ variables \in Entries(Variables)
  BY DEF Inv, TypeOK
<1>3. CASE table[t] = "services"
  <2>1. services' = With(services, key[t], ptr[t]) /\ variables' = variables
    BY <1>3 DEF Add
  <2>2. services' \in Entries(Services)
    BY <1>1, <1>2, <1>3, <2>1, WithType
  <2>3. \A k : Lookup(services', k) = IF k = key[t] THEN ptr[t] ELSE Lookup(services, k)
    BY <2>1, LookupWith
  <2>4. QED
    BY <1>1, <1>2, <1>3, <2>1, <2>2, <2>3 DEF registry_get, TableOf, TableNames, Pointers
<1>4. CASE table[t] = "variables"
  <2>1. variables' = With(variables, key[t], ptr[t]) /\ services' = services
    BY <1>4 DEF Add
  <2>2. variables' \in Entries(Variables)
    BY <1>1, <1>2, <1>4, <2>1, WithType
  <2>3. \A k : Lookup(variables', k) = IF k = key[t] THEN ptr[t] ELSE Lookup(variables, k)
    BY <2>1, LookupWith
  <2>4. QED
    BY <1>1, <1>2, <1>4, <2>1, <2>2, <2>3 DEF registry_get, TableOf, TableNames, Pointers
<1>5. QED
  BY <1>1, <1>3, <1>4 DEF TableNames

LEMMA AddStep ==
  ASSUME Inv, NEW t \in Threads, Add(t)
  PROVE  Inv'
<1>1. /\ pc[t] = "add" /\ lock = t /\ ptr[t] # NULL
      /\ pc' = [pc EXCEPT ![t] = "unlock"]
      /\ UNCHANGED <<lock, stage, sname, table, key, ptr, found, undefined>>
  BY DEF Inv, CallInv, Add, Goto, call
<1>2. TypeOK'
  BY <1>1, AddBinds DEF Inv, TypeOK
<1>3. CallInv'
  <2>1. ASSUME NEW u \in Threads, u # t, pc[u] = "held", found[u] # NULL
        PROVE  found[u] = registry_get(table[u], key[u])'
    <3>1. /\ found[u] = registry_get(table[u], key[u]) /\ table[u] \in TableNames
      BY <2>1 DEF Inv, CallInv
    <3>2. ~(table[u] = table[t] /\ key[u] = key[t])
      BY <2>1, <3>1, AddBinds
    <3>3. QED
      BY <1>1, <3>1, <3>2, AddBinds
  <2>2. \A u \in Threads : u # t => pc[u] \notin {"get", "add", "unlock"}
    BY <1>1 DEF Inv, CallInv
  <2>3. QED
    BY <1>1, <2>1, <2>2 DEF Inv, CallInv, TypeOK
<1>4. QED
  BY <1>2, <1>3, AddBinds DEF Inv

LEMMA UnlockStep ==
  ASSUME Inv, NEW t \in Threads, Unlock(t)
  PROVE  Inv'
<1>1. pc[t] = "unlock" /\ lock = t /\ table[t] \in TableNames /\ t # Nobody
  BY NobodyAssumption DEF Inv, CallInv, Unlock, Goto
<1>2. lock' = Nobody /\ UNCHANGED <<tables, stage, sname, undefined>>
  BY DEF Unlock
<1>3. \A x, y : registry_get(x, y)' = registry_get(x, y)
  BY <1>2, SameTables DEF Inv
<1>4. \A u \in Threads : u # t => pc[u] \notin {"get", "add", "unlock"}
  BY <1>1 DEF Inv, CallInv
<1>5. CASE ptr[t] = NULL /\ Goto(t, "unlock", "held") /\ UNCHANGED call
  <2>1. TypeOK'
    BY <1>2, <1>5 DEF Inv, TypeOK, tables, call, Goto
  <2>2. CallInv'
    BY <1>1, <1>3, <1>4, <1>5 DEF Inv, CallInv, TypeOK, call, Goto
  <2>3. QED
    BY <1>3, <2>1, <2>2 DEF Inv
<1>6. CASE ptr[t] # NULL /\ table[t] = "services" /\ Goto(t, "unlock", "build") /\ UNCHANGED call
  <2>1. TypeOK'
    BY <1>2, <1>6 DEF Inv, TypeOK, tables, call, Goto
  <2>2. CallInv'
    BY <1>1, <1>3, <1>4, <1>6 DEF Inv, CallInv, TypeOK, call, Goto
  <2>3. QED
    BY <1>3, <2>1, <2>2 DEF Inv
<1>7. CASE Goto(t, "unlock", "idle") /\ Forget(t)
  <2>1. TypeOK'
    BY <1>2, <1>7 DEF Inv, TypeOK, tables, Goto, Forget
  <2>2. CallInv'
    BY <1>1, <1>3, <1>4, <1>7 DEF Inv, CallInv, TypeOK, Goto, Forget
  <2>3. QED
    BY <1>3, <2>1, <2>2 DEF Inv
<1>8. QED
  BY <1>5, <1>6, <1>7 DEF Unlock

(* What a service becomes on its way is not seen by the rest of Inv.         *)
LEMMA BuildStep ==
  ASSUME Inv, NEW t \in Threads, Build(t)
  PROVE  Inv'
<1>1. UNCHANGED <<lock, tables, sname, pc, call, undefined>>
  BY DEF Build
<1>2. stage' \in [Services -> StageNames]
  <2>1. PICK i \in 2..(Len(Stages) - 2) : stage' = [stage EXCEPT ![ptr[t]] = Stages[i + 1]]
    BY DEF Build
  <2>2. Len(Stages) = 6 /\ DOMAIN Stages = 1..6
    BY DEF Stages
  <2>3. Stages[i + 1] \in StageNames
    BY <2>2 DEF StageNames
  <2>4. QED
    BY <2>1, <2>3 DEF Inv, TypeOK
<1>3. TypeOK'
  BY <1>1, <1>2 DEF Inv, TypeOK, tables, call
<1>4. \A x, y : registry_get(x, y)' = registry_get(x, y)
  BY <1>1, SameTables DEF Inv
<1>5. CallInv'
  BY <1>1, <1>4 DEF Inv, CallInv, call
<1>6. QED
  BY <1>3, <1>4, <1>5 DEF Inv

(* The end of a call: its locals go.                                         *)
LEMMA ForgetStep ==
  ASSUME Inv, NEW t \in Threads, NEW from, Goto(t, from, "idle"), Forget(t),
         UNCHANGED <<lock, tables, sname, undefined>>, stage' \in [Services -> StageNames]
  PROVE  Inv'
<1> USE DEF Goto, Forget
<1>1. TypeOK'
  BY DEF Inv, TypeOK, tables
<1>2. \A x, y : registry_get(x, y)' = registry_get(x, y)
  BY SameTables DEF Inv
<1>3. CallInv'
  BY <1>2 DEF Inv, CallInv, TypeOK
<1>4. QED
  BY <1>1, <1>2, <1>3 DEF Inv

LEMMA StartStep ==
  ASSUME Inv, NEW t \in Threads, Start(t)
  PROVE  Inv'
<1>1. stage' \in [Services -> StageNames]
  BY StageNamesFacts DEF Start, Inv, TypeOK
<1>2. QED
  BY <1>1, ForgetStep DEF Start

LEMMA UseStep ==
  ASSUME Inv, NEW t \in Threads, Use(t)
  PROVE  Inv'
<1>1. CASE Send(t)
  <2>1. UNCHANGED <<lock, tables, stage, sname, pc, call>> /\ undefined' \in BOOLEAN
    BY <1>1 DEF Send
  <2>2. \A x, y : registry_get(x, y)' = registry_get(x, y)
    BY <2>1, SameTables DEF Inv
  <2>3. TypeOK'
    BY <2>1 DEF Inv, TypeOK, tables, call
  <2>4. CallInv'
    BY <2>1, <2>2 DEF Inv, CallInv, call
  <2>5. QED
    BY <2>2, <2>3, <2>4 DEF Inv
<1>2. CASE Drop(t)
  BY <1>2, ForgetStep DEF Drop, Inv, TypeOK
<1>3. QED
  BY <1>1, <1>2 DEF Use

LEMMA StutterStep == Inv /\ UNCHANGED vars => Inv'
<1> SUFFICES ASSUME Inv, UNCHANGED vars PROVE Inv'
  OBVIOUS
<1>1. \A x, y : registry_get(x, y)' = registry_get(x, y)
  BY SameTables DEF Inv, vars
<1>2. TypeOK'
  BY DEF Inv, TypeOK, vars, tables, call
<1>3. CallInv'
  BY <1>1 DEF Inv, CallInv, vars, call
<1>4. QED
  BY <1>1, <1>2, <1>3 DEF Inv

(* No step of any thread breaks it.                                          *)
LEMMA NextInv == Inv /\ [Next]_vars => Inv'
<1> SUFFICES ASSUME Inv, [Next]_vars PROVE Inv'
  OBVIOUS
<1>1. ASSUME NEW t \in Threads, Calls(t) \/ Lock(t) \/ Body(t) \/ Use(t) PROVE Inv'
  BY <1>1, CallsStep, LockStep, GetStep, AddStep, UnlockStep, BuildStep, StartStep, UseStep DEF Body
<1>2. CASE UNCHANGED vars
  BY <1>2, StutterStep
<1>3. QED
  BY <1>1, <1>2 DEF Next, Halted

LEMMA Invariance == Spec => []Inv
BY InitInv, NextInv, PTL DEF Spec

(* Every variable of the pool keeps its type: the tables hold services and   *)
(* variables respectively, and never NULL.                                   *)
THEOREM TypeCorrect == Spec => []TypeOK
<1>1. Inv => TypeOK
  BY DEF Inv
<1>2. QED
  BY <1>1, Invariance, PTL

(* What two threads have looked up under one key is one pointer, however     *)
(* long ago: what was found is still what the table gives.                   *)
THEOREM BindingsStay == Spec => []LookupsAgree
<1>1. Inv => LookupsAgree
  BY DEF Inv, CallInv, LookupsAgree
<1>2. QED
  BY <1>1, Invariance, PTL

-----------------------------------------------------------------------------
(* The directory.                                                            *)

(* An empty pool is an empty directory.                                      *)
LEMMA DirectoryInit == Init => Abstract!Init
<1> SUFFICES ASSUME Init PROVE Abstract!Init
  OBVIOUS
<1>1. \A tb, k : registry_get(tb, k) = NULL
  BY Empty DEF Init, registry_get, TableOf
<1>2. Bindings = [tb \in TableNames |-> [k \in Names |-> NULL]]
  BY <1>1 DEF Bindings
<1>3. Asked = [t \in Threads |-> <<>>] /\ Answers = [t \in Threads |-> <<>>]
  BY DEF Init, Asked, Calling, Answers
<1>4. QED
  BY <1>2, <1>3 DEF Abstract!Init

(* Only Add changes what look-ups give.                                      *)
LEMMA BindingsStep ==
  ASSUME UNCHANGED tables
  PROVE  Bindings' = Bindings
BY SameTables DEF Bindings

(* What a thread has asked and been answered, and that a step of another     *)
(* thread leaves that alone.                                                 *)
AskedBy(t) ==
  IF Calling(t) THEN <<[table |-> table[t], key |-> key[t], ptr |-> ptr[t]]>> ELSE <<>>

AnswerTo(t) == IF pc[t] \in {"unlock", "held"} THEN <<found[t]>> ELSE <<>>

OthersStay(t) ==
  \A u \in Threads \ {t} :
    /\ pc'[u] = pc[u] /\ table'[u] = table[u]
    /\ key'[u] = key[u] /\ ptr'[u] = ptr[u] /\ found'[u] = found[u]

LEMMA OneThread ==
  ASSUME NEW t \in Threads, OthersStay(t)
  PROVE  /\ Asked[t] = AskedBy(t) /\ Answers[t] = AnswerTo(t)
         /\ Asked' = [Asked EXCEPT ![t] = AskedBy(t)']
         /\ Answers' = [Answers EXCEPT ![t] = AnswerTo(t)']
<1>1. \A u \in Threads \ {t} : AskedBy(u)' = AskedBy(u) /\ AnswerTo(u)' = AnswerTo(u)
  BY DEF OthersStay, AskedBy, AnswerTo, Calling
<1>2. /\ Asked = [u \in Threads |-> AskedBy(u)] /\ Answers = [u \in Threads |-> AnswerTo(u)]
      /\ Asked' = [u \in Threads |-> AskedBy(u)'] /\ Answers' = [u \in Threads |-> AnswerTo(u)']
  BY DEF Asked, Answers, AskedBy, AnswerTo
<1>3. QED
  BY <1>1, <1>2

(* A thread that goes on inside its call, or outside of any, does nothing    *)
(* that the directory sees.                                                  *)
LEMMA NothingSeen ==
  ASSUME NEW t \in Threads, OthersStay(t), UNCHANGED tables,
         AskedBy(t)' = AskedBy(t), AnswerTo(t)' = AnswerTo(t)
  PROVE  UNCHANGED Abstract!vars
<1>1. \A u \in Threads : AskedBy(u)' = AskedBy(u) /\ AnswerTo(u)' = AnswerTo(u)
  BY DEF OthersStay, AskedBy, AnswerTo, Calling
<1>2. Asked' = Asked /\ Answers' = Answers
  BY <1>1 DEF Asked, Answers, AskedBy, AnswerTo
<1>3. QED
  BY <1>2, BindingsStep DEF Abstract!vars

(* Each step of the pool is a step of the directory, or none.  A call is the *)
(* asking of a question.                                                     *)
LEMMA DirectoryAsk ==
  ASSUME Inv, NEW t \in Threads, NEW tb \in TableNames, NEW k \in Names,
         NEW p \in Pointers \cup {NULL}, Call(t, tb, k, p)
  PROVE  Abstract!Next
<1> DEFINE q == [table |-> tb, key |-> k, ptr |-> p]
<1>1. q \in Abstract!Questions
  BY DEF Abstract!Questions
<1>2. OthersStay(t) /\ UNCHANGED tables
  BY DEF Call, Goto, OthersStay, Inv, TypeOK
<1>3. AskedBy(t) = <<>> /\ AskedBy(t)' = <<q>> /\ AnswerTo(t) = <<>> /\ AnswerTo(t)' = <<>>
  BY DEF Call, Goto, AskedBy, AnswerTo, Calling, Inv, TypeOK
<1> HIDE DEF q
<1>4. Asked[t] = <<>> /\ Asked' = [Asked EXCEPT ![t] = <<q>>]
  BY <1>2, <1>3, OneThread
<1>5. Answers' = Answers
  BY <1>2, <1>3, OneThread DEF Answers
<1>6. Abstract!Ask(t, q)
  BY <1>2, <1>4, <1>5, BindingsStep DEF Abstract!Ask
<1>7. QED
  BY <1>1, <1>6 DEF Abstract!Next

LEMMA DirectoryCalls ==
  ASSUME Inv, NEW t \in Threads, Calls(t)
  PROVE  [Abstract!Next]_(Abstract!vars)
<1>1. ASSUME NEW s \in Services, NewPrivate(t, s) PROVE UNCHANGED Abstract!vars
  <2>1. OthersStay(t) /\ UNCHANGED tables
    BY <1>1 DEF NewPrivate, Goto, OthersStay, Inv, TypeOK, tables
  <2>2. AskedBy(t)' = AskedBy(t) /\ AnswerTo(t)' = AnswerTo(t)
    BY <1>1 DEF NewPrivate, Goto, AskedBy, AnswerTo, Calling, Inv, TypeOK
  <2>3. QED
    BY <2>1, <2>2, NothingSeen
<1>2. ASSUME NEW s \in Services, NEW n \in Names, NewService(t, n, s) PROVE Abstract!Next
  <2>1. Call(t, "services", n, s) /\ s \in Pointers /\ "services" \in TableNames
    BY <1>2 DEF NewService, Pointers, TableNames
  <2>2. QED
    BY <2>1, DirectoryAsk
<1>3. ASSUME NEW n \in Names, QueryService(t, n) PROVE Abstract!Next
  <2>1. Call(t, "services", n, NULL) /\ "services" \in TableNames
    BY <1>3 DEF QueryService, TableNames
  <2>2. QED
    BY <2>1, DirectoryAsk
<1>4. ASSUME NEW n \in Names, NEW p \in Variables \cup {NULL}, Registry(t, n, p)
      PROVE  Abstract!Next
  <2>1. Call(t, "variables", n, p) /\ p \in Pointers \cup {NULL} /\ "variables" \in TableNames
    BY <1>4 DEF Registry, Pointers, TableNames
  <2>2. QED
    BY <2>1, DirectoryAsk
<1>5. QED
  BY <1>1, <1>2, <1>3, <1>4 DEF Calls

(* The question of a thread that is past the lock is one of the directory,   *)
(* and is about the entry it has in hand.                                    *)
LEMMA TheQuestion ==
  ASSUME Inv, NEW t \in Threads, pc[t] \in {"get", "add"}
  PROVE  \E q \in Abstract!Questions :
           /\ q.table = table[t] /\ q.key = key[t] /\ q.ptr = ptr[t]
           /\ AskedBy(t) = <<q>> /\ AnswerTo(t) = <<>>
           /\ Bindings[q.table][q.key] = registry_get(table[t], key[t])
<1>1. table[t] \in TableNames /\ key[t] \in Names /\ ptr[t] \in Pointers \cup {NULL}
  BY DEF Inv, CallInv, TypeOK
<1> DEFINE q == [table |-> table[t], key |-> key[t], ptr |-> ptr[t]]
<1>2. q \in Abstract!Questions
  BY <1>1 DEF Abstract!Questions
<1>3. AskedBy(t) = <<q>> /\ AnswerTo(t) = <<>>
  BY DEF AskedBy, AnswerTo, Calling
<1>4. Bindings[q.table][q.key] = registry_get(table[t], key[t])
  BY <1>1 DEF Bindings
<1>5. QED
  BY <1>2, <1>3, <1>4

(* Get answers, unless there is something to bind first.                     *)
LEMMA DirectoryGet ==
  ASSUME Inv, NEW t \in Threads, Get(t)
  PROVE  [Abstract!Next]_(Abstract!vars)
<1> DEFINE r == registry_get(table[t], key[t])
<1>1. /\ pc[t] = "get"
      /\ pc' = [pc EXCEPT ![t] = IF ptr[t] # NULL /\ r = NULL THEN "add" ELSE "unlock"]
      /\ found' = [found EXCEPT ![t] = r]
      /\ UNCHANGED tables /\ UNCHANGED <<table, key, ptr>>
  BY DEF Get, Goto, tables
<1>2. PICK q \in Abstract!Questions :
        /\ q.ptr = ptr[t]
        /\ AskedBy(t) = <<q>> /\ AnswerTo(t) = <<>>
        /\ Bindings[q.table][q.key] = r
  BY <1>1, TheQuestion
<1> HIDE DEF r
<1>3. OthersStay(t)
  BY <1>1 DEF OthersStay, Inv, TypeOK
<1>4. AskedBy(t)' = AskedBy(t)
  BY <1>1 DEF AskedBy, Calling, Inv, TypeOK
<1>5. CASE ptr[t] # NULL /\ r = NULL
  <2>1. AnswerTo(t)' = <<>>
    BY <1>1, <1>5 DEF AnswerTo, Inv, TypeOK
  <2>2. QED
    BY <1>1, <1>2, <1>3, <1>4, <2>1, NothingSeen
<1>6. CASE ~(ptr[t] # NULL /\ r = NULL)
  <2>1. AnswerTo(t)' = <<r>>
    BY <1>1, <1>6 DEF AnswerTo, Inv, TypeOK
  <2>2. /\ Asked[t] = <<q>> /\ Answers[t] = <<>>
        /\ Answers' = [Answers EXCEPT ![t] = <<r>>]
    BY <1>2, <1>3, <2>1, OneThread
  <2>3. Asked' = Asked
    BY <1>3, <1>4, OneThread DEF Asked
  <2>4. Bindings' = Bindings
    BY <1>1, BindingsStep
  <2>5. r = NULL => Bindings = [Bindings EXCEPT ![q.table][q.key] = q.ptr]
    BY <1>2, <1>6 DEF Bindings
  <2>6. Abstract!Answer(t, q)
    BY <1>2, <2>2, <2>3, <2>4, <2>5 DEF Abstract!Answer
  <2>7. QED
    BY <2>6 DEF Abstract!Next
<1>7. QED
  BY <1>5, <1>6

(* Add binds a key that is free, and with that answers.                      *)
LEMMA DirectoryAdd ==
  ASSUME Inv, NEW t \in Threads, Add(t)
  PROVE  Abstract!Next
<1>1. /\ pc[t] = "add" /\ found[t] = NULL
      /\ pc' = [pc EXCEPT ![t] = "unlock"]
      /\ UNCHANGED <<table, key, ptr, found>>
  BY DEF Inv, CallInv, Add, Goto, call
<1>2. PICK q \in Abstract!Questions :
        /\ q.table = table[t] /\ q.key = key[t] /\ q.ptr = ptr[t]
        /\ AskedBy(t) = <<q>> /\ AnswerTo(t) = <<>>
        /\ Bindings[q.table][q.key] = registry_get(table[t], key[t])
  BY <1>1, TheQuestion
<1>3. OthersStay(t)
  BY <1>1 DEF OthersStay, Inv, TypeOK
<1>4. AskedBy(t)' = AskedBy(t) /\ AnswerTo(t)' = <<NULL>>
  BY <1>1 DEF AskedBy, AnswerTo, Calling, Inv, TypeOK
<1>5. /\ Asked[t] = <<q>> /\ Answers[t] = <<>>
      /\ Answers' = [Answers EXCEPT ![t] = <<NULL>>]
  BY <1>2, <1>3, <1>4, OneThread
<1>6. Asked' = Asked
  BY <1>3, <1>4, OneThread DEF Asked
<1>7. Bindings[q.table][q.key] = NULL
  BY <1>2, AddBinds
<1>8. ASSUME NEW tb \in TableNames, NEW k \in Names, NEW p, tb = q.table, k = q.key, p = q.ptr
      PROVE  Bindings' = [Bindings EXCEPT ![tb][k] = p]
  <2>1. ASSUME NEW x \in TableNames
        PROVE  [y \in Names |-> registry_get(x, y)'] =
                 IF x = tb THEN [Bindings[x] EXCEPT ![k] = p] ELSE Bindings[x]
    <3>1. \A y \in Names :
            registry_get(x, y)' = IF x = tb /\ y = k THEN p ELSE registry_get(x, y)
      BY <1>2, <1>8, AddBinds
    <3>2. Bindings[x] = [y \in Names |-> registry_get(x, y)]
      BY DEF Bindings
    <3>3. QED
      BY <3>1, <3>2
  <2>2. Bindings' = [x \in TableNames |-> [y \in Names |-> registry_get(x, y)']]
    BY DEF Bindings
  <2>3. Bindings' = [x \in TableNames |->
                      IF x = tb THEN [Bindings[x] EXCEPT ![k] = p] ELSE Bindings[x]]
    BY <2>1, <2>2
  <2>4. QED
    BY <2>3 DEF Bindings
<1>9. Abstract!Answer(t, q)
  BY <1>2, <1>5, <1>6, <1>7, <1>8, AddBinds DEF Abstract!Answer
<1>10. QED
  BY <1>9 DEF Abstract!Next

(* The end of a call, of a look-up once its answer has been used.            *)
LEMMA DirectoryReturn ==
  ASSUME Inv, NEW t \in Threads, NEW from \in {"unlock", "held"}, NEW to \in {"idle", "build"},
         Goto(t, from, to), UNCHANGED tables, Forget(t) \/ UNCHANGED call
  PROVE  Abstract!Next
<1>1. OthersStay(t)
  BY DEF Goto, Forget, call, OthersStay, Inv, TypeOK
<1>2. AnswerTo(t) # <<>>
  BY DEF Goto, AnswerTo
<1>3. AskedBy(t)' = <<>> /\ AnswerTo(t)' = <<>>
  BY DEF Goto, AskedBy, AnswerTo, Calling, Inv, TypeOK
<1>4. /\ Answers[t] # <<>>
      /\ Asked' = [Asked EXCEPT ![t] = <<>>]
      /\ Answers' = [Answers EXCEPT ![t] = <<>>]
  BY <1>1, <1>2, <1>3, OneThread
<1>5. Abstract!Return(t)
  BY <1>4, BindingsStep DEF Abstract!Return
<1>6. QED
  BY <1>5 DEF Abstract!Next

LEMMA DirectoryUnlock ==
  ASSUME Inv, NEW t \in Threads, Unlock(t)
  PROVE  [Abstract!Next]_(Abstract!vars)
<1>1. UNCHANGED tables
  BY DEF Unlock
<1>2. CASE Goto(t, "unlock", "held") /\ UNCHANGED call
  <2>1. OthersStay(t)
    BY <1>2 DEF Goto, call, OthersStay, Inv, TypeOK
  <2>2. AskedBy(t)' = AskedBy(t) /\ AnswerTo(t)' = AnswerTo(t)
    BY <1>2 DEF Goto, call, AskedBy, AnswerTo, Calling, Inv, TypeOK
  <2>3. QED
    BY <1>1, <2>1, <2>2, NothingSeen
<1>3. CASE Goto(t, "unlock", "build") /\ UNCHANGED call
  BY <1>1, <1>3, DirectoryReturn
<1>4. CASE Goto(t, "unlock", "idle") /\ Forget(t)
  BY <1>1, <1>4, DirectoryReturn
<1>5. QED
  BY <1>2, <1>3, <1>4 DEF Unlock

LEMMA DirectoryStart ==
  ASSUME Inv, NEW t \in Threads, Start(t)
  PROVE  UNCHANGED Abstract!vars
<1>1. Goto(t, "build", "idle") /\ Forget(t) /\ UNCHANGED tables
  BY DEF Start
<1>2. OthersStay(t)
  BY <1>1 DEF Goto, Forget, OthersStay, Inv, TypeOK
<1>3. AskedBy(t)' = AskedBy(t) /\ AnswerTo(t)' = AnswerTo(t)
  BY <1>1 DEF Goto, AskedBy, AnswerTo, Calling, Inv, TypeOK
<1>4. QED
  BY <1>1, <1>2, <1>3, NothingSeen

LEMMA DirectoryStep == Inv /\ [Next]_vars => [Abstract!Next]_(Abstract!vars)
<1> SUFFICES ASSUME Inv, [Next]_vars PROVE [Abstract!Next]_(Abstract!vars)
  OBVIOUS
<1>1. ASSUME UNCHANGED <<tables, pc, call>> PROVE UNCHANGED Abstract!vars
  BY <1>1, BindingsStep DEF Abstract!vars, Asked, Calling, Answers, call
<1>2. ASSUME NEW t \in Threads, Lock(t) PROVE UNCHANGED Abstract!vars
  <2>1. Goto(t, "lock", "get") /\ UNCHANGED tables /\ UNCHANGED call
    BY <1>2 DEF Lock
  <2>2. OthersStay(t)
    BY <2>1 DEF Goto, call, OthersStay, Inv, TypeOK
  <2>3. AskedBy(t)' = AskedBy(t) /\ AnswerTo(t)' = AnswerTo(t)
    BY <2>1 DEF Goto, call, AskedBy, AnswerTo, Calling, Inv, TypeOK
  <2>4. QED
    BY <2>1, <2>2, <2>3, NothingSeen
<1>3. ASSUME NEW t \in Threads, Build(t) \/ Send(t) PROVE UNCHANGED Abstract!vars
  BY <1>1, <1>3 DEF Build, Send
<1>4. ASSUME NEW t \in Threads, Drop(t) PROVE Abstract!Next
  BY <1>4, DirectoryReturn DEF Drop
<1>5. ASSUME NEW t \in Threads, Calls(t) \/ Lock(t) \/ Body(t) \/ Use(t)
      PROVE  [Abstract!Next]_(Abstract!vars)
  BY <1>2, <1>3, <1>4, <1>5, DirectoryCalls, DirectoryGet, DirectoryAdd, DirectoryUnlock,
     DirectoryStart DEF Body, Use
<1>6. CASE UNCHANGED vars
  BY <1>1, <1>6 DEF vars
<1>7. QED
  BY <1>5, <1>6 DEF Next, Halted

(* The pool is a directory, whatever its threads do at once: a call is       *)
(* answered about the key and the table it asked about, and with what that   *)
(* key is bound to at one moment of the call, at which alone, and only if it *)
(* was free, it is bound.                                                    *)
THEOREM ImplementsDirectory == Spec => DirectorySpec
<1>1. Spec => Abstract!Init /\ [][Abstract!Next]_(Abstract!vars)
  BY DirectoryInit, DirectoryStep, Invariance, PTL DEF Spec
<1>2. QED
  BY <1>1 DEF DirectorySpec, Abstract!Spec

-----------------------------------------------------------------------------
(* Names and places.                                                         *)

(* An entry is for a service that exists and has that name; so it is with a  *)
(* call that files one; and a service is built only once its name is bound.  *)
Taken(n) == registry_get("services", n) # NULL

NamesInv ==
  /\ \A s \in Services : stage[s] = "unborn" => sname[s] = NULL
  /\ \A s \in Services :
       stage[s] \notin {"unborn", "named"} /\ sname[s] # NULL => Taken(sname[s])
  /\ \A n : Taken(n) => LET s == registry_get("services", n)
                       IN  stage[s] # "unborn" /\ sname[s] = n
  /\ \A t \in Threads :
       /\ pc[t] \in {"lock", "get", "add", "unlock"} /\ table[t] = "services" /\ ptr[t] # NULL =>
            /\ stage[ptr[t]] # "unborn"
            /\ sname[ptr[t]] = key[t]
            /\ pc[t] = "unlock" => Taken(key[t])
       /\ pc[t] = "build" =>
            /\ stage[ptr[t]] # "unborn"
            /\ sname[ptr[t]] # NULL => Taken(sname[ptr[t]])

LEMMA InitNames == Init => NamesInv
<1> SUFFICES ASSUME Init PROVE NamesInv
  OBVIOUS
<1>1. \A k : ~Taken(k)
  BY Empty DEF Init, Taken, registry_get, TableOf
<1>2. QED
  BY <1>1 DEF Init, NamesInv

(* What is taken stays taken, by the same service.                           *)
LEMMA TakenStays ==
  ASSUME UNCHANGED tables
  PROVE  \A n : /\ Taken(n)' = Taken(n)
               /\ registry_get("services", n)' = registry_get("services", n)
BY DEF tables, Taken, registry_get, TableOf

(* A service is found among the services.                                    *)
LEMMA TakenType ==
  ASSUME Inv, NEW n, Taken(n)
  PROVE  registry_get("services", n) \in Services
BY GetType DEF Taken, TableNames

(* The steps of a thread keep them together.                                *)
LEMMA NamesCalls ==
  ASSUME Inv, NamesInv, NEW t \in Threads, Calls(t)
  PROVE  NamesInv'
<1>1. UNCHANGED tables
  BY DEF Calls, NewService, NewPrivate, QueryService, Registry, Call
<1>2. \A n : /\ Taken(n)' = Taken(n)
            /\ registry_get("services", n)' = registry_get("services", n)
  BY <1>1, TakenStays
<1>3. \A n : Taken(n) => registry_get("services", n) \in Services
  BY TakenType
<1>4. ASSUME NEW s \in Services, NEW n \in Names, NewService(t, n, s) PROVE NamesInv'
  BY <1>2, <1>3, <1>4, PointersAssumption
     DEF NewService, Call, Goto, Inv, TypeOK, CallInv, NamesInv
<1>5. ASSUME NEW s \in Services, NewPrivate(t, s) PROVE NamesInv'
  BY <1>2, <1>3, <1>5 DEF NewPrivate, Goto, Inv, TypeOK, CallInv, NamesInv
<1>6. ASSUME NEW n \in Names, QueryService(t, n) PROVE NamesInv'
  BY <1>2, <1>6 DEF QueryService, Call, Goto, Inv, TypeOK, NamesInv
<1>7. ASSUME NEW n \in Names, NEW p \in Variables \cup {NULL}, Registry(t, n, p) PROVE NamesInv'
  BY <1>2, <1>7 DEF Registry, Call, Goto, Inv, TypeOK, NamesInv
<1>8. QED
  BY <1>4, <1>5, <1>6, <1>7 DEF Calls

LEMMA NamesGet ==
  ASSUME Inv, NamesInv, NEW t \in Threads, Get(t)
  PROVE  NamesInv'
<1>1. \A n : /\ Taken(n)' = Taken(n)
            /\ registry_get("services", n)' = registry_get("services", n)
  BY TakenStays DEF Get, tables
<1>2. CASE ptr[t] # NULL /\ registry_get(table[t], key[t]) = NULL
  <2>1. /\ pc' = [pc EXCEPT ![t] = "add"] /\ pc[t] = "get"
        /\ UNCHANGED <<stage, sname, table, key, ptr>>
    BY <1>2 DEF Get, Goto
  <2>2. QED
    BY <1>1, <2>1 DEF Inv, TypeOK, NamesInv
<1>3. CASE ~(ptr[t] # NULL /\ registry_get(table[t], key[t]) = NULL)
  <2>1. /\ pc' = [pc EXCEPT ![t] = "unlock"] /\ pc[t] = "get"
        /\ UNCHANGED <<stage, sname, table, key, ptr>>
    BY <1>3 DEF Get, Goto
  <2>2. ptr[t] # NULL /\ table[t] = "services" => Taken(key[t])
    BY <1>3 DEF Taken
  <2>3. QED
    BY <1>1, <2>1, <2>2 DEF Inv, TypeOK, NamesInv
<1>4. QED
  BY <1>2, <1>3

LEMMA NamesAdd ==
  ASSUME Inv, NamesInv, NEW t \in Threads, Add(t)
  PROVE  NamesInv'
<1>1. /\ pc[t] = "add" /\ ptr[t] # NULL
      /\ pc' = [pc EXCEPT ![t] = "unlock"]
      /\ UNCHANGED <<stage, sname, table, key, ptr>>
  BY DEF Inv, CallInv, Add, Goto, call
<1>2. \A n : registry_get("services", n)' =
             IF table[t] = "services" /\ n = key[t] THEN ptr[t] ELSE registry_get("services", n)
  BY AddBinds DEF TableNames
<1>3. \A n : Taken(n)' <=> Taken(n) \/ (table[t] = "services" /\ n = key[t])
  BY <1>1, <1>2 DEF Taken
<1>4. \A n :
        \/ ~Taken(n)'
        \/ table[t] = "services" /\ n = key[t] /\ registry_get("services", n)' = ptr[t]
        \/ Taken(n) /\ registry_get("services", n)' = registry_get("services", n)
  BY <1>2, <1>3
<1>5. QED
  BY <1>1, <1>3, <1>4 DEF Inv, TypeOK, NamesInv

LEMMA NamesUnlock ==
  ASSUME Inv, NamesInv, NEW t \in Threads, Unlock(t)
  PROVE  NamesInv'
<1>1. /\ \A n : /\ Taken(n)' = Taken(n)
               /\ registry_get("services", n)' = registry_get("services", n)
      /\ UNCHANGED <<stage, sname>> /\ pc[t] = "unlock"
  BY TakenStays DEF Unlock, Goto
<1>2. CASE ptr[t] = NULL /\ Goto(t, "unlock", "held") /\ UNCHANGED call
  BY <1>1, <1>2 DEF Goto, call, Inv, TypeOK, NamesInv
<1>3. CASE ptr[t] # NULL /\ table[t] = "services" /\ Goto(t, "unlock", "build") /\ UNCHANGED call
  BY <1>1, <1>3 DEF Goto, call, Inv, TypeOK, NamesInv
<1>4. CASE Goto(t, "unlock", "idle") /\ Forget(t)
  BY <1>1, <1>4 DEF Goto, Forget, Inv, TypeOK, NamesInv
<1>5. QED
  BY <1>2, <1>3, <1>4 DEF Unlock

(* Building goes on from one stage that is past "unborn" to another.         *)
LEMMA BuildStages ==
  ASSUME NEW t \in Threads, Inv, Build(t) \/ Start(t)
  PROVE  \E to \in StageNames \ {"unborn"} : stage' = [stage EXCEPT ![ptr[t]] = to]
<1>1. CASE Start(t)
  BY <1>1, StageNamesFacts DEF Start
<1>2. CASE Build(t)
  <2>1. PICK i \in 2..(Len(Stages) - 2) : stage' = [stage EXCEPT ![ptr[t]] = Stages[i + 1]]
    BY <1>2 DEF Build
  <2>2. i \in 2..4
    BY DEF Stages
  <2>3. Stages[i + 1] \in {"queue", "cond", "ready"}
    BY <2>2 DEF Stages
  <2>4. QED
    BY <2>1, <2>3, StageNamesFacts
<1>3. QED
  BY <1>1, <1>2

LEMMA NamesBuild ==
  ASSUME Inv, NamesInv, NEW t \in Threads, Build(t) \/ Start(t)
  PROVE  NamesInv'
<1>1. /\ \A n : /\ Taken(n)' = Taken(n)
               /\ registry_get("services", n)' = registry_get("services", n)
      /\ UNCHANGED sname /\ pc[t] = "build"
  BY TakenStays DEF Build, Start, Goto
<1>2. PICK to \in StageNames \ {"unborn"} : stage' = [stage EXCEPT ![ptr[t]] = to]
  BY BuildStages
<1>3. ptr[t] \in Services /\ stage[ptr[t]] # "unborn"
      /\ (sname[ptr[t]] # NULL => Taken(sname[ptr[t]]))
  BY <1>1 DEF Inv, CallInv, NamesInv
<1>4. \A s \in Services : stage'[s] = "unborn" => stage[s] = "unborn"
  BY <1>2, <1>3 DEF Inv, TypeOK
<1>5. \A n : Taken(n) => registry_get("services", n) \in Services
  BY TakenType
<1>6. CASE Build(t)
  <2>1. UNCHANGED <<pc, table, key, ptr>>
    BY <1>6 DEF Build, call
  <2>2. QED
    BY <1>1, <1>2, <1>3, <1>5, <2>1 DEF Inv, TypeOK, CallInv, NamesInv
<1>7. CASE Start(t)
  <2>1. Goto(t, "build", "idle") /\ Forget(t)
    BY <1>7 DEF Start
  <2>2. QED
    BY <1>1, <1>2, <1>3, <1>5, <2>1 DEF Goto, Forget, Inv, TypeOK, CallInv, NamesInv
<1>8. QED
  BY <1>6, <1>7

LEMMA NamesNext == Inv /\ NamesInv /\ [Next]_vars => NamesInv'
<1> SUFFICES ASSUME Inv, NamesInv, [Next]_vars PROVE NamesInv'
  OBVIOUS
<1>1. ASSUME UNCHANGED <<tables, stage, sname, pc, call>> PROVE NamesInv'
  BY <1>1, TakenStays DEF NamesInv, call
<1>2. ASSUME NEW t \in Threads, Lock(t) PROVE NamesInv'
  BY <1>2, TakenStays DEF Lock, Goto, call, Inv, TypeOK, NamesInv
<1>3. ASSUME NEW t \in Threads, Send(t) PROVE NamesInv'
  BY <1>1, <1>3 DEF Send
<1>4. ASSUME NEW t \in Threads, Drop(t) PROVE NamesInv'
  BY <1>4, TakenStays DEF Drop, Goto, Forget, Inv, TypeOK, NamesInv
<1>5. ASSUME NEW t \in Threads, Calls(t) \/ Lock(t) \/ Body(t) \/ Use(t) PROVE NamesInv'
  BY <1>2, <1>3, <1>4, <1>5, NamesCalls, NamesGet, NamesAdd, NamesUnlock, NamesBuild DEF Body, Use
<1>6. CASE UNCHANGED vars
  BY <1>1, <1>6 DEF vars
<1>7. QED
  BY <1>5, <1>6 DEF Next, Halted

(* A service that is found has the name it was looked up under, and one that *)
(* is built is found, or another in its place.                               *)
THEOREM NamesAndPlaces == Spec => []FiledUnderName
<1>1. Inv /\ NamesInv => FiledUnderName
  BY DEF Inv, CallInv, NamesInv, Taken, HasInbox, FiledUnderName
<1>2. Spec => []NamesInv
  BY Invariance, InitNames, NamesNext, PTL DEF Spec
<1>3. QED
  BY <1>1, <1>2, Invariance, PTL
=============================================================================
