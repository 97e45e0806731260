# lservice, specified

TLA+ specifications of lservice: services that run a Lua handler on a thread of
their own, each with an inbox that other threads send messages to. The modules
follow the C sources in `src/src/` and the Lua layer in `src/lua/`; TLC checks
them on small instances, and TLAPS proves the central results for every value
of the constants. Paths below are relative to the root of this project's
parent, so that `src/src/queue.c` is the repository's `src/queue.c`.

## 1. Inventory

| Component | State | Operations | Interacts with |
| --- | --- | --- | --- |
| ring queue, `src/src/queue.c`, over `atomic.h` | `size`, atomic `head` and `tail`, `data[]` | `queue_push_*`, `queue_pop_*`, `queue_length` | the inbox of every service; polled by test programs |
| wakeup, `src/src/cond.h` | mutex, condition variable, `flag` | `cond_trigger_begin/end`, `cond_wait_begin/end`, `cond_wait` | guards the ring of a service |
| service, `src/src/service.c` | `name`, `code`, `config`, `q`, `c`, `L`, `lua_func_ref`, `thread` | `service_new`, `service_start`, `service_send`, `service_free`, `service_routine_wrap`, `service_init_lua`, `service_routine_lua` | uses ring and wakeup; called from Lua through the FFI, from any thread |
| pool and registry, `service.c`, `registry.c` | pool lock, two hash tables (services, variables) | `service_pool_new`, `service_pool_query_service`, `service_pool_registry`, `registry_get/put/del` | shared by all services of a process |
| hash table, `uthash.h` (vendored) | buckets, insertion-order list | `HASH_ADD`, `HASH_FIND`, `HASH_DEL`, bucket expansion | under the registry |
| Lua layer, `src/lua/lservice.lua` | pool and service wrappers, `M.serializer` | `new_pool`, `new_service`, `registry`, `query_service`, `send`, `from_ptr`, `new`, `input` | calls `service.c`; serializer is supplied by the user |
| log, `log.c` (vendored rxi/log.c) | level, quiet, lock callback, 32 callbacks | `log_log`, `log_add_callback`, `log_set_*` | called by workers and by the registry |
| util, tests, demo, Makefile | none | `util_usleep`, sample programs | - |

What makes them correct, and what is hard about it:

* **Ring queue.** Lock-free, one writer and one reader. Elements come out once
  and in order; a full queue refuses, an empty one answers NULL; the slots, which
  are plain memory, are never read and written at once; `queue_length` may be
  called by anybody at any time. Hard: every interleaving of the loads and stores
  of both sides, at the wrap of the array and at full and empty.
* **Service inbox and worker.** Many senders share the single-writer ring under
  the lock of `cond.h`. No message is lost, repeated or reordered except those
  refused by a full inbox; the worker never sleeps on a message and never hands a
  stale pointer to Lua, although its pop is guarded and `msg` is never reset;
  handlers may fail, or send to their own service. Hard: flag, signal, spurious
  wakeups and the inbox test against any number of senders.
* **Pool and registry.** A name or key is bound once, and the first binding stays;
  look-ups from any thread see it. Hard: `service_new` publishes the service before
  its inbox exists, so a thread that queries the name at that moment gets a service
  it must not send to yet; a second service of the same name cannot be found.
* **Lua layer.** Ownership of packed messages and configurations; the name that is
  checked is not the name that is passed on; failure of a step after an earlier
  one has taken effect.
* **Lifecycle**, from `service_new` to the last message, in a process of several
  programs and services. A service is published, then built, then started, each by a
  call of its own, and any other thread may find it, send to it or start it at any
  moment between; a failed `pthread_create` is ignored by `new_service`; code that
  does not load aborts the whole process; services send to each other from their
  handlers. Messages to a name should come to one service, in order, and none that was
  accepted should be lost or left. `service_free` neither stops the thread nor takes
  the service out of its pool, and a second `service_start` makes a second thread on
  one Lua state: both are undefined behaviour from there on.
* **Hash table.** Finding what was added and nothing else, across bucket expansions
  and collisions; deletion while a chain is shared.
* **Log.** Lines are printed in several calls, to several sinks, with the time in a
  buffer that all threads share. Only a lock function that the user installs keeps
  lines whole and sinks in agreement, and only if `log_log` releases it on every path.
  Levels of one sink must not affect another.

The hazards, each at its line and with the properties that cover it, are listed
in `PROJECT.json`.

## 2. Plan

Written, in this order: `Ring`, `Fifo`, `Queue` with `QueueProofs`; `Mailbox`,
`Service` with `ServiceProofs`; `Directory`, `Pool` with `PoolProofs`; `LService`; `Map`
and `UtHash`; `System`, which composes services and pool at the level of their
abstract specifications; `Log`; `SystemProofs`, `LogProofs`, `LServiceProofs`; and, once
`UtHash` was put in a form that can be reasoned about, `UtHashProofs`. Every safety
property and every refinement that a run checks is proved.

What would come next: the process as a composition that is proved, not argued, to be one
of `Directory` and a `Mailbox` per service (`System` takes a send in one step, `Mailbox`
shows its call and its return).

## 3. Modules

**`Ring`** holds the arithmetic both models share: positions, `queue_length`, the
full test of `queue_push_open`, and `Contents`, the sequence that a pair of
indices denotes. `Size` is the size given to `queue_new` (1024 in the program); it
is a power of two above 1. `queue_new` would accept 0 and 1 too, for which the
ring has no usable slot; no caller asks for them.

**`Fifo`** is the abstract queue: a bounded sequence whose four operations are
atomic.

**`Queue`** is `queue.c` without any lock. `pc` says where each thread is inside a
call; each access to `head`, `tail` or a slot is one action: `PushOpen` and
`PushOpenHead` are the two loads of `queue_push_open`, `PushWrite` the plain store,
`PushClose` the assertion and the store of `tail`, and likewise for pops;
`LengthLoadTail` and `LengthLoadHead` may come in either order, since C does not
fix the order of the operands of `-`. The atomics are sequentially consistent
(`atomic_load` and `atomic_store` of C11), so that interleaving is a faithful
memory model, and `NoSlotRace` says that the plain slot accesses never race. The
assertion's load and the store after it are one step: only the asserting thread
ever writes that index. Local variables are cleared when a call returns.

**`Mailbox`** is what one service promises: `Accept`, `Refuse`, `Take`, `Finish`.

**`Service`** is one service: the ring, the three fields of `struct cond`, any
number of clients in `service_send`, and the worker thread in
`service_routine_wrap`. `spc` and `wpc` are the program counters. Between
`cond_trigger_begin` and `cond_trigger_end` a send is three steps (open, slot and
close, signal and unlock), and the worker's round is taken apart at every test, so
that exclusion is the work of the mutex in the model, not an assumption of it.
The plain slot access and the close of the same call are one step: `Queue` shows
them race-free for one writer, and here the lock excludes other writers. The
handler is Lua code: it ends by returning or with an error and may send to its own
service meanwhile (`Senders` contains `Worker`). `InitLua` abstracts
`service_init_lua` to its three outcomes. `failure` records why the process ended:
a failed assertion of the queue, of the two after `service_init_lua`, or the panic
of a Lua stack that cannot grow. The message pointer is a model value; logging is
left out.

**`Directory`** is what a pool promises: two tables, in which a key is bound once. A
thread asks about one key of one table, with a pointer to bind it to or without (`Ask`);
at one moment before the call returns it is answered with what that key is bound to, and
a free key is bound (`Answer`).

**`Pool`** is `service_pool_t` with any number of threads. A call (`QueryService`,
`Registry`, `NewService`) fixes its arguments; `Lock`, `Get`, `Add`, `Unlock` are the
critical section, with `registry_get` and the insertion of `registry_put` apart, so
that exclusion is again the work of the lock. `Build` is the rest of `service_new`, a
stage at a time and outside the lock; `Start` is `service_start`, which may fail
without anybody noticing. A thread that has an answer may use it (`Send`) at any
later moment. Sending to a service that is not built is undefined behaviour: the
model notes it in `undefined` and says nothing more (`Halted`). Services are
created by name or outside the pool (`NewPrivate`). A table is a function from the keys
that have an entry to the pointers a look-up finds; `UtHash` justifies that.

**`LService`** is `lservice.lua` as one Lua program calls it. An argument is its kind
(`Data`, `Codes`), since only the kind decides which assertion fails and what is
packed. `NewService` is the whole of `new_service` with `M.new` under it, in the order
of the code: first assertion, first pack, checks of `M.new`, second pack, conversion by
the FFI, assertion of `service_new`, creation and start. `SendTo` is what
`pool:send` and `service:send` share. `Input` and `hello` are the receiving side.
`New` is `M.new` without a pool, `Start` the method that starts its service, and
`started` says which services have a thread. `live` and `dead` say which packed blocks
exist; the serializer is the user's and external. That a name is given to the pool and
to the service is `Make`, one step here because `Pool` takes it apart. The first
assertion of `new_service` asks for "name or path" (`lservice.lua:85`), but a path alone
does not get past `M.new` (`MNewFails`). Keys are at most 31 characters long in all models:
only `service_new` asserts that, the registry's own keys are the caller's.

**`Map`** is what a registry promises. **`UtHash`** is `registry.c` on the part of
`uthash.h` it uses, pointer by pointer: `table` is the memory of the hash table and of
the handles in the entries. An operator named as a macro is that macro, as a function
from memory to memory; `Link`, `Unthread` and `Rehash` are the parts of macros that
insert into a chain, take out of the list, and move one handle to the doubled buckets;
`RehashChain` and `RehashBuckets` are the two loops of the expansion, each a function of
the rounds it has made; the chain they go along is the one before the loop, which is what
the code's saved next pointers follow. `Path` is the loop that follows a pointer until it is NULL.
The hash function is a variable that never changes: all of them are checked. A
failed allocation ends the process and is not modelled.

**`System`** is a whole process. Main programs and services are Lua code that creates
services (`NewService`, `Build`, `StartNew`: the three parts of `new_service` that other
threads can tell apart), looks them up (`QueryService`), sends (`Send`), starts
(`StartAgain`) and frees them (`service_free`); a service does all that in its chunk and
in its handler, between `InitLua` or `Take` and `HandlerEnds`. A call of the pool or of
an inbox is one step, on `bound` and `inbox`: `PoolProofs` shows that the pool
implements `Directory` and `ServiceProofs` that a service implements `Mailbox`, of which
`Send` is `Accept` or `Refuse`. `stage` says how far `service_new` is, `worker` what the
service's thread does, `handle` and `via` what a thread has found and by which name.
Messages are numbered in the order in which their sends take effect; `handled` and
`lost` record what became of them. Whether a handler fails is left open, and with it how
many error values are on the stack of its Lua state: once there have been enough messages
that they may fill it, `Take` may end in the panic that `Service` shows (`MayPanic`).
`over` is "undefined" after a send or a start that the code does not allow, "abort" after
code that fails to load and after a panic; nothing is said of either. Services are numbered in the order of their making.

**`Log`** is `log.c` with any number of threads in `log_log`: `Lock`, then for each sink
`NextSink` (the level test and `init_event`), `PutHead` and `PutText` (a line is printed
in several calls; the time, read from the buffer of `localtime`, goes out with its head,
and the newline is counted with the text),
and `Unlock`. The user's lock function is a mutex, or none. The settings have no lock
of their own, and nothing in the repository calls them: they are made before the first
event, which is where a program would. Sink 0 is stderr.

**`RingProofs`**, **`QueueProofs`**, **`ServiceProofs`**, **`PoolProofs`**,
**`SystemProofs`**, **`LogProofs`**, **`LServiceProofs`**, **`UtHashProofs`** hold the
theorems.

## 4. What the runs check

| Run | Bounds | Question |
| --- | --- | --- |
| `queue` | 4 slots, 2 interchangeable values, 1 observer | assertions, races, `queue_length`; does the ring implement `Fifo`? |
| `service` | 4 slots, 2 clients, 2 messages, 3 stack slots | lock, stale message, lost wakeup; does the service implement `Mailbox`? |
| `service_live` | 1 client and the handler, 2 messages, 3 stack slots | are messages handled, do sends return? |
| `pool` | 2 threads, 2 names, 2 services, 2 pointers of variables | do threads agree on what a key is bound to? does the pool implement `Directory`? does every call return? |
| `system` | 1 main program, 2 services, 2 names, 3 messages, inboxes of 2, 3 stack slots | do messages to a name come to one service, in order, none lost on the way? is what was accepted handled? |
| `log` | 2 threads, 2 events, 2 levels, up to 2 callbacks | does an event reach the sinks it should? are lines whole and in one order? does `log_log` return? |
| `lservice` | 1 name and 1 too long, 2 services, 4 blocks | has each packed block one owner? which calls lose one? |
| `hash` | 4 keys and entries, hash values 0, 1 and 4, up to 16 buckets | are pointers and counts sound? does the registry implement `Map`? |

Four slots make a capacity of three: the ring is then full, empty, wrapped, and
neither full nor empty with the wrap inside its contents. Two values tell one
element from another, which is all that order and loss need; the observer only
reads. Two clients and the worker make three senders, so that two of them can
contend for the lock while the third holds it. A full inbox drops
the message and `service_send` returns 1 all the same: `Mailbox` has that as `Refuse`. `LuaSlots` bounds the failing
handlers before the panic; with three, failures, messages handled after a failure and
the panic itself all occur. The liveness run has no symmetry and a service that
starts: with an aborted start nothing is promised.

Two threads and two names in `pool` give a look-up of one name during the creation
of a service of the same name or of the other, two services of one name, and two
bindings of one variable by different threads, each with a pointer of its own, so that a
binding that is replaced shows in the look-ups. Four blocks in
`lservice` are two configurations, each packed twice, or one and two messages. In `hash` the values 0 and 4 share a bucket
until there are eight, 0 and 1 only while there is one. A threshold of one (ten in
the program) makes a doubling out of every collision, and entries that can never be
told apart make two doublings in a row useless, after which the table stops
doubling. `MaxBuckets` bounds the doubling, which deleting and inserting may repeat
without end.

In `system` three threads create and send: the main program and the two services,
which can send to each other and to themselves. Two services are filed under one name
or two; in an inbox of two, two messages wait together, be it behind a handler or for a
thread that has not been started, and of three the third is refused or comes behind them. In `log`
two threads and two events make every overlap of two lines; with two levels and two
callbacks a sink that is passed over has a neighbour on either side that is not.

Symmetry is also used where a run checks a refinement: those abstract
specifications treat the interchangeable sets alike, and a refinement is checked
on steps. Runs with a liveness property (`service_live`, `pool`, `system`, `log`) have
none.

**Fairness of the pool** (`Fairness` in `Pool`): weak for a running thread's steps,
strong for taking the lock, as below. Nothing obliges a thread to call, or to drop an
answer.

**Fairness of a service** (`Fairness` in `Service`). A running thread keeps running: weak
fairness on each sender's steps and on the worker's. Taking the mutex is strongly
fair, for senders and for the worker: POSIX does not promise it, yet a thread that
sees the mutex free infinitely often gets it on the systems this runs on. Lua code
returns: strong fairness, since the handler may be inside a send again and again.
Nothing obliges a client to send, `service_start` to be called, or a wakeup to be
spurious.

**Fairness of the system** (`Fairness` in `System`), of the services' threads only. They
run on (`RunsOn`): weak fairness for the steps inside `new_service`, for letting go of a
handle, and for a worker that has a message. Lua code returns, whatever it does before
(`LuaEnds`): strong fairness for the end of a service's chunk and of its handler. Nothing
obliges a thread to create, start or send, nor a main program to do anything.

**Fairness of the log** (`Fairness` in `Log`): weak for the steps of `log_log`, strong for
taking the lock. Nothing obliges a thread to log.

Four runs show where the code and what is written about it differ:

* `only_last_left`: the comment at the pop (`service.c:174`) says that all but the
  last message are thrown away; one message is popped and the rest stay.
* `no_output_left`: `service_routine_lua` leaves the error value of a failed
  handler on the Lua stack. After enough failures the stack is full and Lua panics.
* `found_has_inbox`: `service_new` registers a service before it has made its queue and
  its lock (`service.c:135`); `pool:send` tests only that it found one
  (`lservice.lua:126`).
* `long_names_cut`: `new_service` cuts long names (`lservice.lua:86`), then passes on the
  uncut one, and the process aborts.

## 5. What is proved

TLAPS checks the following for every size of the ring (a power of two above 1),
every set of values and messages, and any number of observers, clients and stack
slots; for any number of threads, names, services and variables in the pool; for any
number of programs, services and messages in the system, of threads, levels, callbacks
and events in the log, of names, services and blocks in the Lua layer; and for any keys
and pointers, every hash function, finitely many addresses, every threshold and every
first array of buckets in the hash table. The only
assumptions are those the modules name (`SizeAssumption` in `Ring`,
`ThreadsAssumption` in `Log`, and so on): kinds of values are distinct, and bounds are
numbers.

* `RingProofs`: positions stay in the ring; the length is 0 exactly when the indices
  meet and `Capacity` exactly when the ring is full; writing slot `tail` leaves the
  contents alone, advancing `tail` appends that slot, advancing `head` takes off
  the first element.
* `QueueProofs`: `Inv` adds to the checked properties what each side knows. A
  writer's copy of `tail` is exact because only it moves `tail`; room it has seen
  stays because the reader only makes more (`WriterInv`); symmetrically for the
  reader (`ReaderInv`); an index loaded by `queue_length` is exact if the thread
  owns it and errs on the safe side otherwise (`LengthInv`). Without them neither
  the assertions nor the race freedom is inductive. From `Inv` follow type
  correctness, `AssertsHold`, `NoSlotRace`, `OwnerLengthBounds`, and, with the
  lemmas on `Contents`, that every step is a step of `Fifo` or a stutter
  (`ImplementsFifo`).
* `ServiceProofs`: `Inv` consists of the lock discipline of senders (`SenderInv`)
  and worker (`WorkerInv`), the meaning of the flag (`FlagInv`: it is up only if a
  message is in the inbox, on its way in, or just taken; it is down at the wait only
  if the inbox is empty; a worker asleep on a message has its signal coming), and
  that the inbox holds sent messages only (`InboxInv`). From it follow type
  correctness, `QueueAssertsHold`, `NeverStale`, `NoLostWakeup`, and that the
  service implements `Mailbox` (`ImplementsMailbox`).
* `PoolProofs`: `Inv` adds to the types what a thread knows of its call (`CallInv`: past
  the lock it is the holder; before the insertion it has found nothing and the key is
  still free; what it found is what the table still gives). The lemmas on `Lookup` and
  `With` say what a new entry changes: its own key and nothing else. From it follow type
  correctness, `LookupsAgree` and that the pool implements `Directory`: `Add` is the
  moment of a call that binds its key, `Get` that of every other.
  `FiledUnderName` needs `NamesInv` too: a service that is found, or about to be
  filed, exists and has that name, and it is built only once its name is taken.

* `SystemProofs`: a handle found by a name is what the name is bound to, and stays it,
  since a binding is never replaced (`HandleInv`); every message that has come to a
  service is numbered no higher than `sent` (`NumberInv`). Without the first an old
  handle might go to another service, without the second a new message might not be
  the last. The lemmas on `Received` say that `Accept` appends to it and that `Take`,
  which moves a message from the inbox to `handled`, leaves it alone. From that follow
  type correctness, `OneAddress` and `InOrder`. For `Accounted`, which counts, `OnePlace`
  says the same without counting: every number up to `sent` belongs to one message that
  is lost or has come to a service, never both, in one place of one service. A send
  makes the next number and puts it into one such place; every other step leaves all
  places as they are or moves a message within its service.
* `LogProofs`: with a lock function whoever is between lock and unlock holds the lock
  (`HeldInv`), the time in the buffer is its event's (`TimeInv`), and all sinks hold
  whole lines but the one it is printing to (`LineInv`); nothing has been printed while
  the settings can still change (`NothingYet`). For the order, the holder's event is the
  last in every sink (`Latest`), that of a waiting thread is in none (`Unseen`). From it
  follow type correctness, `WholeLines` and `SinksAgree`. `Delivered` holds without a lock
  function too, so it rests on an invariant of its own: an event is in the hands of one
  thread at most; what is not logged yet is in no sink (`Early`); and a thread that has
  come to a sink has served all before it, has its head in this one if it is between the
  two pieces, and has touched none behind it (`Begun`, `Progress`).
* `LServiceProofs`: two places that hold one block are one place, and the block is live
  (`Owned`); a service that is not made has no configuration (`Unmade`). Every call
  that makes a service or sends packs some new blocks and adds at most one place with
  a pointer (`Stores`, `Adds`): a block it puts there is one it has just packed, which no
  place can hold, and of the others there is at most one. Reading takes the block out
  before it is freed. From it follow type correctness, `OneOwner` and `LostOnce`.

* `UtHashProofs`: a `Row` is a sequence of elements, each once, that two pointers thread
  from NULL to NULL, and `Threaded` says the same of a set, its first, its last and its
  size. A loop along a row visits exactly its elements, in order, and ends (`PathOfRow`).
  Pushing to the front, appending and taking out, wherever the element stands, make rows
  of rows, and pointers of elements outside do not matter. A table is `Sound` for a set of
  entries if the list threads that set, as many as `num_items`, and the chain of each
  bucket threads those whose hash falls into it, as many as its count. Without the ends
  and the back pointers this is not inductive: a deletion repairs the neighbours it finds
  through them. Every macro takes sound tables to sound tables; for the expansion, the
  elements in the new buckets after some rounds are those that were moved, and after all
  rounds every one. `Inv` adds that an entry's hash is that of its key and that no two
  entries have one key, which `registry_put` sees to by looking first. From it follow
  type correctness, `HASH_FSCK`, `ListsAgree`, that a look-up finds the entry of its key
  if there is one (`Finding`), and that the registry implements `Map` (`ImplementsMap`).
  `MaxBuckets` plays no part in it. The library states induction with an operator as a
  parameter, which this prover cannot instantiate; `LeastNumber` and `AllNumbers` say it of
  sets, and with them the rounds of a loop, the steps along a chain and the sum over all
  chains are shown to be what they should be.

Only model-checked: liveness (`EveryMessageHandled`, `SendReturns`, `CallsReturn`,
`AcceptedIsHandled`, `LogReturns`), which needs fairness and `ENABLED`, beyond this
prover.

## 6. Not modelled

The content of messages and Lua values and the wording of log lines. Changing the log's
settings while threads log. What happens after undefined behaviour: a send to a
service that is not built, a second thread for a service, any call of `service_free`;
the models have the step that leads there and stop. The content of the buffer of
`localtime` while two threads fill it at once, without a lock function: `tm` has one of the
two. The parts of `uthash.h` that nothing here
uses: sorting, selection, replacement, in-order insertion, Bloom filters, and recovery
from failed allocations; and its hash functions, since all are checked. `registry_del`
is modelled though only its declaration is ever used; `queue_delete` and `cond_release`
are called by `service_free` alone and are not. `atomic_int_inc`,
`atomic_int_cas` and the pointer atomics are not used.
