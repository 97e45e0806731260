------------------------------- MODULE UtHash -------------------------------
(***************************************************************************)
(* The registry of src/registry.c on the hash table of src/uthash.h: each  *)
(* entry is threaded into a list of all entries and into the chain of its  *)
(* bucket, by pointers, and the buckets are doubled when a chain is long.  *)
(* Calls are atomic: the pool's lock is held around each of them.          *)
(***************************************************************************)
EXTENDS Integers, Sequences, FiniteSets, SequencesExt, FiniteSetsExt

CONSTANTS
  Keys,      (* Strings of at most 31 characters.                       *)
  Pointers,  (* What is registered under them.                          *)
  Elements,  (* Addresses malloc may give to a registry_t.              *)
  NULL,
  Hashes,    (* The values hash functions take here, out of 32 bits.    *)
  HASH_INITIAL_NUM_BUCKETS,
  HASH_BKT_CAPACITY_THRESH,
  MaxBuckets (* Bounds the doubling, which deletions may repeat without end. *)

ASSUME NULLAssumption == NULL \notin Keys \cup Pointers \cup Elements
ASSUME HashesAssumption == Hashes \subseteq Nat
ASSUME ElementsAssumption == IsFiniteSet(Elements)
ASSUME BucketsAssumption ==
  /\ HASH_INITIAL_NUM_BUCKETS \in Nat \ {0}
  /\ \E log2 \in 0..31 : HASH_INITIAL_NUM_BUCKETS = 2^log2
  /\ HASH_BKT_CAPACITY_THRESH \in Nat \ {0}

VARIABLES
  hash,      (* The hash function: any one, but always the same.        *)
  key, ptr,  (* The fields of each registry_t; NULL if it is free.      *)
  table      (* The rest of memory: see NoTable.                        *)

vars == <<hash, key, ptr, table>>

(* The head of the list that represents the table, the UT_hash_table it      *)
(* points to, and the UT_hash_handle of each element.                        *)
NoTable ==
  [ head |-> NULL,
    tail |-> NULL,
    buckets |-> <<>>,
    num_buckets |-> 0,
    num_items |-> 0,
    nonideal_items |-> 0,
    ineff_expands |-> 0,
    noexpand |-> FALSE,
    hashv |-> [e \in Elements |-> NULL],
    next |-> [e \in Elements |-> NULL],
    prev |-> [e \in Elements |-> NULL],
    hh_next |-> [e \in Elements |-> NULL],
    hh_prev |-> [e \in Elements |-> NULL] ]

EmptyBucket == [hh_head |-> NULL, count |-> 0, expand_mult |-> 0]

EmptyBuckets(n) == [b \in 0..(n - 1) |-> EmptyBucket]

Init ==
  /\ hash \in [Keys -> Hashes]
  /\ key = [e \in Elements |-> NULL]
  /\ ptr = [e \in Elements |-> NULL]
  /\ table = NoTable

Links == Elements \cup {NULL}

(* What a loop visits that starts at an element and follows a pointer; it is *)
(* cut off where a list without an end would go round.                       *)
Path(first, pointer) ==
  LET after == [e \in Links |-> IF e = NULL THEN NULL ELSE pointer[e]]
      visited[i \in 1..(Cardinality(Elements) + 1)] ==
        IF i = 1 THEN first ELSE after[visited[i - 1]]
  IN  SubSeq(visited, 1, Cardinality({i \in DOMAIN visited : visited[i] # NULL}))

List(t) == Path(t.head, t.next)
Chain(t, b) == Path(t.buckets[b].hh_head, t.hh_next)

\* The mask is one less than a power of two.
HASH_TO_BKT(hashv, num_buckets) == hashv % num_buckets

-----------------------------------------------------------------------------
(* Buckets.                                                                  *)

Link_NoBackPointer(t, e, b) ==     \* a slip: the old first element is not told
  [t EXCEPT !.buckets[b] = [hh_head |-> e, count |-> @.count + 1, expand_mult |-> @.expand_mult],
            !.hh_next[e] = t.buckets[b].hh_head,
            !.hh_prev[e] = NULL]

\* Put an element in front of its chain.
Link(t, e, b) ==
  LET first == t.buckets[b].hh_head
  IN  [t EXCEPT !.buckets[b] = [hh_head |-> e, count |-> @.count + 1, expand_mult |-> @.expand_mult],
                !.hh_next[e] = first,
                !.hh_prev = [x \in Elements |->
                               CASE x = e -> NULL [] x = first -> e [] OTHER -> @[x]]]

Rehash_OldMask(t, e, ideal) ==     \* a slip: the bucket is found before num_buckets doubles
  Link(t, e, HASH_TO_BKT(t.hashv[e], t.num_buckets \div 2))

\* One round of the inner loop below; t has its new buckets already.
Rehash(t, e, ideal) ==
  LET b == HASH_TO_BKT(t.hashv[e], t.num_buckets)
      linked == Link(t, e, b)
      count == linked.buckets[b].count
      mult == t.buckets[b].expand_mult
  IN  IF count <= ideal THEN linked
      ELSE [linked EXCEPT !.nonideal_items = @ + 1,
                          !.buckets[b].expand_mult = IF count > mult * ideal THEN mult + 1 ELSE mult]

(* The inner loop of HASH_EXPAND_BUCKETS, over the chain of one old bucket.  *)
(* The code saves each handle's hh_next before it moves the handle; the      *)
(* chain as it was before the loop consists of just those pointers.          *)
RehashChain(t, chain, ideal) ==
  LET moved[i \in 0..Len(chain)] ==
        IF i = 0 THEN t ELSE Rehash(moved[i - 1], chain[i], ideal)
  IN  moved[Len(chain)]

\* The outer loop, over the old buckets, whose chains are those of old.
RehashBuckets(t, old, ideal) ==
  LET emptied[b \in 0..old.num_buckets] ==
        IF b = 0 THEN t ELSE RehashChain(emptied[b - 1], Chain(old, b - 1), ideal)
  IN  emptied[old.num_buckets]

HASH_EXPAND_BUCKETS(t) ==
  LET n == 2 * t.num_buckets
      ideal == (t.num_items \div n) + (IF t.num_items % n # 0 THEN 1 ELSE 0)
      fresh == [t EXCEPT !.buckets = EmptyBuckets(n), !.num_buckets = n, !.nonideal_items = 0]
      new == RehashBuckets(fresh, t, ideal)
      ineff == IF new.nonideal_items > new.num_items \div 2 THEN t.ineff_expands + 1 ELSE 0
  IN  [new EXCEPT !.ineff_expands = ineff, !.noexpand = @ \/ ineff > 1]

HASH_ADD_TO_BKT(t, e, b) ==
  LET linked == Link(t, e, b)
      full == (linked.buckets[b].expand_mult + 1) * HASH_BKT_CAPACITY_THRESH
  IN  IF linked.buckets[b].count >= full /\ ~t.noexpand THEN HASH_EXPAND_BUCKETS(linked)
      ELSE linked

HASH_DEL_IN_BKT(t, e, b) ==
  LET before == t.hh_prev[e]
      after == t.hh_next[e]
      first == t.buckets[b].hh_head
  IN  [t EXCEPT !.buckets[b] = [hh_head |-> IF first = e THEN after ELSE first,
                                count |-> @.count - 1, expand_mult |-> @.expand_mult],
                !.hh_next = [x \in Elements |-> IF x = before THEN after ELSE @[x]],
                !.hh_prev = [x \in Elements |-> IF x = after THEN before ELSE @[x]]]

-----------------------------------------------------------------------------
(* The table.                                                                *)

HASH_MAKE_TABLE(t, e) ==
  [t EXCEPT !.tail = e,
            !.num_buckets = HASH_INITIAL_NUM_BUCKETS,
            !.buckets = EmptyBuckets(HASH_INITIAL_NUM_BUCKETS)]

HASH_APPEND_LIST(t, e) ==
  [t EXCEPT !.next = [@ EXCEPT ![e] = NULL, ![t.tail] = e],
            !.prev[e] = t.tail,
            !.tail = e]

HASH_ADD(t, e, k) ==
  LET threaded ==
        IF t.head = NULL
        THEN [HASH_MAKE_TABLE(t, e) EXCEPT !.head = e, !.next[e] = NULL, !.prev[e] = NULL]
        ELSE HASH_APPEND_LIST(t, e)
      added == [threaded EXCEPT !.hashv[e] = hash[k], !.num_items = @ + 1]
  IN  HASH_ADD_TO_BKT(added, e, HASH_TO_BKT(hash[k], added.num_buckets))

Unthread_TailKept(t, e) ==     \* a slip: tail goes on pointing to the freed element
  LET before == t.prev[e]
      after == t.next[e]
  IN  [t EXCEPT !.head = IF before = NULL THEN after ELSE @,
                !.next = [x \in Elements |-> IF x = before THEN after ELSE @[x]],
                !.prev = [x \in Elements |-> IF x = after THEN before ELSE @[x]]]

\* The list is repaired around an element that is not alone in it.
Unthread(t, e) ==
  LET before == t.prev[e]
      after == t.next[e]
  IN  [t EXCEPT !.tail = IF @ = e THEN before ELSE @,
                !.head = IF before = NULL THEN after ELSE @,
                !.next = [x \in Elements |-> IF x = before THEN after ELSE @[x]],
                !.prev = [x \in Elements |-> IF x = after THEN before ELSE @[x]]]

HASH_DEL_CountedTwice(t, e) ==   \* a slip: the bucket and the table both count the item out
  IF t.prev[e] = NULL /\ t.next[e] = NULL THEN NoTable
  ELSE [HASH_DEL_IN_BKT(Unthread(t, e), e, HASH_TO_BKT(t.hashv[e], t.num_buckets))
          EXCEPT !.num_items = @ - 2]

HASH_DEL(t, e) ==
  IF t.prev[e] = NULL /\ t.next[e] = NULL THEN NoTable
  ELSE LET repaired == Unthread(t, e)
           b == HASH_TO_BKT(t.hashv[e], t.num_buckets)
       IN  [HASH_DEL_IN_BKT(repaired, e, b) EXCEPT !.num_items = @ - 1]

HASH_FIND(t, k) ==
  IF t.head = NULL THEN NULL
  ELSE LET chain == Chain(t, HASH_TO_BKT(hash[k], t.num_buckets))
           hits == {i \in DOMAIN chain : t.hashv[chain[i]] = hash[k] /\ key[chain[i]] = k}
       IN  IF hits = {} THEN NULL ELSE chain[Min(hits)]

-----------------------------------------------------------------------------
(* The registry.                                                             *)

registry_get(k) == HASH_FIND(table, k)

registry_put(k, p) ==
  /\ registry_get(k) = NULL
  /\ \E e \in Elements :
       /\ key[e] = NULL
       /\ key' = [key EXCEPT ![e] = k]
       /\ ptr' = [ptr EXCEPT ![e] = p]
       /\ table' = HASH_ADD(table, e, k)
       /\ table'.num_buckets <= MaxBuckets
  /\ UNCHANGED hash

\* The element's memory is gone: its handle is nobody's any more.
Freed(t, e) ==
  [t EXCEPT !.next[e] = NULL, !.prev[e] = NULL, !.hh_next[e] = NULL, !.hh_prev[e] = NULL,
            !.hashv[e] = NULL]

registry_del(k) ==
  LET e == registry_get(k)
  IN  /\ e # NULL
      /\ table' = Freed(HASH_DEL(table, e), e)
      /\ key' = [key EXCEPT ![e] = NULL]
      /\ ptr' = [ptr EXCEPT ![e] = NULL]
      /\ UNCHANGED hash

Next == \E k \in Keys : registry_del(k) \/ \E p \in Pointers : registry_put(k, p)

Spec == Init /\ [][Next]_vars

-----------------------------------------------------------------------------
(* Every counter stays a natural number, and buckets and their number agree. *)
TypeOK ==
  /\ hash \in [Keys -> Hashes]
  /\ key \in [Elements -> Keys \cup {NULL}]
  /\ ptr \in [Elements -> Pointers \cup {NULL}]
  /\ DOMAIN table = DOMAIN NoTable
  /\ {table.head, table.tail} \subseteq Links
  /\ {table.num_buckets, table.num_items, table.nonideal_items, table.ineff_expands} \subseteq Nat
  /\ table.buckets \in [0..(table.num_buckets - 1) -> [hh_head : Links, count : Nat, expand_mult : Nat]]
  /\ table.noexpand \in BOOLEAN
  /\ table.hashv \in [Elements -> Hashes \cup {NULL}]
  /\ {table.next, table.prev, table.hh_next, table.hh_prev} \subseteq [Elements -> Links]

Allocated == {e \in Elements : key[e] # NULL}

BackPointers(path, pointer) ==
  \A i \in DOMAIN path : pointer[path[i]] = IF i = 1 THEN NULL ELSE path[i - 1]

(* The check that uthash makes of itself after every call if it is compiled  *)
(* with HASH_DEBUG: back pointers, the count of every bucket, and the number *)
(* of items, along the chains and along the list.                            *)
HASH_FSCK ==
  table.head # NULL =>
    /\ \A b \in DOMAIN table.buckets :
         /\ BackPointers(Chain(table, b), table.hh_prev)
         /\ table.buckets[b].count = Len(Chain(table, b))
    /\ MapThenSumSet(LAMBDA b : Len(Chain(table, b)), DOMAIN table.buckets) = table.num_items
    /\ BackPointers(List(table), table.prev)
    /\ Len(List(table)) = table.num_items

(* The list and the chains hold the entries that are allocated, each once    *)
(* and in the bucket of its hash, and nothing that was freed; the tail, to   *)
(* which the next entry is appended, is the last of the list.                *)
ListsAgree ==
  /\ ToSet(List(table)) = Allocated
  /\ table.head # NULL => table.tail = Last(List(table))
  /\ \A b \in DOMAIN table.buckets :
       ToSet(Chain(table, b)) = {e \in Allocated : HASH_TO_BKT(hash[key[e]], table.num_buckets) = b}

Value == [e \in Links |-> IF e = NULL THEN NULL ELSE ptr[e]]

Bound == [k \in Keys |-> Value[registry_get(k)]]

Abstract == INSTANCE Map WITH bound <- Bound

(* The registry is a map, whatever the hash function: what was put under a   *)
(* key is found under it, through every expansion, and nothing else is.      *)
MapSpec == Abstract!Spec
=============================================================================
