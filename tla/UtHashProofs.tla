---------------------------- MODULE UtHashProofs ----------------------------
(***************************************************************************)
(* The hash table, for any number of keys and addresses, every hash        *)
(* function, every size of the first array of buckets and every threshold. *)
(* The pointers of the elements make up one list of all entries and one    *)
(* chain per bucket; what is proved first is what a loop along such a row  *)
(* visits, and what linking and unlinking an element makes of it.          *)
(***************************************************************************)
EXTENDS UtHash, FiniteSetTheorems, WellFoundedInduction, TLAPS

-----------------------------------------------------------------------------
(* Numbers.  The two facts stand for induction, which a set serves as well   *)
(* as a predicate.                                                           *)

LEMMA LeastNumber ==
  ASSUME NEW T, T \subseteq Nat, T # {}
  PROVE  \E x \in T : \A y \in T : x <= y
<1> DEFINE R == OpToRel(<, Nat)
<1>1. IsWellFoundedOn(R, Nat)
  BY NatLessThanWellFounded
<1> HIDE DEF R
<1>2. PICK x \in T : \A y \in T : ~(<<y, x>> \in R)
  BY <1>1, WFMin
<1>3. ASSUME NEW y \in T, y < x PROVE <<y, x>> \in R
  BY <1>3 DEF R, OpToRel
<1>4. \A y \in T : ~(y < x)
  BY <1>2, <1>3
<1>5. QED
  BY <1>4

LEMMA AllNumbers ==
  ASSUME NEW S, 0 \in S, \A n \in Nat : n \in S => n + 1 \in S
  PROVE  Nat \subseteq S
<1> SUFFICES ASSUME Nat \ S # {} PROVE FALSE
  OBVIOUS
<1>1. PICK n \in Nat \ S : \A m \in Nat \ S : n <= m
  BY LeastNumber
<1>2. n # 0 /\ n - 1 \in Nat /\ (n - 1) + 1 = n
  OBVIOUS
<1>3. n - 1 \in S
  BY <1>1, <1>2
<1>4. QED
  BY <1>2, <1>3

-----------------------------------------------------------------------------
(* Rows of elements: q holds n elements, each once, that are threaded by the *)
(* pointers next and prev and begin at first.                                *)

Row(first, next, prev, q, n) ==
  /\ n \in Nat
  /\ q \in [1..n -> Elements]
  /\ \A i, j \in 1..n : q[i] = q[j] => i = j
  /\ first = IF n = 0 THEN NULL ELSE q[1]
  /\ \A i \in 1..n : /\ next[q[i]] = IF i = n THEN NULL ELSE q[i + 1]
                     /\ prev[q[i]] = IF i = 1 THEN NULL ELSE q[i - 1]

LEMMA RowIsShort ==
  ASSUME NEW first, NEW next, NEW prev, NEW q, NEW n, Row(first, next, prev, q, n)
  PROVE  n <= Cardinality(Elements) /\ Cardinality(Elements) \in Nat
<1>1. n \in Nat /\ q \in Injection(1..n, Elements)
  BY DEF Row, Injection, IsInjective
<1>2. Cardinality(1..n) <= Cardinality(Elements)
  BY <1>1, ElementsAssumption, FS_Injection
<1>3. Cardinality(1..n) = n
  BY <1>1, FS_Interval
<1>4. QED
  BY <1>2, <1>3, ElementsAssumption, FS_CardinalityType

\* What the loop of Path visits, up to its last round, NULL and all.
Visits(first, pointer, v) ==
  v = [i \in 1..(Cardinality(Elements) + 1) |->
         IF i = 1 THEN first
         ELSE [e \in Links |-> IF e = NULL THEN NULL ELSE pointer[e]][v[i - 1]]]

LEMMA VisitsUnique ==
  ASSUME NEW first, NEW pointer, NEW v, NEW w,
         Visits(first, pointer, v), Visits(first, pointer, w)
  PROVE  v = w
<1> DEFINE N == Cardinality(Elements)
           after == [e \in Links |-> IF e = NULL THEN NULL ELSE pointer[e]]
<1>0. N \in Nat
  BY ElementsAssumption, FS_CardinalityType
<1> HIDE DEF N, after
<1>1. /\ v = [i \in 1..(N + 1) |-> IF i = 1 THEN first ELSE after[v[i - 1]]]
      /\ w = [i \in 1..(N + 1) |-> IF i = 1 THEN first ELSE after[w[i - 1]]]
  BY DEF Visits, N, after
<1>2. \A i \in 1..(N + 1) : /\ v[i] = IF i = 1 THEN first ELSE after[v[i - 1]]
                            /\ w[i] = IF i = 1 THEN first ELSE after[w[i - 1]]
  BY <1>1
<1>3. \A i \in 1..(N + 1) : v[i] = w[i]
  <2> DEFINE T == {i \in 1..(N + 1) : v[i] # w[i]}
  <2> SUFFICES ASSUME T # {} PROVE FALSE
    OBVIOUS
  <2>0. T \subseteq Nat
    BY <1>0
  <2>1. PICK i \in T : \A j \in T : i <= j
    <3> HIDE DEF T
    <3>1. QED
      BY <2>0, LeastNumber
  <2>2. i # 1
    BY <1>2, <2>1
  <2>3. i \in 1..(N + 1) /\ i - 1 \in 1..(N + 1) /\ ~(i <= i - 1)
    BY <1>0, <2>2
  <2>4. v[i - 1] = w[i - 1]
    BY <2>1, <2>3
  <2>5. QED
    BY <1>2, <2>1, <2>3, <2>4
<1>4. QED
  BY <1>1, <1>3

LEMMA RowVisits ==
  ASSUME NEW first, NEW next, NEW prev, NEW q, NEW n, Row(first, next, prev, q, n)
  PROVE  Visits(first, next,
           [i \in 1..(Cardinality(Elements) + 1) |-> IF i <= n THEN q[i] ELSE NULL])
<1> DEFINE N == Cardinality(Elements)
           after == [e \in Links |-> IF e = NULL THEN NULL ELSE next[e]]
           w == [i \in 1..(N + 1) |-> IF i <= n THEN q[i] ELSE NULL]
<1>0. n <= N /\ N \in Nat /\ n \in Nat
  <2>1. n \in Nat
    BY DEF Row
  <2>2. QED
    BY <2>1, RowIsShort
<1>1. ASSUME NEW i \in 1..(N + 1) PROVE w[i] = IF i = 1 THEN first ELSE after[w[i - 1]]
  <2>1. CASE i = 1
    BY <1>0, <2>1 DEF Row
  <2>2. CASE i # 1
    <3>1. i - 1 \in 1..(N + 1) /\ (i - 1) + 1 = i /\ i - 1 \in Nat /\ i \in Nat
      BY <1>0, <2>2
    <3>2. CASE i - 1 <= n
      <4>1. i - 1 \in 1..n
        BY <1>0, <3>1, <3>2
      <4>2. w[i - 1] = q[i - 1] /\ q[i - 1] \in Elements
        BY <3>1, <3>2, <4>1 DEF Row
      <4>3. after[w[i - 1]] = next[q[i - 1]]
        BY <4>2, NULLAssumption DEF Links
      <4>4. next[q[i - 1]] = IF i - 1 = n THEN NULL ELSE q[i]
        BY <3>1, <4>1 DEF Row
      <4>5. i <= n <=> i - 1 # n
        BY <1>0, <3>1, <3>2
      <4>6. QED
        BY <2>2, <4>3, <4>4, <4>5
    <3>3. CASE ~(i - 1 <= n)
      <4>1. w[i - 1] = NULL /\ after[NULL] = NULL
        BY <3>1, <3>3 DEF Links
      <4>2. ~(i <= n)
        BY <1>0, <3>1, <3>3
      <4>3. QED
        BY <2>2, <4>1, <4>2
    <3>4. QED
      BY <3>2, <3>3
  <2>3. QED
    BY <2>1, <2>2
<1>2. w = [i \in 1..(N + 1) |-> IF i = 1 THEN first ELSE after[w[i - 1]]]
  BY <1>1
<1>3. QED
  BY <1>2 DEF Visits

\* A loop along a row visits its elements in order, and comes to its end.
LEMMA PathOfRow ==
  ASSUME NEW first, NEW next, NEW prev, NEW q, NEW n, Row(first, next, prev, q, n)
  PROVE  Path(first, next) = q
<1> DEFINE N == Cardinality(Elements)
           w == [i \in 1..(N + 1) |-> IF i <= n THEN q[i] ELSE NULL]
           visited == CHOOSE v : Visits(first, next, v)
<1>0. n <= N /\ N \in Nat /\ n \in Nat
  <2>1. n \in Nat
    BY DEF Row
  <2>2. QED
    BY <2>1, RowIsShort
<1>1. Visits(first, next, w)
  BY RowVisits
<1>2. Visits(first, next, visited)
  BY <1>1
<1>3. visited = w
  BY <1>1, <1>2, VisitsUnique
<1>4. Path(first, next)
        = SubSeq(visited, 1, Cardinality({i \in DOMAIN visited : visited[i] # NULL}))
  BY DEF Path, Visits
<1> HIDE DEF visited
<1>5. {i \in DOMAIN w : w[i] # NULL} = 1..n
  BY <1>0, NULLAssumption DEF Row
<1>6. Cardinality(1..n) = n
  BY <1>0, FS_Interval
<1>7. w \in [1..(N + 1) -> Links] /\ \A i \in 1..n : w[i] = q[i]
  BY <1>0 DEF Row, Links
<1> HIDE DEF w
<1>8. SubSeq(w, 1, n) = [i \in 1..n |-> w[i]]
  BY <1>0, <1>7
<1>9. [i \in 1..n |-> w[i]] = q
  BY <1>7 DEF Row
<1>10. QED
  BY <1>3, <1>4, <1>5, <1>6, <1>8, <1>9
-----------------------------------------------------------------------------
(* The same for sets: the elements of E, n in number, are threaded into one  *)
(* row from first to last.                                                   *)

LastOf(q, n) == IF n = 0 THEN NULL ELSE q[n]

Threaded(first, last, next, prev, E, n) ==
  \E q : /\ Row(first, next, prev, q, n)
         /\ last = LastOf(q, n)
         /\ E = {q[i] : i \in 1..n}

LEMMA NoneThreaded ==
  ASSUME NEW next, NEW prev
  PROVE  Threaded(NULL, NULL, next, prev, {}, 0)
<1> DEFINE q == [i \in 1..0 |-> NULL]
<1>1. Row(NULL, next, prev, q, 0)
  BY DEF Row
<1>2. {} = {q[i] : i \in 1..0} /\ NULL = LastOf(q, 0)
  BY DEF LastOf
<1> HIDE DEF q
<1>3. QED
  BY <1>1, <1>2 DEF Threaded

\* Pointers of other elements do not matter.
LEMMA ThreadedFrame ==
  ASSUME NEW first, NEW last, NEW next, NEW prev, NEW E, NEW n,
         Threaded(first, last, next, prev, E, n),
         NEW next2, NEW prev2,
         \A x \in E : next2[x] = next[x] /\ prev2[x] = prev[x]
  PROVE  Threaded(first, last, next2, prev2, E, n)
<1>1. PICK q : /\ Row(first, next, prev, q, n)
               /\ last = LastOf(q, n)
               /\ E = {q[i] : i \in 1..n}
  BY DEF Threaded
<1>2. Row(first, next2, prev2, q, n)
  BY <1>1 DEF Row
<1>3. QED
  BY <1>1, <1>2 DEF Threaded

\* The first element of a row, and where its last one is.
LEMMA ThreadedEnds ==
  ASSUME NEW first, NEW last, NEW next, NEW prev, NEW E, NEW n,
         Threaded(first, last, next, prev, E, n)
  PROVE  /\ n \in Nat /\ E \subseteq Elements
         /\ first = NULL <=> n = 0
         /\ E = {} <=> n = 0
         /\ n # 0 => first \in E /\ last \in E
         /\ n = 0 => last = NULL
         /\ \A e \in E : /\ prev[e] \in E \cup {NULL} /\ next[e] \in E \cup {NULL}
                         /\ prev[e] = NULL <=> first = e
                         /\ next[e] = NULL <=> last = e
<1>1. PICK q : /\ Row(first, next, prev, q, n)
               /\ last = LastOf(q, n)
               /\ E = {q[i] : i \in 1..n}
  BY DEF Threaded
<1>2. /\ n \in Nat /\ \A i \in 1..n : q[i] \in E /\ q[i] \in Elements /\ q[i] # NULL
      /\ \A i, j \in 1..n : q[i] = q[j] => i = j
      /\ first = IF n = 0 THEN NULL ELSE q[1]
      /\ \A i \in 1..n : /\ next[q[i]] = IF i = n THEN NULL ELSE q[i + 1]
                         /\ prev[q[i]] = IF i = 1 THEN NULL ELSE q[i - 1]
  BY <1>1, NULLAssumption DEF Row
<1>3. n # 0 => 1 \in 1..n /\ n \in 1..n
  BY <1>2
<1>4. n = 0 => 1..n = {}
  BY <1>2
<1>5. ASSUME NEW i \in 1..n
      PROVE  /\ prev[q[i]] \in E \cup {NULL} /\ next[q[i]] \in E \cup {NULL}
             /\ prev[q[i]] = NULL <=> first = q[i]
             /\ next[q[i]] = NULL <=> last = q[i]
  <2>1. n # 0 /\ first = q[1] /\ last = q[n] /\ 1 \in 1..n /\ n \in 1..n
    BY <1>1, <1>2, <1>3, <1>4 DEF LastOf
  <2>2. CASE i = 1
    <3>1. i # n => i + 1 \in 1..n
      BY <1>2, <2>1
    <3>2. QED
      BY <1>2, <2>1, <2>2, <3>1
  <2>3. CASE i # 1
    <3>1. (i # n => i + 1 \in 1..n) /\ i - 1 \in 1..n
      BY <1>2, <2>1, <2>3
    <3>2. QED
      BY <1>2, <2>1, <2>3, <3>1
  <2>4. QED
    BY <2>2, <2>3
<1>6. \A e \in E : \E i \in 1..n : e = q[i]
  BY <1>1
<1>7. E \subseteq Elements
  BY <1>2, <1>6
<1>8. (E = {} <=> n = 0) /\ (n # 0 => first \in E /\ last \in E) /\ (n = 0 => last = NULL)
  BY <1>1, <1>2, <1>3, <1>4, <1>6 DEF LastOf
<1>9. first = NULL <=> n = 0
  BY <1>2, <1>3
<1>10. QED
  BY <1>2, <1>5, <1>6, <1>7, <1>8, <1>9

\* A new element in front of a row.
LEMMA ThreadedPush ==
  ASSUME NEW first, NEW last, NEW next, NEW prev, NEW E, NEW n,
         Threaded(first, last, next, prev, E, n),
         NEW e \in Elements \ E, NEW next2, NEW prev2,
         next2[e] = first, prev2[e] = NULL,
         \A x \in E : next2[x] = next[x] /\ prev2[x] = IF x = first THEN e ELSE prev[x]
  PROVE  Threaded(e, IF n = 0 THEN e ELSE last, next2, prev2, E \cup {e}, n + 1)
<1>1. PICK q : /\ Row(first, next, prev, q, n)
               /\ last = LastOf(q, n)
               /\ E = {q[i] : i \in 1..n}
  BY DEF Threaded
<1>2. /\ n \in Nat /\ q \in [1..n -> Elements] /\ \A i \in 1..n : q[i] \in E
      /\ \A i, j \in 1..n : q[i] = q[j] => i = j
      /\ first = IF n = 0 THEN NULL ELSE q[1]
      /\ \A i \in 1..n : /\ next[q[i]] = IF i = n THEN NULL ELSE q[i + 1]
                         /\ prev[q[i]] = IF i = 1 THEN NULL ELSE q[i - 1]
  BY <1>1 DEF Row
<1> DEFINE r == [i \in 1..(n + 1) |-> IF i = 1 THEN e ELSE q[i - 1]]
<1>3. \A i \in 1..(n + 1) : i = 1 \/ (i # 1 /\ i - 1 \in 1..n /\ i \in Nat)
  BY <1>2
<1>4. r \in [1..(n + 1) -> Elements]
  BY <1>2, <1>3
<1>5. /\ r[1] = e
      /\ \A i \in 1..n : i + 1 \in 1..(n + 1) /\ i + 1 # 1 /\ r[i + 1] = q[i]
  BY <1>2
<1>6. \A i \in 1..(n + 1) : i # 1 => r[i] = q[i - 1] /\ q[i - 1] \in E /\ r[i] # e
  BY <1>2, <1>3
<1> HIDE DEF r
<1>7. \A i, j \in 1..(n + 1) : r[i] = r[j] => i = j
  <2> SUFFICES ASSUME NEW i \in 1..(n + 1), NEW j \in 1..(n + 1), r[i] = r[j] PROVE i = j
    OBVIOUS
  <2>1. CASE i = 1 \/ j = 1
    BY <1>5, <1>6, <2>1
  <2>2. CASE i # 1 /\ j # 1
    <3>1. q[i - 1] = q[j - 1] /\ i - 1 \in 1..n /\ j - 1 \in 1..n
      BY <1>3, <1>6, <2>2
    <3>2. i - 1 = j - 1
      BY <1>2, <3>1
    <3>3. QED
      BY <1>2, <3>2
  <2>3. QED
    BY <2>1, <2>2
<1>8. ASSUME NEW i \in 1..(n + 1)
      PROVE  /\ next2[r[i]] = IF i = n + 1 THEN NULL ELSE r[i + 1]
             /\ prev2[r[i]] = IF i = 1 THEN NULL ELSE r[i - 1]
  <2>1. CASE i = 1
    <3>1. CASE n = 0
      BY <1>2, <1>5, <2>1, <3>1
    <3>2. CASE n # 0
      <4>1. 1 \in 1..n /\ 1 # n + 1
        BY <1>2, <3>2
      <4>2. r[1 + 1] = q[1]
        BY <1>5, <4>1
      <4>3. QED
        BY <1>2, <1>5, <2>1, <3>2, <4>1, <4>2
    <3>3. QED
      BY <3>1, <3>2
  <2>2. CASE i # 1
    <3>1. i - 1 \in 1..n /\ (i - 1) + 1 = i /\ i \in Nat /\ n # 0
      BY <1>2, <1>3, <2>2
    <3>2. r[i] = q[i - 1] /\ q[i - 1] \in E
      BY <1>6, <2>2
    <3>3. next2[r[i]] = IF i - 1 = n THEN NULL ELSE q[i]
      BY <1>2, <3>1, <3>2
    <3>4. i # n + 1 => i \in 1..n /\ i - 1 # n
      BY <1>2, <3>1
    <3>5. i # n + 1 => r[i + 1] = q[i]
      BY <1>5, <3>4
    <3>6. i = n + 1 => i - 1 = n
      BY <1>2
    <3>7. prev2[r[i]] = r[i - 1]
      <4>1. CASE i = 2
        <5>1. q[i - 1] = first /\ i - 1 = 1
          BY <1>2, <3>1, <4>1
        <5>2. QED
          BY <1>5, <3>2, <5>1
      <4>2. CASE i # 2
        <5>1. i - 1 # 1 /\ 1 \in 1..n /\ (i - 1) - 1 = i - 2 /\ i - 2 \in 1..n /\ (i - 2) + 1 = i - 1
          BY <1>2, <2>2, <3>1, <4>2
        <5>2. q[i - 1] # first
          BY <1>2, <3>1, <5>1
        <5>3. prev2[r[i]] = q[i - 2]
          BY <1>2, <3>1, <3>2, <5>1, <5>2
        <5>4. r[i - 1] = q[i - 2]
          BY <1>5, <5>1
        <5>5. QED
          BY <5>3, <5>4
      <4>3. QED
        BY <4>1, <4>2
    <3>8. QED
      BY <2>2, <3>3, <3>4, <3>5, <3>6, <3>7
  <2>3. QED
    BY <2>1, <2>2
<1>9. Row(e, next2, prev2, r, n + 1)
  BY <1>2, <1>4, <1>5, <1>7, <1>8 DEF Row
<1>10. E \cup {e} = {r[i] : i \in 1..(n + 1)}
  <2>1. \A i \in 1..(n + 1) : r[i] \in E \cup {e}
    BY <1>5, <1>6
  <2>2. 1 \in 1..(n + 1) /\ \A i \in 1..n : i + 1 \in 1..(n + 1) /\ r[i + 1] = q[i]
    BY <1>2, <1>5
  <2>3. \A x \in E \cup {e} : \E i \in 1..(n + 1) : x = r[i]
    BY <1>1, <1>5, <2>2
  <2>4. QED
    BY <2>1, <2>3
<1>11. (IF n = 0 THEN e ELSE last) = LastOf(r, n + 1)
  <2>1. n # 0 => n \in 1..n /\ n + 1 # 0
    BY <1>2
  <2>2. QED
    BY <1>1, <1>2, <1>5, <2>1 DEF LastOf
<1>12. QED
  BY <1>9, <1>10, <1>11 DEF Threaded

\* A new element behind a row that is not empty.
LEMMA ThreadedAppend ==
  ASSUME NEW first, NEW last, NEW next, NEW prev, NEW E, NEW n,
         Threaded(first, last, next, prev, E, n), n # 0,
         NEW e \in Elements \ E, NEW next2, NEW prev2,
         next2[e] = NULL, prev2[e] = last,
         \A x \in E : next2[x] = (IF x = last THEN e ELSE next[x]) /\ prev2[x] = prev[x]
  PROVE  Threaded(first, e, next2, prev2, E \cup {e}, n + 1)
<1>1. PICK q : /\ Row(first, next, prev, q, n)
               /\ last = LastOf(q, n)
               /\ E = {q[i] : i \in 1..n}
  BY DEF Threaded
<1>2. /\ n \in Nat /\ q \in [1..n -> Elements] /\ \A i \in 1..n : q[i] \in E
      /\ \A i, j \in 1..n : q[i] = q[j] => i = j
      /\ first = q[1] /\ last = q[n]
      /\ \A i \in 1..n : /\ next[q[i]] = IF i = n THEN NULL ELSE q[i + 1]
                         /\ prev[q[i]] = IF i = 1 THEN NULL ELSE q[i - 1]
  BY <1>1 DEF Row, LastOf
<1> DEFINE r == [i \in 1..(n + 1) |-> IF i = n + 1 THEN e ELSE q[i]]
<1>3. /\ \A i \in 1..(n + 1) : i = n + 1 \/ (i # n + 1 /\ i \in 1..n)
      /\ \A i \in 1..n : i \in 1..(n + 1) /\ i # n + 1
      /\ n + 1 \in 1..(n + 1) /\ n \in 1..n /\ 1 \in 1..n
  BY <1>2
<1>4. r \in [1..(n + 1) -> Elements]
  BY <1>2, <1>3
<1>5. r[n + 1] = e /\ \A i \in 1..n : r[i] = q[i]
  BY <1>3
<1> HIDE DEF r
<1>6. \A i, j \in 1..(n + 1) : r[i] = r[j] => i = j
  BY <1>2, <1>3, <1>5
<1>7. ASSUME NEW i \in 1..(n + 1)
      PROVE  /\ next2[r[i]] = IF i = n + 1 THEN NULL ELSE r[i + 1]
             /\ prev2[r[i]] = IF i = 1 THEN NULL ELSE r[i - 1]
  <2>1. CASE i = n + 1
    <3>1. i # 1 /\ i - 1 = n
      BY <1>2, <2>1
    <3>2. r[i - 1] = last
      BY <1>2, <1>3, <1>5, <3>1
    <3>3. QED
      BY <1>5, <2>1, <3>1, <3>2
  <2>2. CASE i # n + 1
    <3>1. i \in 1..n /\ r[i] = q[i] /\ q[i] \in E
      BY <1>2, <1>3, <1>5, <2>2
    <3>2. next2[r[i]] = r[i + 1]
      <4>1. CASE i = n
        BY <1>2, <1>5, <3>1, <4>1
      <4>2. CASE i # n
        <5>1. i + 1 \in 1..n
          BY <1>2, <3>1, <4>2
        <5>2. q[i] # last
          BY <1>2, <1>3, <3>1, <4>2
        <5>3. QED
          BY <1>2, <1>5, <3>1, <4>2, <5>1, <5>2
      <4>3. QED
        BY <4>1, <4>2
    <3>3. prev2[r[i]] = IF i = 1 THEN NULL ELSE r[i - 1]
      <4>1. i # 1 => i - 1 \in 1..n
        BY <1>2, <3>1
      <4>2. QED
        BY <1>2, <1>5, <3>1, <4>1
    <3>4. QED
      BY <2>2, <3>2, <3>3
  <2>3. QED
    BY <2>1, <2>2
<1>8. n + 1 \in Nat /\ n + 1 # 0 /\ first = r[1]
  BY <1>2, <1>3, <1>5
<1>9. Row(first, next2, prev2, r, n + 1)
  BY <1>4, <1>6, <1>7, <1>8 DEF Row
<1>10. E \cup {e} = {r[i] : i \in 1..(n + 1)}
  <2>1. \A i \in 1..(n + 1) : r[i] \in E \cup {e}
    BY <1>2, <1>3, <1>5
  <2>2. \A x \in E \cup {e} : \E i \in 1..(n + 1) : x = r[i]
    BY <1>1, <1>3, <1>5
  <2>3. QED
    BY <2>1, <2>2
<1>11. e = LastOf(r, n + 1)
  BY <1>5, <1>8 DEF LastOf
<1>12. QED
  BY <1>9, <1>10, <1>11 DEF Threaded

\* Its neighbours point past e.
Skipped(e, E, next, prev, next2, prev2) ==
  \A x \in E \ {e} : /\ next2[x] = IF x = prev[e] THEN next[e] ELSE next[x]
                     /\ prev2[x] = IF x = next[e] THEN prev[e] ELSE prev[x]

\* An element is taken out of its row, wherever it stands.
LEMMA ThreadedRemove ==
  ASSUME NEW first, NEW last, NEW next, NEW prev, NEW E, NEW n,
         Threaded(first, last, next, prev, E, n),
         NEW e \in E, NEW next2, NEW prev2, Skipped(e, E, next, prev, next2, prev2),
         NEW first2, first2 = IF first = e THEN next[e] ELSE first,
         NEW last2, last2 = IF last = e THEN prev[e] ELSE last,
         NEW rest, rest = E \ {e}, NEW m, m = n - 1
  PROVE  n # 0 /\ Threaded(first2, last2, next2, prev2, rest, m)
<1>1. PICK q : /\ Row(first, next, prev, q, n)
               /\ last = LastOf(q, n)
               /\ E = {q[i] : i \in 1..n}
  BY DEF Threaded
<1>2. PICK k \in 1..n : q[k] = e
  BY <1>1
<1>3. n \in Nat /\ n # 0 /\ k \in Nat /\ 1 <= k /\ k <= n /\ 1 \in 1..n /\ n \in 1..n
  BY <1>1, <1>2 DEF Row
<1>4. /\ q \in [1..n -> Elements] /\ \A i \in 1..n : q[i] \in E /\ q[i] # NULL
      /\ \A i, j \in 1..n : q[i] = q[j] => i = j
      /\ first = q[1] /\ last = q[n]
      /\ \A i \in 1..n : /\ next[q[i]] = IF i = n THEN NULL ELSE q[i + 1]
                         /\ prev[q[i]] = IF i = 1 THEN NULL ELSE q[i - 1]
  BY <1>1, <1>3, NULLAssumption DEF Row, LastOf
<1>0. \A x \in E \ {e} : /\ next2[x] = IF x = prev[e] THEN next[e] ELSE next[x]
                         /\ prev2[x] = IF x = next[e] THEN prev[e] ELSE prev[x]
  BY DEF Skipped
<1> DEFINE r == [i \in 1..m |-> IF i < k THEN q[i] ELSE q[i + 1]]
<1>5. m \in Nat /\ m = n - 1
  BY <1>3
<1>6. \A i \in 1..m : i \in 1..n /\ i + 1 \in 1..n /\ i \in Nat /\ i # i + 1
  BY <1>3, <1>5
<1>7. \A i \in 1..m : (i < k => r[i] = q[i]) /\ (~(i < k) => r[i] = q[i + 1])
  OBVIOUS
<1>8. r \in [1..m -> Elements]
  BY <1>4, <1>6
<1> HIDE DEF r
<1>9. \A i \in 1..m : r[i] \in E \ {e}
  <2> SUFFICES ASSUME NEW i \in 1..m PROVE r[i] \in E \ {e}
    OBVIOUS
  <2>1. CASE i < k
    <3>1. i # k
      BY <1>3, <1>6, <2>1
    <3>2. QED
      BY <1>2, <1>4, <1>6, <1>7, <2>1, <3>1
  <2>2. CASE ~(i < k)
    <3>1. i + 1 # k
      BY <1>3, <1>6, <2>2
    <3>2. QED
      BY <1>2, <1>4, <1>6, <1>7, <2>2, <3>1
  <2>3. QED
    BY <2>1, <2>2
<1>10. \A i, j \in 1..m : r[i] = r[j] => i = j
  <2> SUFFICES ASSUME NEW i \in 1..m, NEW j \in 1..m, r[i] = r[j] PROVE i = j
    OBVIOUS
  <2>1. CASE i < k /\ j < k
    BY <1>4, <1>6, <1>7, <2>1
  <2>2. CASE i < k /\ ~(j < k)
    <3>1. i = j + 1
      BY <1>4, <1>6, <1>7, <2>2
    <3>2. QED
      BY <1>3, <1>6, <2>2, <3>1
  <2>3. CASE ~(i < k) /\ j < k
    <3>1. j = i + 1
      BY <1>4, <1>6, <1>7, <2>3
    <3>2. QED
      BY <1>3, <1>6, <2>3, <3>1
  <2>4. CASE ~(i < k) /\ ~(j < k)
    <3>1. i + 1 = j + 1
      BY <1>4, <1>6, <1>7, <2>4
    <3>2. QED
      BY <1>6, <3>1
  <2>5. QED
    BY <2>1, <2>2, <2>3, <2>4
<1>11. prev[e] = (IF k = 1 THEN NULL ELSE q[k - 1]) /\ next[e] = IF k = n THEN NULL ELSE q[k + 1]
  BY <1>2, <1>4
<1>12. ASSUME NEW i \in 1..m PROVE next2[r[i]] = IF i = m THEN NULL ELSE r[i + 1]
  <2>0. i \in Nat /\ 1 <= i /\ i <= m /\ (i # m => i + 1 \in 1..m)
    BY <1>5
  <2>1. CASE i + 1 < k
    <3>1. i < k /\ i + 1 \in 1..m /\ i # m /\ k - 1 \in 1..n /\ i # k - 1 /\ i # n /\ k # 1
      BY <1>3, <1>5, <2>0, <2>1
    <3>2. r[i] = q[i] /\ r[i + 1] = q[i + 1] /\ q[i] # prev[e]
      BY <1>4, <1>6, <1>7, <1>11, <2>1, <3>1
    <3>3. QED
      BY <1>4, <1>6, <1>0, <1>9, <3>1, <3>2
  <2>2. CASE i + 1 = k
    <3>1. i < k /\ k # 1 /\ i = k - 1 /\ (i = m <=> k = n) /\ (i # m => ~(i + 1 < k))
      BY <1>3, <1>5, <2>0, <2>2
    <3>2. r[i] = prev[e]
      BY <1>7, <1>11, <3>1
    <3>3. next2[r[i]] = next[e]
      BY <1>0, <1>9, <3>2
    <3>4. i # m => r[i + 1] = q[k + 1]
      BY <1>7, <2>0, <2>2, <3>1
    <3>5. QED
      BY <1>11, <3>1, <3>3, <3>4
  <2>3. CASE ~(i + 1 < k) /\ i + 1 # k
    <3>1. /\ ~(i < k) /\ (i + 1 = n <=> i = m) /\ (k # 1 => k - 1 \in 1..n /\ i + 1 # k - 1)
          /\ (i # m => ~(i + 1 < k)) /\ (i + 1) + 1 = i + 2
      BY <1>3, <1>5, <2>0, <2>3
    <3>2. r[i] = q[i + 1] /\ q[i + 1] # prev[e]
      BY <1>4, <1>6, <1>7, <1>11, <3>1
    <3>3. next2[r[i]] = IF i = m THEN NULL ELSE q[i + 2]
      BY <1>4, <1>6, <1>0, <1>9, <3>1, <3>2
    <3>4. i # m => r[i + 1] = q[i + 2]
      BY <1>7, <2>0, <3>1
    <3>5. QED
      BY <3>3, <3>4
  <2>4. QED
    BY <2>1, <2>2, <2>3
<1>13. ASSUME NEW i \in 1..m PROVE prev2[r[i]] = IF i = 1 THEN NULL ELSE r[i - 1]
  <2>0. i \in Nat /\ 1 <= i /\ i <= m /\ (i # 1 => i - 1 \in 1..m /\ (i - 1) + 1 = i)
    BY <1>5
  <2>1. CASE i < k
    <3>1. i - 1 < k /\ (k # n => k + 1 \in 1..n /\ i # k + 1)
      BY <1>3, <2>0, <2>1
    <3>2. r[i] = q[i] /\ q[i] # next[e] /\ (i # 1 => r[i - 1] = q[i - 1])
      BY <1>4, <1>6, <1>7, <1>11, <2>0, <2>1, <3>1
    <3>3. QED
      BY <1>4, <1>6, <1>0, <1>9, <3>2
  <2>2. CASE i = k
    <3>1. ~(i < k) /\ k # n /\ i - 1 < k
      BY <1>3, <1>5, <2>0, <2>2
    <3>2. r[i] = next[e]
      BY <1>7, <1>11, <2>2, <3>1
    <3>3. prev2[r[i]] = prev[e]
      BY <1>0, <1>9, <3>2
    <3>4. i # 1 => r[i - 1] = q[k - 1]
      BY <1>7, <2>0, <2>2, <3>1
    <3>5. QED
      BY <1>11, <2>2, <3>3, <3>4
  <2>3. CASE ~(i < k) /\ i # k
    <3>1. /\ ~(i - 1 < k) /\ i # 1 /\ i + 1 # 1 /\ (i + 1) - 1 = i
          /\ (k # n => k + 1 \in 1..n /\ i + 1 # k + 1)
      BY <1>3, <2>0, <2>3
    <3>2. r[i] = q[i + 1] /\ q[i + 1] # next[e] /\ r[i - 1] = q[i]
      BY <1>4, <1>6, <1>7, <1>11, <2>0, <2>3, <3>1
    <3>3. QED
      BY <1>4, <1>6, <1>0, <1>9, <3>1, <3>2
  <2>4. QED
    BY <2>1, <2>2, <2>3
<1>14. (IF first = e THEN next[e] ELSE first) = IF m = 0 THEN NULL ELSE r[1]
  <2>1. first = e <=> k = 1
    BY <1>2, <1>3, <1>4
  <2>2. m # 0 => 1 \in 1..m
    BY <1>3, <1>5
  <2>3. (m = 0 <=> n = 1) /\ (m = 0 => k = 1) /\ (1 < k <=> k # 1)
    BY <1>3, <1>5
  <2>4. QED
    BY <1>4, <1>7, <1>11, <2>1, <2>2, <2>3
<1>15. (IF last = e THEN prev[e] ELSE last) = LastOf(r, m)
  <2>1. last = e <=> k = n
    BY <1>2, <1>3, <1>4
  <2>2. m # 0 => m \in 1..m
    BY <1>3, <1>5
  <2>3. /\ (m = 0 <=> n = 1) /\ (m = 0 => k = 1 /\ k = n) /\ (m < k <=> k = n) /\ m = n - 1
        /\ m + 1 = n
    BY <1>3, <1>5
  <2>4. QED
    BY <1>4, <1>7, <1>11, <2>1, <2>2, <2>3 DEF LastOf
<1>16. E \ {e} = {r[i] : i \in 1..m}
  <2>1. ASSUME NEW j \in 1..n, j # k PROVE \E i \in 1..m : q[j] = r[i]
    <3>1. CASE j < k
      <4>1. j \in 1..m
        BY <1>3, <1>5, <3>1
      <4>2. QED
        BY <1>7, <3>1, <4>1
    <3>2. CASE ~(j < k)
      <4>1. j - 1 \in 1..m /\ ~(j - 1 < k) /\ (j - 1) + 1 = j
        BY <1>3, <1>5, <2>1, <3>2
      <4>2. QED
        BY <1>7, <4>1
    <3>3. QED
      BY <3>1, <3>2
  <2>2. \A x \in E \ {e} : \E i \in 1..m : x = r[i]
    BY <1>1, <1>2, <2>1
  <2>3. QED
    BY <1>9, <2>2
<1>17. Row(first2, next2, prev2, r, m)
  BY <1>5, <1>8, <1>10, <1>12, <1>13, <1>14 DEF Row
<1>18. Threaded(first2, last2, next2, prev2, rest, m)
  <2>1. last2 = LastOf(r, m)
    BY <1>15
  <2>2. QED
    BY <1>16, <1>17, <2>1 DEF Threaded
<1>19. QED
  BY <1>3, <1>5, <1>18

\* What a loop along a row visits, for sets.
LEMMA ThreadedPath ==
  ASSUME NEW first, NEW last, NEW next, NEW prev, NEW E, NEW n,
         Threaded(first, last, next, prev, E, n)
  PROVE  /\ Path(first, next) \in [1..n -> Elements] /\ n \in Nat
         /\ Len(Path(first, next)) = n
         /\ ToSet(Path(first, next)) = E
         /\ {Path(first, next)[i] : i \in 1..n} = E
         /\ \A i, j \in 1..n : Path(first, next)[i] = Path(first, next)[j] => i = j
         /\ BackPointers(Path(first, next), prev)
         /\ n # 0 => last = Last(Path(first, next))
         /\ IsFiniteSet(E) /\ Cardinality(E) = n
<1>1. PICK q : /\ Row(first, next, prev, q, n)
               /\ last = LastOf(q, n)
               /\ E = {q[i] : i \in 1..n}
  BY DEF Threaded
<1>2. Path(first, next) = q
  BY <1>1, PathOfRow
<1>3. n \in Nat /\ q \in [1..n -> Elements] /\ \A i, j \in 1..n : q[i] = q[j] => i = j
  BY <1>1 DEF Row
<1>4. q \in Seq(Elements) /\ Len(q) = n /\ DOMAIN q = 1..n
  BY <1>3
<1>5. ToSet(q) = E
  BY <1>1, <1>4 DEF ToSet
<1>6. BackPointers(q, prev)
  BY <1>1, <1>4 DEF BackPointers, Row
<1>7. n # 0 => last = Last(q)
  BY <1>1, <1>4 DEF Last, LastOf
<1>8. IsFiniteSet(E) /\ Cardinality(E) = n
  <2>1. q \in Bijection(1..n, E)
    BY <1>1, <1>3 DEF Bijection, Injection, Surjection, IsInjective
  <2>2. IsFiniteSet(1..n) /\ Cardinality(1..n) = n
    BY <1>3, FS_Interval
  <2>3. QED
    BY <2>1, <2>2, FS_Bijection DEF ExistsBijection
<1>9. QED
  BY <1>1, <1>2, <1>3, <1>4, <1>5, <1>6, <1>7, <1>8

-----------------------------------------------------------------------------
(* Tables.  Shape is what TypeOK says of one.                                *)

Bucket == [hh_head : Links, count : Nat, expand_mult : Nat]

Shape(t) ==
  /\ DOMAIN t = DOMAIN NoTable
  /\ {t.head, t.tail} \subseteq Links
  /\ {t.num_buckets, t.num_items, t.nonideal_items, t.ineff_expands} \subseteq Nat
  /\ t.buckets \in [0..(t.num_buckets - 1) -> Bucket]
  /\ t.noexpand \in BOOLEAN
  /\ t.hashv \in [Elements -> Hashes \cup {NULL}]
  /\ {t.next, t.prev, t.hh_next, t.hh_prev} \subseteq [Elements -> Links]

\* What work on the buckets leaves alone, and what only their doubling changes.
Rest(t) == <<t.head, t.tail, t.num_items, t.hashv, t.next, t.prev>>
Sizes(t) == <<t.num_buckets, t.ineff_expands, t.noexpand>>

LEMMA LinkFields ==
  ASSUME NEW t, Shape(t), NEW e \in Elements, NEW b \in DOMAIN t.buckets,
         t.buckets[b].hh_head # e, NEW u, u = Link(t, e, b)
  PROVE  /\ Shape(u)
         /\ Rest(u) = Rest(t) /\ Sizes(u) = Sizes(t)
         /\ DOMAIN u.buckets = DOMAIN t.buckets
         /\ \A c \in DOMAIN t.buckets \ {b} : u.buckets[c] = t.buckets[c]
         /\ u.buckets[b].hh_head = e
         /\ u.buckets[b].count = t.buckets[b].count + 1
         /\ u.hh_next[e] = t.buckets[b].hh_head
         /\ u.hh_prev[e] = NULL
         /\ \A x \in Elements \ {e} :
              /\ u.hh_next[x] = t.hh_next[x]
              /\ u.hh_prev[x] = IF x = t.buckets[b].hh_head THEN e ELSE t.hh_prev[x]
<1> DEFINE first == t.buckets[b].hh_head
           bucket == [hh_head |-> e, count |-> t.buckets[b].count + 1,
                      expand_mult |-> t.buckets[b].expand_mult]
           nexts == [t.hh_next EXCEPT ![e] = first]
           prevs == [x \in Elements |->
                       CASE x = e -> NULL [] x = first -> e [] OTHER -> t.hh_prev[x]]
<1>0. DOMAIN t = {"head", "tail", "buckets", "num_buckets", "num_items", "nonideal_items",
                  "ineff_expands", "noexpand", "hashv", "next", "prev", "hh_next", "hh_prev"}
  BY DEF Shape, NoTable
<1>1. /\ u.buckets = [t.buckets EXCEPT ![b] = bucket]
      /\ u.hh_next = nexts
      /\ u.hh_prev = prevs
      /\ u.head = t.head /\ u.tail = t.tail /\ u.num_buckets = t.num_buckets
      /\ u.num_items = t.num_items /\ u.nonideal_items = t.nonideal_items
      /\ u.ineff_expands = t.ineff_expands /\ u.noexpand = t.noexpand
      /\ u.hashv = t.hashv /\ u.next = t.next /\ u.prev = t.prev
      /\ DOMAIN u = DOMAIN t
  BY <1>0 DEF Link
<1>2. t.buckets \in [0..(t.num_buckets - 1) -> Bucket] /\ t.buckets[b] \in Bucket
  BY DEF Shape
<1>3. bucket \in Bucket /\ bucket.hh_head = e /\ bucket.count = t.buckets[b].count + 1
  BY <1>2 DEF Bucket, Links
<1>4. nexts \in [Elements -> Links] /\ nexts[e] = first /\ \A x \in Elements \ {e} : nexts[x] = t.hh_next[x]
  BY <1>2 DEF Shape, Bucket
<1>5. prevs \in [Elements -> Links] /\ prevs[e] = NULL
      /\ \A x \in Elements \ {e} : prevs[x] = IF x = first THEN e ELSE t.hh_prev[x]
  BY DEF Shape, Links
<1> HIDE DEF bucket, nexts, prevs
<1>6. /\ u.buckets \in [0..(t.num_buckets - 1) -> Bucket]
      /\ DOMAIN u.buckets = DOMAIN t.buckets /\ u.buckets[b] = bucket
      /\ \A c \in DOMAIN t.buckets \ {b} : u.buckets[c] = t.buckets[c]
  BY <1>1, <1>2, <1>3
<1>7. Shape(u)
  BY <1>1, <1>4, <1>5, <1>6 DEF Shape
<1>8. QED
  BY <1>1, <1>3, <1>4, <1>5, <1>6, <1>7 DEF Rest, Sizes

-----------------------------------------------------------------------------
(* The buckets of t hold the elements of E, each in the chain of its hash.   *)

Members(t, E, b) == {e \in E : HASH_TO_BKT(t.hashv[e], t.num_buckets) = b}

Chained(t, E, b) ==
  \E last : Threaded(t.buckets[b].hh_head, last, t.hh_next, t.hh_prev,
                     Members(t, E, b), t.buckets[b].count)

Shelved(t, E) ==
  /\ Shape(t)
  /\ \A e \in E : e \in Elements /\ t.hashv[e] \in Hashes
  /\ \A b \in DOMAIN t.buckets : Chained(t, E, b)

LEMMA InABucket ==
  ASSUME NEW t, Shape(t), t.num_buckets # 0, NEW h \in Hashes
  PROVE  HASH_TO_BKT(h, t.num_buckets) \in DOMAIN t.buckets
<1>1. h \in Nat /\ t.num_buckets \in Nat \ {0} /\ DOMAIN t.buckets = 0..(t.num_buckets - 1)
  BY HashesAssumption DEF Shape
<1>2. h % t.num_buckets \in 0..(t.num_buckets - 1)
  BY <1>1
<1>3. QED
  BY <1>1, <1>2 DEF HASH_TO_BKT

\* Only the chains matter, and the fields of the elements in them.
LEMMA ShelvedFrame ==
  ASSUME NEW t, NEW E, Shelved(t, E), NEW u, Shape(u), u.num_buckets = t.num_buckets,
         \A x \in E : /\ u.hashv[x] = t.hashv[x]
                     /\ u.hh_next[x] = t.hh_next[x]
                     /\ u.hh_prev[x] = t.hh_prev[x],
         \A b \in DOMAIN t.buckets : /\ u.buckets[b].hh_head = t.buckets[b].hh_head
                                     /\ u.buckets[b].count = t.buckets[b].count
  PROVE  Shelved(u, E)
<1>1. DOMAIN u.buckets = DOMAIN t.buckets
  BY DEF Shelved, Shape
<1>2. ASSUME NEW b \in DOMAIN u.buckets PROVE Chained(u, E, b)
  <2>1. Members(u, E, b) = Members(t, E, b)
    BY DEF Members
  <2>2. PICK last : Threaded(t.buckets[b].hh_head, last, t.hh_next, t.hh_prev,
                             Members(t, E, b), t.buckets[b].count)
    BY <1>1 DEF Shelved, Chained
  <2>3. \A x \in Members(t, E, b) : u.hh_next[x] = t.hh_next[x] /\ u.hh_prev[x] = t.hh_prev[x]
    BY DEF Members
  <2>4. Threaded(t.buckets[b].hh_head, last, u.hh_next, u.hh_prev,
                 Members(t, E, b), t.buckets[b].count)
    BY <2>2, <2>3, ThreadedFrame
  <2>5. QED
    BY <1>1, <2>1, <2>4 DEF Chained
<1>3. QED
  BY <1>2 DEF Shelved

LEMMA LinkShelves ==
  ASSUME NEW t, NEW E, Shelved(t, E), t.num_buckets # 0,
         NEW e \in Elements \ E, t.hashv[e] \in Hashes,
         NEW u, u = Link(t, e, HASH_TO_BKT(t.hashv[e], t.num_buckets))
  PROVE  Shelved(u, E \cup {e}) /\ Rest(u) = Rest(t) /\ Sizes(u) = Sizes(t)
<1> DEFINE b == HASH_TO_BKT(t.hashv[e], t.num_buckets)
<1>1. Shape(t) /\ b \in DOMAIN t.buckets
  BY InABucket DEF Shelved
<1>2. PICK last : Threaded(t.buckets[b].hh_head, last, t.hh_next, t.hh_prev,
                           Members(t, E, b), t.buckets[b].count)
  BY <1>1 DEF Shelved, Chained
<1>3. t.buckets[b].hh_head # e
  <2>1. t.buckets[b].hh_head = NULL \/ t.buckets[b].hh_head \in Members(t, E, b)
    BY <1>2, ThreadedEnds
  <2>2. QED
    BY <2>1, NULLAssumption DEF Members
<1>4. /\ Shape(u)
      /\ Rest(u) = Rest(t) /\ Sizes(u) = Sizes(t)
      /\ DOMAIN u.buckets = DOMAIN t.buckets
      /\ \A c \in DOMAIN t.buckets \ {b} : u.buckets[c] = t.buckets[c]
      /\ u.buckets[b].hh_head = e
      /\ u.buckets[b].count = t.buckets[b].count + 1
      /\ u.hh_next[e] = t.buckets[b].hh_head
      /\ u.hh_prev[e] = NULL
      /\ \A x \in Elements \ {e} :
           /\ u.hh_next[x] = t.hh_next[x]
           /\ u.hh_prev[x] = IF x = t.buckets[b].hh_head THEN e ELSE t.hh_prev[x]
  <2> HIDE DEF b
  <2>1. u = Link(t, e, b)
    BY DEF b
  <2>2. QED
    BY <1>1, <1>3, <2>1, LinkFields
<1>5. u.hashv = t.hashv /\ u.num_buckets = t.num_buckets
  BY <1>4 DEF Rest, Sizes
<1>6. \A x \in E : x \in Elements \ {e}
  BY DEF Shelved
<1>7. /\ Members(u, E \cup {e}, b) = Members(t, E, b) \cup {e}
      /\ \A c \in DOMAIN t.buckets \ {b} : Members(u, E \cup {e}, c) = Members(t, E, c)
  BY <1>5 DEF Members
<1> HIDE DEF b
<1>8. Chained(u, E \cup {e}, b)
  <2>1. \A x \in Members(t, E, b) : x \in Elements \ {e}
    BY <1>6 DEF Members
  <2>2. e \in Elements \ Members(t, E, b)
    BY DEF Members
  <2>3. \A x \in Members(t, E, b) :
          /\ u.hh_next[x] = t.hh_next[x]
          /\ u.hh_prev[x] = IF x = t.buckets[b].hh_head THEN e ELSE t.hh_prev[x]
    BY <1>4, <2>1
  <2>4. \E l : Threaded(e, l, u.hh_next, u.hh_prev, Members(t, E, b) \cup {e}, t.buckets[b].count + 1)
    BY <1>2, <1>4, <2>2, <2>3, ThreadedPush
  <2>5. QED
    BY <1>4, <1>7, <2>4 DEF Chained
<1>9. ASSUME NEW c \in DOMAIN t.buckets \ {b} PROVE Chained(u, E \cup {e}, c)
  <2>1. PICK l : Threaded(t.buckets[c].hh_head, l, t.hh_next, t.hh_prev,
                          Members(t, E, c), t.buckets[c].count)
    BY DEF Shelved, Chained
  <2>2. ASSUME NEW x \in Members(t, E, c)
        PROVE  u.hh_next[x] = t.hh_next[x] /\ u.hh_prev[x] = t.hh_prev[x]
    <3>1. x \in Elements \ {e} /\ x \notin Members(t, E, b)
      BY <1>6 DEF Members
    <3>2. x # t.buckets[b].hh_head
      <4>1. t.buckets[b].hh_head = NULL \/ t.buckets[b].hh_head \in Members(t, E, b)
        BY <1>2, ThreadedEnds
      <4>2. QED
        BY <3>1, <4>1, NULLAssumption
    <3>3. QED
      BY <1>4, <3>1, <3>2
  <2>3. Threaded(t.buckets[c].hh_head, l, u.hh_next, u.hh_prev,
                 Members(t, E, c), t.buckets[c].count)
    BY <2>1, <2>2, ThreadedFrame
  <2>4. QED
    BY <1>4, <1>7, <2>3 DEF Chained
<1>10. \A x \in E \cup {e} : x \in Elements /\ u.hashv[x] \in Hashes
  BY <1>5 DEF Shelved
<1>11. QED
  BY <1>4, <1>8, <1>9, <1>10 DEF Shelved

LEMMA RehashShelves ==
  ASSUME NEW t, NEW E, Shelved(t, E), t.num_buckets # 0, NEW ideal,
         NEW e \in Elements \ E, t.hashv[e] \in Hashes,
         NEW u, u = Rehash(t, e, ideal)
  PROVE  Shelved(u, E \cup {e}) /\ Rest(u) = Rest(t) /\ Sizes(u) = Sizes(t)
<1> DEFINE b == HASH_TO_BKT(t.hashv[e], t.num_buckets)
           linked == Link(t, e, b)
           mult == t.buckets[b].expand_mult
           worse == IF linked.buckets[b].count > mult * ideal THEN mult + 1 ELSE mult
           v == [linked EXCEPT !.nonideal_items = @ + 1, !.buckets[b].expand_mult = worse]
<1>1. Shelved(linked, E \cup {e}) /\ Rest(linked) = Rest(t) /\ Sizes(linked) = Sizes(t)
  BY LinkShelves
<1>2. u = linked \/ u = v
  BY DEF Rehash
<1>3. b \in DOMAIN t.buckets /\ mult \in Nat
  <2>1. Shape(t) /\ b \in DOMAIN t.buckets
    BY InABucket DEF Shelved
  <2>2. t.buckets[b] \in Bucket
    BY <2>1 DEF Shape
  <2>3. QED
    BY <2>1, <2>2 DEF Bucket
<1>4. DOMAIN linked.buckets = DOMAIN t.buckets
  BY <1>1 DEF Shelved, Shape, Sizes
<1>5. worse \in Nat
  BY <1>3
<1> HIDE DEF linked, mult, worse, b
<1>6. Shelved(v, E \cup {e}) /\ Rest(v) = Rest(linked) /\ Sizes(v) = Sizes(linked)
  <2> DEFINE bucket == [linked.buckets[b] EXCEPT !.expand_mult = worse]
  <2>0. DOMAIN linked = {"head", "tail", "buckets", "num_buckets", "num_items", "nonideal_items",
                         "ineff_expands", "noexpand", "hashv", "next", "prev", "hh_next", "hh_prev"}
    BY <1>1 DEF Shelved, Shape, NoTable
  <2>1. /\ v.buckets = [linked.buckets EXCEPT ![b] = bucket]
        /\ v.nonideal_items = linked.nonideal_items + 1
        /\ v.hh_next = linked.hh_next /\ v.hh_prev = linked.hh_prev
        /\ v.head = linked.head /\ v.tail = linked.tail
        /\ v.num_buckets = linked.num_buckets /\ v.num_items = linked.num_items
        /\ v.ineff_expands = linked.ineff_expands /\ v.noexpand = linked.noexpand
        /\ v.hashv = linked.hashv /\ v.next = linked.next /\ v.prev = linked.prev
        /\ DOMAIN v = DOMAIN linked
    BY <2>0
  <2> HIDE DEF v
  <2>2. /\ linked.buckets \in [0..(linked.num_buckets - 1) -> Bucket]
        /\ linked.buckets[b] \in Bucket
    BY <1>1, <1>3, <1>4 DEF Shelved, Shape
  <2>3. /\ bucket \in Bucket /\ bucket.hh_head = linked.buckets[b].hh_head
        /\ bucket.count = linked.buckets[b].count
    BY <1>5, <2>2 DEF Bucket
  <2> HIDE DEF bucket
  <2>4. /\ v.buckets \in [0..(linked.num_buckets - 1) -> Bucket]
        /\ \A c \in DOMAIN linked.buckets :
              v.buckets[c].hh_head = linked.buckets[c].hh_head /\ v.buckets[c].count = linked.buckets[c].count
    BY <2>1, <2>2, <2>3
  <2>5. Shape(v)
    BY <1>1, <2>1, <2>4 DEF Shelved, Shape
  <2>6. Shelved(v, E \cup {e})
    BY <1>1, <2>1, <2>4, <2>5, ShelvedFrame
  <2>7. QED
    BY <2>1, <2>6 DEF Rest, Sizes
<1>7. QED
  BY <1>1, <1>2, <1>6

-----------------------------------------------------------------------------
(* The two loops of HASH_EXPAND_BUCKETS.  Both are functions of the number   *)
(* of rounds; that there is such a function is proved first.                 *)

Rounds(moved, t, chain, ideal, n) ==
  moved = [i \in 0..n |-> IF i = 0 THEN t ELSE Rehash(moved[i - 1], chain[i], ideal)]

LEMMA RoundsExist ==
  ASSUME NEW t, NEW chain, NEW ideal, NEW n \in Nat
  PROVE  \E moved : Rounds(moved, t, chain, ideal, n)
<1> DEFINE S == {k \in Nat : \E moved : Rounds(moved, t, chain, ideal, k)}
<1>1. 0 \in S
  <2> DEFINE f == [i \in 0..0 |-> t]
  <2>1. f = [i \in 0..0 |-> IF i = 0 THEN t ELSE Rehash(f[i - 1], chain[i], ideal)]
    OBVIOUS
  <2>2. QED
    BY <2>1 DEF Rounds
<1>2. ASSUME NEW k \in Nat, k \in S PROVE k + 1 \in S
  <2>1. PICK f : Rounds(f, t, chain, ideal, k)
    BY <1>2
  <2>2. f = [i \in 0..k |-> IF i = 0 THEN t ELSE Rehash(f[i - 1], chain[i], ideal)]
    BY <2>1 DEF Rounds
  <2> DEFINE G(i) == IF i = 0 THEN t ELSE Rehash(f[i - 1], chain[i], ideal)
             g == [i \in 0..(k + 1) |-> G(i)]
  <2>3. \A i \in 0..k : f[i] = G(i)
    BY <2>2
  <2>4. \A i \in 0..(k + 1) : i = 0 \/ (i # 0 /\ i - 1 \in 0..k /\ i - 1 \in 0..(k + 1))
    OBVIOUS
  <2>5. \A i \in 0..(k + 1) : i # 0 => g[i - 1] = f[i - 1]
    BY <2>3, <2>4
  <2>6. \A i \in 0..(k + 1) : g[i] = IF i = 0 THEN t ELSE Rehash(g[i - 1], chain[i], ideal)
    BY <2>5
  <2>7. g = [i \in 0..(k + 1) |-> IF i = 0 THEN t ELSE Rehash(g[i - 1], chain[i], ideal)]
    BY <2>6
  <2> HIDE DEF g
  <2>8. QED
    BY <2>7 DEF Rounds
<1> HIDE DEF S
<1>3. Nat \subseteq S
  BY <1>1, <1>2, AllNumbers
<1>4. QED
  BY <1>3 DEF S

\* The elements of a chain come to the buckets of their hashes, one by one.
LEMMA RehashChainShelves ==
  ASSUME NEW t, NEW E, Shelved(t, E), t.num_buckets # 0, NEW ideal,
         NEW n \in Nat, NEW chain \in [1..n -> Elements \ E],
         \A i, j \in 1..n : chain[i] = chain[j] => i = j,
         \A i \in 1..n : t.hashv[chain[i]] \in Hashes,
         NEW u, u = RehashChain(t, chain, ideal)
  PROVE  /\ Shelved(u, E \cup {chain[i] : i \in 1..n})
         /\ Rest(u) = Rest(t) /\ Sizes(u) = Sizes(t)
<1> DEFINE moved == CHOOSE f : Rounds(f, t, chain, ideal, n)
           S == {k \in Nat : k <= n =>
                   /\ Shelved(moved[k], E \cup {chain[i] : i \in 1..k})
                   /\ Rest(moved[k]) = Rest(t) /\ Sizes(moved[k]) = Sizes(t)}
<1>1. Len(chain) = n
  OBVIOUS
<1>2. u = moved[n]
  BY <1>1 DEF RehashChain, Rounds
<1>3. Rounds(moved, t, chain, ideal, n)
  BY RoundsExist
<1>4. \A i \in 0..n : moved[i] = IF i = 0 THEN t ELSE Rehash(moved[i - 1], chain[i], ideal)
  BY <1>3 DEF Rounds
<1> HIDE DEF moved
<1>5. 0 \in S
  <2>1. moved[0] = t
    BY <1>4
  <2>2. E \cup {chain[i] : i \in 1..0} = E
    OBVIOUS
  <2>3. QED
    BY <2>1, <2>2
<1>6. ASSUME NEW k \in Nat, k \in S PROVE k + 1 \in S
  <2> SUFFICES ASSUME k + 1 <= n
               PROVE  /\ Shelved(moved[k + 1], E \cup {chain[i] : i \in 1..(k + 1)})
                      /\ Rest(moved[k + 1]) = Rest(t) /\ Sizes(moved[k + 1]) = Sizes(t)
    OBVIOUS
  <2> DEFINE F == E \cup {chain[i] : i \in 1..k}
  <2>1. k <= n /\ k + 1 \in 1..n /\ k + 1 \in 0..n /\ k + 1 # 0 /\ (k + 1) - 1 = k
    OBVIOUS
  <2>2. Shelved(moved[k], F) /\ Rest(moved[k]) = Rest(t) /\ Sizes(moved[k]) = Sizes(t)
    BY <1>6, <2>1
  <2>3. moved[k + 1] = Rehash(moved[k], chain[k + 1], ideal)
    BY <1>4, <2>1
  <2>4. chain[k + 1] \in Elements \ F
    <3>1. \A i \in 1..k : i \in 1..n /\ i # k + 1
      BY <2>1
    <3>2. QED
      BY <2>1, <3>1
  <2>5. moved[k].num_buckets # 0 /\ moved[k].hashv[chain[k + 1]] \in Hashes
    BY <2>1, <2>2 DEF Rest, Sizes
  <2>6. F \cup {chain[k + 1]} = E \cup {chain[i] : i \in 1..(k + 1)}
    <3>1. 1..(k + 1) = 1..k \cup {k + 1}
      OBVIOUS
    <3>2. QED
      BY <3>1
  <2> HIDE DEF F
  <2>7. /\ Shelved(moved[k + 1], F \cup {chain[k + 1]})
        /\ Rest(moved[k + 1]) = Rest(moved[k]) /\ Sizes(moved[k + 1]) = Sizes(moved[k])
    BY <2>2, <2>3, <2>4, <2>5, RehashShelves
  <2>8. QED
    BY <2>2, <2>6, <2>7
<1> HIDE DEF S
<1>7. n \in S
  BY <1>5, <1>6, AllNumbers
<1>8. QED
  BY <1>2, <1>7 DEF S

OldBuckets(emptied, t, old, ideal, n) ==
  emptied = [b \in 0..n |-> IF b = 0 THEN t
                            ELSE RehashChain(emptied[b - 1], Chain(old, b - 1), ideal)]

LEMMA OldBucketsExist ==
  ASSUME NEW t, NEW old, NEW ideal, NEW n \in Nat
  PROVE  \E emptied : OldBuckets(emptied, t, old, ideal, n)
<1> DEFINE S == {k \in Nat : \E emptied : OldBuckets(emptied, t, old, ideal, k)}
<1>1. 0 \in S
  <2> DEFINE f == [b \in 0..0 |-> t]
  <2>1. f = [b \in 0..0 |-> IF b = 0 THEN t ELSE RehashChain(f[b - 1], Chain(old, b - 1), ideal)]
    OBVIOUS
  <2>2. QED
    BY <2>1 DEF OldBuckets
<1>2. ASSUME NEW k \in Nat, k \in S PROVE k + 1 \in S
  <2>1. PICK f : OldBuckets(f, t, old, ideal, k)
    BY <1>2
  <2>2. f = [b \in 0..k |-> IF b = 0 THEN t ELSE RehashChain(f[b - 1], Chain(old, b - 1), ideal)]
    BY <2>1 DEF OldBuckets
  <2> DEFINE G(b) == IF b = 0 THEN t ELSE RehashChain(f[b - 1], Chain(old, b - 1), ideal)
             g == [b \in 0..(k + 1) |-> G(b)]
  <2>3. \A b \in 0..k : f[b] = G(b)
    BY <2>2
  <2>4. \A b \in 0..(k + 1) : b = 0 \/ (b # 0 /\ b - 1 \in 0..k /\ b - 1 \in 0..(k + 1))
    OBVIOUS
  <2>5. \A b \in 0..(k + 1) : b # 0 => g[b - 1] = f[b - 1]
    BY <2>3, <2>4
  <2>6. \A b \in 0..(k + 1) :
          g[b] = IF b = 0 THEN t ELSE RehashChain(g[b - 1], Chain(old, b - 1), ideal)
    BY <2>5
  <2>7. g = [b \in 0..(k + 1) |-> IF b = 0 THEN t
                                  ELSE RehashChain(g[b - 1], Chain(old, b - 1), ideal)]
    BY <2>6
  <2> HIDE DEF g
  <2>8. QED
    BY <2>7 DEF OldBuckets
<1> HIDE DEF S
<1>3. Nat \subseteq S
  BY <1>1, <1>2, AllNumbers
<1>4. QED
  BY <1>3 DEF S

\* What the chain of a bucket is, as the loop over it finds it.
LEMMA ChainOfBucket ==
  ASSUME NEW t, NEW E, Shelved(t, E), NEW b \in DOMAIN t.buckets
  PROVE  \E n \in Nat : /\ Chain(t, b) \in [1..n -> Elements]
                        /\ Len(Chain(t, b)) = n /\ t.buckets[b].count = n
                        /\ {Chain(t, b)[i] : i \in 1..n} = Members(t, E, b)
                        /\ ToSet(Chain(t, b)) = Members(t, E, b)
                        /\ \A i, j \in 1..n : Chain(t, b)[i] = Chain(t, b)[j] => i = j
                        /\ BackPointers(Chain(t, b), t.hh_prev)
                        /\ IsFiniteSet(Members(t, E, b)) /\ Cardinality(Members(t, E, b)) = n
<1>1. PICK last : Threaded(t.buckets[b].hh_head, last, t.hh_next, t.hh_prev,
                           Members(t, E, b), t.buckets[b].count)
  BY DEF Shelved, Chained
<1>2. QED
  BY <1>1, ThreadedPath DEF Chain

\* Bucket by bucket, everything moves to the new array.
LEMMA RehashBucketsShelves ==
  ASSUME NEW old, NEW E, Shelved(old, E), old.num_buckets # 0,
         NEW t, Shelved(t, {}), t.num_buckets # 0, t.hashv = old.hashv, NEW ideal,
         NEW u, u = RehashBuckets(t, old, ideal)
  PROVE  Shelved(u, E) /\ Rest(u) = Rest(t) /\ Sizes(u) = Sizes(t)
<1> DEFINE n == old.num_buckets
           emptied == CHOOSE f : OldBuckets(f, t, old, ideal, n)
           Bkt(e) == HASH_TO_BKT(old.hashv[e], n)
           Below(k) == {e \in E : Bkt(e) < k}
           S == {k \in Nat : k <= n =>
                   /\ Shelved(emptied[k], Below(k))
                   /\ Rest(emptied[k]) = Rest(t) /\ Sizes(emptied[k]) = Sizes(t)}
<1>1. n \in Nat /\ DOMAIN old.buckets = 0..(n - 1)
  BY DEF Shelved, Shape
<1>2. u = emptied[n]
  BY DEF RehashBuckets, OldBuckets
<1>3. OldBuckets(emptied, t, old, ideal, n)
  BY <1>1, OldBucketsExist
<1>4. \A b \in 0..n : emptied[b] = IF b = 0 THEN t
                                   ELSE RehashChain(emptied[b - 1], Chain(old, b - 1), ideal)
  BY <1>3 DEF OldBuckets
<1>5. \A e \in E : Bkt(e) \in 0..(n - 1)
  BY <1>1, InABucket DEF Shelved
<1> HIDE DEF emptied, Bkt, n
<1>6. 0 \in S
  <2>1. emptied[0] = t
    BY <1>1, <1>4
  <2>2. Below(0) = {}
    BY <1>1, <1>5
  <2>3. QED
    BY <2>1, <2>2
<1>7. ASSUME NEW k \in Nat, k \in S PROVE k + 1 \in S
  <2> SUFFICES ASSUME k + 1 <= n
               PROVE  /\ Shelved(emptied[k + 1], Below(k + 1))
                      /\ Rest(emptied[k + 1]) = Rest(t) /\ Sizes(emptied[k + 1]) = Sizes(t)
    OBVIOUS
  <2>1. k <= n /\ k + 1 \in 0..n /\ k + 1 # 0 /\ (k + 1) - 1 = k /\ k \in DOMAIN old.buckets
    BY <1>1
  <2>2. Shelved(emptied[k], Below(k)) /\ Rest(emptied[k]) = Rest(t) /\ Sizes(emptied[k]) = Sizes(t)
    BY <1>7, <2>1
  <2>3. emptied[k + 1] = RehashChain(emptied[k], Chain(old, k), ideal)
    BY <1>4, <2>1
  <2>4. PICK m \in Nat : /\ Chain(old, k) \in [1..m -> Elements]
                         /\ {Chain(old, k)[i] : i \in 1..m} = Members(old, E, k)
                         /\ \A i, j \in 1..m : Chain(old, k)[i] = Chain(old, k)[j] => i = j
    BY <2>1, ChainOfBucket
  <2>5. Members(old, E, k) = {e \in E : Bkt(e) = k}
    BY DEF Members, Bkt, n
  <2>6. Below(k + 1) = Below(k) \cup Members(old, E, k)
    BY <1>1, <1>5, <2>5
  <2>7. Members(old, E, k) \cap Below(k) = {}
    BY <1>1, <1>5, <2>5
  <2> HIDE DEF Below
  <2>8. Chain(old, k) \in [1..m -> Elements \ Below(k)]
    BY <2>4, <2>7
  <2>9. \A i \in 1..m : emptied[k].hashv[Chain(old, k)[i]] \in Hashes
    <3>1. emptied[k].hashv = old.hashv
      BY <2>2 DEF Rest
    <3>2. \A i \in 1..m : Chain(old, k)[i] \in E
      BY <2>4, <2>5
    <3>3. QED
      BY <3>1, <3>2 DEF Shelved
  <2>10. emptied[k].num_buckets # 0
    BY <2>2 DEF Sizes
  <2>11. /\ Shelved(emptied[k + 1], Below(k) \cup {Chain(old, k)[i] : i \in 1..m})
         /\ Rest(emptied[k + 1]) = Rest(emptied[k]) /\ Sizes(emptied[k + 1]) = Sizes(emptied[k])
    <3> DEFINE chain == Chain(old, k)
               before == emptied[k]
               F == Below(k)
    <3>1. /\ Shelved(before, F) /\ before.num_buckets # 0
          /\ chain \in [1..m -> Elements \ F]
          /\ \A i, j \in 1..m : chain[i] = chain[j] => i = j
          /\ \A i \in 1..m : before.hashv[chain[i]] \in Hashes
          /\ emptied[k + 1] = RehashChain(before, chain, ideal)
      BY <2>2, <2>3, <2>4, <2>8, <2>9, <2>10
    <3> HIDE DEF chain, before, F
    <3>2. /\ Shelved(emptied[k + 1], F \cup {chain[i] : i \in 1..m})
          /\ Rest(emptied[k + 1]) = Rest(before) /\ Sizes(emptied[k + 1]) = Sizes(before)
      BY <3>1, RehashChainShelves
    <3>3. QED
      BY <3>2 DEF chain, before, F
  <2>12. QED
    BY <2>2, <2>4, <2>6, <2>11
<1>8. Below(n) = E
  BY <1>1, <1>5
<1> HIDE DEF S, Below
<1>9. n \in S
  BY <1>1, <1>6, <1>7, AllNumbers
<1>10. QED
  BY <1>1, <1>2, <1>8, <1>9 DEF S

LEMMA ExpandShelves ==
  ASSUME NEW t, NEW E, Shelved(t, E), t.num_buckets # 0,
         NEW u, u = HASH_EXPAND_BUCKETS(t)
  PROVE  Shelved(u, E) /\ Rest(u) = Rest(t) /\ u.num_buckets # 0
<1> DEFINE n == 2 * t.num_buckets
           ideal == (t.num_items \div n) + (IF t.num_items % n # 0 THEN 1 ELSE 0)
           fresh == [t EXCEPT !.buckets = EmptyBuckets(n), !.num_buckets = n, !.nonideal_items = 0]
           new == RehashBuckets(fresh, t, ideal)
           ineff == IF new.nonideal_items > new.num_items \div 2 THEN t.ineff_expands + 1 ELSE 0
           v == [new EXCEPT !.ineff_expands = ineff, !.noexpand = @ \/ ineff > 1]
<1>1. u = v
  BY DEF HASH_EXPAND_BUCKETS
<1>2. DOMAIN t = {"head", "tail", "buckets", "num_buckets", "num_items", "nonideal_items",
                  "ineff_expands", "noexpand", "hashv", "next", "prev", "hh_next", "hh_prev"}
  BY DEF Shelved, Shape, NoTable
<1>3. t.num_buckets \in Nat /\ t.ineff_expands \in Nat
  BY DEF Shelved, Shape
<1>4. n \in Nat /\ n # 0
  BY <1>3
<1> HIDE DEF n, ideal
<1>5. /\ fresh.buckets = EmptyBuckets(n) /\ fresh.num_buckets = n /\ fresh.nonideal_items = 0
      /\ fresh.head = t.head /\ fresh.tail = t.tail /\ fresh.num_items = t.num_items
      /\ fresh.ineff_expands = t.ineff_expands /\ fresh.noexpand = t.noexpand
      /\ fresh.hashv = t.hashv /\ fresh.next = t.next /\ fresh.prev = t.prev
      /\ fresh.hh_next = t.hh_next /\ fresh.hh_prev = t.hh_prev
      /\ DOMAIN fresh = DOMAIN t
  BY <1>2
<1> HIDE DEF fresh, new, ineff
<1>6. EmptyBuckets(n) \in [0..(n - 1) -> Bucket]
  BY DEF EmptyBuckets, EmptyBucket, Bucket, Links
<1>7. Shape(fresh)
  BY <1>4, <1>5, <1>6 DEF Shelved, Shape
<1>8. Shelved(fresh, {})
  <2>1. ASSUME NEW b \in DOMAIN fresh.buckets PROVE Chained(fresh, {}, b)
    <3>1. fresh.buckets[b].hh_head = NULL /\ fresh.buckets[b].count = 0
      BY <1>5 DEF EmptyBuckets, EmptyBucket
    <3>2. Members(fresh, {}, b) = {}
      BY DEF Members
    <3>3. Threaded(NULL, NULL, fresh.hh_next, fresh.hh_prev, {}, 0)
      BY NoneThreaded
    <3>4. QED
      BY <3>1, <3>2, <3>3 DEF Chained
  <2>2. QED
    BY <1>7, <2>1 DEF Shelved
<1>9. Shelved(new, E) /\ Rest(new) = Rest(fresh) /\ Sizes(new) = Sizes(fresh)
  BY <1>4, <1>5, <1>8, RehashBucketsShelves DEF new
<1>10. ineff \in Nat
  BY <1>3 DEF ineff
<1>11. DOMAIN new = {"head", "tail", "buckets", "num_buckets", "num_items", "nonideal_items",
                  "ineff_expands", "noexpand", "hashv", "next", "prev", "hh_next", "hh_prev"}
  BY <1>9 DEF Shelved, Shape, NoTable
<1>12. /\ v.buckets = new.buckets /\ v.num_buckets = new.num_buckets
       /\ v.nonideal_items = new.nonideal_items
       /\ v.head = new.head /\ v.tail = new.tail /\ v.num_items = new.num_items
       /\ v.ineff_expands = ineff /\ v.noexpand = (new.noexpand \/ ineff > 1)
       /\ v.hashv = new.hashv /\ v.next = new.next /\ v.prev = new.prev
       /\ v.hh_next = new.hh_next /\ v.hh_prev = new.hh_prev
       /\ DOMAIN v = DOMAIN new
  BY <1>11
<1> HIDE DEF v
<1>13. v.noexpand \in BOOLEAN
  BY <1>12
<1>14. Shape(v)
  BY <1>9, <1>10, <1>12, <1>13 DEF Shelved, Shape
<1>15. Shelved(v, E)
  BY <1>9, <1>12, <1>14, ShelvedFrame
<1>16. QED
  BY <1>1, <1>4, <1>5, <1>9, <1>12, <1>15 DEF Rest, Sizes

LEMMA AddShelves ==
  ASSUME NEW t, NEW E, Shelved(t, E), t.num_buckets # 0,
         NEW e \in Elements \ E, t.hashv[e] \in Hashes,
         NEW u, u = HASH_ADD_TO_BKT(t, e, HASH_TO_BKT(t.hashv[e], t.num_buckets))
  PROVE  Shelved(u, E \cup {e}) /\ Rest(u) = Rest(t) /\ u.num_buckets # 0
<1> DEFINE linked == Link(t, e, HASH_TO_BKT(t.hashv[e], t.num_buckets))
<1>1. Shelved(linked, E \cup {e}) /\ Rest(linked) = Rest(t) /\ Sizes(linked) = Sizes(t)
  BY LinkShelves
<1>2. linked.num_buckets # 0
  BY <1>1 DEF Sizes
<1>3. u = linked \/ u = HASH_EXPAND_BUCKETS(linked)
  BY DEF HASH_ADD_TO_BKT
<1> HIDE DEF linked
<1>4. QED
  BY <1>1, <1>2, <1>3, ExpandShelves

-----------------------------------------------------------------------------
(* The whole table: its list and its buckets hold the elements of live.      *)

Sound(t, live) ==
  /\ Shelved(t, live)
  /\ t.head # NULL => t.num_buckets # 0
  /\ Threaded(t.head, t.tail, t.next, t.prev, live, t.num_items)

LEMMA NoTableIsSound == Sound(NoTable, {})
<1>1. Shape(NoTable)
  BY DEF Shape, NoTable, Bucket, Links
<1>2. DOMAIN NoTable.buckets = {}
  BY DEF NoTable
<1>3. Shelved(NoTable, {})
  BY <1>1, <1>2 DEF Shelved
<1>4. NoTable.head = NULL /\ NoTable.tail = NULL /\ NoTable.num_items = 0
  BY DEF NoTable
<1>5. Threaded(NULL, NULL, NoTable.next, NoTable.prev, {}, 0)
  BY NoneThreaded
<1>6. QED
  BY <1>3, <1>4, <1>5 DEF Sound

LEMMA AddIsSound ==
  ASSUME NEW t, NEW live, Sound(t, live), NEW e \in Elements \ live,
         NEW k, hash[k] \in Hashes, NEW u, u = HASH_ADD(t, e, k),
         NEW more, more = live \cup {e}
  PROVE  Sound(u, more) /\ u.hashv = [t.hashv EXCEPT ![e] = hash[k]]
<1> DEFINE first == [HASH_MAKE_TABLE(t, e) EXCEPT !.head = e, !.next[e] = NULL, !.prev[e] = NULL]
           threaded == IF t.head = NULL THEN first ELSE HASH_APPEND_LIST(t, e)
           added == [threaded EXCEPT !.hashv[e] = hash[k], !.num_items = @ + 1]
<1>1. DOMAIN t = {"head", "tail", "buckets", "num_buckets", "num_items", "nonideal_items",
                  "ineff_expands", "noexpand", "hashv", "next", "prev", "hh_next", "hh_prev"}
  BY DEF Sound, Shelved, Shape, NoTable
<1>2. e \in Links /\ e # NULL
  BY NULLAssumption DEF Links
<1>3. Shape(t) /\ Shelved(t, live) /\ Threaded(t.head, t.tail, t.next, t.prev, live, t.num_items)
  BY DEF Sound, Shelved
<1>4. /\ DOMAIN threaded = DOMAIN t
      /\ threaded.num_items = t.num_items /\ threaded.nonideal_items = t.nonideal_items
      /\ threaded.ineff_expands = t.ineff_expands /\ threaded.noexpand = t.noexpand
      /\ threaded.hashv = t.hashv
      /\ threaded.hh_next = t.hh_next /\ threaded.hh_prev = t.hh_prev
      /\ Shelved(threaded, live) /\ threaded.num_buckets # 0
      /\ threaded.head # NULL
      /\ Threaded(threaded.head, threaded.tail, threaded.next, threaded.prev,
                  live \cup {e}, t.num_items + 1)
  <2>1. CASE t.head = NULL
    <3>0. threaded = first
      BY <2>1
    <3> HIDE DEF threaded
    <3>1. /\ first.head = e /\ first.tail = e
          /\ first.buckets = EmptyBuckets(HASH_INITIAL_NUM_BUCKETS)
          /\ first.num_buckets = HASH_INITIAL_NUM_BUCKETS
          /\ first.num_items = t.num_items /\ first.nonideal_items = t.nonideal_items
          /\ first.ineff_expands = t.ineff_expands /\ first.noexpand = t.noexpand
          /\ first.hashv = t.hashv
          /\ first.hh_next = t.hh_next /\ first.hh_prev = t.hh_prev
          /\ first.next = [t.next EXCEPT ![e] = NULL]
          /\ first.prev = [t.prev EXCEPT ![e] = NULL]
          /\ DOMAIN first = DOMAIN t
      BY <1>1 DEF HASH_MAKE_TABLE
    <3> HIDE DEF first
    <3>2. live = {} /\ t.num_items = 0
      BY <1>3, <2>1, ThreadedEnds
    <3>3. /\ first.next[e] = NULL /\ first.prev[e] = NULL
          /\ {first.next, first.prev} \subseteq [Elements -> Links]
      BY <1>3, <3>1 DEF Shape, Links
    <3>4. Threaded(e, e, first.next, first.prev, live \cup {e}, t.num_items + 1)
      <4>1. Threaded(NULL, NULL, first.next, first.prev, {}, 0)
        BY NoneThreaded
      <4>2. Threaded(e, e, first.next, first.prev, {} \cup {e}, 0 + 1)
        BY <3>3, <4>1, ThreadedPush
      <4>3. QED
        BY <3>2, <4>2
    <3>5. EmptyBuckets(HASH_INITIAL_NUM_BUCKETS) \in [0..(HASH_INITIAL_NUM_BUCKETS - 1) -> Bucket]
      BY DEF EmptyBuckets, EmptyBucket, Bucket, Links
    <3>6. Shape(first)
      BY <1>2, <1>3, <3>1, <3>3, <3>5, BucketsAssumption DEF Shape
    <3>7. Shelved(first, live)
      <4>1. ASSUME NEW b \in DOMAIN first.buckets PROVE Chained(first, {}, b)
        <5>1. first.buckets[b].hh_head = NULL /\ first.buckets[b].count = 0
          BY <3>1 DEF EmptyBuckets, EmptyBucket
        <5>2. Members(first, {}, b) = {}
          BY DEF Members
        <5>3. Threaded(NULL, NULL, first.hh_next, first.hh_prev, {}, 0)
          BY NoneThreaded
        <5>4. QED
          BY <5>1, <5>2, <5>3 DEF Chained
      <4>2. QED
        BY <3>2, <3>6, <4>1 DEF Shelved
    <3>8. QED
      BY <1>2, <3>0, <3>1, <3>4, <3>7, BucketsAssumption
  <2>2. CASE t.head # NULL
    <3> DEFINE v == HASH_APPEND_LIST(t, e)
               nexts == [t.next EXCEPT ![e] = NULL, ![t.tail] = e]
    <3>0. threaded = v
      BY <2>2
    <3> HIDE DEF threaded
    <3>1. /\ v.head = t.head /\ v.tail = e /\ v.buckets = t.buckets
          /\ v.num_buckets = t.num_buckets
          /\ v.num_items = t.num_items /\ v.nonideal_items = t.nonideal_items
          /\ v.ineff_expands = t.ineff_expands /\ v.noexpand = t.noexpand
          /\ v.hashv = t.hashv
          /\ v.hh_next = t.hh_next /\ v.hh_prev = t.hh_prev
          /\ v.next = nexts
          /\ v.prev = [t.prev EXCEPT ![e] = t.tail]
          /\ DOMAIN v = DOMAIN t
      BY <1>1 DEF HASH_APPEND_LIST
    <3> HIDE DEF v
    <3>2. t.num_items # 0 /\ t.tail \in live /\ live \subseteq Elements
      BY <1>3, <2>2, ThreadedEnds
    <3>3. t.tail # e /\ t.tail \in Elements
      BY <3>2
    <3>4. /\ nexts \in [Elements -> Links] /\ nexts[e] = NULL /\ nexts[t.tail] = e
          /\ \A x \in live : nexts[x] = IF x = t.tail THEN e ELSE t.next[x]
      BY <1>2, <1>3, <3>2, <3>3 DEF Shape, Links
    <3>5. /\ v.prev \in [Elements -> Links] /\ v.prev[e] = t.tail
          /\ \A x \in live : v.prev[x] = t.prev[x]
      BY <1>2, <1>3, <3>1, <3>2 DEF Shape, Links
    <3> HIDE DEF nexts
    <3>6. Threaded(t.head, e, v.next, v.prev, live \cup {e}, t.num_items + 1)
      BY <1>3, <3>1, <3>2, <3>4, <3>5, ThreadedAppend
    <3>7. Shape(v)
      BY <1>2, <1>3, <3>1, <3>4, <3>5 DEF Shape
    <3>8. Shelved(v, live)
      BY <1>3, <3>1, <3>7, ShelvedFrame
    <3>9. QED
      BY <2>2, <3>0, <3>1, <3>6, <3>8 DEF Sound
  <2>3. QED
    BY <2>1, <2>2
<1> HIDE DEF threaded
<1>5. /\ added.head = threaded.head /\ added.tail = threaded.tail
      /\ added.buckets = threaded.buckets /\ added.num_buckets = threaded.num_buckets
      /\ added.num_items = t.num_items + 1 /\ added.nonideal_items = threaded.nonideal_items
      /\ added.ineff_expands = threaded.ineff_expands /\ added.noexpand = threaded.noexpand
      /\ added.hashv = [t.hashv EXCEPT ![e] = hash[k]]
      /\ added.next = threaded.next /\ added.prev = threaded.prev
      /\ added.hh_next = threaded.hh_next /\ added.hh_prev = threaded.hh_prev
      /\ DOMAIN added = DOMAIN t
  BY <1>1, <1>4
<1>6. u = HASH_ADD_TO_BKT(added, e, HASH_TO_BKT(hash[k], added.num_buckets))
  BY DEF HASH_ADD, threaded
<1> HIDE DEF added
<1>7. /\ added.hashv \in [Elements -> Hashes \cup {NULL}] /\ added.hashv[e] = hash[k]
      /\ \A x \in live : added.hashv[x] = t.hashv[x]
  BY <1>3, <1>5 DEF Shape, Shelved
<1>8. Shape(added)
  BY <1>3, <1>4, <1>5, <1>7 DEF Shape, Shelved
<1>9. Shelved(added, live)
  <2>1. \A x \in live : /\ added.hashv[x] = threaded.hashv[x]
                        /\ added.hh_next[x] = threaded.hh_next[x]
                        /\ added.hh_prev[x] = threaded.hh_prev[x]
    BY <1>4, <1>5, <1>7
  <2>2. Shelved(threaded, live) /\ added.num_buckets = threaded.num_buckets
    BY <1>4, <1>5
  <2>3. \A b \in DOMAIN threaded.buckets :
          /\ added.buckets[b].hh_head = threaded.buckets[b].hh_head
          /\ added.buckets[b].count = threaded.buckets[b].count
    BY <1>5
  <2>4. QED
    BY <1>8, <2>1, <2>2, <2>3, ShelvedFrame
<1>10. Shelved(u, live \cup {e}) /\ Rest(u) = Rest(added) /\ u.num_buckets # 0
  <2>1. added.num_buckets # 0
    BY <1>4, <1>5
  <2>2. added.hashv[e] \in Hashes /\ u = HASH_ADD_TO_BKT(added, e, HASH_TO_BKT(added.hashv[e], added.num_buckets))
    BY <1>6, <1>7
  <2>3. QED
    BY <1>9, <2>1, <2>2, AddShelves
<1>11. QED
  BY <1>4, <1>5, <1>10 DEF Sound, Rest

\* An element without neighbours is the only one.
LEMMA ThreadedAlone ==
  ASSUME NEW first, NEW last, NEW next, NEW prev, NEW E, NEW n,
         Threaded(first, last, next, prev, E, n),
         NEW e \in E, prev[e] = NULL, next[e] = NULL
  PROVE  E = {e}
<1>1. PICK q : /\ Row(first, next, prev, q, n)
               /\ last = LastOf(q, n)
               /\ E = {q[i] : i \in 1..n}
  BY DEF Threaded
<1>2. n # 0 /\ n \in Nat
  BY <1>1, ThreadedEnds
<1>3. first = e /\ last = e
  BY ThreadedEnds
<1>4. q[1] = e /\ q[n] = e /\ 1 \in 1..n /\ n \in 1..n
  BY <1>1, <1>2, <1>3 DEF Row, LastOf
<1>5. n = 1
  BY <1>1, <1>4 DEF Row
<1>6. 1..n = {1}
  BY <1>5
<1>7. QED
  BY <1>1, <1>4, <1>6

LEMMA UnthreadFields ==
  ASSUME NEW t, Shape(t), NEW e \in Elements, NEW u, u = Unthread(t, e)
  PROVE  /\ Shape(u) /\ Sizes(u) = Sizes(t)
         /\ u.buckets = t.buckets /\ u.num_items = t.num_items /\ u.hashv = t.hashv
         /\ u.hh_next = t.hh_next /\ u.hh_prev = t.hh_prev
         /\ u.tail = IF t.tail = e THEN t.prev[e] ELSE t.tail
         /\ u.head = IF t.prev[e] = NULL THEN t.next[e] ELSE t.head
         /\ \A x \in Elements : /\ u.next[x] = IF x = t.prev[e] THEN t.next[e] ELSE t.next[x]
                                /\ u.prev[x] = IF x = t.next[e] THEN t.prev[e] ELSE t.prev[x]
<1> DEFINE nexts == [x \in Elements |-> IF x = t.prev[e] THEN t.next[e] ELSE t.next[x]]
           prevs == [x \in Elements |-> IF x = t.next[e] THEN t.prev[e] ELSE t.prev[x]]
<1>1. DOMAIN t = {"head", "tail", "buckets", "num_buckets", "num_items", "nonideal_items",
                  "ineff_expands", "noexpand", "hashv", "next", "prev", "hh_next", "hh_prev"}
  BY DEF Shape, NoTable
<1>2. /\ u.buckets = t.buckets /\ u.num_items = t.num_items /\ u.hashv = t.hashv
      /\ u.num_buckets = t.num_buckets /\ u.nonideal_items = t.nonideal_items
      /\ u.ineff_expands = t.ineff_expands /\ u.noexpand = t.noexpand
      /\ u.hh_next = t.hh_next /\ u.hh_prev = t.hh_prev
      /\ u.tail = (IF t.tail = e THEN t.prev[e] ELSE t.tail)
      /\ u.head = (IF t.prev[e] = NULL THEN t.next[e] ELSE t.head)
      /\ u.next = nexts /\ u.prev = prevs
      /\ DOMAIN u = DOMAIN t
  BY <1>1 DEF Unthread
<1>3. t.next[e] \in Links /\ t.prev[e] \in Links
  BY DEF Shape
<1>4. nexts \in [Elements -> Links] /\ prevs \in [Elements -> Links]
  BY <1>3 DEF Shape
<1>5. u.head \in Links /\ u.tail \in Links
  BY <1>2, <1>3 DEF Shape
<1>6. /\ \A x \in Elements : nexts[x] = IF x = t.prev[e] THEN t.next[e] ELSE t.next[x]
      /\ \A x \in Elements : prevs[x] = IF x = t.next[e] THEN t.prev[e] ELSE t.prev[x]
  OBVIOUS
<1> HIDE DEF nexts, prevs
<1>7. Shape(u)
  BY <1>2, <1>4, <1>5 DEF Shape
<1>8. QED
  BY <1>2, <1>6, <1>7 DEF Sizes

LEMMA DelInBktFields ==
  ASSUME NEW t, Shape(t), NEW e \in Elements, NEW b \in DOMAIN t.buckets,
         t.buckets[b].count # 0, NEW u, u = HASH_DEL_IN_BKT(t, e, b)
  PROVE  /\ Shape(u) /\ Rest(u) = Rest(t) /\ Sizes(u) = Sizes(t)
         /\ DOMAIN u.buckets = DOMAIN t.buckets
         /\ \A c \in DOMAIN t.buckets \ {b} : u.buckets[c] = t.buckets[c]
         /\ u.buckets[b].hh_head = IF t.buckets[b].hh_head = e THEN t.hh_next[e]
                                   ELSE t.buckets[b].hh_head
         /\ u.buckets[b].count = t.buckets[b].count - 1
         /\ \A x \in Elements :
              /\ u.hh_next[x] = IF x = t.hh_prev[e] THEN t.hh_next[e] ELSE t.hh_next[x]
              /\ u.hh_prev[x] = IF x = t.hh_next[e] THEN t.hh_prev[e] ELSE t.hh_prev[x]
<1> DEFINE first == t.buckets[b].hh_head
           bucket == [hh_head |-> IF first = e THEN t.hh_next[e] ELSE first,
                      count |-> t.buckets[b].count - 1,
                      expand_mult |-> t.buckets[b].expand_mult]
           nexts == [x \in Elements |-> IF x = t.hh_prev[e] THEN t.hh_next[e] ELSE t.hh_next[x]]
           prevs == [x \in Elements |-> IF x = t.hh_next[e] THEN t.hh_prev[e] ELSE t.hh_prev[x]]
<1>1. DOMAIN t = {"head", "tail", "buckets", "num_buckets", "num_items", "nonideal_items",
                  "ineff_expands", "noexpand", "hashv", "next", "prev", "hh_next", "hh_prev"}
  BY DEF Shape, NoTable
<1>2. /\ u.buckets = [t.buckets EXCEPT ![b] = bucket]
      /\ u.hh_next = nexts /\ u.hh_prev = prevs
      /\ u.head = t.head /\ u.tail = t.tail /\ u.num_buckets = t.num_buckets
      /\ u.num_items = t.num_items /\ u.nonideal_items = t.nonideal_items
      /\ u.ineff_expands = t.ineff_expands /\ u.noexpand = t.noexpand
      /\ u.hashv = t.hashv /\ u.next = t.next /\ u.prev = t.prev
      /\ DOMAIN u = DOMAIN t
  BY <1>1 DEF HASH_DEL_IN_BKT
<1>3. t.buckets \in [0..(t.num_buckets - 1) -> Bucket] /\ t.buckets[b] \in Bucket
  BY DEF Shape
<1>4. t.hh_next[e] \in Links /\ t.hh_prev[e] \in Links
  BY DEF Shape
<1>5. /\ bucket \in Bucket /\ bucket.count = t.buckets[b].count - 1
      /\ bucket.hh_head = IF first = e THEN t.hh_next[e] ELSE first
  BY <1>3, <1>4 DEF Bucket
<1>6. nexts \in [Elements -> Links] /\ prevs \in [Elements -> Links]
  BY <1>4 DEF Shape
<1>7. /\ \A x \in Elements : nexts[x] = IF x = t.hh_prev[e] THEN t.hh_next[e] ELSE t.hh_next[x]
      /\ \A x \in Elements : prevs[x] = IF x = t.hh_next[e] THEN t.hh_prev[e] ELSE t.hh_prev[x]
  OBVIOUS
<1> HIDE DEF bucket, nexts, prevs
<1>8. /\ u.buckets \in [0..(t.num_buckets - 1) -> Bucket]
      /\ DOMAIN u.buckets = DOMAIN t.buckets /\ u.buckets[b] = bucket
      /\ \A c \in DOMAIN t.buckets \ {b} : u.buckets[c] = t.buckets[c]
  BY <1>2, <1>3, <1>5
<1>9. Shape(u)
  BY <1>2, <1>6, <1>8 DEF Shape
<1>10. QED
  BY <1>2, <1>5, <1>7, <1>8, <1>9 DEF Rest, Sizes

\* An element leaves its bucket.
LEMMA DelUnshelves ==
  ASSUME NEW t, NEW E, Shelved(t, E), t.num_buckets # 0, NEW e \in E,
         NEW u, u = HASH_DEL_IN_BKT(t, e, HASH_TO_BKT(t.hashv[e], t.num_buckets))
  PROVE  Shelved(u, E \ {e}) /\ Rest(u) = Rest(t) /\ Sizes(u) = Sizes(t)
<1> DEFINE b == HASH_TO_BKT(t.hashv[e], t.num_buckets)
<1>1. Shape(t) /\ b \in DOMAIN t.buckets /\ e \in Elements
  BY InABucket DEF Shelved
<1>2. PICK last : Threaded(t.buckets[b].hh_head, last, t.hh_next, t.hh_prev,
                           Members(t, E, b), t.buckets[b].count)
  BY <1>1 DEF Shelved, Chained
<1>3. e \in Members(t, E, b)
  BY DEF Members
<1>4. t.buckets[b].count # 0
  BY <1>2, <1>3, ThreadedEnds
<1>5. u = HASH_DEL_IN_BKT(t, e, b)
  OBVIOUS
<1> HIDE DEF b
<1>6. /\ Shape(u) /\ Rest(u) = Rest(t) /\ Sizes(u) = Sizes(t)
      /\ DOMAIN u.buckets = DOMAIN t.buckets
      /\ \A c \in DOMAIN t.buckets \ {b} : u.buckets[c] = t.buckets[c]
      /\ u.buckets[b].hh_head = (IF t.buckets[b].hh_head = e THEN t.hh_next[e]
                                 ELSE t.buckets[b].hh_head)
      /\ u.buckets[b].count = t.buckets[b].count - 1
      /\ \A x \in Elements :
           /\ u.hh_next[x] = IF x = t.hh_prev[e] THEN t.hh_next[e] ELSE t.hh_next[x]
           /\ u.hh_prev[x] = IF x = t.hh_next[e] THEN t.hh_prev[e] ELSE t.hh_prev[x]
  BY <1>1, <1>4, <1>5, DelInBktFields
<1>7. u.hashv = t.hashv /\ u.num_buckets = t.num_buckets
  BY <1>6 DEF Rest, Sizes
<1>8. /\ Members(u, E \ {e}, b) = Members(t, E, b) \ {e}
      /\ \A c \in DOMAIN t.buckets \ {b} : Members(u, E \ {e}, c) = Members(t, E, c)
  BY <1>3, <1>7 DEF Members
<1>9. \A x \in E : x \in Elements
  BY DEF Shelved
<1>10. Chained(u, E \ {e}, b)
  <2>1. \A x \in Members(t, E, b) \ {e} :
          /\ u.hh_next[x] = IF x = t.hh_prev[e] THEN t.hh_next[e] ELSE t.hh_next[x]
          /\ u.hh_prev[x] = IF x = t.hh_next[e] THEN t.hh_prev[e] ELSE t.hh_prev[x]
    BY <1>6, <1>9 DEF Members
  <2>2. \E l : Threaded(u.buckets[b].hh_head, l, u.hh_next, u.hh_prev,
                        Members(t, E, b) \ {e}, u.buckets[b].count)
    <3> DEFINE M == Members(t, E, b)
               first == t.buckets[b].hh_head
               n == t.buckets[b].count
    <3>1. Threaded(first, last, t.hh_next, t.hh_prev, M, n) /\ e \in M
      BY <1>2, <1>3
    <3>2. Skipped(e, M, t.hh_next, t.hh_prev, u.hh_next, u.hh_prev)
      BY <2>1 DEF Skipped
    <3> HIDE DEF M, first, n
    <3>3. u.buckets[b].hh_head = (IF first = e THEN t.hh_next[e] ELSE first) /\ u.buckets[b].count = n - 1
      BY <1>6 DEF first, n
    <3>4. Threaded(u.buckets[b].hh_head, IF last = e THEN t.hh_prev[e] ELSE last,
                   u.hh_next, u.hh_prev, M \ {e}, u.buckets[b].count)
      BY <3>1, <3>2, <3>3, ThreadedRemove
    <3>5. QED
      BY <3>4 DEF M
  <2>3. QED
    BY <1>8, <2>2 DEF Chained
<1>11. ASSUME NEW c \in DOMAIN t.buckets \ {b} PROVE Chained(u, E \ {e}, c)
  <2>1. PICK l : Threaded(t.buckets[c].hh_head, l, t.hh_next, t.hh_prev,
                          Members(t, E, c), t.buckets[c].count)
    BY DEF Shelved, Chained
  <2>2. /\ t.hh_prev[e] \in Members(t, E, b) \cup {NULL}
        /\ t.hh_next[e] \in Members(t, E, b) \cup {NULL}
    BY <1>2, <1>3, ThreadedEnds
  <2>3. ASSUME NEW x \in Members(t, E, c)
        PROVE  u.hh_next[x] = t.hh_next[x] /\ u.hh_prev[x] = t.hh_prev[x]
    <3>1. x \in Elements /\ x # NULL /\ x \notin Members(t, E, b)
      BY <1>9, NULLAssumption DEF Members
    <3>2. QED
      BY <1>6, <2>2, <3>1
  <2>4. Threaded(t.buckets[c].hh_head, l, u.hh_next, u.hh_prev,
                 Members(t, E, c), t.buckets[c].count)
    BY <2>1, <2>3, ThreadedFrame
  <2>5. QED
    BY <1>6, <1>8, <2>4 DEF Chained
<1>12. \A x \in E \ {e} : x \in Elements /\ u.hashv[x] \in Hashes
  BY <1>7 DEF Shelved
<1>13. QED
  BY <1>6, <1>10, <1>11, <1>12 DEF Shelved

LEMMA DelIsSound ==
  ASSUME NEW t, NEW live, Sound(t, live), NEW e \in live, NEW u, u = HASH_DEL(t, e),
         NEW less, less = live \ {e}
  PROVE  Sound(u, less) /\ \A x \in less : u.hashv[x] = t.hashv[x]
<1>1. Shape(t) /\ Shelved(t, live) /\ Threaded(t.head, t.tail, t.next, t.prev, live, t.num_items)
  BY DEF Sound, Shelved
<1>2. CASE t.prev[e] = NULL /\ t.next[e] = NULL
  <2>1. live = {e}
    BY <1>1, <1>2, ThreadedAlone
  <2>2. u = NoTable /\ live \ {e} = {}
    BY <1>2, <2>1 DEF HASH_DEL
  <2>3. QED
    BY <2>2, NoTableIsSound
<1>3. CASE ~(t.prev[e] = NULL /\ t.next[e] = NULL)
  <2> DEFINE repaired == Unthread(t, e)
             b == HASH_TO_BKT(t.hashv[e], t.num_buckets)
             v == HASH_DEL_IN_BKT(repaired, e, b)
             w == [v EXCEPT !.num_items = @ - 1]
  <2>1. u = w
    BY <1>3 DEF HASH_DEL
  <2>2. /\ t.num_items \in Nat /\ t.num_items # 0 /\ e \in Elements /\ t.num_buckets # 0
        /\ t.prev[e] = NULL <=> t.head = e
        /\ live \subseteq Elements
    BY <1>1, ThreadedEnds DEF Sound
  <2>3. /\ Shape(repaired) /\ Sizes(repaired) = Sizes(t)
        /\ repaired.buckets = t.buckets /\ repaired.num_items = t.num_items
        /\ repaired.hashv = t.hashv
        /\ repaired.hh_next = t.hh_next /\ repaired.hh_prev = t.hh_prev
        /\ repaired.tail = (IF t.tail = e THEN t.prev[e] ELSE t.tail)
        /\ repaired.head = (IF t.prev[e] = NULL THEN t.next[e] ELSE t.head)
        /\ \A x \in Elements :
             /\ repaired.next[x] = IF x = t.prev[e] THEN t.next[e] ELSE t.next[x]
             /\ repaired.prev[x] = IF x = t.next[e] THEN t.prev[e] ELSE t.prev[x]
    BY <1>1, <2>2, UnthreadFields
  <2> HIDE DEF repaired
  <2>4. repaired.num_buckets = t.num_buckets
    BY <2>3 DEF Sizes
  <2>5. Shelved(repaired, live)
    BY <1>1, <2>3, <2>4, ShelvedFrame
  <2>6. Threaded(repaired.head, repaired.tail, repaired.next, repaired.prev,
                 live \ {e}, t.num_items - 1)
    <3>1. Skipped(e, live, t.next, t.prev, repaired.next, repaired.prev)
      BY <2>2, <2>3 DEF Skipped
    <3>2. /\ repaired.head = IF t.head = e THEN t.next[e] ELSE t.head
          /\ repaired.tail = IF t.tail = e THEN t.prev[e] ELSE t.tail
      BY <2>2, <2>3
    <3>3. QED
      BY <1>1, <3>1, <3>2, ThreadedRemove
  <2>7. v = HASH_DEL_IN_BKT(repaired, e, HASH_TO_BKT(repaired.hashv[e], repaired.num_buckets))
    BY <2>3, <2>4
  <2> HIDE DEF v
  <2>8. Shelved(v, live \ {e}) /\ Rest(v) = Rest(repaired) /\ Sizes(v) = Sizes(repaired)
    BY <2>2, <2>4, <2>5, <2>7, DelUnshelves
  <2>9. DOMAIN v = {"head", "tail", "buckets", "num_buckets", "num_items", "nonideal_items",
                  "ineff_expands", "noexpand", "hashv", "next", "prev", "hh_next", "hh_prev"}
    BY <2>8 DEF Shelved, Shape, NoTable
  <2>10. /\ w.buckets = v.buckets /\ w.num_items = v.num_items - 1 /\ w.hashv = v.hashv
         /\ w.num_buckets = v.num_buckets /\ w.nonideal_items = v.nonideal_items
         /\ w.ineff_expands = v.ineff_expands /\ w.noexpand = v.noexpand
         /\ w.hh_next = v.hh_next /\ w.hh_prev = v.hh_prev
         /\ w.head = v.head /\ w.tail = v.tail /\ w.next = v.next /\ w.prev = v.prev
         /\ DOMAIN w = DOMAIN v
    BY <2>9
  <2> HIDE DEF w
  <2>11. /\ v.num_items = t.num_items /\ v.hashv = t.hashv /\ v.head = repaired.head
         /\ v.tail = repaired.tail /\ v.next = repaired.next /\ v.prev = repaired.prev
         /\ v.num_buckets = t.num_buckets
    BY <2>3, <2>4, <2>8 DEF Rest, Sizes
  <2>12. w.num_items \in Nat
    BY <2>2, <2>10, <2>11
  <2>13. Shape(w)
    BY <2>8, <2>10, <2>12 DEF Shelved, Shape
  <2>14. Shelved(w, live \ {e})
    BY <2>8, <2>10, <2>13, ShelvedFrame
  <2>15. Threaded(w.head, w.tail, w.next, w.prev, live \ {e}, w.num_items)
    BY <2>6, <2>10, <2>11
  <2>16. QED
    BY <2>1, <2>2, <2>10, <2>11, <2>14, <2>15 DEF Sound
<1>4. QED
  BY <1>2, <1>3

LEMMA FreedIsSound ==
  ASSUME NEW t, NEW live, Sound(t, live), NEW e \in Elements \ live, NEW u, u = Freed(t, e)
  PROVE  Sound(u, live) /\ \A x \in live : u.hashv[x] = t.hashv[x]
<1>1. DOMAIN t = {"head", "tail", "buckets", "num_buckets", "num_items", "nonideal_items",
                  "ineff_expands", "noexpand", "hashv", "next", "prev", "hh_next", "hh_prev"}
  BY DEF Sound, Shelved, Shape, NoTable
<1>2. /\ u.buckets = t.buckets /\ u.num_items = t.num_items
      /\ u.num_buckets = t.num_buckets /\ u.nonideal_items = t.nonideal_items
      /\ u.ineff_expands = t.ineff_expands /\ u.noexpand = t.noexpand
      /\ u.head = t.head /\ u.tail = t.tail
      /\ u.hashv = [t.hashv EXCEPT ![e] = NULL]
      /\ u.next = [t.next EXCEPT ![e] = NULL] /\ u.prev = [t.prev EXCEPT ![e] = NULL]
      /\ u.hh_next = [t.hh_next EXCEPT ![e] = NULL] /\ u.hh_prev = [t.hh_prev EXCEPT ![e] = NULL]
      /\ DOMAIN u = DOMAIN t
  BY <1>1 DEF Freed
<1>3. Shape(t) /\ Shelved(t, live) /\ Threaded(t.head, t.tail, t.next, t.prev, live, t.num_items)
  BY DEF Sound, Shelved
<1>4. /\ u.hashv \in [Elements -> Hashes \cup {NULL}]
      /\ {u.next, u.prev, u.hh_next, u.hh_prev} \subseteq [Elements -> Links]
  BY <1>2, <1>3 DEF Shape, Links
<1>5. \A x \in live : /\ u.hashv[x] = t.hashv[x]
                      /\ u.next[x] = t.next[x] /\ u.prev[x] = t.prev[x]
                      /\ u.hh_next[x] = t.hh_next[x] /\ u.hh_prev[x] = t.hh_prev[x]
  BY <1>2, <1>3 DEF Shape, Shelved
<1>6. Shape(u)
  BY <1>2, <1>3, <1>4 DEF Shape
<1>7. Shelved(u, live)
  <2>1. \A x \in live : /\ u.hashv[x] = t.hashv[x]
                        /\ u.hh_next[x] = t.hh_next[x]
                        /\ u.hh_prev[x] = t.hh_prev[x]
    BY <1>5
  <2>2. /\ Shelved(t, live) /\ u.num_buckets = t.num_buckets
        /\ \A b \in DOMAIN t.buckets : /\ u.buckets[b].hh_head = t.buckets[b].hh_head
                                       /\ u.buckets[b].count = t.buckets[b].count
    BY <1>2, <1>3
  <2>3. QED
    BY <1>6, <2>1, <2>2, ShelvedFrame
<1>8. Threaded(u.head, u.tail, u.next, u.prev, live, u.num_items)
  <2>1. Threaded(t.head, t.tail, u.next, u.prev, live, t.num_items)
    BY <1>3, <1>5, ThreadedFrame
  <2>2. QED
    BY <1>2, <2>1
<1>9. QED
  BY <1>2, <1>5, <1>7, <1>8 DEF Sound

-----------------------------------------------------------------------------
(* The number of items along all chains, as HASH_FSCK counts it.             *)

\* What it has counted when it has been along the chains of s.
Counted(t, live, s) == {e \in live : HASH_TO_BKT(t.hashv[e], t.num_buckets) \in s}

Counting(iter, t, D) ==
  iter = [s \in SUBSET D |->
            IF s = {} THEN 0
            ELSE Len(Chain(t, CHOOSE x \in s : TRUE)) + iter[s \ {CHOOSE x \in s : TRUE}]]

LEMMA OneMoreCounted ==
  ASSUME NEW t, NEW live, Shelved(t, live), IsFiniteSet(live),
         NEW s \in SUBSET (DOMAIN t.buckets), NEW x \in s
  PROVE  /\ Cardinality(Counted(t, live, s))
              = Len(Chain(t, x)) + Cardinality(Counted(t, live, s \ {x}))
         /\ Cardinality(Counted(t, live, s)) \in Nat
<1> DEFINE A == Counted(t, live, s)
           B == Members(t, live, x)
           C == Counted(t, live, s \ {x})
<1>1. A = B \cup C /\ B \cap C = {} /\ A \subseteq live /\ B \subseteq live /\ C \subseteq live
  BY DEF Counted, Members
<1>2. IsFiniteSet(A) /\ IsFiniteSet(B) /\ IsFiniteSet(C)
  BY <1>1, FS_Subset
<1>3. Cardinality(B) = Len(Chain(t, x))
  BY ChainOfBucket
<1> HIDE DEF A, B, C
<1>4. Cardinality(B \cup C) = Cardinality(B) + Cardinality(C) - Cardinality(B \cap C)
  BY <1>2, FS_Union
<1>5. /\ Cardinality(A) \in Nat /\ Cardinality(B) \in Nat /\ Cardinality(C) \in Nat
      /\ Cardinality(B \cap C) = 0
  BY <1>1, <1>2, FS_CardinalityType, FS_EmptySet
<1>6. Cardinality(A) = Cardinality(B) + Cardinality(C)
  BY <1>1, <1>4, <1>5
<1>7. QED
  BY <1>3, <1>5, <1>6 DEF A, C

\* There is such a function, and no other.
LEMMA CountingIs ==
  ASSUME NEW t, NEW live, Shelved(t, live), IsFiniteSet(live)
  PROVE  /\ \E iter : Counting(iter, t, DOMAIN t.buckets)
         /\ \A iter : Counting(iter, t, DOMAIN t.buckets) =>
              iter[DOMAIN t.buckets] = Cardinality(Counted(t, live, DOMAIN t.buckets))
<1> DEFINE D == DOMAIN t.buckets
           N(s) == Cardinality(Counted(t, live, s))
           g == [s \in SUBSET D |-> N(s)]
           One(s) == CHOOSE x \in s : TRUE
<1>1. N({}) = 0
  <2>1. Counted(t, live, {}) = {}
    BY DEF Counted
  <2>2. QED
    BY <2>1, FS_EmptySet
<1>2. ASSUME NEW s \in SUBSET D, s # {}
      PROVE  /\ One(s) \in s /\ s \ {One(s)} \in SUBSET D
             /\ N(s) = Len(Chain(t, One(s))) + N(s \ {One(s)})
  <2>1. One(s) \in s
    BY <1>2
  <2> HIDE DEF One
  <2>2. QED
    BY <2>1, OneMoreCounted
<1> HIDE DEF N
<1>3. Counting(g, t, D)
  <2>1. \A s \in SUBSET D : g[s] = IF s = {} THEN 0 ELSE Len(Chain(t, One(s))) + g[s \ {One(s)}]
    <3> HIDE DEF One
    <3>1. QED
      BY <1>1, <1>2
  <2>2. g = [s \in SUBSET D |->
               IF s = {} THEN 0 ELSE Len(Chain(t, One(s))) + g[s \ {One(s)}]]
    <3> HIDE DEF One
    <3>1. QED
      BY <2>1
  <2> HIDE DEF g
  <2>3. QED
    BY <2>2 DEF Counting
<1>4. ASSUME NEW iter, Counting(iter, t, D) PROVE iter[D] = N(D)
  <2> DEFINE S == {n \in Nat : \A s \in SUBSET D : Cardinality(s) = n => iter[s] = N(s)}
  <2>1. \A s \in SUBSET D : iter[s] = IF s = {} THEN 0
                                      ELSE Len(Chain(t, One(s))) + iter[s \ {One(s)}]
    BY <1>4 DEF Counting
  <2> HIDE DEF One
  <2>2. IsFiniteSet(D)
    <3>1. D = 0..(t.num_buckets - 1) /\ t.num_buckets \in Nat
      BY DEF Shelved, Shape
    <3>2. t.num_buckets - 1 \in Int /\ 0 \in Int
      BY <3>1
    <3>3. QED
      BY <3>1, <3>2, FS_Interval
  <2>3. \A s \in SUBSET D : IsFiniteSet(s)
    BY <2>2, FS_Subset
  <2>4. 0 \in S
    <3>1. \A s \in SUBSET D : Cardinality(s) = 0 => s = {}
      BY <2>3, FS_EmptySet
    <3>2. QED
      BY <1>1, <2>1, <3>1
  <2>5. ASSUME NEW n \in Nat, n \in S PROVE n + 1 \in S
    <3> SUFFICES ASSUME NEW s \in SUBSET D, Cardinality(s) = n + 1 PROVE iter[s] = N(s)
      OBVIOUS
    <3>1. s # {}
      BY FS_EmptySet
    <3>2. One(s) \in s /\ s \ {One(s)} \in SUBSET D
      BY <1>2, <3>1
    <3>3. Cardinality(s \ {One(s)}) = n
      <4>1. IsFiniteSet(s)
        BY <2>3
      <4>2. \A x : Cardinality(s \ {x}) = IF x \in s THEN Cardinality(s) - 1 ELSE Cardinality(s)
        BY <4>1, FS_RemoveElement
      <4>3. Cardinality(s \ {One(s)}) = Cardinality(s) - 1
        BY <3>2, <4>2
      <4>4. QED
        BY <4>3
    <3>4. iter[s \ {One(s)}] = N(s \ {One(s)})
      BY <2>5, <3>2, <3>3
    <3>5. QED
      BY <1>2, <2>1, <3>1, <3>4
  <2> HIDE DEF S
  <2>6. Nat \subseteq S
    BY <2>4, <2>5, AllNumbers
  <2>7. Cardinality(D) \in Nat /\ D \in SUBSET D
    BY <2>2, FS_CardinalityType
  <2>8. QED
    BY <2>6, <2>7 DEF S
<1>5. QED
  BY <1>3, <1>4 DEF N

Total(t) == MapThenSumSet(LAMBDA b : Len(Chain(t, b)), DOMAIN t.buckets)

LEMMA TotalIsNumber ==
  ASSUME NEW t, NEW live, Shelved(t, live), IsFiniteSet(live), t.num_buckets # 0
  PROVE  Total(t) = Cardinality(live)
<1> DEFINE iter == CHOOSE f : Counting(f, t, DOMAIN t.buckets)
<1>1. Total(t) = iter[DOMAIN t.buckets]
  BY DEF Total, MapThenSumSet, MapThenFoldSet, Counting
<1>2. Counting(iter, t, DOMAIN t.buckets)
  BY CountingIs
<1> HIDE DEF iter
<1>3. iter[DOMAIN t.buckets] = Cardinality(Counted(t, live, DOMAIN t.buckets))
  BY <1>2, CountingIs
<1>4. Counted(t, live, DOMAIN t.buckets) = live
  BY InABucket DEF Counted, Shelved
<1>5. QED
  BY <1>1, <1>3, <1>4

-----------------------------------------------------------------------------
(* The registry.  Every entry that is allocated is in the table, and in no   *)
(* bucket but that of its key; no two have the same key.                     *)

Registered ==
  /\ \A e \in Allocated : /\ key[e] \in Keys /\ ptr[e] \in Pointers
                          /\ table.hashv[e] = hash[key[e]]
  /\ \A e, f \in Allocated : key[e] = key[f] => e = f

Inv ==
  /\ hash \in [Keys -> Hashes]
  /\ key \in [Elements -> Keys \cup {NULL}]
  /\ ptr \in [Elements -> Pointers \cup {NULL}]
  /\ Sound(table, Allocated)
  /\ Registered

\* A look-up finds the entry of its key if there is one.
Finds(k) ==
  IF \E e \in Allocated : key[e] = k
  THEN registry_get(k) \in Allocated /\ key[registry_get(k)] = k
  ELSE registry_get(k) = NULL

LEMMA Finding == Inv => \A k \in Keys : Finds(k)
<1> SUFFICES ASSUME Inv, NEW k \in Keys PROVE Finds(k)
  OBVIOUS
<1>1. /\ Shelved(table, Allocated) /\ Shape(table)
      /\ Threaded(table.head, table.tail, table.next, table.prev, Allocated, table.num_items)
      /\ table.head # NULL => table.num_buckets # 0
      /\ hash[k] \in Hashes
  BY DEF Inv, Sound, Shelved
<1>2. CASE table.head = NULL
  <2>1. Allocated = {}
    BY <1>1, <1>2, ThreadedEnds
  <2>2. registry_get(k) = NULL
    BY <1>2 DEF registry_get, HASH_FIND
  <2>3. QED
    BY <2>1, <2>2 DEF Finds
<1>3. CASE table.head # NULL
  <2> DEFINE b == HASH_TO_BKT(hash[k], table.num_buckets)
             chain == Chain(table, b)
             hits == {i \in DOMAIN chain : table.hashv[chain[i]] = hash[k] /\ key[chain[i]] = k}
  <2>1. registry_get(k) = IF hits = {} THEN NULL ELSE chain[Min(hits)]
    BY <1>3 DEF registry_get, HASH_FIND
  <2>2. b \in DOMAIN table.buckets
    BY <1>1, <1>3, InABucket
  <2>3. Members(table, Allocated, b)
          = {e \in Allocated : HASH_TO_BKT(table.hashv[e], table.num_buckets) = b}
    BY DEF Members
  <2>4. \A e \in Allocated : key[e] = k => e \in Members(table, Allocated, b)
    BY <2>3 DEF Inv, Registered
  <2> HIDE DEF b
  <2>5. PICK n \in Nat : /\ chain \in [1..n -> Elements]
                         /\ {chain[i] : i \in 1..n} = Members(table, Allocated, b)
    BY <1>1, <2>2, ChainOfBucket
  <2> HIDE DEF chain
  <2>6. hits \subseteq Nat
    BY <2>5
  <2>7. hits # {} => Min(hits) \in hits
    <3> HIDE DEF hits
    <3>1. hits # {} => \E i \in hits : \A j \in hits : i <= j
      BY <2>6, LeastNumber
    <3>2. QED
      BY <3>1 DEF Min
  <2>8. \A i \in hits : chain[i] \in Allocated /\ key[chain[i]] = k
    BY <2>3, <2>5
  <2>9. (\E e \in Allocated : key[e] = k) => hits # {}
    <3> SUFFICES ASSUME NEW e \in Allocated, key[e] = k PROVE hits # {}
      OBVIOUS
    <3>1. PICK i \in 1..n : chain[i] = e
      BY <2>4, <2>5
    <3>2. table.hashv[e] = hash[k]
      BY DEF Inv, Registered
    <3>3. i \in hits
      BY <2>5, <3>1, <3>2
    <3>4. QED
      BY <3>3
  <2> HIDE DEF hits
  <2>10. CASE hits = {}
    BY <2>1, <2>9, <2>10 DEF Finds
  <2>11. CASE hits # {}
    BY <2>1, <2>7, <2>8, <2>11 DEF Finds
  <2>12. QED
    BY <2>10, <2>11
<1>4. QED
  BY <1>2, <1>3

LEMMA InvInit == Init => Inv
<1> SUFFICES ASSUME Init PROVE Inv
  OBVIOUS
<1>1. Allocated = {}
  BY DEF Init, Allocated
<1>2. Sound(table, {})
  BY NoTableIsSound DEF Init
<1>3. QED
  BY <1>1, <1>2 DEF Init, Inv, Registered

LEMMA PutKeepsInv ==
  ASSUME Inv, NEW k \in Keys, NEW p \in Pointers, registry_put(k, p)
  PROVE  Inv' /\ \E e \in Elements \ Allocated :
                   /\ Allocated' = Allocated \cup {e}
                   /\ key' = [key EXCEPT ![e] = k] /\ ptr' = [ptr EXCEPT ![e] = p]
<1>1. PICK e \in Elements : /\ key[e] = NULL
                            /\ key' = [key EXCEPT ![e] = k]
                            /\ ptr' = [ptr EXCEPT ![e] = p]
                            /\ table' = HASH_ADD(table, e, k)
  BY DEF registry_put
<1>2. registry_get(k) = NULL /\ hash' = hash
  BY DEF registry_put
<1>3. /\ hash \in [Keys -> Hashes] /\ key \in [Elements -> Keys \cup {NULL}]
      /\ ptr \in [Elements -> Pointers \cup {NULL}]
      /\ Sound(table, Allocated) /\ Registered
  BY DEF Inv
<1>4. k # NULL /\ p # NULL
  BY NULLAssumption
<1>5. e \in Elements \ Allocated
  BY <1>1 DEF Allocated
<1>6. Allocated' = Allocated \cup {e} /\ Allocated \subseteq Elements
  BY <1>1, <1>3, <1>4 DEF Allocated
<1>7. \A f \in Allocated : key[f] # k
  <2>1. Finds(k) /\ NULL \notin Allocated
    BY Finding, NULLAssumption DEF Allocated
  <2>2. QED
    BY <1>2, <2>1 DEF Finds
<1>8. /\ Sound(table', Allocated \cup {e})
      /\ table'.hashv = [table.hashv EXCEPT ![e] = hash[k]]
  <2>1. hash[k] \in Hashes
    BY <1>3
  <2>2. QED
    BY <1>1, <1>3, <1>5, <2>1, AddIsSound
<1>9. table.hashv \in [Elements -> Hashes \cup {NULL}]
  BY <1>3 DEF Sound, Shelved, Shape
<1>10. Registered'
  <2>1. /\ key'[e] = k /\ ptr'[e] = p /\ table'.hashv[e] = hash[k]
        /\ \A f \in Allocated : /\ key'[f] = key[f] /\ ptr'[f] = ptr[f]
                                /\ table'.hashv[f] = table.hashv[f]
    BY <1>1, <1>3, <1>5, <1>6, <1>8, <1>9
  <2>2. \A f \in Allocated' : /\ key'[f] \in Keys /\ ptr'[f] \in Pointers
                              /\ table'.hashv[f] = hash'[key'[f]]
    BY <1>2, <1>3, <1>6, <2>1 DEF Registered
  <2>3. \A f, g \in Allocated' : key'[f] = key'[g] => f = g
    BY <1>3, <1>6, <1>7, <2>1 DEF Registered
  <2>4. QED
    BY <2>2, <2>3 DEF Registered
<1>11. Inv'
  BY <1>1, <1>2, <1>3, <1>6, <1>8, <1>10 DEF Inv
<1>12. QED
  BY <1>1, <1>5, <1>6, <1>11

LEMMA DelKeepsInv ==
  ASSUME Inv, NEW k \in Keys, registry_del(k)
  PROVE  Inv' /\ \E e \in Allocated :
                   /\ key[e] = k /\ registry_get(k) = e
                   /\ Allocated' = Allocated \ {e}
                   /\ key' = [key EXCEPT ![e] = NULL] /\ ptr' = [ptr EXCEPT ![e] = NULL]
<1> DEFINE e == registry_get(k)
<1>1. /\ e # NULL /\ hash' = hash
      /\ table' = Freed(HASH_DEL(table, e), e)
      /\ key' = [key EXCEPT ![e] = NULL] /\ ptr' = [ptr EXCEPT ![e] = NULL]
  BY DEF registry_del
<1>2. Finds(k)
  BY Finding
<1>3. e \in Allocated /\ key[e] = k
  BY <1>1, <1>2 DEF Finds
<1> HIDE DEF e
<1>4. /\ hash \in [Keys -> Hashes] /\ key \in [Elements -> Keys \cup {NULL}]
      /\ ptr \in [Elements -> Pointers \cup {NULL}]
      /\ Sound(table, Allocated) /\ Registered
  BY DEF Inv
<1>5. /\ e \in Elements /\ Allocated' = Allocated \ {e} /\ Allocated \subseteq Elements
      /\ \A f \in Allocated \ {e} : key'[f] = key[f] /\ ptr'[f] = ptr[f]
  BY <1>1, <1>3, <1>4 DEF Allocated
<1> DEFINE without == HASH_DEL(table, e)
<1>6. Sound(without, Allocated \ {e}) /\ \A x \in Allocated \ {e} : without.hashv[x] = table.hashv[x]
  BY <1>3, <1>4, DelIsSound
<1>7. e \in Elements \ (Allocated \ {e}) /\ table' = Freed(without, e)
  BY <1>1, <1>5
<1> HIDE DEF without
<1>8. Sound(table', Allocated \ {e}) /\ \A x \in Allocated \ {e} : table'.hashv[x] = without.hashv[x]
  BY <1>6, <1>7, FreedIsSound
<1>9. Registered'
  BY <1>1, <1>4, <1>5, <1>6, <1>8 DEF Registered
<1>10. key' \in [Elements -> Keys \cup {NULL}] /\ ptr' \in [Elements -> Pointers \cup {NULL}]
  BY <1>1, <1>4
<1>11. Inv'
  BY <1>1, <1>4, <1>5, <1>8, <1>9, <1>10 DEF Inv
<1>12. QED
  BY <1>1, <1>3, <1>5, <1>11 DEF e

LEMMA InvNext == Inv /\ [Next]_vars => Inv'
<1> SUFFICES ASSUME Inv, [Next]_vars PROVE Inv'
  OBVIOUS
<1>1. CASE UNCHANGED vars
  <2>1. Allocated' = Allocated
    BY <1>1 DEF vars, Allocated
  <2>2. QED
    BY <1>1, <2>1 DEF vars, Inv, Registered
<1>2. ASSUME NEW k \in Keys, registry_del(k) PROVE Inv'
  BY <1>2, DelKeepsInv
<1>3. ASSUME NEW k \in Keys, NEW p \in Pointers, registry_put(k, p) PROVE Inv'
  BY <1>3, PutKeepsInv
<1>4. QED
  BY <1>1, <1>2, <1>3 DEF Next

LEMMA Invariance == Spec => []Inv
BY InvInit, InvNext, PTL DEF Spec

(* Counters stay natural numbers, whatever is counted out, and the buckets   *)
(* are as many as num_buckets says.                                          *)
THEOREM TypeCorrect == Spec => []TypeOK
<1>1. Inv => TypeOK
  BY DEF Inv, Sound, Shelved, Shape, Bucket, TypeOK
<1>2. QED
  BY <1>1, Invariance, PTL

LEMMA FsckHolds == Inv => HASH_FSCK
<1> SUFFICES ASSUME Inv, table.head # NULL PROVE HASH_FSCK
  BY DEF HASH_FSCK
<1>1. /\ Shelved(table, Allocated) /\ table.num_buckets # 0
      /\ Threaded(table.head, table.tail, table.next, table.prev, Allocated, table.num_items)
  BY DEF Inv, Sound
<1>2. /\ BackPointers(List(table), table.prev)
      /\ Len(List(table)) = table.num_items
      /\ IsFiniteSet(Allocated) /\ Cardinality(Allocated) = table.num_items
  BY <1>1, ThreadedPath DEF List
<1>3. \A b \in DOMAIN table.buckets :
        /\ BackPointers(Chain(table, b), table.hh_prev)
        /\ table.buckets[b].count = Len(Chain(table, b))
  BY <1>1, ChainOfBucket
<1>4. Total(table) = table.num_items
  BY <1>1, <1>2, TotalIsNumber
<1>5. MapThenSumSet(LAMBDA b : Len(Chain(table, b)), DOMAIN table.buckets) = table.num_items
  BY <1>4 DEF Total, MapThenSumSet, MapThenFoldSet
<1>6. QED
  BY <1>2, <1>3, <1>5 DEF HASH_FSCK, MapThenSumSet, MapThenFoldSet

(* The check uthash makes of itself never fails, after any sequence of puts  *)
(* and deletions and through any number of expansions.                       *)
THEOREM FsckNeverFails == Spec => []HASH_FSCK
BY FsckHolds, Invariance, PTL

(* List and chains hold exactly the entries that are allocated.              *)
THEOREM ListsHoldTheAllocated == Spec => []ListsAgree
<1>1. ASSUME Inv PROVE ListsAgree
  <2>1. /\ Shelved(table, Allocated) /\ Registered
        /\ Threaded(table.head, table.tail, table.next, table.prev, Allocated, table.num_items)
    BY <1>1 DEF Inv, Sound
  <2>2. ToSet(List(table)) = Allocated
    BY <2>1, ThreadedPath DEF List
  <2>3. table.head # NULL => table.tail = Last(List(table))
    BY <2>1, ThreadedPath, ThreadedEnds DEF List
  <2>4. \A b \in DOMAIN table.buckets : ToSet(Chain(table, b)) = Members(table, Allocated, b)
    BY <2>1, ChainOfBucket
  <2>5. \A b \in DOMAIN table.buckets :
          Members(table, Allocated, b)
            = {e \in Allocated : HASH_TO_BKT(hash[key[e]], table.num_buckets) = b}
    BY <2>1 DEF Members, Registered
  <2>6. QED
    BY <2>2, <2>3, <2>4, <2>5 DEF ListsAgree
<1>2. QED
  BY <1>1, Invariance, PTL

-----------------------------------------------------------------------------
(* The registry implements the map.                                          *)

\* What a key is bound to is the pointer of its entry.
Binds(k, p) == \/ \E e \in Allocated : key[e] = k /\ ptr[e] = p
               \/ p = NULL /\ \A e \in Allocated : key[e] # k

LEMMA Binding == Inv => \A k \in Keys : Binds(k, Bound[k])
<1> SUFFICES ASSUME Inv, NEW k \in Keys PROVE Binds(k, Bound[k])
  OBVIOUS
<1>1. Finds(k)
  BY Finding
<1>2. Bound[k] = Value[registry_get(k)]
  BY DEF Bound
<1>3. \A e \in Allocated : e # NULL /\ e \in Links /\ Value[e] = ptr[e]
  BY NULLAssumption DEF Allocated, Value, Links
<1>4. Value[NULL] = NULL
  BY DEF Value, Links
<1>5. QED
  BY <1>1, <1>2, <1>3, <1>4 DEF Finds, Binds

\* It is bound to one thing.
LEMMA BindsOne ==
  ASSUME Inv, NEW k, NEW p, NEW q, Binds(k, p), Binds(k, q)
  PROVE  p = q
BY DEF Inv, Registered, Binds

BoundOnce == \A k \in Keys : \A p : Binds(k, p) => Bound[k] = p

LEMMA BindingsOne == Inv => BoundOnce
BY Binding, BindsOne DEF BoundOnce

LEMMA MapInit == Init => Abstract!Init
<1> SUFFICES ASSUME Init PROVE Bound = [k \in Keys |-> NULL]
  BY DEF Abstract!Init, Bound
<1>1. Inv
  BY InvInit
<1>2. Allocated = {}
  BY DEF Init, Allocated
<1>3. \A k \in Keys : Bound[k] = NULL
  BY <1>1, <1>2, Binding DEF Binds
<1>4. QED
  BY <1>3 DEF Bound

LEMMA MapPut ==
  ASSUME Inv, NEW k \in Keys, NEW p \in Pointers, registry_put(k, p)
  PROVE  Abstract!Bind(k, p)
<1>1. Inv'
  BY PutKeepsInv
<1>2. PICK e \in Elements \ Allocated :
        /\ Allocated' = Allocated \cup {e}
        /\ key' = [key EXCEPT ![e] = k] /\ ptr' = [ptr EXCEPT ![e] = p]
  BY PutKeepsInv
<1>3. /\ key \in [Elements -> Keys \cup {NULL}] /\ ptr \in [Elements -> Pointers \cup {NULL}]
      /\ Allocated \subseteq Elements
  BY DEF Inv, Allocated
<1>4. Bound[k] = NULL
  <2>1. registry_get(k) = NULL
    BY DEF registry_put
  <2>2. QED
    BY <2>1 DEF Bound, Value, Links
<1>5. (\A j \in Keys : Binds(j, Bound[j])) /\ BoundOnce'
  <2>1. BoundOnce'
    BY <1>1, BindingsOne, PTL
  <2>2. QED
    BY <2>1, Binding
<1>6. ASSUME NEW j \in Keys PROVE Bound'[j] = IF j = k THEN p ELSE Bound[j]
  <2>1. CASE j = k
    <3>1. e \in Allocated' /\ key'[e] = k /\ ptr'[e] = p
      BY <1>2, <1>3
    <3>2. Binds(j, p)'
      BY <2>1, <3>1 DEF Binds
    <3>3. QED
      BY <1>5, <2>1, <3>2 DEF BoundOnce
  <2>2. CASE j # k
    <3>1. key'[e] = k /\ \A f \in Allocated : key'[f] = key[f] /\ ptr'[f] = ptr[f]
      BY <1>2, <1>3
    <3>2. \A q : Binds(j, q) => Binds(j, q)'
      BY <1>2, <2>2, <3>1 DEF Binds
    <3>3. QED
      BY <1>5, <2>2, <3>2 DEF BoundOnce
  <2>3. QED
    BY <2>1, <2>2
<1>7. Bound' = [Bound EXCEPT ![k] = p]
  <2>1. DOMAIN Bound = Keys /\ DOMAIN Bound' = Keys /\ Bound = [j \in Keys |-> Bound[j]]
        /\ Bound' = [j \in Keys |-> Bound'[j]]
    BY DEF Bound
  <2> HIDE DEF Bound
  <2>2. QED
    BY <1>6, <2>1
<1>8. QED
  BY <1>4, <1>7 DEF Abstract!Bind

LEMMA MapDel ==
  ASSUME Inv, NEW k \in Keys, registry_del(k)
  PROVE  Abstract!Unbind(k)
<1>1. Inv'
  BY DelKeepsInv
<1>2. PICK e \in Allocated :
        /\ key[e] = k /\ registry_get(k) = e
        /\ Allocated' = Allocated \ {e}
        /\ key' = [key EXCEPT ![e] = NULL] /\ ptr' = [ptr EXCEPT ![e] = NULL]
  BY DelKeepsInv
<1>3. /\ key \in [Elements -> Keys \cup {NULL}] /\ ptr \in [Elements -> Pointers \cup {NULL}]
      /\ Allocated \subseteq Elements
      /\ ptr[e] \in Pointers /\ \A f \in Allocated : key[f] = k => f = e
  BY <1>2 DEF Inv, Registered, Allocated
<1>4. Bound[k] # NULL
  <2>1. e \in Links /\ e # NULL /\ ptr[e] # NULL
    BY <1>3, NULLAssumption DEF Links
  <2>2. QED
    BY <1>2, <2>1 DEF Bound, Value
<1>5. (\A j \in Keys : Binds(j, Bound[j])) /\ BoundOnce'
  <2>1. BoundOnce'
    BY <1>1, BindingsOne, PTL
  <2>2. QED
    BY <2>1, Binding
<1>6. \A f \in Allocated' : f \in Allocated /\ key'[f] = key[f] /\ ptr'[f] = ptr[f]
  BY <1>2, <1>3
<1>7. ASSUME NEW j \in Keys PROVE Bound'[j] = IF j = k THEN NULL ELSE Bound[j]
  <2>1. CASE j = k
    <3>1. Binds(j, NULL)'
      BY <1>2, <1>3, <1>6, <2>1 DEF Binds
    <3>2. QED
      BY <1>5, <2>1, <3>1 DEF BoundOnce
  <2>2. CASE j # k
    <3>1. \A f \in Allocated : key[f] = j => f \in Allocated'
      BY <1>2, <2>2
    <3>2. \A q : Binds(j, q) => Binds(j, q)'
      BY <1>6, <3>1 DEF Binds
    <3>3. QED
      BY <1>5, <2>2, <3>2 DEF BoundOnce
  <2>3. QED
    BY <2>1, <2>2
<1>8. Bound' = [Bound EXCEPT ![k] = NULL]
  <2>1. DOMAIN Bound = Keys /\ DOMAIN Bound' = Keys /\ Bound = [j \in Keys |-> Bound[j]]
        /\ Bound' = [j \in Keys |-> Bound'[j]]
    BY DEF Bound
  <2> HIDE DEF Bound
  <2>2. QED
    BY <1>7, <2>1
<1>9. QED
  BY <1>4, <1>8 DEF Abstract!Unbind

LEMMA MapStep == Inv /\ [Next]_vars => [Abstract!Next]_Bound
<1> SUFFICES ASSUME Inv, [Next]_vars PROVE [Abstract!Next]_Bound
  OBVIOUS
<1>1. CASE UNCHANGED vars
  BY <1>1 DEF vars, Bound, Value, registry_get, HASH_FIND, Chain
<1>2. ASSUME NEW k \in Keys, registry_del(k) PROVE Abstract!Next
  BY <1>2, MapDel DEF Abstract!Next
<1>3. ASSUME NEW k \in Keys, NEW p \in Pointers, registry_put(k, p) PROVE Abstract!Next
  BY <1>3, MapPut DEF Abstract!Next
<1>4. QED
  BY <1>1, <1>2, <1>3 DEF Next

(* The registry is the map it promises to be: a key is bound by a put, found *)
(* with what was put under it, and freed by a deletion alone, whatever the   *)
(* hash function and however often the buckets double.                       *)
THEOREM ImplementsMap == Spec => MapSpec
<1>1. Spec => Abstract!Init /\ [][Abstract!Next]_Bound
  BY MapInit, MapStep, Invariance, PTL DEF Spec
<1>2. QED
  BY <1>1 DEF MapSpec, Abstract!Spec
=============================================================================
