----------------------------- MODULE RingProofs -----------------------------
(***************************************************************************)
(* Facts about the arithmetic of the ring, for every size the assumption   *)
(* of module Ring allows.  The proofs about Queue and Service cite them    *)
(* instead of reasoning about the remainder.                               *)
(***************************************************************************)
EXTENDS Ring, SequenceTheorems, TLAPS

(* queue_position brings an index that is at most one lap ahead back into    *)
(* the ring by taking off one lap.                                           *)
LEMMA PositionWraps ==
  ASSUME NEW p \in 0..(2 * Size - 1)
  PROVE  /\ queue_position(p) \in Positions
         /\ queue_position(p) = IF p < Size THEN p ELSE p - Size
<1>1. CASE p < Size
  BY <1>1, SizeAssumption DEF queue_position, Positions
<1>2. CASE p >= Size
  BY <1>2, SizeAssumption DEF queue_position, Positions
<1>3. QED
  BY <1>1, <1>2, SizeAssumption

(* Two indices in the ring are equally far from head only if they are equal: *)
(* length 0 means head = tail, and the ring is full at Capacity.             *)
LEMMA LengthFacts ==
  ASSUME NEW head \in Positions, NEW tail \in Positions
  PROVE  /\ queue_length(head, tail) \in 0..Capacity
         /\ queue_length(head, tail) = 0 <=> head = tail
         /\ queue_length(head, tail) = Capacity <=> IsFull(head, tail)
<1>1. queue_position(tail + 1) = IF tail + 1 < Size THEN tail + 1 ELSE 0
  BY PositionWraps, SizeAssumption DEF Positions
<1>2. QED
  BY <1>1, SizeAssumption DEF Positions, Capacity, queue_length, IsFull

(* What a push does to the indices: the ring grows by one element and is not *)
(* empty afterwards.                                                         *)
LEMMA PushIndex ==
  ASSUME NEW head \in Positions, NEW tail \in Positions, ~IsFull(head, tail)
  PROVE  /\ queue_position(tail + 1) \in Positions
         /\ queue_position(tail + 1) # head
         /\ queue_length(head, queue_position(tail + 1)) = queue_length(head, tail) + 1
<1>1. /\ queue_position(tail + 1) = IF tail + 1 < Size THEN tail + 1 ELSE 0
      /\ queue_position(tail + 1) \in Positions
  BY PositionWraps, SizeAssumption DEF Positions
<1>2. QED
  BY <1>1, SizeAssumption DEF Positions, queue_length, IsFull

(* What a pop does to the indices: the ring shrinks by one element and is    *)
(* not full afterwards.                                                      *)
LEMMA PopIndex ==
  ASSUME NEW head \in Positions, NEW tail \in Positions, head # tail
  PROVE  /\ queue_position(head + 1) \in Positions
         /\ ~IsFull(queue_position(head + 1), tail)
         /\ queue_length(queue_position(head + 1), tail) = queue_length(head, tail) - 1
<1>1. /\ queue_position(head + 1) = IF head + 1 < Size THEN head + 1 ELSE 0
      /\ queue_position(head + 1) \in Positions
  BY PositionWraps, SizeAssumption DEF Positions
<1>2. queue_position(tail + 1) = IF tail + 1 < Size THEN tail + 1 ELSE 0
  BY PositionWraps, SizeAssumption DEF Positions
<1>3. QED
  BY <1>1, <1>2, SizeAssumption DEF Positions, queue_length, IsFull

(* Contents is a sequence of the slots' values, as long as the ring says.    *)
LEMMA ContentsIsSeq ==
  ASSUME NEW V, NEW data \in [Positions -> V],
         NEW head \in Positions, NEW tail \in Positions
  PROVE  /\ Contents(data, head, tail) \in Seq(V)
         /\ Len(Contents(data, head, tail)) = queue_length(head, tail)
<1> DEFINE n == queue_length(head, tail)
           C == Contents(data, head, tail)
<1>1. n \in Nat /\ n < Size
  BY LengthFacts, SizeAssumption DEF Capacity
<1>2. ASSUME NEW i \in 1..n
      PROVE  data[queue_position(head + i - 1)] \in V
  <2>1. head + i - 1 \in 0..(2 * Size - 1)
    BY <1>1, SizeAssumption DEF Positions
  <2>2. queue_position(head + i - 1) \in Positions
    BY <2>1, PositionWraps
  <2>3. QED
    BY <2>2
<1>3. C = [i \in 1..n |-> data[queue_position(head + i - 1)]]
  BY DEF Contents
<1>4. C \in [1..n -> V]
  BY <1>2, <1>3
<1>5. QED
  BY <1>1, <1>4, SeqDef, LenProperties

(* The element at place i is i - 1 slots behind head.                        *)
LEMMA ContentsAt ==
  ASSUME NEW V, NEW data \in [Positions -> V],
         NEW head \in Positions, NEW tail \in Positions,
         NEW i \in 1..queue_length(head, tail)
  PROVE  /\ Contents(data, head, tail)[i] = data[queue_position(head + i - 1)]
         /\ queue_position(head + i - 1)
              = IF head + i - 1 < Size THEN head + i - 1 ELSE head + i - 1 - Size
         /\ queue_position(head + i - 1) \in Positions
<1>1. queue_length(head, tail) \in Nat /\ queue_length(head, tail) < Size
  BY LengthFacts, SizeAssumption DEF Capacity
<1>2. head + i - 1 \in 0..(2 * Size - 1)
  BY <1>1, SizeAssumption DEF Positions
<1>3. Contents(data, head, tail)[i] = data[queue_position(head + i - 1)]
  BY DEF Contents
<1>4. /\ queue_position(head + i - 1)
           = IF head + i - 1 < Size THEN head + i - 1 ELSE head + i - 1 - Size
      /\ queue_position(head + i - 1) \in Positions
  BY <1>2, PositionWraps, SizeAssumption DEF Positions
<1>5. QED
  BY <1>3, <1>4

(* The slot at tail is outside the contents: storing into it changes nothing *)
(* before tail is advanced.                                                  *)
LEMMA ContentsWrite ==
  ASSUME NEW V, NEW data \in [Positions -> V], NEW d2 \in [Positions -> V],
         NEW head \in Positions, NEW tail \in Positions,
         \A p \in Positions : p # tail => d2[p] = data[p]
  PROVE  Contents(d2, head, tail) = Contents(data, head, tail)
<1> DEFINE n  == queue_length(head, tail)
           C  == Contents(data, head, tail)
           D  == Contents(d2, head, tail)
<1>1. n \in Nat /\ n < Size
  BY LengthFacts, SizeAssumption DEF Capacity
<1>2. C \in Seq(V) /\ Len(C) = n
  BY ContentsIsSeq
<1>3. D \in Seq(V) /\ Len(D) = n
  BY ContentsIsSeq
<1>4. ASSUME NEW i \in 1..n
      PROVE  D[i] = C[i]
  <2> DEFINE p == queue_position(head + i - 1)
  <2>1. /\ C[i] = data[p]
        /\ p = IF head + i - 1 < Size THEN head + i - 1 ELSE head + i - 1 - Size
        /\ p \in Positions
    BY ContentsAt
  <2>2. D[i] = d2[p]
    BY ContentsAt
  <2>3. p # tail
    BY <1>1, <2>1, SizeAssumption DEF Positions, queue_length
  <2>4. QED
    BY <2>1, <2>2, <2>3
<1>5. QED
  <2> HIDE DEF C, D, n
  <2>1. D = C
    BY <1>2, <1>3, <1>4, SeqEqual
  <2>2. QED
    BY <2>1 DEF C, D

(* Storing v at tail and advancing tail appends v to the contents.           *)
LEMMA ContentsPush ==
  ASSUME NEW V, NEW data \in [Positions -> V], NEW v \in V,
         NEW head \in Positions, NEW tail \in Positions, ~IsFull(head, tail)
  PROVE  Contents([data EXCEPT ![tail] = v], head, queue_position(tail + 1))
           = Append(Contents(data, head, tail), v)
<1> DEFINE n  == queue_length(head, tail)
           t2 == queue_position(tail + 1)
           d2 == [data EXCEPT ![tail] = v]
           C  == Contents(data, head, tail)
           D  == Contents(d2, head, t2)
<1>1. /\ t2 \in Positions
      /\ queue_length(head, t2) = n + 1
  BY PushIndex
<1>2. n \in Nat /\ n < Size - 1
  <2>1. n \in 0..Capacity /\ n # Capacity
    BY LengthFacts
  <2>2. QED
    BY <2>1, SizeAssumption DEF Capacity
<1>3. d2 \in [Positions -> V]
  OBVIOUS
<1>4. C \in Seq(V) /\ Len(C) = n
  BY ContentsIsSeq
<1>5. D \in Seq(V) /\ Len(D) = n + 1
  <2> HIDE DEF d2, t2
  <2>1. D \in Seq(V) /\ Len(D) = queue_length(head, t2)
    BY <1>1, <1>3, ContentsIsSeq
  <2>2. QED
    BY <1>1, <2>1
<1>6. Append(C, v) \in Seq(V) /\ Len(Append(C, v)) = n + 1
  BY <1>4, AppendProperties
<1>7. ASSUME NEW i \in 1..(n + 1)
      PROVE  D[i] = Append(C, v)[i]
  <2> DEFINE p == queue_position(head + i - 1)
  <2>1. /\ D[i] = d2[p]
        /\ p = IF head + i - 1 < Size THEN head + i - 1 ELSE head + i - 1 - Size
        /\ p \in Positions
    <3> HIDE DEF d2, t2
    <3>1. i \in 1..queue_length(head, t2)
      BY <1>1
    <3>2. QED
      BY <1>1, <1>3, <3>1, ContentsAt
  <2>2. p = tail <=> i = n + 1
    BY <1>2, <2>1, SizeAssumption DEF Positions, queue_length
  <2>3. CASE i = n + 1
    <3>1. D[i] = v
      BY <2>1, <2>2, <2>3
    <3>2. Append(C, v)[Len(C) + 1] = v
      BY <1>4, AppendProperties
    <3>3. QED
      BY <1>4, <2>3, <3>1, <3>2
  <2>4. CASE i # n + 1
    <3>1. i \in 1..n
      BY <1>2, <2>4
    <3>2. C[i] = data[p]
      BY <3>1, ContentsAt
    <3>3. D[i] = C[i]
      BY <2>1, <2>2, <2>4, <3>2
    <3>4. Append(C, v)[i] = C[i]
      BY <1>4, <3>1, AppendProperties
    <3>5. QED
      BY <3>3, <3>4
  <2>5. QED
    BY <2>3, <2>4
<1>8. QED
  <2> HIDE DEF C, D, n
  <2>1. D = Append(C, v)
    BY <1>5, <1>6, <1>7, SeqEqual
  <2>2. QED
    BY <2>1 DEF C, D

(* Advancing head takes the first element off the contents, and that element *)
(* is the one in slot head.                                                  *)
LEMMA ContentsPop ==
  ASSUME NEW V, NEW data \in [Positions -> V],
         NEW head \in Positions, NEW tail \in Positions, head # tail
  PROVE  /\ Contents(data, head, tail) # <<>>
         /\ Head(Contents(data, head, tail)) = data[head]
         /\ Contents(data, queue_position(head + 1), tail)
              = Tail(Contents(data, head, tail))
<1> DEFINE n  == queue_length(head, tail)
           h2 == queue_position(head + 1)
           C  == Contents(data, head, tail)
           D  == Contents(data, h2, tail)
<1>1. /\ h2 \in Positions
      /\ queue_length(h2, tail) = n - 1
  BY PopIndex
<1>2. n \in Nat /\ 0 < n /\ n < Size
  <2>1. n \in 0..Capacity /\ n # 0
    BY LengthFacts
  <2>2. QED
    BY <2>1, SizeAssumption DEF Capacity
<1>3. h2 = IF head + 1 < Size THEN head + 1 ELSE 0
  BY PositionWraps, SizeAssumption DEF Positions
<1>4. C \in Seq(V) /\ Len(C) = n
  BY ContentsIsSeq
<1>5. D \in Seq(V) /\ Len(D) = n - 1
  <2> HIDE DEF h2
  <2>1. D \in Seq(V) /\ Len(D) = queue_length(h2, tail)
    BY <1>1, ContentsIsSeq
  <2>2. QED
    BY <1>1, <2>1
<1>6. C # <<>> /\ Head(C) = data[head]
  <2>1. C # <<>>
    BY <1>2, <1>4
  <2>2. 1 \in 1..n
    BY <1>2
  <2>3. C[1] = data[queue_position(head + 1 - 1)]
    BY <2>2, ContentsAt
  <2>4. queue_position(head + 1 - 1) = head
    BY PositionWraps, SizeAssumption DEF Positions
  <2>5. Head(C) = C[1]
    BY <1>4, <2>1
  <2>6. QED
    BY <2>1, <2>3, <2>4, <2>5
<1>7. /\ Tail(C) \in Seq(V) /\ Len(Tail(C)) = n - 1
      /\ \A i \in 1..(n - 1) : Tail(C)[i] = C[i + 1]
  BY <1>4, <1>6, HeadTailProperties
<1>8. ASSUME NEW i \in 1..(n - 1)
      PROVE  D[i] = Tail(C)[i]
  <2>1. /\ D[i] = data[queue_position(h2 + i - 1)]
        /\ queue_position(h2 + i - 1)
             = IF h2 + i - 1 < Size THEN h2 + i - 1 ELSE h2 + i - 1 - Size
        /\ queue_position(h2 + i - 1) \in Positions
    <3> HIDE DEF h2
    <3>1. i \in 1..queue_length(h2, tail)
      BY <1>1
    <3>2. QED
      BY <1>1, <3>1, ContentsAt
  <2>2. /\ C[i + 1] = data[queue_position(head + (i + 1) - 1)]
        /\ queue_position(head + (i + 1) - 1)
             = IF head + (i + 1) - 1 < Size
               THEN head + (i + 1) - 1 ELSE head + (i + 1) - 1 - Size
    <3>1. i + 1 \in 1..n
      BY <1>2
    <3>2. QED
      BY <3>1, ContentsAt
  <2>3. queue_position(h2 + i - 1) = queue_position(head + (i + 1) - 1)
    BY <1>2, <1>3, <2>1, <2>2, SizeAssumption DEF Positions
  <2>4. QED
    BY <1>7, <2>1, <2>2, <2>3
<1>9. QED
  <2> HIDE DEF C, D, n
  <2>1. D = Tail(C)
    BY <1>5, <1>7, <1>8, SeqEqual
  <2>2. QED
    BY <1>6, <2>1 DEF C, D
=============================================================================
