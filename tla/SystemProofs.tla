---------------------------- MODULE SystemProofs ----------------------------
(***************************************************************************)
(* What holds of a process with any number of programs, services, names    *)
(* and messages, and inboxes of any size.                                  *)
(***************************************************************************)
EXTENDS System, SequenceTheorems, FiniteSetTheorems, TLAPS

\* A handle that was looked up is the service its name is bound to for good.
HandleInv ==
  \A t \in Threads :
    /\ pc[t] # "held" => via[t] = NULL
    /\ via[t] # NULL /\ handle[t] # NULL => bound[via[t]] = handle[t]

\* Messages are numbered in the order of sending, and so no number is to come.
NumberInv == \A s \in Services : \A i \in DOMAIN Received(s) : Received(s)[i].no <= sent

Inv == TypeOK /\ HandleInv /\ OneAddress /\ NumberInv /\ InOrder

-----------------------------------------------------------------------------
(* Two facts about sequences.                                                *)

LEMMA ConcatAppend ==
  ASSUME NEW S, NEW a \in Seq(S), NEW b \in Seq(S), NEW e \in S
  PROVE  a \o Append(b, e) = Append(a \o b, e)
<1>1. Append(b, e) = b \o <<e>> /\ <<e>> \in Seq(S)
  BY AppendIsConcat
<1>2. Append(a \o b, e) = (a \o b) \o <<e>>
  BY ConcatProperties, AppendIsConcat
<1>3. (a \o b) \o <<e>> = a \o (b \o <<e>>)
  BY <1>1, ConcatAssociative
<1>4. QED
  BY <1>1, <1>2, <1>3

LEMMA ConcatShift ==
  ASSUME NEW S, NEW a \in Seq(S), NEW b \in Seq(S), b # <<>>
  PROVE  Append(a, Head(b)) \o Tail(b) = a \o b
<1>1. /\ Head(b) \in S /\ Tail(b) \in Seq(S)
      /\ Len(Tail(b)) = Len(b) - 1
      /\ \A i \in 1..Len(Tail(b)) : Tail(b)[i] = b[i + 1]
  BY HeadTailProperties
<1>2. Head(b) = b[1] /\ Len(b) \in Nat \ {0} /\ Len(a) \in Nat
  BY EmptySeq, LenProperties
<1> DEFINE c == Append(a, Head(b))
           l == c \o Tail(b)
           r == a \o b
<1>3. /\ c \in Seq(S)
      /\ Len(c) = Len(a) + 1
      /\ \A i \in 1..Len(a) : c[i] = a[i]
      /\ c[Len(a) + 1] = Head(b)
  BY <1>1, AppendProperties
<1> HIDE DEF c
<1>4. /\ l \in Seq(S)
      /\ Len(l) = Len(c) + Len(Tail(b))
      /\ \A i \in 1..Len(c) + Len(Tail(b)) :
           l[i] = IF i <= Len(c) THEN c[i] ELSE Tail(b)[i - Len(c)]
  BY <1>1, <1>3, ConcatProperties
<1>5. /\ r \in Seq(S)
      /\ Len(r) = Len(a) + Len(b)
      /\ \A i \in 1..Len(a) + Len(b) : r[i] = IF i <= Len(a) THEN a[i] ELSE b[i - Len(a)]
  BY ConcatProperties
<1> HIDE DEF l, r
<1>6. Len(l) = Len(r)
  BY <1>1, <1>2, <1>3, <1>4, <1>5
<1>7. ASSUME NEW i \in 1..Len(l) PROVE l[i] = r[i]
  <2>1. /\ i \in 1..Len(c) + Len(Tail(b)) /\ i \in 1..Len(a) + Len(b)
        /\ Len(c) = Len(a) + 1 /\ i \in Nat
    BY <1>1, <1>2, <1>3, <1>4, <1>5, <1>6
  <2>2. /\ l[i] = IF i <= Len(c) THEN c[i] ELSE Tail(b)[i - Len(c)]
        /\ r[i] = IF i <= Len(a) THEN a[i] ELSE b[i - Len(a)]
    BY <2>1, <1>4, <1>5
  <2>3. CASE i <= Len(a)
    <3>1. i \in 1..Len(a)
      BY <2>1, <2>3, <1>2
    <3>2. c[i] = a[i]
      BY <3>1, <1>3
    <3>3. QED
      BY <2>1, <2>2, <2>3, <3>2, <1>2
  <2>4. CASE i = Len(a) + 1
    BY <2>1, <2>2, <2>4, <1>2, <1>3
  <2>5. CASE i > Len(a) + 1
    <3>1. i - Len(c) \in 1..Len(Tail(b)) /\ i - Len(c) + 1 = i - Len(a)
      BY <2>1, <2>5, <1>1, <1>2
    <3>2. Tail(b)[i - Len(c)] = b[i - Len(a)]
      BY <3>1, <1>1
    <3>3. QED
      BY <2>1, <2>2, <2>5, <3>2, <1>2
  <2>6. QED
    BY <2>1, <2>3, <2>4, <2>5, <1>2
<1>8. l = r
  BY <1>4, <1>5, <1>6, <1>7, SeqEqual
<1>9. QED
  BY <1>8 DEF l, r, c

-----------------------------------------------------------------------------
(* What has been received, and what is received next.                        *)

LEMMA ReceivedFacts ==
  ASSUME TypeOK, NEW s \in Services
  PROVE  /\ Received(s) \in Seq(Messages)
         /\ Len(Received(s)) = Len(handled[s]) + Len(inbox[s])
         /\ \A i \in 1..Len(Received(s)) :
              Received(s)[i] = IF i <= Len(handled[s]) THEN handled[s][i]
                               ELSE inbox[s][i - Len(handled[s])]
         /\ Len(handled[s]) \in Nat /\ Len(inbox[s]) \in Nat
<1>1. handled[s] \in Seq(Messages) /\ inbox[s] \in Seq(Messages)
  BY DEF TypeOK
<1>2. QED
  BY <1>1, ConcatProperties, LenProperties DEF Received

\* A message that is accepted becomes the last one received.
LEMMA Accepted ==
  ASSUME TypeOK, TypeOK', NEW s \in Services, NEW m \in Messages,
         handled' = handled, inbox' = [inbox EXCEPT ![s] = Append(@, m)]
  PROVE  /\ \A r \in Services \ {s} : Received(r)' = Received(r)
         /\ Received(s)' = Append(Received(s), m)
<1>1. inbox[s] \in Seq(Messages) /\ handled[s] \in Seq(Messages)
  BY DEF TypeOK
<1>2. inbox'[s] = Append(inbox[s], m) /\ \A r \in Services \ {s} : inbox'[r] = inbox[r]
  BY DEF TypeOK
<1>3. \A r \in Services \ {s} : Received(r)' = Received(r)
  BY <1>2 DEF Received
<1>4. handled[s] \o Append(inbox[s], m) = Append(handled[s] \o inbox[s], m)
  <2>1. \A a, b \in Seq(Messages) : a \o Append(b, m) = Append(a \o b, m)
    BY ConcatAppend
  <2>2. QED
    BY <1>1, <2>1
<1>5. QED
  BY <1>2, <1>3, <1>4 DEF Received

\* A message that is taken is the next one handled, and none is moved.
LEMMA Taken ==
  ASSUME TypeOK, NEW s \in Services, Take(s)
  PROVE  \A r \in Services : Received(r)' = Received(r)
<1>1. inbox[s] \in Seq(Messages) /\ handled[s] \in Seq(Messages) /\ inbox[s] # <<>>
  BY DEF TypeOK, Take
<1>2. /\ inbox'[s] = Tail(inbox[s])
      /\ handled'[s] = Append(handled[s], Head(inbox[s]))
      /\ \A r \in Services \ {s} : inbox'[r] = inbox[r] /\ handled'[r] = handled[r]
  BY DEF TypeOK, Take
<1>3. Append(handled[s], Head(inbox[s])) \o Tail(inbox[s]) = handled[s] \o inbox[s]
  BY <1>1, ConcatShift
<1>4. QED
  BY <1>2, <1>3 DEF Received

-----------------------------------------------------------------------------
(* Types.                                                                    *)

\* What Accept does to an inbox.
LEMMA AcceptTypes ==
  ASSUME TypeOK, NEW s \in Services, NEW m \in Messages, Accept(s, m)
  PROVE  /\ inbox' \in [Services -> Seq(Messages)]
         /\ \A r \in Services : Len(inbox'[r]) <= Room
         /\ lost' \subseteq 1..MaxSent
<1>1. inbox[s] \in Seq(Messages) /\ Len(inbox[s]) \in Nat
  BY LenProperties DEF TypeOK
<1>2. CASE Len(inbox[s]) < Room
  <2>1. inbox' = [inbox EXCEPT ![s] = Append(@, m)] /\ lost' = lost
    BY <1>2 DEF Accept
  <2>2. Append(inbox[s], m) \in Seq(Messages) /\ Len(Append(inbox[s], m)) = Len(inbox[s]) + 1
    BY <1>1, AppendProperties
  <2>3. QED
    BY <1>1, <1>2, <2>1, <2>2, BoundsAssumption DEF TypeOK
<1>3. CASE ~(Len(inbox[s]) < Room)
  <2>1. m.no \in 1..MaxSent
    BY DEF Messages
  <2>2. QED
    BY <1>3, <2>1 DEF Accept, TypeOK
<1>4. QED
  BY <1>2, <1>3

\* The message a thread sends next.
Letter(t) == [via |-> via[t], no |-> sent + 1]

LEMMA LetterType ==
  ASSUME TypeOK, NEW t \in Threads, sent < MaxSent
  PROVE  Letter(t) \in Messages /\ Letter(t).via = via[t] /\ Letter(t).no = sent + 1
BY BoundsAssumption DEF TypeOK, Letter, Messages

LEMMA TypeInit == Init => TypeOK
BY BoundsAssumption DEF Init, TypeOK

LEMMA TypeNext == TypeOK /\ [Next]_vars => TypeOK'
<1> SUFFICES ASSUME TypeOK, [Next]_vars PROVE TypeOK'
  OBVIOUS
<1> USE DEF caller, post
<1>1. ASSUME NEW t \in Threads, NEW n \in Names, NEW s \in Services, NewService(t, n, s)
      PROVE  TypeOK'
  BY <1>1 DEF NewService, TypeOK
<1>2. ASSUME NEW t \in Threads, Build(t) PROVE TypeOK'
  BY <1>2 DEF Build, TypeOK
<1>3. ASSUME NEW t \in Threads, StartNew(t) PROVE TypeOK'
  BY <1>3 DEF StartNew, service_start, Hold, TypeOK
<1>4. ASSUME NEW t \in Threads, NEW n \in Names, QueryService(t, n) PROVE TypeOK'
  BY <1>4 DEF QueryService, Hold, TypeOK
<1>5. ASSUME NEW t \in Threads, Send(t) PROVE TypeOK'
  <2>1. /\ sent < MaxSent /\ sent' = sent + 1
        /\ UNCHANGED <<bound, stage, worker, caller, handled>>
        /\ \/ handle[t] = NULL /\ lost' = lost \cup {Letter(t).no} /\ UNCHANGED <<inbox, over>>
           \/ handle[t] \in Services /\ Accept(handle[t], Letter(t)) /\ UNCHANGED over
           \/ /\ over' = "undefined"
              /\ lost' = lost \cup {Letter(t).no} /\ UNCHANGED inbox
    BY <1>5 DEF Send, Letter, TypeOK
  <2>2. Letter(t) \in Messages /\ sent' \in 0..MaxSent
    BY <2>1, LetterType, BoundsAssumption DEF TypeOK
  <2>3. Letter(t).no \in 1..MaxSent
    BY <2>2 DEF Messages
  <2>4. /\ inbox' \in [Services -> Seq(Messages)]
        /\ \A r \in Services : Len(inbox'[r]) <= Room
        /\ lost' \subseteq 1..MaxSent
        /\ over' \in {"no", "abort", "undefined"}
    BY <2>1, <2>2, <2>3, AcceptTypes DEF TypeOK
  <2>5. QED
    BY <2>1, <2>2, <2>4 DEF TypeOK
<1>6. ASSUME NEW t \in Threads, StartAgain(t) \/ service_free(t) \/ Drop(t) PROVE TypeOK'
  BY <1>6 DEF StartAgain, service_start, service_free, Drop, TypeOK
<1>7. ASSUME NEW s \in Services, InitLua(s) \/ InitFails(s) \/ HandlerEnds(s) PROVE TypeOK'
  BY <1>7 DEF InitLua, InitFails, HandlerEnds, Worker, TypeOK
<1>8. ASSUME NEW s \in Services, Take(s) PROVE TypeOK'
  <2>1. /\ inbox[s] \in Seq(Messages) /\ inbox[s] # <<>> /\ handled[s] \in Seq(Messages)
        /\ Len(inbox[s]) <= Room
    BY <1>8 DEF Take, TypeOK
  <2>2. /\ Tail(inbox[s]) \in Seq(Messages)
        /\ Append(handled[s], Head(inbox[s])) \in Seq(Messages)
        /\ Len(Tail(inbox[s])) <= Room
    BY <2>1, HeadTailProperties, AppendProperties, LenProperties, BoundsAssumption
  <2>3. QED
    BY <1>8, <2>2 DEF Take, Worker, TypeOK
<1>9. CASE UNCHANGED vars
  BY <1>9 DEF vars, TypeOK
<1>10. QED
  BY <1>1, <1>2, <1>3, <1>4, <1>5, <1>6, <1>7, <1>8, <1>9
     DEF Next, Creates, Uses, Works, Over

(* Every variable stays in its range, and no inbox takes more messages than  *)
(* it has room for.                                                          *)
THEOREM TypeCorrect == Spec => []TypeOK
BY TypeInit, TypeNext, PTL DEF Spec

-----------------------------------------------------------------------------
(* The invariant.                                                            *)

LEMMA InvInit == Init => Inv
<1> SUFFICES ASSUME Init PROVE Inv
  OBVIOUS
<1>1. TypeOK
  BY TypeInit
<1>2. \A s \in Services : Received(s) = <<>>
  BY ConcatEmptySeq, EmptySeq DEF Init, Received
<1>3. QED
  BY <1>1, <1>2, EmptySeq DEF Init, Inv, HandleInv, OneAddress, NumberInv, InOrder

\* A step that sends nothing and moves nothing keeps what Received says.
LEMMA Unmoved ==
  ASSUME Inv, TypeOK', HandleInv', sent' = sent,
         \A s \in Services : Received(s)' = Received(s),
         \A n \in Names : bound[n] # NULL => bound'[n] = bound[n]
  PROVE  Inv'
<1>1. OneAddress'
  <2> SUFFICES ASSUME NEW s \in Services, NEW i \in DOMAIN Received(s),
                      Received(s)[i].via # NULL
               PROVE  bound'[Received(s)[i].via] = s
    BY DEF OneAddress
  <2>1. Received(s)[i] \in Messages
    BY ReceivedFacts, ElementOfSeq, LenProperties DEF Inv
  <2>2. bound[Received(s)[i].via] = s /\ Received(s)[i].via \in Names
    BY <2>1 DEF Inv, OneAddress, Messages
  <2>3. QED
    BY <2>2, ThreadsAssumption
<1>2. NumberInv' /\ InOrder'
  BY DEF Inv, NumberInv, InOrder
<1>3. QED
  BY <1>1, <1>2 DEF Inv

(* Sequences of messages that are in order and numbered up to k.             *)
Numbered(q, k) ==
  /\ \A i \in DOMAIN q : q[i].no <= k
  /\ \A i, j \in DOMAIN q : i < j => q[i].no < q[j].no

LEMMA Appended ==
  ASSUME NEW q \in Seq(Messages), NEW m \in Messages
  PROVE  \A i \in DOMAIN Append(q, m) :
           \/ i \in DOMAIN q /\ Append(q, m)[i] = q[i]
           \/ i = Len(q) + 1 /\ Append(q, m)[i] = m
BY AppendProperties, LenProperties

LEMMA NumberOf ==
  ASSUME NEW q \in Seq(Messages), NEW i \in DOMAIN q
  PROVE  q[i].no \in Nat
<1>1. q[i] \in Messages
  <2>1. q \in [1..Len(q) -> Messages]
    BY LenProperties
  <2>2. QED
    BY <2>1
<1>2. QED
  BY <1>1 DEF Messages

LEMMA NumberedLater ==
  ASSUME NEW q \in Seq(Messages), NEW k \in Nat, Numbered(q, k)
  PROVE  Numbered(q, k + 1)
<1>1. \A i \in DOMAIN q : q[i].no \in Nat
  BY NumberOf
<1>2. QED
  BY <1>1 DEF Numbered

LEMMA AppendNumbered ==
  ASSUME NEW q \in Seq(Messages), NEW m \in Messages, NEW k \in Nat,
         Numbered(q, k), m.no = k + 1
  PROVE  Numbered(Append(q, m), k + 1)
<1>1. DOMAIN q = 1..Len(q) /\ Len(q) \in Nat
  BY LenProperties
<1>2. \A i \in DOMAIN q : q[i].no \in Nat /\ q[i].no <= k
  BY NumberOf DEF Numbered
<1>3. ASSUME NEW i \in DOMAIN Append(q, m), NEW j \in DOMAIN Append(q, m), i < j
      PROVE  Append(q, m)[i].no < Append(q, m)[j].no
  <2>1. i \in DOMAIN q /\ Append(q, m)[i] = q[i]
    BY <1>1, <1>3, AppendProperties, LenProperties
  <2>2. CASE j \in DOMAIN q /\ Append(q, m)[j] = q[j]
    BY <1>3, <2>1, <2>2 DEF Numbered
  <2>3. CASE Append(q, m)[j] = m
    BY <1>2, <2>1, <2>3
  <2>4. QED
    BY <2>2, <2>3, Appended
<1>4. ASSUME NEW i \in DOMAIN Append(q, m) PROVE Append(q, m)[i].no <= k + 1
  BY <1>2, <1>4, Appended
<1>5. QED
  BY <1>3, <1>4 DEF Numbered

\* A message that is accepted comes last and has come to its address.
LEMMA Sent ==
  ASSUME Inv, TypeOK', NEW t \in Threads, Send(t)
  PROVE  Inv'
<1>1. /\ sent < MaxSent /\ sent' = sent + 1
      /\ UNCHANGED <<bound, pc, handle, via, handled>>
      /\ \/ UNCHANGED inbox
         \/ handle[t] \in Services /\ handle[t] # NULL /\ Accept(handle[t], Letter(t))
  BY DEF Send, Letter, Inv, TypeOK, caller
<1>2. HandleInv'
  BY <1>1 DEF Inv, HandleInv
<1>3. sent \in Nat /\ \A s \in Services : Len(Received(s)) \in Nat
  BY ReceivedFacts, LenProperties, BoundsAssumption DEF Inv, TypeOK
<1>4. ASSUME NEW s \in Services, NEW i \in DOMAIN Received(s)
      PROVE  Received(s)[i] \in Messages /\ Received(s)[i].no \in Nat
  <2>1. Received(s)[i] \in Messages
    BY <1>4, ReceivedFacts, ElementOfSeq, LenProperties DEF Inv
  <2>2. QED
    BY <2>1 DEF Messages
<1>5. CASE UNCHANGED inbox
  <2>1. \A s \in Services : Received(s)' = Received(s)
    BY <1>1, <1>5 DEF Received
  <2>2. NumberInv'
    BY <1>1, <1>3, <1>4, <2>1 DEF Inv, NumberInv
  <2>3. QED
    BY <1>1, <1>2, <2>1, <2>2 DEF Inv, OneAddress, InOrder
<1>6. ASSUME NEW s \in Services, s = handle[t], s # NULL, Accept(s, Letter(t)), inbox' # inbox
      PROVE  Inv'
  <2> DEFINE m == Letter(t)
  <2>1. m \in Messages /\ m.via = via[t] /\ m.no = sent + 1
    BY <1>1, LetterType DEF Inv
  <2>2. inbox' = [inbox EXCEPT ![s] = Append(@, m)]
    BY <1>6 DEF Accept
  <2>3. /\ \A r \in Services \ {s} : Received(r)' = Received(r)
        /\ Received(s)' = Append(Received(s), m)
    BY <1>1, <1>6, <2>1, <2>2, Accepted DEF Inv
  <2>4. \A r \in Services : Received(r) \in Seq(Messages)
    BY ReceivedFacts DEF Inv
  <2> HIDE DEF m
  <2>5. OneAddress'
    <3>1. m.via # NULL => bound[m.via] = s
      BY <1>6, <2>1 DEF Inv, HandleInv
    <3> SUFFICES ASSUME NEW r \in Services, NEW i \in DOMAIN (Received(r)'),
                        Received(r)'[i].via # NULL
                 PROVE  bound[Received(r)'[i].via] = r
      BY <1>1 DEF OneAddress
    <3>2. CASE r # s
      BY <2>3, <3>2 DEF Inv, OneAddress
    <3>3. CASE r = s
      <4>1. \/ i \in DOMAIN Received(s) /\ Received(s)'[i] = Received(s)[i]
            \/ Received(s)'[i] = m
        BY <2>1, <2>3, <2>4, <3>3, Appended
      <4>2. QED
        BY <3>1, <3>3, <4>1 DEF Inv, OneAddress
    <3>4. QED
      BY <3>2, <3>3
  <2>6. ASSUME NEW r \in Services
        PROVE  /\ \A i \in DOMAIN (Received(r)') : Received(r)'[i].no <= sent'
               /\ \A i, j \in DOMAIN (Received(r)') :
                    i < j => Received(r)'[i].no < Received(r)'[j].no
    <3>1. Numbered(Received(r), sent)
      BY DEF Inv, NumberInv, InOrder, Numbered
    <3>2. Numbered(Received(r)', sent')
      <4>1. CASE r # s
        BY <1>1, <1>3, <2>3, <2>4, <3>1, <4>1, NumberedLater
      <4>2. CASE r = s
        BY <1>1, <1>3, <2>1, <2>3, <2>4, <3>1, <4>2, AppendNumbered
      <4>3. QED
        BY <4>1, <4>2
    <3>3. QED
      BY <3>2 DEF Numbered
  <2>7. QED
    BY <1>2, <2>5, <2>6 DEF Inv, NumberInv, InOrder
<1>7. QED
  BY <1>1, <1>5, <1>6

LEMMA InvNext == Inv /\ [Next]_vars => Inv'
<1> SUFFICES ASSUME Inv, [Next]_vars PROVE Inv'
  OBVIOUS
<1>0. TypeOK'
  BY TypeNext DEF Inv
<1> DEFINE Still == /\ UNCHANGED <<inbox, handled, sent>>
                    /\ \A n \in Names : bound[n] # NULL => bound'[n] = bound[n]
<1>1. ASSUME Still, HandleInv' PROVE Inv'
  BY <1>0, <1>1, Unmoved DEF Received
<1> USE DEF caller, post
<1>2. ASSUME NEW t \in Threads, NEW n \in Names, NEW s \in Services, NewService(t, n, s)
      PROVE  Inv'
  <2>1. Still
    BY <1>2 DEF NewService, Inv, TypeOK
  <2>2. HandleInv'
    BY <1>2 DEF NewService, At, Inv, TypeOK, HandleInv
  <2>3. QED
    BY <1>1, <2>1, <2>2
<1>3. ASSUME NEW t \in Threads, Build(t) PROVE Inv'
  BY <1>1, <1>3 DEF Build, At, Inv, TypeOK, HandleInv
<1>4. ASSUME NEW t \in Threads, StartNew(t) PROVE Inv'
  BY <1>1, <1>4 DEF StartNew, At, Hold, Inv, TypeOK, HandleInv
<1>5. ASSUME NEW t \in Threads, NEW n \in Names, QueryService(t, n) PROVE Inv'
  BY <1>1, <1>5 DEF QueryService, At, Hold, Inv, TypeOK, HandleInv
<1>6. ASSUME NEW t \in Threads, Send(t) PROVE Inv'
  BY <1>0, <1>6, Sent
<1>7. ASSUME NEW t \in Threads, StartAgain(t) \/ service_free(t) PROVE Inv'
  BY <1>1, <1>7 DEF StartAgain, service_free, Inv, HandleInv
<1>8. ASSUME NEW t \in Threads, Drop(t) PROVE Inv'
  BY <1>1, <1>8 DEF Drop, At, Inv, TypeOK, HandleInv
<1>9. ASSUME NEW s \in Services, InitLua(s) \/ InitFails(s) \/ HandlerEnds(s) PROVE Inv'
  BY <1>1, <1>9 DEF InitLua, InitFails, HandlerEnds, Inv, HandleInv
<1>10. ASSUME NEW s \in Services, Take(s) PROVE Inv'
  <2>1. UNCHANGED <<bound, caller, sent>>
    BY <1>10 DEF Take
  <2>2. QED
    BY <1>0, <1>10, <2>1, Taken, Unmoved DEF Inv, HandleInv
<1>11. CASE UNCHANGED vars
  BY <1>1, <1>11 DEF vars, Inv, HandleInv
<1>12. QED
  BY <1>2, <1>3, <1>4, <1>5, <1>6, <1>7, <1>8, <1>9, <1>10, <1>11
     DEF Next, Creates, Uses, Works, Over

LEMMA Invariant == Spec => []Inv
BY InvInit, InvNext, PTL DEF Spec

(* Messages sent to one name come to one service, however many services are  *)
(* created under that name and however old the senders' handles are.         *)
THEOREM NamesAreAddresses == Spec => []OneAddress
<1>1. Inv => OneAddress
  BY DEF Inv
<1>2. QED
  BY <1>1, Invariant, PTL

(* A service handles its messages in the order they were sent.               *)
THEOREM HandledInOrder == Spec => []InOrder
<1>1. Inv => InOrder
  BY DEF Inv
<1>2. QED
  BY <1>1, Invariant, PTL
-----------------------------------------------------------------------------
(* Where a message is: an invariant of its own, on top of the one above.     *)

\* Message number i was lost, and has come to service s.
IsLost(i) == i \in lost
Has(s, i) == \E k \in DOMAIN Received(s) : Received(s)[k].no = i

(* Every message sent is lost or with a service, and neither both nor twice. *)
(* The last conjunct says how many places there can be.                      *)
OnePlace ==
  /\ \A n \in lost : n <= sent
  /\ \A s, r \in Services : \A i \in 1..sent : Has(s, i) /\ Has(r, i) => s = r
  /\ \A s \in Services : \A i \in 1..sent : ~(Has(s, i) /\ IsLost(i))
  /\ \A i \in 1..sent : IsLost(i) \/ \E s \in Services : Has(s, i)
  /\ \A s \in Services : \A k \in DOMAIN Received(s) : k <= Received(s)[k].no

\* The message of a step is lost or comes last to one service ...
Loses(m) ==
  /\ lost' = lost \cup {m.no}
  /\ \A r \in Services : Received(r)' = Received(r)

Gives(s, m) ==
  /\ lost' = lost
  /\ Received(s)' = Append(Received(s), m)
  /\ \A r \in Services \ {s} : Received(r)' = Received(r)

Moves(t) ==
  /\ sent' = sent + 1
  /\ Letter(t) \in Messages /\ Letter(t).no = sent + 1
  /\ \/ Loses(Letter(t))
     \/ \E s \in Services : Gives(s, Letter(t))

\* ... and every other step leaves all messages where they are.
Rests ==
  /\ sent' = sent /\ lost' = lost
  /\ \A s \in Services : Received(s)' = Received(s)

LEMMA SendMoves ==
  ASSUME Inv, TypeOK', NEW t \in Threads, Send(t)
  PROVE  Moves(t)
<1> DEFINE m == Letter(t)
<1>1. /\ sent < MaxSent /\ sent' = sent + 1 /\ UNCHANGED handled
      /\ \/ lost' = lost \cup {m.no} /\ UNCHANGED inbox
         \/ handle[t] \in Services /\ Accept(handle[t], m)
  BY DEF Send, Letter, Inv, TypeOK
<1>2. m \in Messages /\ m.no = sent + 1
  BY <1>1, LetterType DEF Inv
<1> HIDE DEF m
<1>3. CASE lost' = lost \cup {m.no} /\ UNCHANGED inbox
  BY <1>1, <1>2, <1>3 DEF Moves, Loses, Received, m
<1>4. ASSUME NEW s \in Services, s = handle[t], Accept(s, m) PROVE Moves(t)
  <2>1. CASE Len(inbox[s]) < Room
    <3>1. inbox' = [inbox EXCEPT ![s] = Append(@, m)] /\ lost' = lost
      BY <1>4, <2>1 DEF Accept
    <3>2. Gives(s, m)
      BY <1>1, <1>2, <3>1, Accepted DEF Inv, Gives
    <3>3. QED
      BY <1>1, <1>2, <3>2 DEF Moves, m
  <2>2. CASE ~(Len(inbox[s]) < Room)
    <3>1. UNCHANGED inbox /\ lost' = lost \cup {m.no}
      BY <1>4, <2>2 DEF Accept
    <3>2. QED
      BY <1>1, <1>2, <3>1 DEF Moves, Loses, Received, m
  <2>3. QED
    BY <2>1, <2>2
<1>5. QED
  BY <1>1, <1>3, <1>4

LEMMA NextMoves ==
  ASSUME Inv, [Next]_vars
  PROVE  Rests \/ \E t \in Threads : Moves(t)
<1>1. TypeOK'
  BY TypeNext DEF Inv
<1>2. CASE UNCHANGED <<inbox, handled, sent, lost>>
  BY <1>2 DEF Rests, Received
<1>3. ASSUME NEW t \in Threads, Creates(t) \/ Uses(t)
      PROVE  UNCHANGED <<inbox, handled, sent, lost>> \/ Send(t)
  BY <1>3 DEF Creates, NewService, Build, StartNew, Uses, QueryService, StartAgain,
              service_free, Drop, post
<1>4. ASSUME NEW s \in Services, Works(s)
      PROVE  UNCHANGED <<inbox, handled, sent, lost>> \/ Take(s)
  BY <1>4 DEF Works, InitLua, InitFails, HandlerEnds, post
<1>5. ASSUME NEW s \in Services, Take(s) PROVE Rests
  <2>1. sent' = sent /\ lost' = lost
    BY <1>5 DEF Take
  <2>2. QED
    BY <1>5, <2>1, Taken DEF Inv, Rests
<1>6. ASSUME NEW t \in Threads, Send(t) PROVE Moves(t)
  BY <1>1, <1>6, SendMoves
<1>7. CASE Over \/ UNCHANGED vars
  BY <1>2, <1>7 DEF Over, vars, post
<1>8. QED
  BY <1>2, <1>3, <1>4, <1>5, <1>6, <1>7 DEF Next

LEMMA OnePlaceInit == Init => OnePlace
<1> SUFFICES ASSUME Init PROVE OnePlace
  OBVIOUS
<1>1. \A s \in Services : Received(s) = <<>>
  BY ConcatEmptySeq, EmptySeq DEF Init, Received
<1>2. QED
  BY <1>1, EmptySeq DEF Init, OnePlace

\* A number that is not given out yet is nowhere.
LEMMA NumberIsNew ==
  ASSUME Inv, OnePlace
  PROVE  /\ sent \in Nat
         /\ ~IsLost(sent + 1)
         /\ \A s \in Services : ~Has(s, sent + 1)
<1>1. sent \in Nat
  BY BoundsAssumption DEF Inv, TypeOK
<1>2. sent + 1 \notin lost
  BY <1>1 DEF OnePlace
<1>3. \A s \in Services : \A k \in DOMAIN Received(s) : Received(s)[k].no # sent + 1
  BY <1>1 DEF Inv, NumberInv
<1>4. QED
  BY <1>1, <1>2, <1>3 DEF IsLost, Has

LEMMA OnePlaceLost ==
  ASSUME Inv, OnePlace, NEW m \in Messages, m.no = sent + 1, sent' = sent + 1, Loses(m)
  PROVE  OnePlace'
<1>1. sent \in Nat /\ ~IsLost(sent + 1) /\ \A s \in Services : ~Has(s, sent + 1)
  BY NumberIsNew
<1>2. \A n \in lost : n \in Nat /\ n <= sent
  BY BoundsAssumption DEF Inv, TypeOK, OnePlace
<1>3. /\ \A s \in Services, i \in Nat : Has(s, i)' <=> Has(s, i)
      /\ \A i \in Nat : IsLost(i)' <=> IsLost(i) \/ i = sent + 1
  BY DEF Loses, Has, IsLost
<1>4. \A n \in lost' : n <= sent'
  BY <1>1, <1>2 DEF Loses
<1>6. \A i \in 1..sent' : i \in Nat /\ (i \in 1..sent \/ i = sent + 1)
  BY <1>1
<1>7. \A s, r \in Services : \A i \in 1..sent' : Has(s, i)' /\ Has(r, i)' => s = r
  BY <1>1, <1>3, <1>6 DEF OnePlace
<1>8. \A s \in Services : \A i \in 1..sent' : ~(Has(s, i)' /\ IsLost(i)')
  BY <1>1, <1>3, <1>6 DEF OnePlace
<1>9. \A i \in 1..sent' : IsLost(i)' \/ \E s \in Services : Has(s, i)'
  BY <1>3, <1>6 DEF OnePlace
<1>10. \A s \in Services : \A k \in DOMAIN (Received(s)') : k <= Received(s)'[k].no
  BY DEF Loses, OnePlace
<1>11. QED
  BY <1>4, <1>7, <1>8, <1>9, <1>10 DEF OnePlace

LEMMA OnePlaceGiven ==
  ASSUME Inv, OnePlace, NEW s \in Services, NEW m \in Messages, m.no = sent + 1,
         sent' = sent + 1, Gives(s, m)
  PROVE  OnePlace'
<1>1. sent \in Nat /\ ~IsLost(sent + 1) /\ \A r \in Services : ~Has(r, sent + 1)
  BY NumberIsNew
<1>2. \A r \in Services : Received(r) \in Seq(Messages) /\ Len(Received(r)) \in Nat
  BY ReceivedFacts, LenProperties DEF Inv
<1> DEFINE q == Received(s)
<1>3. /\ q \in Seq(Messages) /\ DOMAIN q = 1..Len(q)
      /\ DOMAIN Append(q, m) = 1..(Len(q) + 1)
      /\ \A k \in DOMAIN q : Append(q, m)[k] = q[k]
      /\ Append(q, m)[Len(q) + 1] = m
  BY <1>2, AppendProperties, LenProperties
<1>4. \A k \in DOMAIN Append(q, m) : k \in DOMAIN q \/ k = Len(q) + 1
  BY <1>2, <1>3
<1>5. \A k \in DOMAIN q : k \in DOMAIN Append(q, m)
  BY <1>2, <1>3
<1>6. Len(q) + 1 \in DOMAIN Append(q, m) /\ Len(q) + 1 \notin DOMAIN q
  BY <1>2, <1>3
<1>7. /\ \A i \in Nat : Has(s, i)' <=> Has(s, i) \/ i = sent + 1
      /\ \A r \in Services \ {s}, i \in Nat : Has(r, i)' <=> Has(r, i)
      /\ \A i \in Nat : IsLost(i)' <=> IsLost(i)
  <2>1. ASSUME NEW i \in Nat PROVE Has(s, i)' <=> Has(s, i) \/ i = sent + 1
    BY <1>3, <1>4, <1>5, <1>6 DEF Gives, Has
  <2>2. QED
    BY <2>1 DEF Gives, Has, IsLost
<1>8. \A i \in 1..sent' : i \in Nat /\ (i \in 1..sent \/ i = sent + 1)
  BY <1>1
<1>9. \A n \in lost' : n <= sent'
  <2>1. \A n \in lost : n \in Nat /\ n <= sent
    BY BoundsAssumption DEF Inv, TypeOK, OnePlace
  <2>2. QED
    BY <1>1, <2>1 DEF Gives, OnePlace
<1>10. \A r, u \in Services : \A i \in 1..sent' : Has(r, i)' /\ Has(u, i)' => r = u
  <2> SUFFICES ASSUME NEW r \in Services, NEW u \in Services, NEW i \in 1..sent',
                      Has(r, i)', Has(u, i)'
               PROVE  r = u
    OBVIOUS
  <2>1. CASE i = sent + 1
    BY <1>1, <1>7, <1>8, <2>1
  <2>2. CASE i \in 1..sent
    <3>1. i # sent + 1 /\ i \in Nat
      BY <1>1, <2>2
    <3>2. Has(r, i) /\ Has(u, i)
      BY <1>7, <3>1
    <3>3. QED
      BY <2>2, <3>2 DEF OnePlace
  <2>3. QED
    BY <1>8, <2>1, <2>2
<1>11. \A r \in Services : \A i \in 1..sent' : ~(Has(r, i)' /\ IsLost(i)')
  <2> SUFFICES ASSUME NEW r \in Services, NEW i \in 1..sent', Has(r, i)', IsLost(i)'
               PROVE  FALSE
    OBVIOUS
  <2>1. i \in Nat /\ IsLost(i)
    BY <1>7, <1>8
  <2>2. i \in 1..sent
    BY <1>1, <1>8, <2>1
  <2>3. Has(r, i)
    BY <1>1, <1>7, <2>1, <2>2
  <2>4. QED
    BY <2>1, <2>2, <2>3 DEF OnePlace
<1>12. \A i \in 1..sent' : IsLost(i)' \/ \E r \in Services : Has(r, i)'
  BY <1>7, <1>8 DEF OnePlace
<1>13. \A r \in Services : \A k \in DOMAIN (Received(r)') : k <= Received(r)'[k].no
  <2> SUFFICES ASSUME NEW k \in DOMAIN (Received(s)') PROVE k <= Received(s)'[k].no
    BY DEF Gives, OnePlace
  <2>1. CASE k \in DOMAIN q
    BY <1>3, <2>1 DEF Gives, OnePlace
  <2>2. CASE k = Len(q) + 1
    <3>1. Len(q) <= sent
      <4>1. CASE Len(q) = 0
        BY <1>1, <4>1
      <4>2. CASE Len(q) # 0
        <5>1. Len(q) \in DOMAIN q /\ Len(q) \in Nat
          BY <1>2, <1>3, <4>2
        <5>2. Len(q) <= q[Len(q)].no /\ q[Len(q)].no <= sent
          BY <5>1 DEF OnePlace, Inv, NumberInv
        <5>3. q[Len(q)].no \in Nat
          BY <1>3, <5>1, NumberOf
        <5>4. QED
          BY <1>1, <5>1, <5>2, <5>3
      <4>3. QED
        BY <4>1, <4>2
    <3>2. Received(s)'[k].no = sent + 1
      BY <1>3, <2>2 DEF Gives
    <3>3. QED
      BY <1>1, <1>2, <2>2, <3>1, <3>2
  <2>3. QED
    BY <1>4, <2>1, <2>2 DEF Gives
<1>14. QED
  BY <1>9, <1>10, <1>11, <1>12, <1>13 DEF OnePlace

LEMMA OnePlaceNext == Inv /\ OnePlace /\ [Next]_vars => OnePlace'
<1> SUFFICES ASSUME Inv, OnePlace, [Next]_vars PROVE OnePlace'
  OBVIOUS
<1>1. CASE Rests
  BY <1>1 DEF Rests, OnePlace, Has, IsLost
<1>2. ASSUME NEW t \in Threads, Moves(t) PROVE OnePlace'
  BY <1>2, OnePlaceLost, OnePlaceGiven DEF Moves
<1>3. QED
  BY <1>1, <1>2, NextMoves

\* The two numbers that Accounted adds.
LEMMA PlaceCounted == Inv /\ OnePlace => Accounted
<1> SUFFICES ASSUME Inv, OnePlace, NEW i \in 1..sent
             PROVE  (IF i \in lost THEN 1 ELSE 0)
                      + Cardinality({p \in Services \X (1..MaxSent) :
                          p[2] \in DOMAIN Received(p[1]) /\ Received(p[1])[p[2]].no = i}) = 1
  BY DEF Accounted
<1> DEFINE Places == {p \in Services \X (1..MaxSent) :
                        p[2] \in DOMAIN Received(p[1]) /\ Received(p[1])[p[2]].no = i}
<1>1. CASE IsLost(i)
  <2>1. Places = {}
    BY <1>1 DEF OnePlace, Has
  <2> HIDE DEF Places
  <2>2. Cardinality(Places) = 0
    BY <2>1, FS_EmptySet
  <2>3. QED
    BY <1>1, <2>2 DEF Places, IsLost
<1>2. CASE ~IsLost(i)
  <2>2. PICK s \in Services : Has(s, i)
    BY <1>2 DEF OnePlace
  <2>3. PICK k \in DOMAIN Received(s) : Received(s)[k].no = i
    BY <2>2 DEF Has
  <2>4. DOMAIN Received(s) \subseteq Nat \ {0}
    <3>1. Received(s) \in Seq(Messages)
      BY ReceivedFacts DEF Inv
    <3>2. DOMAIN Received(s) = 1..Len(Received(s)) /\ Len(Received(s)) \in Nat
      BY <3>1, LenProperties
    <3>3. QED
      BY <3>2
  <2>5. k \in 1..MaxSent
    <3>1. k <= i /\ sent \in 0..MaxSent /\ i \in 1..sent
      BY <2>3 DEF OnePlace, Inv, TypeOK
    <3>2. QED
      BY <2>4, <3>1, BoundsAssumption
  <2>6. ASSUME NEW p \in Places PROVE p = <<s, k>>
    <3>1. /\ p[1] \in Services /\ p[2] \in DOMAIN Received(p[1])
          /\ Received(p[1])[p[2]].no = i /\ p = <<p[1], p[2]>>
      OBVIOUS
    <3>2. p[1] = s
      BY <2>2, <3>1 DEF OnePlace, Has
    <3>3. p[2] \in DOMAIN Received(s) /\ p[2] \in Nat /\ k \in Nat /\ i \in Nat
      BY <2>4, <3>1, <3>2
    <3>4. ~(p[2] < k) /\ ~(k < p[2])
      BY <2>3, <3>1, <3>2, <3>3 DEF Inv, InOrder
    <3>5. p[2] = k
      BY <3>3, <3>4
    <3>6. QED
      BY <3>1, <3>2, <3>5
  <2>7. <<s, k>> \in Places
    BY <2>3, <2>5
  <2>8. Places = {<<s, k>>}
    BY <2>6, <2>7
  <2> HIDE DEF Places
  <2>9. Cardinality(Places) = 1
    BY <2>8, FS_Singleton
  <2>10. QED
    BY <1>2, <2>9 DEF Places, IsLost
<1>3. QED
  BY <1>1, <1>2

(* A message that was sent is lost, or with one service, and only in one     *)
(* place there: no step of a thread loses an accepted message or copies it.  *)
THEOREM NothingGoesAstray == Spec => []Accounted
<1>1. Init => Inv /\ OnePlace
  BY InvInit, OnePlaceInit
<1>2. (Inv /\ OnePlace) /\ [Next]_vars => (Inv /\ OnePlace)'
  BY InvNext, OnePlaceNext
<1>3. QED
  BY <1>1, <1>2, PlaceCounted, PTL DEF Spec
=============================================================================
