--------------------------- MODULE LServiceProofs ---------------------------
(***************************************************************************)
(* Who owns a packed block, for every number of names, services and        *)
(* blocks: a block that a configuration or an inbox refers to is live and  *)
(* no other place refers to it.                                            *)
(***************************************************************************)
EXTENDS LService, SequenceTheorems, FiniteSetTheorems, TLAPS

Addresses == Blocks \cup {Nil, Pointer}

Owned ==
  \A s, r \in Services : \A i \in PlacesOf(s), j \in PlacesOf(r) :
    Place(s, i) \in Blocks =>
      /\ Place(s, i) \in live
      /\ Place(s, i) = Place(r, j) => s = r /\ i = j

\* A service that has not been made has no configuration.
Unmade == \A s \in Services \ made : config[s] = Nil

Inv == TypeOK /\ Owned /\ Unmade

-----------------------------------------------------------------------------
(* What the calls do to the places.                                          *)

(* Some blocks are packed, of which c may be kept; of the others there is at *)
(* most one unless the process aborts.                                       *)
PackedSome(bs, c) ==
  /\ bs \subseteq Fresh
  /\ c \in bs \cup {Nil, Pointer}
  /\ live' = live \cup bs
  /\ result' # "abort" => \E x : bs \subseteq {x, c}

Dropped(c) == c = Nil /\ UNCHANGED pool

MadeWith(c) ==
  \E s \in Services \ made :
    /\ made' = made \cup {s}
    /\ started' \subseteq made' /\ started \subseteq started'
    /\ config' = [config EXCEPT ![s] = c]
    /\ directory' \in [Short -> Services \cup {Nil}]
    /\ UNCHANGED inbox

Delivered(c) ==
  /\ c # Nil
  /\ \E s \in Services :
       /\ Len(inbox[s]) < MaxInbox
       /\ inbox' = [inbox EXCEPT ![s] = Append(@, c)]
       /\ UNCHANGED <<made, started, directory, config>>

\* What the calls that make a service or send have in common.
Stores ==
  /\ \E bs \in SUBSET Blocks : \E c \in Addresses :
       PackedSome(bs, c) /\ (Dropped(c) \/ MadeWith(c) \/ Delivered(c))
  /\ result' \in {"ok", "error", "abort"}
  /\ called' \in Short \cup Long \cup {Nil}
  /\ UNCHANGED <<serializer, dead>>

LEMMA MNewStores ==
  ASSUME TypeOK, NEW t \in Arguments, NEW pooled \in BOOLEAN,
         NEW packed \in SUBSET Fresh, NEW x, packed \subseteq {x}, MNew(t, pooled, packed)
  PROVE  /\ \E bs \in SUBSET Blocks : \E c \in Addresses :
              PackedSome(bs, c) /\ (Dropped(c) \/ MadeWith(c))
         /\ result' \in {"ok", "error", "abort"}
<1> USE DEF Addresses
<1>0. packed \in SUBSET Blocks /\ Fresh \subseteq Blocks
  BY DEF Fresh
<1>1. CASE /\ MNewFails(t, pooled) \/ CannotPack(t.config)
           /\ Returns("error")
           /\ Pack(packed)
           /\ UNCHANGED pool
  <2>1. PackedSome(packed, Nil)
    BY <1>0, <1>1 DEF Pack, PackedSome
  <2>2. QED
    BY <1>0, <1>1, <2>1 DEF Returns, Dropped
<1>2. ASSUME NEW last \in (IF t.config = "table" THEN Fresh \ packed ELSE {Nil}),
             Pack(packed \cup ({last} \ {Nil})),
             \/ /\ t.config = "other" \/ (pooled /\ t.name \in Long)
                /\ Returns(IF t.config = "other" THEN "error" ELSE "abort")
                /\ UNCHANGED pool
             \/ /\ Returns("ok")
                /\ \E c \in PointersFor(t.config, {last}) :
                     Make(IF pooled THEN t.name ELSE Nil, c, pooled)
      PROVE  /\ \E bs \in SUBSET Blocks : \E c \in Addresses :
                  PackedSome(bs, c) /\ (Dropped(c) \/ MadeWith(c))
             /\ result' \in {"ok", "error", "abort"}
  <2> DEFINE bs == packed \cup ({last} \ {Nil})
  <2>1. bs \in SUBSET Blocks /\ bs \subseteq Fresh /\ live' = live \cup bs
    BY <1>0, <1>2 DEF Pack, Fresh
  <2>2. result' \in {"ok", "error", "abort"}
    BY <1>2 DEF Returns
  <2>3. CASE /\ Returns(IF t.config = "other" THEN "error" ELSE "abort")
             /\ UNCHANGED pool
    <3>1. t.config = "other" => bs \subseteq {x}
      BY <1>2
    <3>2. PackedSome(bs, Nil)
      BY <2>1, <2>3, <3>1 DEF PackedSome, Returns
    <3>3. QED
      BY <2>1, <2>2, <2>3, <3>2 DEF Dropped
  <2>4. ASSUME NEW c \in PointersFor(t.config, {last}),
               Make(IF pooled THEN t.name ELSE Nil, c, pooled)
        PROVE  \E d \in Addresses : PackedSome(bs, d) /\ MadeWith(d)
    <3>1. PICK s \in Services \ made :
            /\ made' = made \cup {s}
            /\ started' = started \/ started' = started \cup {s}
            /\ config' = [config EXCEPT ![s] = c]
            /\ directory' \in [Short -> {s} \cup {directory[m] : m \in Short}]
            /\ UNCHANGED inbox
      BY <2>4 DEF Make
    <3>2. directory' \in [Short -> Services \cup {Nil}] /\ started' \subseteq made'
      BY <3>1 DEF TypeOK
    <3>3. c \in bs \cup {Nil, Pointer} /\ bs \subseteq {x, c}
      BY <1>2 DEF PointersFor
    <3>4. PackedSome(bs, c)
      BY <2>1, <3>3 DEF PackedSome
    <3>5. MadeWith(c)
      BY <3>1, <3>2 DEF MadeWith
    <3>6. c \in Addresses
      BY <2>1, <3>3
    <3>7. QED
      BY <3>4, <3>5, <3>6
  <2>5. QED
    BY <1>2, <2>1, <2>2, <2>3, <2>4
<1>3. QED
  BY <1>1, <1>2 DEF MNew

LEMMA NewStores ==
  ASSUME TypeOK, NEW t \in Arguments, NewService(t) \/ New(t)
  PROVE  Stores
<1> USE DEF Addresses
<1>1. t.name \in Short \cup Long \cup {Nil}
  BY DEF Arguments
<1>2. CASE New(t)
  <2>1. MNew(t, FALSE, {}) /\ called' = Nil /\ UNCHANGED <<serializer, dead>>
    BY <1>2 DEF New
  <2>2. QED
    BY <2>1, MNewStores DEF Stores
<1>3. CASE NewService(t)
  <2>0. called' = t.name /\ UNCHANGED <<serializer, dead>>
    BY <1>3 DEF NewService
  <2>1. CASE Returns("error") /\ UNCHANGED <<pool, live>>
    <3>1. PackedSome({}, Nil) /\ Dropped(Nil)
      BY <2>1 DEF PackedSome, Dropped
    <3>2. QED
      BY <1>1, <2>0, <2>1, <3>1 DEF Stores, Returns
  <2>2. ASSUME NEW first \in (IF t.config = "table" THEN Fresh ELSE {Nil}),
               MNew(t, TRUE, {first} \ {Nil})
        PROVE  Stores
    <3>1. {first} \ {Nil} \in SUBSET Fresh /\ {first} \ {Nil} \subseteq {first}
      BY <2>2
    <3>2. QED
      BY <1>1, <2>0, <2>2, <3>1, MNewStores DEF Stores
  <2>3. QED
    BY <1>3, <2>1, <2>2 DEF NewService
<1>4. QED
  BY <1>2, <1>3

LEMMA SendStores ==
  ASSUME TypeOK, NEW s \in Services \cup {Nil}, NEW kind \in Data, SendTo(s, kind)
  PROVE  Stores
<1> USE DEF Addresses
<1>0. called' = Nil /\ UNCHANGED <<serializer, dead>>
  BY DEF SendTo
<1>1. CASE Returns("error") /\ UNCHANGED <<pool, live>>
  <2>1. PackedSome({}, Nil) /\ Dropped(Nil)
    BY <1>1 DEF PackedSome, Dropped
  <2>2. QED
    BY <1>0, <1>1, <2>1 DEF Stores, Returns
<1>2. ASSUME NEW b \in (IF kind = "table" THEN Fresh ELSE {Nil}),
             Pack({b} \ {Nil}),
             \/ (Returns("ok") \/ Returns("error")) /\ UNCHANGED pool
             \/ s # Nil /\ \E p \in PointersFor(kind, {b}) : Deliver(s, p)
      PROVE  Stores
  <2> DEFINE bs == {b} \ {Nil}
  <2>1. bs \in SUBSET Blocks /\ \A c \in bs \cup {Nil, Pointer} : PackedSome(bs, c)
    BY <1>2 DEF Pack, PackedSome, Fresh
  <2>2. CASE (Returns("ok") \/ Returns("error")) /\ UNCHANGED pool
    BY <1>0, <2>1, <2>2 DEF Stores, Returns, Dropped
  <2>3. ASSUME s # Nil, NEW p \in PointersFor(kind, {b}), Deliver(s, p)
        PROVE  Stores
    <3>1. p \in bs \cup {Nil, Pointer}
      BY <1>2 DEF PointersFor
    <3>2. Dropped(Nil) \/ Delivered(p)
      <4>1. CASE p = Nil \/ Len(inbox[s]) = MaxInbox
        BY <2>3, <4>1 DEF Deliver, Dropped, pool, TypeOK
      <4>2. CASE p # Nil /\ Len(inbox[s]) # MaxInbox
        <5>1. Len(inbox[s]) < MaxInbox
          BY <2>3, <4>2, LenProperties, InboxAssumption DEF TypeOK
        <5>2. QED
          BY <2>3, <4>2, <5>1 DEF Deliver, Delivered
      <4>3. QED
        BY <4>1, <4>2
    <3>3. QED
      BY <1>0, <2>1, <2>3, <3>1, <3>2 DEF Stores, Deliver, Returns
  <2>4. QED
    BY <1>2, <2>2, <2>3
<1>3. QED
  BY <1>1, <1>2 DEF SendTo

-----------------------------------------------------------------------------
(* The invariant.                                                            *)

LEMMA InvInit == Init => Inv
<1> SUFFICES ASSUME Init PROVE Inv
  OBVIOUS
<1>1. Len(<<>>) = 0 /\ <<>> \in Seq(Blocks \cup {Pointer})
  BY EmptySeq
<1>2. TypeOK
  <2>1. \A s \in Services : Len(inbox[s]) <= MaxInbox
    BY <1>1, InboxAssumption DEF Init
  <2>2. inbox \in [Services -> Seq(Blocks \cup {Pointer})]
    BY <1>1 DEF Init
  <2>3. QED
    BY <2>1, <2>2 DEF Init, TypeOK
<1>3. \A s \in Services : \A i \in PlacesOf(s) : Place(s, i) = Nil
  BY <1>1 DEF Init, PlacesOf, Place
<1>4. QED
  BY <1>2, <1>3, BlocksAssumption DEF Init, Inv, Owned, Unmade

LEMMA StoresType ==
  ASSUME TypeOK, Stores
  PROVE  TypeOK'
<1>1. PICK bs \in SUBSET Blocks, c \in Addresses :
        PackedSome(bs, c) /\ (Dropped(c) \/ MadeWith(c) \/ Delivered(c))
  BY DEF Stores
<1>2. /\ live' \subseteq Blocks /\ dead' \subseteq Blocks /\ serializer' \in BOOLEAN
      /\ result' \in {"ok", "error", "abort"}
      /\ called' \in Short \cup Long \cup {Nil}
      /\ c \in Blocks \cup {Nil, Pointer}
  BY <1>1 DEF Stores, PackedSome, TypeOK, Addresses
<1>3. CASE Dropped(c)
  BY <1>2, <1>3 DEF Dropped, pool, TypeOK
<1>4. CASE MadeWith(c)
  BY <1>2, <1>4 DEF MadeWith, TypeOK
<1>5. CASE Delivered(c)
  <2>1. PICK s \in Services :
          /\ Len(inbox[s]) < MaxInbox
          /\ inbox' = [inbox EXCEPT ![s] = Append(@, c)]
          /\ UNCHANGED <<made, started, directory, config>>
    BY <1>5 DEF Delivered
  <2>2. c \in Blocks \cup {Pointer} /\ inbox[s] \in Seq(Blocks \cup {Pointer})
    BY <1>2, <1>5 DEF Delivered, TypeOK
  <2>3. /\ Append(inbox[s], c) \in Seq(Blocks \cup {Pointer})
        /\ Len(Append(inbox[s], c)) <= MaxInbox
    BY <2>1, <2>2, AppendProperties, LenProperties, InboxAssumption
  <2>4. QED
    BY <1>2, <2>1, <2>3 DEF TypeOK
<1>6. QED
  BY <1>1, <1>3, <1>4, <1>5

\* The places are as they were, but for one, which was none and holds c.
Adds(z, k, c) ==
  /\ z \in Services /\ k \in PlacesOf(z)' /\ Place(z, k)' = c
  /\ k \in PlacesOf(z) => Place(z, k) = Nil
  /\ \A s \in Services : \A i \in PlacesOf(s)' :
       ~(s = z /\ i = k) => i \in PlacesOf(s) /\ Place(s, i)' = Place(s, i)
  /\ \A s \in Services : PlacesOf(s) \subseteq PlacesOf(s)'

LEMMA StoresAdd ==
  ASSUME TypeOK, Unmade, NEW c \in Addresses, MadeWith(c) \/ Delivered(c)
  PROVE  \E z \in Services, k \in Nat : Adds(z, k, c)
<1>1. CASE MadeWith(c)
  <2>1. PICK z \in Services \ made : config' = [config EXCEPT ![z] = c] /\ inbox' = inbox
    BY <1>1 DEF MadeWith
  <2>2. \A s \in Services : PlacesOf(s)' = PlacesOf(s) /\ 0 \in PlacesOf(s)
    BY <2>1, LenProperties DEF PlacesOf, TypeOK
  <2>3. Adds(z, 0, c)
    BY <2>1, <2>2 DEF Adds, Place, Unmade, TypeOK
  <2>4. QED
    BY <2>3
<1>2. CASE Delivered(c)
  <2>1. PICK z \in Services :
          c # Nil /\ inbox' = [inbox EXCEPT ![z] = Append(@, c)] /\ config' = config
    BY <1>2 DEF Delivered
  <2>2. PICK q \in Seq(Blocks \cup {Pointer}) : q = inbox[z]
    BY DEF TypeOK
  <2>3. PICK k \in Nat : k = Len(q) + 1
    BY LenProperties
  <2>4. /\ inbox'[z] = Append(q, c)
        /\ \A s \in Services \ {z} : inbox'[s] = inbox[s]
    BY <2>1, <2>2 DEF TypeOK
  <2>5. /\ Len(q) \in Nat /\ Len(inbox'[z]) = k /\ inbox'[z][k] = c
        /\ \A i \in 1..Len(q) : inbox'[z][i] = inbox[z][i]
    BY <2>1, <2>2, <2>3, <2>4, AppendProperties, LenProperties
  <2>6. /\ k \in PlacesOf(z)' /\ Place(z, k)' = c /\ k \notin PlacesOf(z)
        /\ PlacesOf(z) \subseteq PlacesOf(z)'
    BY <2>2, <2>3, <2>5 DEF Place, PlacesOf
  <2>7. ASSUME NEW i \in PlacesOf(z)', i # k
        PROVE  i \in PlacesOf(z) /\ Place(z, i)' = Place(z, i)
    BY <2>1, <2>2, <2>3, <2>5, <2>7 DEF Place, PlacesOf
  <2>8. ASSUME NEW s \in Services \ {z}
        PROVE  /\ PlacesOf(s)' = PlacesOf(s)
               /\ \A i \in PlacesOf(s) : Place(s, i)' = Place(s, i)
    BY <2>1, <2>4 DEF Place, PlacesOf
  <2>9. Adds(z, k, c)
    BY <2>6, <2>7, <2>8 DEF Adds
  <2>10. QED
    BY <2>9
<1>3. QED
  BY <1>1, <1>2

\* What the new place gets is new to all places.
LEMMA AddOwned ==
  ASSUME TypeOK, Owned, NEW bs \in SUBSET Fresh, live' = live \cup bs,
         NEW c \in Addresses, c \in bs \cup {Nil, Pointer},
         NEW z \in Services, NEW k \in Nat, Adds(z, k, c)
  PROVE  Owned'
<1>1. \A s \in Services : \A i \in PlacesOf(s) : Place(s, i) \in Blocks => Place(s, i) \in live
  BY DEF Owned
<1>2. ASSUME NEW s \in Services, NEW i \in PlacesOf(s)', ~(s = z /\ i = k), c \in Blocks
      PROVE  Place(s, i)' # c
  BY <1>1, <1>2, BlocksAssumption DEF Fresh, Adds
<1>3. c \in Blocks => c \in live'
  BY BlocksAssumption
<1>4. QED
  BY <1>2, <1>3 DEF Owned, Adds

LEMMA StoresInv ==
  ASSUME Inv, Stores
  PROVE  Inv'
<1>0. TypeOK'
  BY StoresType DEF Inv
<1>1. PICK bs \in SUBSET Blocks, c \in Addresses :
        PackedSome(bs, c) /\ (Dropped(c) \/ MadeWith(c) \/ Delivered(c))
  BY DEF Stores
<1>2. bs \in SUBSET Fresh /\ live' = live \cup bs
  BY <1>1 DEF PackedSome
<1>3. Owned'
  <2>1. CASE Dropped(c)
    BY <1>2, <2>1 DEF Dropped, pool, Inv, Owned, Place, PlacesOf
  <2>2. CASE MadeWith(c) \/ Delivered(c)
    <3>1. PICK z \in Services, k \in Nat : Adds(z, k, c)
      BY <2>2, StoresAdd DEF Inv
    <3>2. c \in bs \cup {Nil, Pointer}
      BY <1>1 DEF PackedSome
    <3>3. QED
      BY <1>2, <3>1, <3>2, AddOwned DEF Inv
  <2>3. QED
    BY <1>1, <2>1, <2>2
<1>4. Unmade'
  BY <1>1 DEF Dropped, MadeWith, Delivered, pool, Inv, Unmade, TypeOK
<1>5. QED
  BY <1>0, <1>3, <1>4 DEF Inv

\* A configuration or the oldest message is read, and its block freed.
LEMMA FreeType ==
  ASSUME TypeOK, NEW p \in Addresses, Free(p)
  PROVE  live' \subseteq Blocks /\ (p # Nil => dead' \subseteq Blocks)
BY DEF Free, TypeOK, Addresses

LEMMA ReadInv ==
  ASSUME Inv, NEW s \in Services, Input(s) \/ hello(s)
  PROVE  Inv'
<1>1. CASE Input(s)
  <2>1. /\ config[s] \in Addresses \ {Nil} /\ config' = [config EXCEPT ![s] = Nil]
        /\ UNCHANGED <<serializer, made, started, directory, inbox>>
        /\ live' = live \ {config[s]} /\ Free(config[s])
        /\ result' = "ok" /\ called' = Nil
    BY <1>1 DEF Input, Returns, Free, Inv, TypeOK, Addresses
  <2>2. TypeOK'
    BY <2>1, FreeType DEF Inv, TypeOK
  <2>3. 0 \in PlacesOf(s) /\ Place(s, 0) = config[s]
    BY LenProperties DEF Place, PlacesOf, Inv, TypeOK
  <2>4. \A r \in Services : \A i \in PlacesOf(r)' :
          /\ i \in PlacesOf(r)
          /\ Place(r, i)' = IF r = s /\ i = 0 THEN Nil ELSE Place(r, i)
    BY <2>1 DEF Place, PlacesOf, Inv, TypeOK
  <2>5. Owned'
    BY <2>1, <2>3, <2>4, BlocksAssumption DEF Inv, Owned
  <2>6. QED
    BY <2>1, <2>2, <2>5 DEF Inv, Unmade, TypeOK
<1>2. CASE hello(s)
  <2>1. /\ inbox[s] # <<>> /\ inbox' = [inbox EXCEPT ![s] = Tail(@)]
        /\ UNCHANGED <<serializer, made, started, directory, config>>
        /\ live' = live \ {Head(inbox[s])} /\ Free(Head(inbox[s]))
        /\ result' = "ok" /\ called' = Nil
    BY <1>2 DEF hello, Returns, Free
  <2>2. PICK q \in Seq(Blocks \cup {Pointer}) : q = inbox[s] /\ q # <<>>
    BY <2>1 DEF Inv, TypeOK
  <2>3. /\ Head(q) \in Blocks \cup {Pointer} /\ Tail(q) \in Seq(Blocks \cup {Pointer})
        /\ Len(q) \in Nat \ {0} /\ Len(Tail(q)) = Len(q) - 1
        /\ Head(q) = q[1]
        /\ \A i \in 1..Len(q) - 1 : Tail(q)[i] = q[i + 1]
    BY <2>2, HeadTailProperties, LenProperties, EmptySeq
  <2>4. /\ inbox'[s] = Tail(q)
        /\ \A r \in Services \ {s} : inbox'[r] = inbox[r]
    BY <2>1, <2>2 DEF Inv, TypeOK
  <2>5. TypeOK'
    <3>1. \A r \in Services : Len(inbox'[r]) <= MaxInbox /\ inbox'[r] \in Seq(Blocks \cup {Pointer})
      <4>1. Len(q) <= MaxInbox
        BY <2>2 DEF Inv, TypeOK
      <4>2. Len(inbox'[s]) <= MaxInbox /\ inbox'[s] \in Seq(Blocks \cup {Pointer})
        BY <2>3, <2>4, <4>1, InboxAssumption
      <4>3. QED
        BY <2>4, <4>2 DEF Inv, TypeOK
    <3>2. live' \subseteq Blocks /\ dead' \subseteq Blocks
      BY <2>1, <2>2, <2>3, BlocksAssumption DEF Free, Inv, TypeOK
    <3>3. QED
      BY <2>1, <3>1, <3>2 DEF Inv, TypeOK
  <2>6. 1 \in PlacesOf(s) /\ Place(s, 1) = Head(q)
    BY <2>2, <2>3 DEF Place, PlacesOf
  <2> DEFINE From(r, i) == IF r = s /\ i # 0 THEN i + 1 ELSE i
  <2>7. \A r \in Services : \A i \in PlacesOf(r)' :
          /\ From(r, i) \in PlacesOf(r) /\ (r = s => From(r, i) # 1)
          /\ Place(r, i)' = Place(r, From(r, i))
    <3>1. ASSUME NEW i \in PlacesOf(s)'
          PROVE  /\ From(s, i) \in PlacesOf(s) /\ From(s, i) # 1
                 /\ Place(s, i)' = Place(s, From(s, i))
      <4>1. i \in 0..Len(q) - 1
        BY <2>3, <2>4, <3>1 DEF PlacesOf
      <4>2. CASE i = 0
        BY <2>1, <2>2, <2>3, <4>2 DEF Place, PlacesOf
      <4>3. CASE i # 0
        <5>1. i \in 1..Len(q) - 1 /\ i + 1 \in 0..Len(q) /\ i + 1 # 0 /\ i + 1 # 1
          BY <2>3, <4>1, <4>3
        <5>2. inbox'[s][i] = inbox[s][i + 1]
          BY <2>2, <2>3, <2>4, <5>1
        <5>3. QED
          BY <2>2, <4>3, <5>1, <5>2 DEF Place, PlacesOf
      <4>4. QED
        BY <4>2, <4>3
    <3>2. ASSUME NEW r \in Services \ {s}, NEW i \in PlacesOf(r)'
          PROVE  From(r, i) \in PlacesOf(r) /\ Place(r, i)' = Place(r, From(r, i))
      BY <2>1, <2>4, <3>2 DEF Place, PlacesOf
    <3>3. QED
      BY <3>1, <3>2
  <2>8. \A r \in Services : \A i, j \in PlacesOf(r)' : From(r, i) = From(r, j) => i = j
    BY <2>3, <2>4, <2>5, LenProperties DEF PlacesOf, TypeOK
  <2> HIDE DEF From
  <2>9. Owned'
    BY <2>1, <2>2, <2>6, <2>7, <2>8 DEF Inv, Owned
  <2>10. QED
    BY <2>1, <2>5, <2>9 DEF Inv, Unmade
<1>3. QED
  BY <1>1, <1>2

LEMMA InvNext == Inv /\ [Next]_vars => Inv'
<1> SUFFICES ASSUME Inv, [Next]_vars PROVE Inv'
  OBVIOUS
<1>1. ASSUME NEW t \in Arguments, NewService(t) \/ New(t) PROVE Inv'
  BY <1>1, NewStores, StoresInv DEF Inv
<1>2. ASSUME NEW n \in Short \cup Long, NEW kind \in Data, PoolSend(n, kind) PROVE Inv'
  <2>1. (IF n \in Short THEN directory[n] ELSE Nil) \in Services \cup {Nil}
    BY DEF Inv, TypeOK
  <2>2. QED
    BY <1>2, <2>1, SendStores, StoresInv DEF Inv, PoolSend
<1>3. ASSUME NEW s \in Services, NEW kind \in Data, ServiceSend(s, kind) PROVE Inv'
  BY <1>3, SendStores, StoresInv DEF Inv, ServiceSend
<1>4. ASSUME NEW s \in Services, Start(s) PROVE Inv'
  BY <1>4 DEF Start, Returns, Inv, TypeOK, Owned, Unmade, Place, PlacesOf
<1>5. ASSUME NEW s \in Services, Input(s) \/ hello(s) PROVE Inv'
  BY <1>5, ReadInv
<1>6. CASE SetSerializer
  BY <1>6 DEF SetSerializer, Returns, pool, Inv, TypeOK, Owned, Unmade, Place, PlacesOf
<1>7. CASE UNCHANGED vars
  BY <1>7 DEF vars, pool, Inv, TypeOK, Owned, Unmade, Place, PlacesOf
<1>8. QED
  BY <1>1, <1>2, <1>3, <1>4, <1>5, <1>6, <1>7 DEF Next, Aborted

LEMMA Invariant == Spec => []Inv
BY InvInit, InvNext, PTL DEF Spec

(* Only pointers get into an inbox, never NULL, and never more than fit.     *)
THEOREM TypeCorrect == Spec => []TypeOK
<1>1. Inv => TypeOK
  BY DEF Inv
<1>2. QED
  BY <1>1, Invariant, PTL

(* What is kept for a service is live, and nothing else keeps it.            *)
THEOREM BlocksHaveOneOwner == Spec => []OneOwner
<1>1. Inv => OneOwner
  <2> SUFFICES ASSUME Inv, NEW b \in Blocks
               PROVE  Cardinality(Places(b)) <= (IF b \in live THEN 1 ELSE 0)
    BY DEF OneOwner
  <2>1. CASE Places(b) = {}
    BY <2>1, FS_EmptySet
  <2>2. ASSUME NEW p \in Places(b)
        PROVE  b \in live /\ Places(b) = {p}
    BY DEF Inv, Owned, Places
  <2>3. CASE Places(b) # {}
    <3>1. PICK p \in Places(b) : b \in live /\ Places(b) = {p}
      BY <2>2, <2>3
    <3>2. Cardinality({p}) = 1
      BY FS_Singleton
    <3>3. QED
      BY <3>1, <3>2
  <2>4. QED
    BY <2>1, <2>3
<1>2. QED
  BY <1>1, Invariant, PTL
-----------------------------------------------------------------------------
(* What a call may lose.                                                     *)

Kept(b) == \E s \in Services : \E i \in PlacesOf(s) : Place(s, i) = b

LEMMA LostIsNotKept ==
  ASSUME TypeOK
  PROVE  Lost = {b \in live : ~Kept(b)}
<1>1. ASSUME NEW s \in Services, NEW i \in PlacesOf(s)
      PROVE  i \in 0..MaxInbox
  BY LenProperties, InboxAssumption DEF PlacesOf, TypeOK
<1>2. ASSUME NEW b PROVE Places(b) = {} <=> ~Kept(b)
  <2>1. ASSUME NEW s \in Services, NEW i \in PlacesOf(s), Place(s, i) = b
        PROVE  <<s, i>> \in Places(b)
    BY <1>1, <2>1 DEF Places
  <2>2. ASSUME NEW p \in Places(b)
        PROVE  Kept(b)
    BY DEF Places, Kept
  <2>3. QED
    BY <2>1, <2>2 DEF Kept
<1>3. QED
  BY <1>2 DEF Lost

\* A step that leaves every kept block where it is, or frees it, loses nothing old.
LEMMA NothingOldLost ==
  ASSUME TypeOK, TypeOK', NEW bs \in SUBSET Fresh, live' \subseteq live \cup bs,
         \A b \in live \cap live' : Kept(b) => Kept(b)'
  PROVE  Lost' \ Lost \subseteq {b \in bs : ~Kept(b)'}
<1>1. Lost = {b \in live : ~Kept(b)} /\ (Lost = {b \in live : ~Kept(b)})'
  <2>1. Lost = {b \in live : ~Kept(b)}
    BY LostIsNotKept
  <2>2. (Lost = {b \in live : ~Kept(b)})'
    BY LostIsNotKept, PTL
  <2>3. QED
    BY <2>1, <2>2
<1>2. QED
  BY <1>1

LEMMA NoneLost ==
  ASSUME TypeOK, TypeOK', live' \subseteq live, \A b \in live' : Kept(b) => Kept(b)'
  PROVE  Lost' \ Lost = {}
<1>1. PICK bs \in SUBSET Fresh : bs = {}
  OBVIOUS
<1>2. Lost' \ Lost \subseteq {b \in bs : ~Kept(b)'}
  BY NothingOldLost
<1>3. QED
  BY <1>1, <1>2

LEMMA StoresLose ==
  ASSUME Inv, TypeOK', Stores, result' # "abort"
  PROVE  \E x : Lost' \ Lost \subseteq Fresh \cap {x}
<1>1. PICK bs \in SUBSET Blocks, c \in Addresses :
        PackedSome(bs, c) /\ (Dropped(c) \/ MadeWith(c) \/ Delivered(c))
  BY DEF Stores
<1>2. PICK x : bs \subseteq {x, c}
  BY <1>1 DEF PackedSome
<1>3. bs \in SUBSET Fresh /\ live' = live \cup bs /\ c \in bs \cup {Nil, Pointer}
  BY <1>1 DEF PackedSome
<1>4. \A b \in Blocks : Kept(b) \/ (b = c /\ b \in bs) => Kept(b)'
  <2>1. CASE Dropped(c)
    BY <2>1, BlocksAssumption DEF Dropped, pool, Kept, Place, PlacesOf
  <2>2. CASE MadeWith(c) \/ Delivered(c)
    <3>1. PICK z \in Services, k \in Nat : Adds(z, k, c)
      BY <2>2, StoresAdd DEF Inv
    <3>2. Kept(c)'
      BY <3>1 DEF Adds, Kept
    <3>3. ASSUME NEW b \in Blocks, Kept(b) PROVE Kept(b)'
      <4>1. PICK s \in Services : \E i \in PlacesOf(s) : Place(s, i) = b
        BY <3>3 DEF Kept
      <4>2. PICK i \in PlacesOf(s) : Place(s, i) = b
        BY <4>1
      <4>3. ~(s = z /\ i = k)
        BY <3>1, <4>2, BlocksAssumption DEF Adds
      <4>4. i \in PlacesOf(s)' /\ Place(s, i)' = b
        BY <3>1, <4>2, <4>3 DEF Adds
      <4>5. QED
        BY <4>4 DEF Kept
    <3>4. QED
      BY <3>2, <3>3
  <2>3. QED
    BY <1>1, <2>1, <2>2
<1>5. Lost' \ Lost \subseteq {b \in bs : ~Kept(b)'}
  BY <1>3, <1>4, NothingOldLost DEF Inv, TypeOK
<1>6. QED
  BY <1>2, <1>3, <1>4, <1>5

\* What is read is freed, and what waits in the inbox moves up.
LEMMA ReadsLoseNothing ==
  ASSUME Inv, TypeOK', NEW s \in Services, Input(s) \/ hello(s)
  PROVE  Lost' \ Lost = {}
<1>1. CASE Input(s)
  <2>1. /\ config' = [config EXCEPT ![s] = Nil] /\ UNCHANGED inbox
        /\ live' = live \ {config[s]}
    BY <1>1 DEF Input, Free
  <2>2. ASSUME NEW b \in live', Kept(b) PROVE Kept(b)'
    <3>1. PICK r \in Services : \E i \in PlacesOf(r) : Place(r, i) = b
      BY <2>2 DEF Kept
    <3>2. PICK i \in PlacesOf(r) : Place(r, i) = b
      BY <3>1
    <3>3. i \in PlacesOf(r)' /\ Place(r, i)' = b
      BY <2>1, <3>2 DEF Place, PlacesOf, Inv, TypeOK
    <3>4. QED
      BY <3>3 DEF Kept
  <2>3. QED
    BY <2>1, <2>2, NoneLost DEF Inv
<1>2. CASE hello(s)
  <2>1. PICK q \in Seq(Blocks \cup {Pointer}) : q = inbox[s] /\ q # <<>>
    BY <1>2 DEF hello, Inv, TypeOK
  <2>2. /\ UNCHANGED config /\ live' = live \ {Head(q)}
        /\ inbox'[s] = Tail(q) /\ \A r \in Services \ {s} : inbox'[r] = inbox[r]
    BY <1>2, <2>1 DEF hello, Free, Inv, TypeOK
  <2>3. /\ Len(q) \in Nat \ {0} /\ Len(Tail(q)) = Len(q) - 1 /\ Head(q) = q[1]
        /\ \A i \in 1..Len(q) - 1 : Tail(q)[i] = q[i + 1]
    BY <2>1, HeadTailProperties, LenProperties, EmptySeq
  <2>4. ASSUME NEW b \in live', Kept(b) PROVE Kept(b)'
    <3>1. PICK r \in Services : \E i \in PlacesOf(r) : Place(r, i) = b
      BY <2>4 DEF Kept
    <3>2. PICK i \in PlacesOf(r) : Place(r, i) = b
      BY <3>1
    <3>3. CASE r # s \/ i = 0
      <4>1. i \in PlacesOf(r)' /\ Place(r, i)' = b
        BY <2>1, <2>2, <2>3, <3>2, <3>3 DEF Place, PlacesOf
      <4>2. QED
        BY <4>1 DEF Kept
    <3>4. CASE r = s /\ i # 0
      <4>1. i \in 1..Len(q) /\ q[i] = b
        BY <2>1, <2>3, <3>2, <3>4 DEF Place, PlacesOf
      <4>2. i # 1
        BY <2>2, <2>3, <2>4, <4>1
      <4>3. i - 1 \in 1..Len(q) - 1 /\ (i - 1) + 1 = i
        BY <2>3, <4>1, <4>2
      <4>4. i - 1 \in PlacesOf(s)' /\ Place(s, i - 1)' = b
        BY <2>2, <2>3, <4>1, <4>3 DEF Place, PlacesOf
      <4>5. QED
        BY <4>4 DEF Kept
    <3>5. QED
      BY <3>3, <3>4
  <2>5. QED
    BY <2>2, <2>4, NoneLost DEF Inv
<1>3. QED
  BY <1>1, <1>2

(* A call loses at most one block, which it has packed itself, unless the    *)
(* process is aborted; what is kept for a service is never lost.             *)
THEOREM LosesOneAtMost == Spec => LostOnce
<1> DEFINE Once == Lost' \ Lost \subseteq Fresh /\ Cardinality(Lost' \ Lost) <= 1
<1>1. ASSUME Lost' \ Lost = {} PROVE Once
  BY <1>1, FS_EmptySet
<1>2. ASSUME NEW x, Lost' \ Lost \subseteq Fresh \cap {x} PROVE Once
  <2>1. Lost' \ Lost = {} \/ Lost' \ Lost = {x}
    BY <1>2
  <2>2. Cardinality({}) = 0 /\ Cardinality({x}) = 1
    BY FS_EmptySet, FS_Singleton
  <2>3. QED
    BY <1>2, <2>1, <2>2
<1>3. ASSUME Inv, Inv', [Next]_vars PROVE [result' # "abort" => Once]_vars
  <2> SUFFICES ASSUME Next, result' # "abort", vars' # vars PROVE Once
    BY <1>3
  <2>1. ASSUME Stores PROVE Once
    BY <1>2, <1>3, <2>1, StoresLose DEF Inv
  <2>2. ASSUME NEW t \in Arguments, NewService(t) \/ New(t) PROVE Once
    BY <1>3, <2>1, <2>2, NewStores DEF Inv
  <2>3. ASSUME NEW n \in Short \cup Long, NEW kind \in Data, PoolSend(n, kind) PROVE Once
    <3>1. (IF n \in Short THEN directory[n] ELSE Nil) \in Services \cup {Nil}
      BY <1>3 DEF Inv, TypeOK
    <3>2. QED
      BY <1>3, <2>1, <2>3, <3>1, SendStores DEF Inv, PoolSend
  <2>4. ASSUME NEW s \in Services, NEW kind \in Data, ServiceSend(s, kind) PROVE Once
    BY <1>3, <2>1, <2>4, SendStores DEF Inv, ServiceSend
  <2>5. ASSUME NEW s \in Services, Input(s) \/ hello(s) PROVE Once
    BY <1>1, <1>3, <2>5, ReadsLoseNothing DEF Inv
  <2>6. ASSUME UNCHANGED <<config, inbox, live>> PROVE Once
    BY <1>1, <2>6 DEF Lost, Places, Place, PlacesOf
  <2>7. CASE SetSerializer \/ \E s \in Services : Start(s)
    BY <2>6, <2>7 DEF SetSerializer, Start, pool
  <2>8. QED
    BY <2>2, <2>3, <2>4, <2>5, <2>7 DEF Next, Aborted
<1>4. QED
  BY <1>3, Invariant, PTL DEF Spec, LostOnce
=============================================================================
