------------------------------ MODULE LogProofs -----------------------------
(***************************************************************************)
(* What the user's lock makes of the log, for every number of threads,     *)
(* levels, callbacks and events.  Whoever is between lock() and unlock()   *)
(* holds it; the time in localtime's buffer is then that of its event, and *)
(* the one line that may be unfinished is the one it is printing.          *)
(***************************************************************************)
EXTENDS Log, SequenceTheorems, TLAPS

\* A thread with a line to print has an event and a sink.
Busy ==
  \A t \in Threads :
    /\ pc[t] # "idle" => event[t] >= 1
    /\ pc[t] \in {"head", "text"} => sink[t] <= Len(callbacks)

Typed == TypeOK /\ Busy

\* What is read or printed between lock() and unlock().
Inside == {"next", "head", "text", "unlock"}

HeldInv == locking => \A t \in Threads : pc[t] \in Inside => holder = t

TimeInv ==
  \A t \in Threads :
    /\ pc[t] \notin Inside => ~timed[t]
    /\ pc[t] = "head" => timed[t]
    /\ locking /\ timed[t] => tm = event[t]

NothingYet == logged = <<>> => \A k \in Sinks : out[k] = <<>>

\* Sequences of pieces that make up lines, of which the last may lack its text.
Whole(q) ==
  \A i \in DOMAIN q :
    LET first == i - ((i - 1) % 2)
    IN  /\ q[i].part = Parts[i - first + 1]
        /\ q[i].event = q[first].event
        /\ q[first].time = q[first].event

LineInv ==
  locking =>
    /\ \A k \in Sinks : Whole(out[k])
    /\ \A t \in Threads :
         pc[t] = "text" =>
           LET q == out[sink[t]] IN Len(q) % 2 = 1 /\ q[Len(q)].event = event[t]
    /\ \A k \in Sinks :
         (\A t \in Threads : pc[t] = "text" => sink[t] # k) => Len(out[k]) % 2 = 0

Inv == Typed /\ HeldInv /\ TimeInv /\ NothingYet /\ LineInv

-----------------------------------------------------------------------------
(* Lines.                                                                    *)

LEMMA Halves ==
  ASSUME NEW n \in Nat
  PROVE  /\ n % 2 = 0 => (n + 1) % 2 = 1
         /\ n % 2 = 1 => (n + 1) % 2 = 0
         /\ n % 2 \in 0..1
OBVIOUS

\* A head with its own time may follow whole lines.
LEMMA HeadFits ==
  ASSUME NEW q \in Seq(Pieces), NEW p \in Pieces, Whole(q), Len(q) % 2 = 0,
         p.part = "head", p.time = p.event
  PROVE  /\ Whole(Append(q, p))
         /\ Len(Append(q, p)) % 2 = 1
         /\ Append(q, p)[Len(Append(q, p))].event = p.event
<1>1. PICK n \in Nat : n = Len(q)
  BY LenProperties
<1>2. PICK r : r = Append(q, p)
  OBVIOUS
<1>3. /\ DOMAIN q = 1..n /\ DOMAIN r = 1..(n + 1) /\ Len(r) = n + 1
      /\ \A i \in 1..n : r[i] = q[i]
      /\ r[n + 1] = p
  BY <1>1, <1>2, AppendProperties, LenProperties
<1>4. ASSUME NEW i \in 1..(n + 1), NEW first, first = i - ((i - 1) % 2)
      PROVE  /\ r[i].part = Parts[i - first + 1]
             /\ r[i].event = r[first].event
             /\ r[first].time = r[first].event
  <2>1. CASE i \in 1..n
    <3>1. first \in 1..n
      BY <1>4, <2>1
    <3>2. /\ q[i].part = Parts[i - first + 1]
          /\ q[i].event = q[first].event
          /\ q[first].time = q[first].event
      BY <1>3, <1>4, <2>1 DEF Whole
    <3>3. QED
      BY <1>3, <2>1, <3>1, <3>2
  <2>2. CASE i = n + 1
    <3>1. first = i /\ i - first + 1 = 1
      BY <1>1, <1>4, <2>2
    <3>2. QED
      BY <1>3, <2>2, <3>1 DEF Parts
  <2>3. QED
    BY <1>4, <2>1, <2>2
<1>5. Whole(r)
  BY <1>3, <1>4 DEF Whole
<1>6. QED
  BY <1>1, <1>2, <1>3, <1>5, Halves

\* The text of the head that comes last makes the line whole.
LEMMA TextFits ==
  ASSUME NEW q \in Seq(Pieces), NEW p \in Pieces, Whole(q), Len(q) % 2 = 1,
         p.part = "text", p.event = q[Len(q)].event
  PROVE  Whole(Append(q, p)) /\ Len(Append(q, p)) % 2 = 0
<1>1. PICK n \in Nat : n = Len(q)
  BY LenProperties
<1>2. PICK r : r = Append(q, p)
  OBVIOUS
<1>3. /\ DOMAIN q = 1..n /\ DOMAIN r = 1..(n + 1) /\ Len(r) = n + 1
      /\ \A i \in 1..n : r[i] = q[i]
      /\ r[n + 1] = p
  BY <1>1, <1>2, AppendProperties, LenProperties
<1>4. ASSUME NEW i \in 1..(n + 1), NEW first, first = i - ((i - 1) % 2)
      PROVE  /\ r[i].part = Parts[i - first + 1]
             /\ r[i].event = r[first].event
             /\ r[first].time = r[first].event
  <2>1. CASE i \in 1..n
    <3>1. first \in 1..n
      BY <1>4, <2>1
    <3>2. /\ q[i].part = Parts[i - first + 1]
          /\ q[i].event = q[first].event
          /\ q[first].time = q[first].event
      BY <1>3, <1>4, <2>1 DEF Whole
    <3>3. QED
      BY <1>3, <2>1, <3>1, <3>2
  <2>2. CASE i = n + 1
    <3>1. first = n /\ i - first + 1 = 2 /\ n \in 1..n /\ n - ((n - 1) % 2) = n
      BY <1>1, <1>4, <2>2
    <3>2. q[n].time = q[n].event
      BY <1>3, <3>1 DEF Whole
    <3>3. QED
      BY <1>1, <1>3, <2>2, <3>1, <3>2 DEF Parts
  <2>3. QED
    BY <1>4, <2>1, <2>2
<1>5. Whole(r)
  BY <1>3, <1>4 DEF Whole
<1>6. QED
  BY <1>1, <1>2, <1>3, <1>5, Halves

-----------------------------------------------------------------------------
(* Types.                                                                    *)

LEMMA TypeInit == Init => Typed
<1> SUFFICES ASSUME Init PROVE Typed
  OBVIOUS
<1>1. /\ <<>> \in Seq(Levels) /\ Len(<<>>) = 0 /\ <<>> \in Seq(Pieces)
  BY EmptySeq
<1>2. TypeOK
  BY <1>1, NumbersAssumption DEF Init, TypeOK, Sinks
<1>3. QED
  BY <1>2 DEF Init, Typed, Busy

\* A thread at a sink prints a piece of its line.
LEMMA PieceType ==
  ASSUME Typed, NEW t \in Threads, pc[t] \in {"head", "text"}
  PROVE  /\ sink[t] \in Sinks
         /\ sink[t] + 1 \in 0..MAX_CALLBACKS + 1
         /\ \A part \in {"head", "text"} : \A time \in 0..Len(logged) :
              [event |-> event[t], part |-> part, time |-> time] \in Pieces
<1>1. Len(callbacks) \in Nat /\ Len(logged) \in Nat
  BY LenProperties DEF Typed, TypeOK
<1>2. sink[t] \in 0..MAX_CALLBACKS
  BY <1>1, NumbersAssumption DEF Typed, TypeOK, Busy
<1>3. event[t] \in 1..MaxEvents
  BY <1>1, NumbersAssumption DEF Typed, TypeOK, Busy
<1>4. \A time \in 0..Len(logged) : time \in 0..MaxEvents
  BY <1>1, NumbersAssumption DEF Typed, TypeOK
<1>5. QED
  BY <1>2, <1>3, <1>4, NumbersAssumption DEF Sinks, Pieces

LEMMA PutType ==
  ASSUME Typed, NEW t \in Threads, pc[t] \in {"head", "text"},
         NEW part \in {"head", "text"}, NEW time \in 0..Len(logged),
         Put(t, part, time)
  PROVE  out' \in [Sinks -> Seq(Pieces)]
<1>1. out[sink[t]] \in Seq(Pieces) /\ out \in [Sinks -> Seq(Pieces)]
  BY PieceType DEF Typed, TypeOK
<1>2. Append(out[sink[t]], [event |-> event[t], part |-> part, time |-> time]) \in Seq(Pieces)
  BY <1>1, PieceType, AppendProperties
<1>3. QED
  BY <1>1, <1>2 DEF Put

\* While nothing has been logged every thread is idle.
LEMMA Quietness ==
  ASSUME Typed, logged = <<>>
  PROVE  \A t \in Threads : pc[t] = "idle"
<1>1. Len(logged) = 0
  BY EmptySeq
<1>2. \A t \in Threads : ~(event[t] >= 1)
  BY <1>1 DEF Typed, TypeOK
<1>3. QED
  BY <1>2 DEF Typed, Busy

LEMMA TypeNext == Typed /\ [Next]_vars => Typed'
<1> SUFFICES ASSUME Typed, [Next]_vars PROVE Typed'
  OBVIOUS
<1> USE DEF settings, frame
<1>0. Len(callbacks) \in Nat /\ Len(logged) \in Nat /\ 0 \in 0..Len(logged)
  BY LenProperties DEF Typed, TypeOK
<1>1. CASE log_set_lock
  BY <1>1 DEF log_set_lock, Setting, Typed, TypeOK, Busy
<1>2. ASSUME NEW enable \in BOOLEAN, log_set_quiet(enable) PROVE Typed'
  BY <1>2 DEF log_set_quiet, Setting, Typed, TypeOK, Busy
<1>3. ASSUME NEW l \in Levels, log_set_level(l) PROVE Typed'
  BY <1>3 DEF log_set_level, Setting, Typed, TypeOK, Busy
<1>4. ASSUME NEW l \in Levels, log_add_callback(l) PROVE Typed'
  <2>1. /\ Append(callbacks, l) \in Seq(Levels)
        /\ Len(Append(callbacks, l)) = Len(callbacks) + 1
    BY AppendProperties DEF Typed, TypeOK
  <2>2. callbacks' \in Seq(Levels) /\ Len(callbacks') <= MAX_CALLBACKS
    BY <1>0, <1>4, <2>1, NumbersAssumption DEF log_add_callback, Typed, TypeOK
  <2>3. \A t \in Threads : pc[t] = "idle"
    BY <1>4, Quietness DEF log_add_callback, Setting
  <2>4. QED
    BY <1>4, <2>2, <2>3 DEF log_add_callback, Setting, Typed, TypeOK, Busy
<1>5. ASSUME NEW t \in Threads, NEW l \in Levels, Call(t, l) PROVE Typed'
  <2>1. /\ logged' \in Seq(Levels) /\ Len(logged') = Len(logged) + 1
        /\ Len(logged') <= MaxEvents
    BY <1>0, <1>5, AppendProperties, NumbersAssumption DEF Call, Typed, TypeOK
  <2>2. /\ tm' \in 0..Len(logged')
        /\ event' \in [Threads -> 0..Len(logged')]
        /\ event'[t] >= 1
    BY <1>0, <1>5, <2>1 DEF Call, Typed, TypeOK
  <2>3. QED
    BY <1>5, <2>1, <2>2 DEF Call, Goto, Typed, TypeOK, Busy
<1>6. ASSUME NEW t \in Threads, Lock(t) PROVE Typed'
  BY <1>6 DEF Lock, Goto, Typed, TypeOK, Busy
<1>7. ASSUME NEW t \in Threads, NextSink(t) PROVE Typed'
  <2>1. sink[t] <= Len(callbacks) => sink[t] + 1 \in 0..MAX_CALLBACKS + 1
    BY <1>0, NumbersAssumption DEF Typed, TypeOK
  <2>2. event[t] \in 0..Len(logged)
    BY DEF Typed, TypeOK
  <2>3. /\ UNCHANGED <<settings, holder, logged, out, event>>
        /\ tm' \in {tm, event[t]} /\ timed' \in [Threads -> BOOLEAN]
        /\ sink' \in [Threads -> 0..MAX_CALLBACKS + 1]
        /\ \E where \in {"next", "head", "unlock"} : Goto(t, "next", where)
        /\ pc'[t] = "head" => sink[t] <= Len(callbacks) /\ sink' = sink
        /\ \A u \in Threads \ {t} : sink'[u] = sink[u]
    BY <1>7, <2>1 DEF NextSink, Goto, Typed, TypeOK
  <2>4. QED
    BY <2>2, <2>3 DEF Goto, Typed, TypeOK, Busy
<1>8. ASSUME NEW t \in Threads, PutHead(t) PROVE Typed'
  <2>1. out' \in [Sinks -> Seq(Pieces)]
    BY <1>8, PutType DEF PutHead, Goto, Typed, TypeOK
  <2>2. QED
    BY <1>8, <2>1 DEF PutHead, Goto, Typed, TypeOK, Busy
<1>9. ASSUME NEW t \in Threads, PutText(t) PROVE Typed'
  <2>1. out' \in [Sinks -> Seq(Pieces)] /\ sink[t] + 1 \in 0..MAX_CALLBACKS + 1
    BY <1>0, <1>9, PutType, PieceType DEF PutText, Goto
  <2>2. QED
    BY <1>9, <2>1 DEF PutText, Goto, Typed, TypeOK, Busy
<1>10. ASSUME NEW t \in Threads, Unlock(t) PROVE Typed'
  BY <1>0, <1>10, NumbersAssumption DEF Unlock, Goto, Typed, TypeOK, Busy
<1>11. CASE UNCHANGED vars
  BY <1>11 DEF vars, Typed, TypeOK, Busy
<1>12. QED
  BY <1>1, <1>2, <1>3, <1>4, <1>5, <1>6, <1>7, <1>8, <1>9, <1>10, <1>11
     DEF Next, Body, Silence

(* Every variable stays in its range; there are never more callbacks than    *)
(* there is room for.                                                        *)
THEOREM TypeCorrect == Spec => []TypeOK
<1>1. Typed => TypeOK
  BY DEF Typed
<1>2. QED
  BY <1>1, TypeInit, TypeNext, PTL DEF Spec

-----------------------------------------------------------------------------
(* The invariant.                                                            *)

LEMMA InvInit == Init => Inv
<1> SUFFICES ASSUME Init PROVE Inv
  OBVIOUS
<1>1. Typed
  BY TypeInit
<1>2. HeldInv /\ TimeInv /\ NothingYet
  BY DEF Init, HeldInv, TimeInv, NothingYet, Inside
<1>3. LineInv
  BY DEF Init, LineInv
<1>4. QED
  BY <1>1, <1>2, <1>3 DEF Inv

\* The settings change while nothing has been logged or printed.
LEMMA SettingKeeps ==
  ASSUME Inv, Typed', Setting
  PROVE  Inv'
<1>1. /\ \A t \in Threads : pc[t] = "idle"
      /\ \A k \in Sinks : out[k] = <<>>
  BY Quietness DEF Setting, Inv, NothingYet
<1>2. HeldInv'
  BY <1>1 DEF Setting, HeldInv, Inside
<1>3. TimeInv'
  BY <1>1 DEF Setting, frame, Inv, TimeInv, Inside
<1>4. \A k \in Sinks : Whole(out[k]) /\ Len(out[k]) % 2 = 0
  <2>1. DOMAIN <<>> = {} /\ Len(<<>>) = 0 /\ 0 % 2 = 0
    BY EmptySeq
  <2>2. QED
    BY <1>1, <2>1 DEF Whole
<1>5. LineInv'
  BY <1>1, <1>4 DEF Setting, LineInv, Whole
<1>6. NothingYet'
  BY DEF Setting, Inv, NothingYet
<1>7. QED
  BY <1>2, <1>3, <1>5, <1>6 DEF Inv

LEMMA HeldNext ==
  ASSUME Inv, NEW t \in Threads, Lock(t) \/ Body(t) \/ \E l \in Levels : Call(t, l)
  PROVE  HeldInv'
<1> USE DEF Inv, Typed, TypeOK, HeldInv, Inside, Goto, settings
<1>1. CASE Lock(t)
  BY <1>1, ThreadsAssumption DEF Lock
<1>2. CASE NextSink(t)
  BY <1>2 DEF NextSink
<1>3. CASE PutHead(t) \/ PutText(t)
  BY <1>3 DEF PutHead, PutText
<1>4. CASE Unlock(t)
  BY <1>4 DEF Unlock
<1>5. CASE \E l \in Levels : Call(t, l)
  BY <1>5 DEF Call
<1>6. QED
  BY <1>1, <1>2, <1>3, <1>4, <1>5 DEF Body

LEMMA TimeNext ==
  ASSUME Inv, NEW t \in Threads, Lock(t) \/ Body(t) \/ \E l \in Levels : Call(t, l)
  PROVE  TimeInv'
<1> USE DEF Inv, Typed, TypeOK, TimeInv, Inside, Goto, settings, frame
<1>1. CASE Lock(t)
  BY <1>1 DEF Lock
<1>2. CASE NextSink(t)
  <2>1. locking => \A u \in Threads \ {t} : ~timed[u]
    BY <1>2 DEF NextSink, HeldInv
  <2>2. QED
    BY <1>2, <2>1 DEF NextSink
<1>3. CASE PutHead(t) \/ PutText(t)
  BY <1>3 DEF PutHead, PutText
<1>4. CASE Unlock(t)
  BY <1>4 DEF Unlock
<1>5. CASE \E l \in Levels : Call(t, l)
  BY <1>5 DEF Call
<1>6. QED
  BY <1>1, <1>2, <1>3, <1>4, <1>5 DEF Body

\* A piece is printed by a thread with an event.
LEMMA NothingNext ==
  ASSUME Inv, NEW t \in Threads, Lock(t) \/ Body(t) \/ \E l \in Levels : Call(t, l)
  PROVE  NothingYet'
<1>1. CASE PutHead(t) \/ PutText(t)
  <2>1. logged # <<>> /\ logged' = logged
    BY <1>1, Quietness DEF Inv, PutHead, PutText, Goto
  <2>2. QED
    BY <2>1 DEF NothingYet
<1>2. CASE \E l \in Levels : Call(t, l)
  <2>1. PICK l \in Levels : logged' = Append(logged, l)
    BY <1>2 DEF Call
  <2>2. logged' # <<>>
    BY <2>1, AppendProperties DEF Inv, Typed, TypeOK
  <2>3. QED
    BY <2>2 DEF NothingYet
<1>3. CASE Lock(t) \/ NextSink(t) \/ Unlock(t)
  BY <1>3 DEF Lock, NextSink, Unlock, Inv, NothingYet
<1>4. QED
  BY <1>1, <1>2, <1>3 DEF Body

LEMMA LineNext ==
  ASSUME Inv, Typed', NEW t \in Threads, Lock(t) \/ Body(t) \/ \E l \in Levels : Call(t, l)
  PROVE  LineInv'
<1> SUFFICES ASSUME locking PROVE LineInv'
  <2>1. locking' = locking
    BY DEF Lock, Body, Call, NextSink, PutHead, PutText, Unlock, settings
  <2>2. QED
    BY <2>1 DEF LineInv
<1>1. CASE Lock(t) \/ NextSink(t) \/ Unlock(t) \/ \E l \in Levels : Call(t, l)
  <2>1. /\ out' = out /\ UNCHANGED locking
        /\ \A u \in Threads : (pc'[u] = "text") <=> (pc[u] = "text")
        /\ \A u \in Threads : pc[u] = "text" => sink'[u] = sink[u] /\ event'[u] = event[u]
    BY <1>1 DEF Lock, NextSink, Unlock, Call, Goto, settings, frame, Inv, Typed, TypeOK
  <2>2. QED
    BY <2>1 DEF Inv, LineInv, Whole
<1>2. ASSUME pc[t] \in Inside PROVE \A u \in Threads : pc[u] = "text" => u = t
  BY <1>2 DEF Inv, HeldInv, Inside
<1>3. CASE PutHead(t)
  <2> DEFINE k == sink[t]
             p == [event |-> event[t], part |-> "head", time |-> tm]
  <2>1. /\ pc[t] = "head" /\ pc' = [pc EXCEPT ![t] = "text"]
        /\ out' = [out EXCEPT ![k] = Append(@, p)]
        /\ UNCHANGED <<locking, sink, event>>
    BY <1>3 DEF PutHead, Goto, Put, settings, frame
  <2>2. \A u \in Threads : pc[u] # "text"
    BY <1>2, <2>1 DEF Inside
  <2>3. /\ k \in Sinks /\ p \in Pieces
        /\ p.part = "head" /\ p.time = p.event /\ p.event = event[t]
    BY <2>1, PieceType DEF Inv, Typed, TypeOK, TimeInv
  <2>4. /\ out \in [Sinks -> Seq(Pieces)] /\ Whole(out[k]) /\ Len(out[k]) % 2 = 0
    BY <2>2, <2>3 DEF Inv, Typed, TypeOK, LineInv
  <2>5. /\ out'[k] = Append(out[k], p)
        /\ \A m \in Sinks \ {k} : out'[m] = out[m]
    BY <2>1, <2>3, <2>4
  <2> HIDE DEF p
  <2>6. /\ Whole(out'[k]) /\ Len(out'[k]) % 2 = 1
        /\ out'[k][Len(out'[k])].event = event[t]
    <3>1. PICK q \in Seq(Pieces) : q = out[k]
      BY <2>3, <2>4
    <3>2. /\ Whole(Append(q, p)) /\ Len(Append(q, p)) % 2 = 1
          /\ Append(q, p)[Len(Append(q, p))].event = p.event
      BY <2>3, <2>4, <3>1, HeadFits
    <3>3. QED
      BY <2>3, <2>5, <3>1, <3>2
  <2>7. \A m \in Sinks : Whole(out[m]) /\ Len(out[m]) % 2 = 0
    BY <2>2 DEF Inv, LineInv
  <2>8. \A u \in Threads : pc'[u] = "text" => u = t
    BY <2>1, <2>2 DEF Inv, Typed, TypeOK
  <2>9. \A m \in Sinks : Whole(out'[m])
    BY <2>5, <2>6, <2>7
  <2>10. pc'[t] = "text"
    BY <2>1 DEF Inv, Typed, TypeOK
  <2>11. \A m \in Sinks : m # k => Len(out'[m]) % 2 = 0
    BY <2>5, <2>7
  <2>12. /\ sink'[t] = k /\ event'[t] = event[t]
         /\ Len(out'[sink'[t]]) % 2 = 1
         /\ out'[sink'[t]][Len(out'[sink'[t]])].event = event'[t]
    BY <2>1, <2>6
  <2>13. (\A m \in Sinks : Whole(out[m]))'
    BY <2>9 DEF Whole
  <2>14. QED
    BY <2>8, <2>10, <2>11, <2>12, <2>13 DEF LineInv
<1>4. CASE PutText(t)
  <2> DEFINE k == sink[t]
             p == [event |-> event[t], part |-> "text", time |-> 0]
  <2>1. /\ pc[t] = "text" /\ pc' = [pc EXCEPT ![t] = "next"]
        /\ out' = [out EXCEPT ![k] = Append(@, p)]
        /\ UNCHANGED locking
    BY <1>4 DEF PutText, Goto, Put, settings
  <2>2. \A u \in Threads : pc'[u] # "text"
    BY <1>2, <2>1 DEF Inside, Inv, Typed, TypeOK
  <2>3. /\ k \in Sinks /\ p \in Pieces /\ p.part = "text" /\ p.event = event[t]
    BY <2>1, PieceType DEF Inv, Typed, TypeOK
  <2>4. /\ out \in [Sinks -> Seq(Pieces)] /\ Whole(out[k]) /\ Len(out[k]) % 2 = 1
        /\ out[k][Len(out[k])].event = event[t]
    BY <2>1, <2>3 DEF Inv, Typed, TypeOK, LineInv
  <2>5. /\ out'[k] = Append(out[k], p)
        /\ \A m \in Sinks \ {k} : out'[m] = out[m]
    BY <2>1, <2>3, <2>4
  <2> HIDE DEF p
  <2>6. Whole(out'[k]) /\ Len(out'[k]) % 2 = 0
    <3>1. PICK q \in Seq(Pieces) : q = out[k]
      BY <2>3, <2>4
    <3>2. Whole(Append(q, p)) /\ Len(Append(q, p)) % 2 = 0
      BY <2>3, <2>4, <3>1, TextFits
    <3>3. QED
      BY <2>5, <3>1, <3>2
  <2>7. \A m \in Sinks \ {k} : Whole(out[m]) /\ Len(out[m]) % 2 = 0
    BY <1>2, <2>1 DEF Inv, LineInv, Inside
  <2>8. \A m \in Sinks : Whole(out'[m]) /\ Len(out'[m]) % 2 = 0
    BY <2>5, <2>6, <2>7
  <2>9. QED
    BY <2>1, <2>2, <2>8 DEF LineInv, Whole
<1>5. QED
  BY <1>1, <1>3, <1>4 DEF Body

LEMMA InvNext == Inv /\ [Next]_vars => Inv'
<1> SUFFICES ASSUME Inv, [Next]_vars PROVE Inv'
  OBVIOUS
<1>1. Typed'
  BY TypeNext DEF Inv
<1>2. CASE \/ log_set_lock
           \/ \E enable \in BOOLEAN : log_set_quiet(enable)
           \/ \E l \in Levels : log_set_level(l) \/ log_add_callback(l)
  BY <1>1, <1>2, SettingKeeps DEF log_set_lock, log_set_quiet, log_set_level, log_add_callback
<1>3. ASSUME NEW t \in Threads, Lock(t) \/ Body(t) \/ \E l \in Levels : Call(t, l)
      PROVE  Inv'
  BY <1>1, <1>3, HeldNext, TimeNext, NothingNext, LineNext DEF Inv
<1>4. CASE UNCHANGED vars
  BY <1>1, <1>4 DEF vars, settings, frame, Inv, HeldInv, TimeInv, NothingYet, LineInv, Whole
<1>5. QED
  BY <1>2, <1>3, <1>4 DEF Next, Silence

(* With a lock function, every sink gets whole lines, each with its own time *)
(* in it.                                                                    *)
THEOREM LinesAreWhole == Spec => []WholeLines
<1>1. Inv => WholeLines
  BY DEF Inv, LineInv, Whole, WholeLines
<1>2. QED
  BY <1>1, InvInit, InvNext, PTL DEF Spec

-----------------------------------------------------------------------------
(* The order of the lines.  The events of the threads differ, none that      *)
(* waits for the lock has been printed, and what the holder has printed is   *)
(* the last in every sink.                                                   *)

Known == \A k \in Sinks : \A i \in DOMAIN out[k] : out[k][i].event \in 1..Len(logged)

Distinct ==
  \A t, u \in Threads : t # u /\ event[t] # 0 => event[t] # event[u]

Unseen(e) == \A k \in Sinks : \A i \in DOMAIN out[k] : out[k][i].event # e

Latest(e) ==
  \A k \in Sinks : \A i, j \in DOMAIN out[k] :
    i < j /\ out[k][i].event = e => out[k][j].event = e

Agree ==
  \A d, e \in Nat : \A k, m \in Sinks : d # e /\ Before(d, e, k) => ~Before(e, d, m)

OrderInv ==
  locking =>
    /\ \A t \in Threads : pc[t] = "lock" => Unseen(event[t])
    /\ \A t \in Threads : pc[t] \in Inside => Latest(event[t])
    /\ Agree

OrderedInv == Inv /\ Known /\ Distinct /\ OrderInv

LEMMA OrderInit == Init => OrderedInv
<1> SUFFICES ASSUME Init PROVE OrderedInv
  OBVIOUS
<1>1. \A k \in Sinks : DOMAIN out[k] = {}
  BY EmptySeq DEF Init
<1>2. Known /\ Distinct
  BY <1>1 DEF Init, Known, Distinct
<1>3. OrderInv
  BY DEF Init, OrderInv
<1>4. QED
  BY <1>2, <1>3, InvInit DEF OrderedInv

\* Nothing moves that the order is about.
LEMMA OrderKeeps ==
  ASSUME OrderedInv, UNCHANGED <<locking, logged, out, event>>,
         \A t \in Threads : pc'[t] = "lock" => pc[t] = "lock",
         \A t \in Threads : pc'[t] \in Inside => pc[t] \in Inside
  PROVE  (Known /\ Distinct /\ OrderInv)'
BY DEF OrderedInv, Known, Distinct, OrderInv, Unseen, Latest, Agree, Before

\* A piece of an event whose lines are the last keeps them the last.
LEMMA OrderPut ==
  ASSUME OrderedInv, Inv', NEW t \in Threads, PutHead(t) \/ PutText(t)
  PROVE  (Known /\ Distinct /\ OrderInv)'
<1>1. PICK k \in Sinks, p \in Pieces :
        p.event = event[t] /\ out' = [out EXCEPT ![k] = Append(@, p)]
  <2>1. PICK part \in {"head", "text"}, time \in 0..Len(logged) :
          Put(t, part, time) /\ pc[t] \in {"head", "text"}
    BY LenProperties DEF OrderedInv, Inv, Typed, TypeOK, PutHead, PutText, Goto
  <2>2. /\ sink[t] \in Sinks
        /\ [event |-> event[t], part |-> part, time |-> time] \in Pieces
    BY <2>1, PieceType DEF OrderedInv, Inv
  <2>3. QED
    BY <2>1, <2>2 DEF Put
<1>2. PICK q \in Seq(Pieces) : q = out[k]
  BY DEF OrderedInv, Inv, Typed, TypeOK
<1>3. PICK n \in Nat : n = Len(q) /\ DOMAIN q = 1..n
  BY LenProperties
<1>4. /\ DOMAIN (out'[k]) = 1..(n + 1)
      /\ \A i \in 1..n : out'[k][i] = out[k][i]
      /\ out'[k][n + 1] = p
      /\ \A m \in Sinks \ {k} : out'[m] = out[m]
  <2>1. out'[k] = Append(q, p) /\ \A m \in Sinks \ {k} : out'[m] = out[m]
    BY <1>1, <1>2 DEF OrderedInv, Inv, Typed, TypeOK
  <2>2. QED
    BY <1>2, <1>3, <2>1, AppendProperties, LenProperties
<1>5. /\ UNCHANGED <<locking, logged, event>>
      /\ pc[t] \in Inside /\ pc'[t] \in Inside
      /\ \A u \in Threads \ {t} : pc'[u] = pc[u]
  BY DEF PutHead, PutText, Goto, settings, frame, Inside, OrderedInv, Inv, Typed, TypeOK
<1>6. event[t] \in 1..Len(logged)
  BY <1>5 DEF OrderedInv, Inv, Typed, TypeOK, Busy, Inside
<1>7. ASSUME NEW m \in Sinks, NEW i \in DOMAIN (out'[m])
      PROVE  \/ i \in DOMAIN out[m] /\ out'[m][i] = out[m][i]
             \/ m = k /\ i = n + 1 /\ out'[m][i].event = event[t]
  BY <1>1, <1>2, <1>3, <1>4
<1>8. Known' /\ Distinct'
  BY <1>5, <1>6, <1>7 DEF OrderedInv, Known, Distinct
<1>9. ASSUME locking PROVE OrderInv'
  <2>1. Latest(event[t])
    BY <1>5, <1>9 DEF OrderedInv, OrderInv
  <2>2. ASSUME NEW u \in Threads, pc'[u] = "lock" PROVE Unseen(event[u])'
    <3>1. u # t /\ pc[u] = "lock" /\ event[u] # event[t]
      BY <1>5, <1>6, <2>2 DEF Inside, OrderedInv, Distinct
    <3>2. Unseen(event[u])
      BY <1>9, <3>1 DEF OrderedInv, OrderInv
    <3>3. QED
      BY <1>5, <1>7, <3>1, <3>2 DEF Unseen
  <2>3. ASSUME NEW u \in Threads, pc'[u] \in Inside PROVE Latest(event[u])'
    <3>1. u = t
      BY <1>5, <1>9, <2>3, ThreadsAssumption DEF OrderedInv, Inv, HeldInv
    <3>2. ASSUME NEW m \in Sinks, NEW i \in DOMAIN (out'[m]), NEW j \in DOMAIN (out'[m]),
                 i < j, out'[m][i].event = event[t]
          PROVE  out'[m][j].event = event[t]
      <4>1. CASE j \in DOMAIN out[m] /\ out'[m][j] = out[m][j]
        <5>1. i \in DOMAIN out[m] /\ out'[m][i] = out[m][i]
          BY <1>2, <1>3, <1>4, <3>2, <4>1
        <5>2. QED
          BY <2>1, <3>2, <4>1, <5>1 DEF Latest
      <4>2. QED
        BY <1>7, <4>1
    <3>3. QED
      BY <1>5, <3>1, <3>2 DEF Latest
  <2>4. ASSUME NEW d, NEW e, NEW m \in Sinks, Before(d, e, m)'
        PROVE  Before(d, e, m) \/ e = event[t]
    <3>1. PICK i, j \in DOMAIN (out'[m]) :
            i < j /\ out'[m][i].event = d /\ out'[m][j].event = e
      BY <2>4 DEF Before
    <3>2. CASE j \in DOMAIN out[m] /\ out'[m][j] = out[m][j]
      <4>1. i \in DOMAIN out[m] /\ out'[m][i] = out[m][i]
        BY <1>2, <1>3, <1>4, <3>1, <3>2
      <4>2. QED
        BY <3>1, <3>2, <4>1 DEF Before
    <3>3. QED
      BY <1>7, <3>1, <3>2
  <2>5. \A d : \A m \in Sinks : Before(event[t], d, m) => d = event[t]
    BY <2>1 DEF Latest, Before
  <2>6. Agree'
    <3> SUFFICES ASSUME NEW d \in Nat, NEW e \in Nat, NEW a \in Sinks, NEW b \in Sinks,
                        d # e, Before(d, e, a)', Before(e, d, b)'
                 PROVE  FALSE
      BY DEF Agree
    <3>1. Before(d, e, a) \/ e = event[t]
      BY <2>4
    <3>2. Before(e, d, b) \/ d = event[t]
      BY <2>4
    <3>3. ~(Before(d, e, a) /\ Before(e, d, b))
      BY <1>9 DEF OrderedInv, OrderInv, Agree
    <3>4. QED
      BY <2>5, <3>1, <3>2, <3>3
  <2>7. QED
    BY <2>2, <2>3, <2>6 DEF OrderInv
<1>10. QED
  BY <1>5, <1>8, <1>9 DEF OrderInv

LEMMA OrderNext == OrderedInv /\ [Next]_vars => OrderedInv'
<1> SUFFICES ASSUME OrderedInv, [Next]_vars PROVE (Known /\ Distinct /\ OrderInv)'
  BY InvNext DEF OrderedInv
<1>0. Inv /\ Inv'
  BY InvNext DEF OrderedInv
<1>1. CASE Setting
  <2>1. \A k \in Sinks : DOMAIN out'[k] = {}
    BY <1>0, <1>1, EmptySeq DEF Setting, Inv, NothingYet
  <2>2. \A t \in Threads : pc'[t] = "idle"
    BY <1>0, <1>1, Quietness DEF Setting, Inv
  <2>3. OrderInv'
    BY <2>1, <2>2 DEF OrderInv, Agree, Before, Inside
  <2>4. QED
    BY <1>1, <2>1, <2>3 DEF OrderedInv, Setting, frame, Known, Distinct
<1>2. ASSUME NEW t \in Threads, NEW l \in Levels, Call(t, l)
      PROVE  (Known /\ Distinct /\ OrderInv)'
  <2>1. /\ Len(logged) \in Nat /\ Len(logged') = Len(logged) + 1
        /\ UNCHANGED <<locking, out>>
        /\ event'[t] = Len(logged) + 1 /\ pc'[t] = "lock"
        /\ \A u \in Threads : event[u] \in 0..Len(logged)
        /\ \A u \in Threads \ {t} : event'[u] = event[u] /\ pc'[u] = pc[u]
    BY <1>0, <1>2, AppendProperties, LenProperties
       DEF Call, Goto, settings, frame, Inv, Typed, TypeOK
  <2>2. Known' /\ Distinct' /\ Unseen(event'[t])
    BY <2>1 DEF OrderedInv, Known, Distinct, Unseen
  <2>3. /\ \A e : Unseen(e)' <=> Unseen(e)
        /\ \A e : Latest(e)' <=> Latest(e)
        /\ Agree' <=> Agree
    BY <2>1 DEF Unseen, Latest, Agree, Before
  <2>4. ASSUME locking, NEW u \in Threads
        PROVE  /\ pc'[u] = "lock" => Unseen(event'[u])
               /\ pc'[u] \in Inside => Latest(event'[u])
    BY <2>1, <2>2, <2>4 DEF OrderedInv, OrderInv, Inside
  <2>5. OrderInv'
    BY <2>1, <2>3, <2>4 DEF OrderedInv, OrderInv, Unseen, Latest
  <2>6. QED
    BY <2>2, <2>5
<1>3. ASSUME NEW t \in Threads, Lock(t) PROVE (Known /\ Distinct /\ OrderInv)'
  <2>1. /\ UNCHANGED <<locking, logged, out, event>>
        /\ pc[t] = "lock" /\ pc'[t] = "next"
        /\ \A u \in Threads \ {t} : pc'[u] = pc[u]
    BY <1>0, <1>3 DEF Lock, Goto, settings, frame, Inv, Typed, TypeOK
  <2>2. locking => Latest(event[t])
    BY <2>1 DEF OrderedInv, OrderInv, Unseen, Latest
  <2>3. QED
    BY <2>1, <2>2 DEF OrderedInv, OrderInv, Known, Distinct, Unseen, Latest, Agree, Before
<1>4. ASSUME NEW t \in Threads, NextSink(t) PROVE (Known /\ Distinct /\ OrderInv)'
  <2>1. /\ UNCHANGED <<locking, logged, out, event>>
        /\ pc[t] \in Inside /\ pc'[t] \in Inside
        /\ \A u \in Threads \ {t} : pc'[u] = pc[u]
    BY <1>0, <1>4 DEF NextSink, Goto, settings, frame, Inside, Inv, Typed, TypeOK
  <2>2. QED
    BY <2>1, OrderKeeps DEF Inside
<1>5. ASSUME NEW t \in Threads, Unlock(t) PROVE (Known /\ Distinct /\ OrderInv)'
  <2>1. /\ UNCHANGED <<locking, logged, out>>
        /\ event'[t] = 0 /\ pc'[t] = "idle"
        /\ \A u \in Threads \ {t} : event'[u] = event[u] /\ pc'[u] = pc[u]
    BY <1>0, <1>5 DEF Unlock, Goto, settings, Inv, Typed, TypeOK
  <2>2. QED
    BY <2>1 DEF OrderedInv, OrderInv, Known, Distinct, Unseen, Latest, Agree, Before, Inside
<1>6. ASSUME NEW t \in Threads, PutHead(t) \/ PutText(t)
      PROVE  (Known /\ Distinct /\ OrderInv)'
  BY <1>0, <1>6, OrderPut
<1>7. CASE UNCHANGED vars
  BY <1>7, OrderKeeps DEF vars, settings, frame
<1>8. QED
  BY <1>1, <1>2, <1>3, <1>4, <1>5, <1>6, <1>7
     DEF Next, Body, Silence, log_set_lock, log_set_quiet, log_set_level, log_add_callback

(* With a lock function, all sinks get the lines they get in one order.      *)
THEOREM OneOrder == Spec => []SinksAgree
<1>1. OrderedInv => SinksAgree
  <2>1. OrderedInv => DOMAIN logged \subseteq Nat
    BY LenProperties DEF OrderedInv, Inv, Typed, TypeOK
  <2>2. QED
    BY <2>1 DEF OrderedInv, OrderInv, Agree, SinksAgree
<1>2. QED
  BY <1>1, OrderInit, OrderNext, PTL DEF Spec

-----------------------------------------------------------------------------
(* What each sink has got of an event.  A thread serves the sinks in turn:   *)
(* those before its own are done with its event, those after it have none of *)
(* it, and its own has the head alone while the text is to come.             *)

Early ==
  \A t \in Threads :
    /\ pc[t] = "idle" <=> event[t] = 0
    /\ pc[t] \in {"idle", "lock"} => sink[t] = 0
    /\ pc[t] = "head" => Passes(sink[t], logged[event[t]])
    /\ pc[t] = "unlock" => sink[t] > Len(callbacks)

Begun(e, k) ==
  /\ Passes(k, logged[e])
  /\ \E i \in At(e, k) : At(e, k) = {i} /\ out[k][i].part = "head"

Progress(t) ==
  event[t] # 0 =>
    \A k \in 0..Len(callbacks) :
      /\ k < sink[t] => Done(event[t], k)
      /\ k = sink[t] => IF pc[t] = "text" THEN Begun(event[t], k) ELSE At(event[t], k) = {}
      /\ k > sink[t] => At(event[t], k) = {}

DeliveryInv == OrderedInv /\ Early /\ (\A t \in Threads : Progress(t)) /\ Delivered

LEMMA DeliveryInit == Init => DeliveryInv
<1> SUFFICES ASSUME Init PROVE DeliveryInv
  OBVIOUS
<1>1. OrderedInv
  BY OrderInit
<1>2. Early /\ \A t \in Threads : Progress(t)
  BY DEF Init, Early, Progress
<1>3. Delivered
  BY EmptySeq DEF Init, Delivered
<1>4. QED
  BY <1>1, <1>2, <1>3 DEF DeliveryInv

\* What the sinks have got of an event is the same after a step ...
Same(e) ==
  /\ logged'[e] = logged[e]
  /\ \A k \in Sinks : /\ At(e, k)' = At(e, k)
                      /\ \A i \in At(e, k) : out'[k][i] = out[k][i]

LEMMA SameDone ==
  ASSUME NEW e, Same(e), UNCHANGED settings, NEW k \in Sinks
  PROVE  (Done(e, k)' <=> Done(e, k)) /\ (Begun(e, k)' <=> Begun(e, k))
<1>1. At(e, k)' = At(e, k) /\ \A i \in At(e, k) : out'[k][i] = out[k][i]
  BY DEF Same
<1>2. Passes(k, logged[e])' <=> Passes(k, logged[e])
  BY DEF Same, settings, Passes
<1>3. QED
  BY <1>1, <1>2 DEF Done, Begun

\* ... of a thread, if it is the event of another one.
StepOf(t) ==
  /\ UNCHANGED settings
  /\ \A u \in Threads \ {t} : event'[u] = event[u] /\ pc'[u] = pc[u] /\ sink'[u] = sink[u]
  /\ \A e \in DOMAIN logged : e # event[t] => Same(e)

LEMMA OthersKeep ==
  ASSUME DeliveryInv, NEW t \in Threads, StepOf(t)
  PROVE  /\ \A u \in Threads \ {t} : Progress(u)'
         /\ \A e \in DOMAIN logged : \A k \in 0..Len(callbacks) :
              e # event[t] /\ (\A u \in Threads : event'[u] # e) => Done(e, k)'
<1>1. 0..Len(callbacks) \subseteq Sinks
  BY NumbersAssumption, LenProperties
     DEF Sinks, DeliveryInv, OrderedInv, Inv, Typed, TypeOK
<1>2. ASSUME NEW u \in Threads \ {t} PROVE Progress(u)'
  <2> SUFFICES ASSUME event[u] # 0 PROVE Progress(u)'
    BY DEF StepOf, Progress
  <2>1. event[u] # event[t] /\ event[u] \in DOMAIN logged
    BY LenProperties DEF DeliveryInv, OrderedInv, Distinct, Inv, Typed, TypeOK
  <2>2. Same(event[u]) /\ UNCHANGED settings
    BY <2>1 DEF StepOf
  <2>3. Progress(u)
    BY DEF DeliveryInv
  <2>4. event'[u] = event[u] /\ pc'[u] = pc[u] /\ sink'[u] = sink[u] /\ callbacks' = callbacks
    BY <2>2 DEF StepOf, settings
  <2>5. ASSUME NEW k \in 0..Len(callbacks)
        PROVE  /\ Done(event[u], k)' <=> Done(event[u], k)
               /\ Begun(event[u], k)' <=> Begun(event[u], k)
               /\ At(event[u], k)' = At(event[u], k)
    <3>1. PICK e : e = event[u]
      OBVIOUS
    <3>2. Same(e) /\ k \in Sinks
      BY <1>1, <2>2, <3>1
    <3>3. (Done(e, k)' <=> Done(e, k)) /\ (Begun(e, k)' <=> Begun(e, k)) /\ At(e, k)' = At(e, k)
      BY <2>2, <3>2, SameDone DEF Same
    <3>4. event'[u] = e
      BY <2>4, <3>1
    <3>5. QED
      BY <3>1, <3>3, <3>4 DEF Done, Begun, At
  <2>6. QED
    BY <2>3, <2>4, <2>5 DEF Progress
<1>3. ASSUME NEW e \in DOMAIN logged, NEW k \in 0..Len(callbacks), e # event[t],
             \A u \in Threads : event'[u] # e
      PROVE  Done(e, k)'
  <2>1. \A u \in Threads : event[u] # e
    BY <1>3 DEF StepOf
  <2>2. Done(e, k)
    BY <2>1 DEF DeliveryInv, Delivered
  <2>3. QED
    BY <1>1, <1>3, <2>2, SameDone DEF StepOf
<1>4. QED
  BY <1>2, <1>3

\* A piece goes to one sink, to its end, and is of one event.
AddsTo(e, k, part) ==
  \E n \in Nat :
    /\ At(e, k)' = At(e, k) \cup {n}
    /\ out'[k][n].part = part
    /\ \A i \in At(e, k) : i \in Nat /\ i < n /\ out'[k][i] = out[k][i]

LEMMA PutAt ==
  ASSUME Inv, NEW t \in Threads, pc[t] \in {"head", "text"}, NEW part \in {"head", "text"},
         NEW time \in 0..Len(logged), Put(t, part, time), UNCHANGED logged,
         NEW e, e = event[t], NEW k, k = sink[t]
  PROVE  /\ \A d : d # e => Same(d)
         /\ \A m \in Sinks \ {k} : At(e, m)' = At(e, m) /\ out'[m] = out[m]
         /\ AddsTo(e, k, part)
<1>1. PICK p \in Pieces : p.event = e /\ p.part = part /\ out' = [out EXCEPT ![k] = Append(@, p)]
  <2>1. PICK p : p = [event |-> event[t], part |-> part, time |-> time]
    OBVIOUS
  <2>2. p \in Pieces
    BY <2>1, PieceType DEF Inv
  <2>3. QED
    BY <2>1, <2>2 DEF Put
<1>2. k \in Sinks
  BY PieceType DEF Inv
<1>3. PICK q \in Seq(Pieces) : q = out[k]
  BY <1>2 DEF Inv, Typed, TypeOK
<1>4. PICK n \in Nat : n = Len(q) /\ DOMAIN q = 1..n
  BY LenProperties
<1>5. out'[k] = Append(q, p) /\ \A m \in Sinks \ {k} : out'[m] = out[m]
  BY <1>1, <1>2, <1>3 DEF Inv, Typed, TypeOK
<1>6. PICK r : r = out'[k]
  OBVIOUS
<1>7. DOMAIN r = 1..(n + 1) /\ (\A i \in 1..n : r[i] = q[i]) /\ r[n + 1] = p
  BY <1>3, <1>4, <1>5, <1>6, AppendProperties, LenProperties
<1>8. 1..(n + 1) = 1..n \cup {n + 1} /\ n + 1 \in Nat /\ \A i \in 1..n : i \in Nat /\ i < n + 1
  BY <1>4
<1>9. \A d : At(d, k) = {i \in 1..n : q[i].event = d}
  BY <1>3, <1>4 DEF At
<1>10. ASSUME NEW d PROVE At(d, k)' = {i \in 1..n \cup {n + 1} : r[i].event = d}
  BY <1>6, <1>7, <1>8 DEF At
<1>11. ASSUME NEW d, d # e PROVE Same(d)
  <2>1. At(d, k)' = At(d, k)
    <3>1. At(d, k)' = {i \in 1..n \cup {n + 1} : r[i].event = d}
      BY <1>10
    <3>2. At(d, k) = {i \in 1..n : q[i].event = d}
      BY <1>9
    <3>3. r[n + 1].event # d
      BY <1>1, <1>7, <1>11
    <3>4. \A i \in 1..n : r[i] = q[i]
      BY <1>7
    <3>5. {i \in 1..n \cup {n + 1} : r[i].event = d} = {i \in 1..n : q[i].event = d}
      BY <3>3, <3>4
    <3>6. QED
      BY <3>1, <3>2, <3>5
  <2>2. \A i \in At(d, k) : out'[k][i] = out[k][i]
    BY <1>3, <1>6, <1>7, <1>9
  <2>3. \A m \in Sinks \ {k} : At(d, m)' = At(d, m) /\ out'[m] = out[m]
    BY <1>5 DEF At
  <2>4. QED
    BY <2>1, <2>2, <2>3 DEF Same
<1>12. At(e, k)' = At(e, k) \cup {n + 1}
  BY <1>1, <1>7, <1>9, <1>10
<1>13. \A i \in At(e, k) : i \in Nat /\ i < n + 1 /\ out'[k][i] = out[k][i]
  BY <1>3, <1>6, <1>7, <1>8, <1>9
<1>14. \A m \in Sinks \ {k} : At(e, m)' = At(e, m) /\ out'[m] = out[m]
  BY <1>5 DEF At
<1>15. out'[k][n + 1].part = part
  BY <1>1, <1>6, <1>7
<1>16. AddsTo(e, k, part)
  BY <1>8, <1>12, <1>13, <1>15 DEF AddsTo
<1>17. QED
  BY <1>11, <1>14, <1>16
\* The steps of one thread, each with what it does to that thread's event.
LEMMA DeliveryCall ==
  ASSUME DeliveryInv, NEW t \in Threads, NEW l \in Levels, Call(t, l)
  PROVE  Early' /\ (\A u \in Threads : Progress(u)') /\ Delivered'
<1> PICK e : e = Len(logged) + 1
  OBVIOUS
<1>0. Typed /\ Known /\ Early /\ Delivered /\ Len(logged) \in Nat /\ Len(callbacks) \in Nat
  BY LenProperties DEF DeliveryInv, OrderedInv, Inv, Typed, TypeOK
<1>1. /\ UNCHANGED <<settings, out, sink>>
      /\ pc[t] = "idle" /\ pc'[t] = "lock" /\ event[t] = 0 /\ event'[t] = e /\ sink'[t] = 0
      /\ \A u \in Threads \ {t} : event'[u] = event[u] /\ pc'[u] = pc[u]
  BY <1>0 DEF Call, Goto, Typed, TypeOK, Early
<1>2. /\ DOMAIN logged = 1..Len(logged) /\ DOMAIN logged' = 1..e
      /\ \A d \in DOMAIN logged : logged'[d] = logged[d]
  BY <1>0, AppendProperties, LenProperties DEF Call, Typed, TypeOK
<1>3. StepOf(t)
  BY <1>1, <1>2 DEF StepOf, Same, At
<1>4. \A k \in Sinks : At(e, k)' = {}
  BY <1>0, <1>1 DEF Known, At
<1>5. 0..Len(callbacks) \subseteq Sinks
  BY <1>0, NumbersAssumption DEF Sinks, Typed, TypeOK
<1>6. Progress(t)'
  <2>1. callbacks' = callbacks
    BY <1>1 DEF settings
  <2>2. \A k \in 0..Len(callbacks) : ~(k < 0)
    BY <1>0
  <2>3. QED
    BY <1>1, <1>4, <1>5, <2>1, <2>2 DEF Progress, At
<1>7. \A u \in Threads : Progress(u)'
  BY <1>3, <1>6, OthersKeep
<1>8. Delivered'
  <2> SUFFICES ASSUME NEW d \in 1..e, NEW k \in 0..Len(callbacks),
                      \A u \in Threads : event'[u] # d
               PROVE  Done(d, k)'
    BY <1>1, <1>2 DEF Delivered, settings
  <2>1. d # e /\ d \in DOMAIN logged /\ d # 0
    BY <1>0, <1>1, <1>2
  <2>2. QED
    BY <1>1, <1>3, <2>1, OthersKeep
<1>9. Early'
  <2>1. ASSUME NEW u \in Threads, pc'[u] = "head" PROVE Passes(sink[u], logged[event[u]])'
    <3>1. u # t /\ pc[u] = "head" /\ event[u] # 0
      BY <1>0, <1>1, <2>1 DEF Early
    <3>2. event[u] \in DOMAIN logged /\ event'[u] = event[u] /\ sink'[u] = sink[u]
      BY <1>0, <1>1, <1>2, <3>1 DEF Typed, TypeOK
    <3>3. Passes(sink[u], logged[event[u]])
      BY <1>0, <3>1 DEF Early
    <3>4. QED
      BY <1>1, <1>2, <3>2, <3>3 DEF Passes, settings
  <2>2. e # 0 /\ callbacks' = callbacks
    BY <1>0, <1>1 DEF settings
  <2>3. QED
    BY <1>0, <1>1, <2>1, <2>2 DEF Early
<1>10. QED
  BY <1>7, <1>8, <1>9

\* A step inside log_log leaves the number of events alone.
LEMMA DeliveryStep ==
  ASSUME DeliveryInv, NEW t \in Threads, StepOf(t), UNCHANGED logged, Progress(t)',
         (pc[t] = "idle" <=> event[t] = 0)',
         (pc[t] \in {"idle", "lock"} => sink[t] = 0)',
         (pc[t] = "head" => Passes(sink[t], logged[event[t]]))',
         (pc[t] = "unlock" => sink[t] > Len(callbacks))',
         event'[t] = event[t]
           \/ \A k \in 0..Len(callbacks) : \A e \in DOMAIN logged : e = event[t] => Done(e, k)'
  PROVE  Early' /\ (\A u \in Threads : Progress(u)') /\ Delivered'
<1>1. \A u \in Threads : Progress(u)'
  BY OthersKeep
<1>2. Early'
  BY DEF DeliveryInv, Early, StepOf, Passes, settings
<1>3. Delivered'
  <2> SUFFICES ASSUME NEW d \in DOMAIN logged, NEW k \in 0..Len(callbacks),
                      \A u \in Threads : event'[u] # d
               PROVE  Done(d, k)'
    BY DEF Delivered, StepOf, settings
  <2>1. QED
    BY OthersKeep
<1>4. QED
  BY <1>1, <1>2, <1>3
LEMMA DeliveryMoves ==
  ASSUME DeliveryInv, NEW t \in Threads, Lock(t) \/ NextSink(t) \/ Unlock(t)
  PROVE  Early' /\ (\A u \in Threads : Progress(u)') /\ Delivered'
<1>0. /\ Typed /\ Early /\ Progress(t) /\ Len(callbacks) \in Nat
      /\ sink[t] \in Nat
  BY NumbersAssumption, LenProperties DEF DeliveryInv, OrderedInv, Inv, Typed, TypeOK
<1>1. /\ UNCHANGED <<settings, logged, out>>
      /\ \A u \in Threads \ {t} : event'[u] = event[u] /\ pc'[u] = pc[u] /\ sink'[u] = sink[u]
  BY <1>0 DEF Lock, NextSink, Unlock, Goto, frame, Typed, TypeOK
<1>2. StepOf(t) /\ callbacks' = callbacks
  BY <1>1 DEF StepOf, Same, At, settings
<1>3. \A e, k : /\ At(e, k)' = At(e, k)
                /\ Passes(k, logged[e])' <=> Passes(k, logged[e])
                /\ Done(e, k)' <=> Done(e, k)
  BY <1>1 DEF At, Passes, Done, settings
<1>4. ASSUME NEW e, e = event[t], event'[t] = e, e # 0, pc'[t] # "text", NEW k, k = sink'[t],
             \/ k = sink[t] /\ pc[t] # "text"
             \/ k = sink[t] + 1 /\ sink[t] <= Len(callbacks) /\ Done(e, sink[t])
      PROVE  Progress(t)'
  <2>1. ASSUME NEW m \in 0..Len(callbacks)
        PROVE  /\ m < k => Done(e, m)
               /\ m >= k => At(e, m) = {}
    <3>1. CASE k = sink[t] /\ pc[t] # "text"
      BY <1>0, <1>4, <3>1 DEF Progress
    <3>2. CASE k = sink[t] + 1 /\ sink[t] <= Len(callbacks) /\ Done(e, sink[t])
      <4>1. m < k => m < sink[t] \/ m = sink[t]
        BY <1>0, <3>2
      <4>2. m >= k => m > sink[t]
        BY <1>0, <3>2
      <4>3. QED
        BY <1>0, <1>4, <3>2, <4>1, <4>2 DEF Progress
    <3>3. QED
      BY <1>4, <3>1, <3>2
  <2>2. k \in Nat
    BY <1>0, <1>4
  <2>3. ASSUME NEW m \in 0..Len(callbacks)
        PROVE  /\ m < k => Done(e, m)'
               /\ m = k => At(e, m)' = {}
               /\ m > k => At(e, m)' = {}
    BY <1>3, <2>1, <2>2
  <2>4. QED
    BY <1>2, <1>4, <2>3 DEF Progress, Done, At
<1>5. CASE Lock(t)
  <2>1. /\ pc[t] = "lock" /\ pc'[t] = "next" /\ event'[t] = event[t] /\ sink'[t] = sink[t]
        /\ event[t] # 0
    BY <1>0, <1>5 DEF Lock, Goto, frame, Typed, TypeOK, Early
  <2>2. Progress(t)'
    BY <1>4, <2>1
  <2>3. QED
    BY <1>1, <1>2, <2>1, <2>2, DeliveryStep
<1>6. CASE NextSink(t)
  <2> PICK e : e = event[t]
    OBVIOUS
  <2>1. /\ pc[t] = "next" /\ event'[t] = e /\ e # 0
        /\ pc'[t] \in {"next", "head", "unlock"}
    BY <1>0, <1>6 DEF NextSink, Goto, frame, Typed, TypeOK, Early
  <2>2. \/ sink[t] > Len(callbacks) /\ pc'[t] = "unlock" /\ sink'[t] = sink[t]
        \/ /\ pc'[t] = "next" /\ sink[t] <= Len(callbacks)
           /\ ~Passes(sink[t], logged[e]) /\ sink'[t] = sink[t] + 1
        \/ pc'[t] = "head" /\ Passes(sink[t], logged[e]) /\ sink'[t] = sink[t]
    BY <1>0, <1>6 DEF NextSink, Goto, frame, Typed, TypeOK
  <2>3. sink[t] <= Len(callbacks) /\ ~Passes(sink[t], logged[e]) => Done(e, sink[t])
    <3>1. sink[t] <= Len(callbacks) => At(e, sink[t]) = {}
      BY <1>0, <2>1 DEF Progress
    <3>2. QED
      BY <3>1 DEF Done
  <2>4. Progress(t)'
    BY <1>4, <2>1, <2>2, <2>3
  <2>5. (pc[t] = "head" => Passes(sink[t], logged[event[t]]))'
    BY <1>3, <2>1, <2>2 DEF Passes
  <2>6. (pc[t] = "unlock" => sink[t] > Len(callbacks))'
    BY <1>2, <2>2
  <2>7. QED
    BY <1>1, <1>2, <2>1, <2>4, <2>5, <2>6, DeliveryStep
<1>7. CASE Unlock(t)
  <2>1. /\ pc[t] = "unlock" /\ pc'[t] = "idle" /\ event'[t] = 0 /\ sink'[t] = 0
        /\ event[t] # 0 /\ sink[t] > Len(callbacks)
    BY <1>0, <1>7 DEF Unlock, Goto, Typed, TypeOK, Early
  <2>2. \A k \in 0..Len(callbacks) : Done(event[t], k)
    BY <1>0, <2>1 DEF Progress
  <2>3. \A k \in 0..Len(callbacks) : \A e \in DOMAIN logged : e = event[t] => Done(e, k)'
    BY <1>3, <2>2
  <2>4. Progress(t)'
    BY <2>1 DEF Progress
  <2>5. QED
    BY <1>1, <1>2, <2>1, <2>3, <2>4, DeliveryStep
<1>8. QED
  BY <1>5, <1>6, <1>7

LEMMA DeliveryPuts ==
  ASSUME DeliveryInv, NEW t \in Threads, PutHead(t) \/ PutText(t)
  PROVE  Early' /\ (\A u \in Threads : Progress(u)') /\ Delivered'
<1> PICK e, k : e = event[t] /\ k = sink[t]
  OBVIOUS
<1>0. /\ Inv /\ Typed /\ Early /\ Progress(t) /\ Len(callbacks) \in Nat /\ k \in Nat
      /\ 0 \in 0..Len(logged)
  BY NumbersAssumption, LenProperties DEF DeliveryInv, OrderedInv, Inv, Typed, TypeOK
<1>1. /\ UNCHANGED <<settings, logged, event>>
      /\ \A u \in Threads \ {t} : pc'[u] = pc[u] /\ sink'[u] = sink[u]
      /\ pc[t] \in {"head", "text"} /\ e # 0
      /\ k \in 0..Len(callbacks) /\ k \in Sinks
  <2>1. pc[t] \in {"head", "text"}
    BY DEF PutHead, PutText, Goto
  <2>2. k <= Len(callbacks) /\ k \in Sinks /\ e # 0
    BY <1>0, <2>1, PieceType DEF Typed, Busy, Early
  <2>3. QED
    BY <1>0, <2>1, <2>2 DEF PutHead, PutText, Goto, frame, Typed, TypeOK
<1>2. PICK part \in {"head", "text"}, time \in 0..Len(logged) : Put(t, part, time) /\ pc[t] = part
  BY <1>0 DEF PutHead, PutText, Goto, Typed, TypeOK
<1>3. /\ \A d : d # e => Same(d)
      /\ \A m \in Sinks \ {k} : At(e, m)' = At(e, m) /\ out'[m] = out[m]
      /\ AddsTo(e, k, part)
  BY <1>0, <1>1, <1>2, PutAt
<1>4. PICK n \in Nat :
        /\ At(e, k)' = At(e, k) \cup {n}
        /\ out'[k][n].part = part
        /\ \A i \in At(e, k) : i \in Nat /\ i < n /\ out'[k][i] = out[k][i]
  BY <1>3 DEF AddsTo
<1>5. StepOf(t)
  BY <1>1, <1>3 DEF StepOf
<1>6. Passes(k, logged[e])' <=> Passes(k, logged[e])
  BY <1>1 DEF Passes, settings
<1>7. callbacks' = callbacks /\ 0..Len(callbacks) \subseteq Sinks
  BY <1>0, <1>1, NumbersAssumption DEF settings, Sinks, Typed, TypeOK
<1>8. ASSUME NEW m \in 0..Len(callbacks), m # k
      PROVE  /\ m < k => Done(e, m)'
             /\ m > k => At(e, m)' = {}
  <2>1. At(e, m)' = At(e, m) /\ out'[m] = out[m]
    BY <1>3, <1>7, <1>8
  <2>2. Passes(m, logged[e])' <=> Passes(m, logged[e])
    BY <1>1 DEF Passes, settings
  <2>3. /\ m < k => Done(e, m)
        /\ m > k => At(e, m) = {}
    BY <1>0, <1>1 DEF Progress
  <2>4. QED
    BY <2>1, <2>2, <2>3 DEF Done
<1>9. CASE PutHead(t)
  <2>1. pc[t] = "head" /\ pc'[t] = "text" /\ sink'[t] = k
    BY <1>0, <1>9 DEF PutHead, Goto, frame, Typed, TypeOK
  <2>2. At(e, k) = {} /\ Passes(k, logged[e])
    BY <1>0, <1>1, <2>1 DEF Progress, Early
  <2>3. At(e, k)' = {n} /\ out'[k][n].part = "head"
    BY <1>2, <1>4, <2>1, <2>2
  <2>4. Begun(e, k)'
    BY <1>6, <2>2, <2>3 DEF Begun
  <2>5. Progress(t)'
    BY <1>1, <1>7, <1>8, <2>1, <2>4 DEF Progress, Begun, Done, At
  <2>6. QED
    BY <1>1, <1>5, <2>1, <2>5, DeliveryStep
<1>10. CASE PutText(t)
  <2>1. pc[t] = "text" /\ pc'[t] = "next" /\ sink'[t] = k + 1
    BY <1>0, <1>10 DEF PutText, Goto, Typed, TypeOK
  <2>2. Begun(e, k)
    BY <1>0, <1>1, <2>1 DEF Progress
  <2>3. PICK i \in At(e, k) : At(e, k) = {i} /\ out[k][i].part = "head"
    BY <2>2 DEF Begun
  <2>4. /\ At(e, k)' = {i, n} /\ i < n
        /\ out'[k][i].part = "head" /\ out'[k][n].part = "text"
    BY <1>2, <1>4, <2>1, <2>3
  <2>5. Done(e, k)'
    BY <1>6, <2>2, <2>4 DEF Begun, Done
  <2>6. ASSUME NEW m \in 0..Len(callbacks)
        PROVE  /\ m < k + 1 => Done(e, m)'
               /\ m >= k + 1 => At(e, m)' = {}
    <3>1. CASE m = k
      BY <1>0, <2>5, <3>1
    <3>2. CASE m # k
      <4>1. (m < k + 1 => m < k) /\ (m >= k + 1 => m > k)
        BY <1>0, <3>2
      <4>2. QED
        BY <1>8, <3>2, <4>1
    <3>3. QED
      BY <3>1, <3>2
  <2>7. ASSUME NEW m \in 0..Len(callbacks)
        PROVE  /\ m < k + 1 => Done(e, m)'
               /\ m = k + 1 => At(e, m)' = {}
               /\ m > k + 1 => At(e, m)' = {}
    BY <1>0, <2>6
  <2>8. Progress(t)'
    BY <1>1, <1>7, <2>1, <2>7 DEF Progress, Done, At
  <2>9. QED
    BY <1>1, <1>5, <2>1, <2>8, DeliveryStep
<1>11. QED
  BY <1>9, <1>10

LEMMA DeliveryNext == DeliveryInv /\ [Next]_vars => DeliveryInv'
<1> SUFFICES ASSUME DeliveryInv, [Next]_vars
             PROVE  Early' /\ (\A u \in Threads : Progress(u)') /\ Delivered'
  BY OrderNext DEF DeliveryInv
<1>1. CASE Setting
  <2>1. \A t \in Threads : pc[t] = "idle"
    BY <1>1, Quietness DEF Setting, DeliveryInv, OrderedInv, Inv
  <2>2. DOMAIN logged = {}
    BY <1>1, EmptySeq DEF Setting
  <2>3. QED
    BY <1>1, <2>1, <2>2 DEF Setting, frame, DeliveryInv, Early, Progress, Delivered
<1>2. ASSUME NEW t \in Threads, Lock(t) \/ Body(t) \/ \E l \in Levels : Call(t, l)
      PROVE  Early' /\ (\A u \in Threads : Progress(u)') /\ Delivered'
  BY <1>2, DeliveryCall, DeliveryMoves, DeliveryPuts DEF Body
<1>3. CASE UNCHANGED vars
  BY <1>3 DEF vars, settings, frame, DeliveryInv, Early, Progress, Delivered, Begun, Done,
              At, Passes
<1>4. QED
  BY <1>1, <1>2, <1>3
     DEF Next, Silence, log_set_lock, log_set_quiet, log_set_level, log_add_callback

(* Whether or not a lock function is installed: an event that log_log is     *)
(* done with has been printed, head and text and nothing else, to each sink  *)
(* whose level it reaches, and to no other.                                  *)
THEOREM EventsAreDelivered == Spec => []Delivered
<1>1. DeliveryInv => Delivered
  BY DEF DeliveryInv
<1>2. QED
  BY <1>1, DeliveryInit, DeliveryNext, PTL DEF Spec
=============================================================================
