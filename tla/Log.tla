--------------------------------- MODULE Log --------------------------------
(***************************************************************************)
(* src/log.c, through which any thread may log: each event goes to stderr  *)
(* and then to the callbacks, in the order they were added, all between a  *)
(* call of lock() and one of unlock(), which do nothing unless the user    *)
(* has installed a lock function.  A line is printed in pieces, and its    *)
(* time is a pointer to the one buffer that localtime fills.               *)
(***************************************************************************)
EXTENDS Naturals, Sequences

CONSTANTS
  Threads,        (* Threads that log.                                  *)
  Nobody,         (* The holder of the user's lock when it is free.     *)
  Levels,         (* Of events and of sinks: 0 to 5 in the program.     *)
  MAX_CALLBACKS,
  MaxEvents       (* Bounds how many events are logged.                 *)

ASSUME ThreadsAssumption == Nobody \notin Threads
ASSUME NumbersAssumption ==
  Levels \subseteq Nat /\ 0 \in Levels /\ MAX_CALLBACKS \in Nat /\ MaxEvents \in Nat

VARIABLES
  locking, level, quiet,  (* L.lock is set; L.level; L.quiet.                 *)
  callbacks,  (* The levels of the callbacks in L.callbacks.                  *)
  holder,     (* Who has called the lock function with true.                  *)
  tm,         (* The event whose time is in localtime's buffer, 0 for none.   *)
  logged,     (* The level of each event so far.                              *)
  out,        (* What has been printed to each sink: stderr is sink 0.        *)
  pc,         (* Where each thread is in log_log.                             *)
  event,      (* Its event, ...                                               *)
  timed,      (* ... whether ev.time has been set, ...                        *)
  sink        (* ... and the sink it has come to.                             *)

settings == <<locking, level, quiet, callbacks>>
frame == <<event, timed, sink>>
vars == <<settings, holder, tm, logged, out, pc, frame>>

Sinks == 0..MAX_CALLBACKS
\* The head of a line has the time in it; the text and the newline are one piece.
Parts == <<"head", "text">>
Pieces == [event : 1..MaxEvents, part : {"head", "text"}, time : 0..MaxEvents]

Init ==
  /\ locking = FALSE
  /\ level = 0
  /\ quiet = FALSE
  /\ callbacks = <<>>
  /\ holder = Nobody
  /\ tm = 0
  /\ logged = <<>>
  /\ out = [k \in Sinks |-> <<>>]
  /\ pc = [t \in Threads |-> "idle"]
  /\ event = [t \in Threads |-> 0]
  /\ timed = [t \in Threads |-> FALSE]
  /\ sink = [t \in Threads |-> 0]

Goto(t, from, to) ==
  /\ pc[t] = from
  /\ pc' = [pc EXCEPT ![t] = to]

\* level >= L.level for stderr, level >= cb->level for a callback.
Passes(k, l) == IF k = 0 THEN ~quiet /\ l >= level ELSE l >= callbacks[k]

-----------------------------------------------------------------------------
(* Plausible slips in the operations below; nothing in Next refers to them.  *)

NextSink_StopsAtLevel(t) ==    \* a callback that is too coarse hides the rest
  /\ pc[t] = "next"
  /\ LET go == sink[t] <= Len(callbacks) /\ Passes(sink[t], logged[event[t]])
     IN  /\ Goto(t, "next", IF go THEN "head" ELSE "unlock")
         /\ tm' = IF go /\ ~timed[t] THEN event[t] ELSE tm
         /\ timed' = [timed EXCEPT ![t] = @ \/ go]
  /\ UNCHANGED <<settings, holder, logged, out, event, sink>>

NextSink_QuietReturns(t) ==    \* a quiet log returns at once, with the lock
  /\ pc[t] = "next"
  /\ LET k == sink[t]
         go == k <= Len(callbacks) /\ Passes(k, logged[event[t]])
     IN  /\ pc' = [pc EXCEPT ![t] =
               CASE quiet -> "idle" [] go -> "head" [] k > Len(callbacks) -> "unlock"
                 [] OTHER -> "next"]
         /\ tm' = IF go /\ ~timed[t] THEN event[t] ELSE tm
         /\ timed' = [timed EXCEPT ![t] = @ \/ go]
         /\ sink' = [sink EXCEPT ![t] = IF go \/ k > Len(callbacks) THEN @ ELSE @ + 1]
  /\ UNCHANGED <<settings, holder, logged, out, event>>

Lock_Ignored(t) ==             \* the lock function is called and has no effect
  /\ Goto(t, "lock", "next")
  /\ UNCHANGED <<settings, holder, tm, logged, out, frame>>

PutText_Unlocks(t) ==          \* the lock is held for one sink at a time
  /\ Goto(t, "text", "lock")
  /\ out' = [out EXCEPT ![sink[t]] =
               Append(@, [event |-> event[t], part |-> "text", time |-> 0])]
  /\ sink' = [sink EXCEPT ![t] = @ + 1]
  /\ holder' = Nobody
  /\ UNCHANGED <<settings, tm, logged, event, timed>>

AddCallback_Overfull(l) ==     \* one callback more than there is room for
  /\ logged = <<>>
  /\ callbacks' = IF Len(callbacks) <= MAX_CALLBACKS THEN Append(callbacks, l) ELSE callbacks
  /\ UNCHANGED <<locking, level, quiet, holder, tm, logged, out, pc, frame>>

-----------------------------------------------------------------------------
(* The settings, which the library does not guard: they are made before      *)
(* anything is logged.                                                       *)

Setting == logged = <<>> /\ UNCHANGED <<holder, tm, logged, out, pc, frame>>

log_set_lock ==
  /\ Setting
  /\ locking' \in BOOLEAN
  /\ UNCHANGED <<level, quiet, callbacks>>

log_set_level(l) ==
  /\ Setting
  /\ level' = l
  /\ UNCHANGED <<locking, quiet, callbacks>>

log_set_quiet(enable) ==
  /\ Setting
  /\ quiet' = enable
  /\ UNCHANGED <<locking, level, callbacks>>

\* The first free place, if there is one: else the result is -1.
log_add_callback(l) ==
  /\ Setting
  /\ callbacks' = IF Len(callbacks) < MAX_CALLBACKS THEN Append(callbacks, l) ELSE callbacks
  /\ UNCHANGED <<locking, level, quiet>>

-----------------------------------------------------------------------------
(* log_log.                                                                  *)

Call(t, l) ==
  /\ Len(logged) < MaxEvents
  /\ Goto(t, "idle", "lock")
  /\ logged' = Append(logged, l)
  /\ event' = [event EXCEPT ![t] = Len(logged) + 1]
  /\ UNCHANGED <<settings, holder, tm, out, timed, sink>>

Lock(t) ==
  /\ Goto(t, "lock", "next")
  /\ IF locking THEN holder = Nobody /\ holder' = t ELSE UNCHANGED holder
  /\ UNCHANGED <<settings, tm, logged, out, frame>>

(* The next sink: skipped if its level is too high, else init_event, which   *)
(* asks for the time at the event's first sink only.                         *)
NextSink(t) ==
  LET k == sink[t]
      e == event[t]
  IN  \/ /\ k > Len(callbacks)
         /\ Goto(t, "next", "unlock")
         /\ UNCHANGED <<settings, holder, tm, logged, out, frame>>
      \/ /\ Goto(t, "next", "next")
         /\ k <= Len(callbacks) /\ ~Passes(k, logged[e])
         /\ sink' = [sink EXCEPT ![t] = k + 1]
         /\ UNCHANGED <<settings, holder, tm, logged, out, event, timed>>
      \/ /\ Goto(t, "next", "head")
         /\ k <= Len(callbacks) /\ Passes(k, logged[e])
         /\ tm' = IF timed[t] THEN tm ELSE e
         /\ timed' = [timed EXCEPT ![t] = TRUE]
         /\ UNCHANGED <<settings, holder, logged, out, event, sink>>

Put(t, part, time) ==
  out' = [out EXCEPT ![sink[t]] = Append(@, [event |-> event[t], part |-> part, time |-> time])]

(* stdout_callback and file_callback: strftime reads the buffer for the head *)
(* of the line, which is printed with it; then the text, whose newline, a    *)
(* call of its own in the code, counts as part of it.                        *)
PutHead(t) ==
  /\ Goto(t, "head", "text")
  /\ Put(t, "head", tm)
  /\ UNCHANGED <<settings, holder, tm, logged, frame>>

PutText(t) ==
  /\ Goto(t, "text", "next")
  /\ Put(t, "text", 0)
  /\ sink' = [sink EXCEPT ![t] = @ + 1]
  /\ UNCHANGED <<settings, holder, tm, logged, event, timed>>

Unlock(t) ==
  /\ Goto(t, "unlock", "idle")
  /\ holder' = Nobody
  /\ event' = [event EXCEPT ![t] = 0]
  /\ timed' = [timed EXCEPT ![t] = FALSE]
  /\ sink' = [sink EXCEPT ![t] = 0]
  /\ UNCHANGED <<settings, tm, logged, out>>

-----------------------------------------------------------------------------
Body(t) == NextSink(t) \/ PutHead(t) \/ PutText(t) \/ Unlock(t)

\* The program has no more to say.
Silence ==
  /\ Len(logged) = MaxEvents
  /\ \A t \in Threads : pc[t] = "idle"
  /\ UNCHANGED vars

Next ==
  \/ log_set_lock
  \/ \E enable \in BOOLEAN : log_set_quiet(enable)
  \/ \E l \in Levels : log_set_level(l) \/ log_add_callback(l)
  \/ \E t \in Threads : Lock(t) \/ Body(t) \/ \E l \in Levels : Call(t, l)
  \/ Silence

Spec == Init /\ [][Next]_vars

(* A running thread runs on, and gets a lock that is free again and again.   *)
Fairness == \A t \in Threads : WF_vars(Body(t)) /\ SF_vars(Lock(t))

FairSpec == Spec /\ Fairness

-----------------------------------------------------------------------------
TypeOK ==
  /\ locking \in BOOLEAN
  /\ level \in Levels
  /\ quiet \in BOOLEAN
  /\ callbacks \in Seq(Levels) /\ Len(callbacks) <= MAX_CALLBACKS
  /\ holder \in Threads \cup {Nobody}
  /\ tm \in 0..Len(logged)
  /\ logged \in Seq(Levels) /\ Len(logged) <= MaxEvents
  /\ out \in [Sinks -> Seq(Pieces)]
  /\ pc \in [Threads -> {"idle", "lock", "next", "head", "text", "unlock"}]
  /\ event \in [Threads -> 0..Len(logged)]
  /\ timed \in [Threads -> BOOLEAN]
  /\ sink \in [Threads -> 0..MAX_CALLBACKS + 1]

(* With a lock function, every sink gets whole lines, each by one thread and *)
(* with its own time, although the time is read through a buffer that all    *)
(* threads share (log.c:134) and a line is several writes (log.c:62-67).     *)
WholeLines ==
  locking =>
    \A k \in Sinks : \A i \in DOMAIN out[k] :
      LET first == i - ((i - 1) % 2)
      IN  /\ out[k][i].part = Parts[i - first + 1]
          /\ out[k][i].event = out[k][first].event
          /\ out[k][first].time = out[k][first].event

(* With a lock function, two events are never printed in one order to one    *)
(* sink and in the other order to another: lock and unlock enclose all of    *)
(* log_log (log.c:148, 167).                                                 *)
Before(d, e, k) ==
  \E i, j \in DOMAIN out[k] : i < j /\ out[k][i].event = d /\ out[k][j].event = e

SinksAgree ==
  locking =>
    \A d, e \in DOMAIN logged : \A k, m \in Sinks :
      d # e /\ Before(d, e, k) => ~Before(e, d, m)

\* Where the pieces of an event are in a sink.
At(e, k) == {i \in DOMAIN out[k] : out[k][i].event = e}

Done(e, k) ==
  IF Passes(k, logged[e])
  THEN \E i, j \in At(e, k) :
         i < j /\ At(e, k) = {i, j} /\ out[k][i].part = "head" /\ out[k][j].part = "text"
  ELSE At(e, k) = {}

(* With a lock function or without: once log_log has returned, each sink     *)
(* whose level the event has reached, and no other, has got its two pieces   *)
(* once and in order, whatever the other sinks' levels are.                  *)
Delivered ==
  \A e \in DOMAIN logged : \A k \in 0..Len(callbacks) :
    (\A t \in Threads : event[t] # e) => Done(e, k)

(* Every call of log_log returns, and so releases the lock: a level that is  *)
(* too low, or a quiet log, is no way around unlock().                       *)
LogReturns == \A t \in Threads : pc[t] = "lock" ~> pc[t] = "idle"
=============================================================================
