------------------------------- MODULE Mailbox ------------------------------
(***************************************************************************)
(* What one service promises to those who send to it: an inbox of bounded  *)
(* length, emptied in the order of arrival by a single handler that works  *)
(* on one message at a time.  A send never waits for room: it is refused   *)
(* exactly when the inbox is full.                                         *)
(***************************************************************************)
EXTENDS Naturals, Sequences

CONSTANTS
  Senders,    (* The threads that call service_send.    *)
  Messages,   (* The non-NULL pointers they send.       *)
  NULL,       (* No message.                            *)
  Bound       (* How many messages the inbox can hold.  *)

VARIABLES
  inbox,      (* Accepted messages, oldest first.                           *)
  handling,   (* The message taken from the inbox and not yet done with.    *)
  outcome     (* What became of each sender's current call.                 *)

vars == <<inbox, handling, outcome>>

Init ==
  /\ inbox = <<>>
  /\ handling = NULL
  /\ outcome = [s \in Senders |-> "none"]

Accept(s, m) ==
  /\ outcome[s] = "none"
  /\ Len(inbox) < Bound
  /\ inbox' = Append(inbox, m)
  /\ outcome' = [outcome EXCEPT ![s] = "accepted"]
  /\ UNCHANGED handling

Refuse(s) ==
  /\ outcome[s] = "none"
  /\ Len(inbox) = Bound
  /\ outcome' = [outcome EXCEPT ![s] = "dropped"]
  /\ UNCHANGED <<inbox, handling>>

Return(s) ==
  /\ outcome[s] # "none"
  /\ outcome' = [outcome EXCEPT ![s] = "none"]
  /\ UNCHANGED <<inbox, handling>>

Take ==
  /\ handling = NULL
  /\ inbox # <<>>
  /\ handling' = Head(inbox)
  /\ inbox' = Tail(inbox)
  /\ UNCHANGED outcome

Finish ==
  /\ handling # NULL
  /\ handling' = NULL
  /\ UNCHANGED <<inbox, outcome>>

Next ==
  \/ \E s \in Senders : (\E m \in Messages : Accept(s, m)) \/ Refuse(s) \/ Return(s)
  \/ Take
  \/ Finish

Spec == Init /\ [][Next]_vars
=============================================================================
