----------------------------- MODULE ChannelSpec -----------------------------
(***************************************************************************)
(* What a channel promises to the tasks that share it, whatever its        *)
(* storage and its locking: every operation takes effect at one instant    *)
(* between its call and its return, on a FIFO of at most Limit values that *)
(* is closed at most once.  A closed channel accepts nothing but still     *)
(* delivers, in order and to one receiver each, the values it accepted;    *)
(* "drained", "full" and "empty" are reported only of a queue that is so;  *)
(* an operation that gives up leaves the queue alone.                      *)
(***************************************************************************)
EXTENDS Naturals, Sequences

CONSTANTS Value, Nil, Limit

VARIABLES
  queue,    (* the values accepted and not yet delivered, oldest first   *)
  closed,
  outcome   (* what the latest operation to take effect reports          *)

vars == <<queue, closed, outcome>>

Report(kind, v) == outcome' = [kind |-> kind, value |-> v]

Init ==
  /\ queue = <<>>
  /\ closed = FALSE
  /\ outcome = [kind |-> "none", value |-> Nil]

Accept(v) ==
  /\ ~closed
  /\ Len(queue) < Limit
  /\ queue' = Append(queue, v)
  /\ Report("sent", Nil)
  /\ UNCHANGED closed

Deliver ==
  /\ queue # <<>>
  /\ queue' = Tail(queue)
  /\ Report("received", Head(queue))
  /\ UNCHANGED closed

Close ==
  /\ closed' = TRUE
  /\ UNCHANGED <<queue, outcome>>

Refuse ==
  /\ \/ closed /\ Report("closed", Nil)
     \/ closed /\ queue = <<>> /\ Report("drained", Nil)
     \/ ~closed /\ Len(queue) = Limit /\ Report("full", Nil)
     \/ ~closed /\ queue = <<>> /\ Report("empty", Nil)
  /\ UNCHANGED <<queue, closed>>

GiveUp ==
  /\ ~closed
  /\ queue = <<>> \/ Len(queue) = Limit
  /\ \/ Report("timeout", Nil)
     \/ Report("cancelled", Nil)
  /\ UNCHANGED <<queue, closed>>

Next ==
  \/ \E v \in Value : Accept(v)
  \/ Deliver
  \/ Close
  \/ Refuse
  \/ GiveUp

Spec == Init /\ [][Next]_vars
=============================================================================
