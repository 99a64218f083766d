------------------------------- MODULE Channel -------------------------------
(***************************************************************************)
(* core/runtime/concurrency/channel.cpp: the thread-safe message queue     *)
(* behind channel<T>.  mutex_ guards the buffer and the writes of closed_, *)
(* so everything a thread does between taking the mutex and releasing it   *)
(* (or waiting on a condition variable, which releases it) is one action.  *)
(* The notifications are sent after the unlock and are actions of their    *)
(* own: between them anything can happen.                                  *)
(*                                                                         *)
(* A thread waits on not_empty_cv_ when its call is a receive, on          *)
(* not_full_cv_ when its call is a send.  A waiter leaves the wait set     *)
(* when it is notified, spuriously, or when its wait_for ends ("polled");  *)
(* then it re-checks its predicate with the mutex held.                    *)
(***************************************************************************)
EXTENDS ChannelBuffer, FiniteSets

CONSTANTS
  Thread,    (* the threads that share the channel                        *)
  HasToken   (* those that pass a CancellationToken: the task VMs; the    *)
             (* main VM thread passes none and its waits are untimed      *)

ASSUME ThreadAssumption == HasToken \subseteq Thread /\ IsFiniteSet(Thread)

VARIABLES
  buffer,     (* buffer_                                                   *)
  closed,     (* closed_                                                   *)
  cancelled,  (* the threads whose token is cancelled                      *)
  pc,         (* where each thread is                                      *)
  call,       (* the blocked call of each thread                           *)
  outcome     (* how the latest call to take effect ended: what it reports *)
              (* to its caller                                             *)

vars == <<buffer, closed, cancelled, pc, call, outcome>>

SendOps    == {"send", "send_timeout", "try_send"}
ReceiveOps == {"receive", "receive_timeout", "try_receive"}
TimedOps   == {"send_timeout", "receive_timeout"}
TryOps     == {"try_send", "try_receive"}

NoCall == [op |-> "none", value |-> Nil, expired |-> FALSE]

Calls ==
  [op : {"none"} \cup SendOps \cup ReceiveOps,
   value : Value \cup {Nil},     (* what a send is to push               *)
   expired : BOOLEAN]            (* the deadline of a timed call passed  *)

Pcs == {"idle", "wait", "awake", "polled", "notify_not_empty",
        "notify_not_full", "close_not_empty", "close_not_full"}

Outcomes ==
  [kind : {"none", "sent", "received", "closed", "drained", "full", "empty",
           "timeout", "cancelled"},
   value : Value \cup {Nil}]

(* Type invariant.                                                         *)
TypeOK ==
  /\ buffer \in Buffers
  /\ closed \in BOOLEAN
  /\ cancelled \subseteq HasToken
  /\ pc \in [Thread -> Pcs]
  /\ call \in [Thread -> Calls]
  /\ outcome \in Outcomes

Init ==
  /\ buffer = make_channel_buffer
  /\ closed = FALSE
  /\ cancelled = {}
  /\ pc = [t \in Thread |-> "idle"]
  /\ call = [t \in Thread |-> NoCall]
  /\ outcome = [kind |-> "none", value |-> Nil]

-----------------------------------------------------------------------------
(* Wait sets and the ways out of a call.                                   *)

Blocked(t) == pc[t] \in {"wait", "awake", "polled"}

Waiting(ops) == {t \in Thread : pc[t] = "wait" /\ call[t].op \in ops}
Woken(ops)   == {t \in Thread : pc[t] \in {"awake", "polled"} /\ call[t].op \in ops}

Goto(t, l) ==
  /\ pc' = [pc EXCEPT ![t] = l]
  /\ call' = [call EXCEPT ![t] = NoCall]

Report(kind, v) == outcome' = [kind |-> kind, value |-> v]

Return(t, kind) ==
  /\ Goto(t, "idle")
  /\ Report(kind, Nil)
  /\ UNCHANGED buffer

has_value_or_closed == ~is_empty(buffer) \/ closed
has_room_or_closed  == closed \/ ~is_full(buffer)

(* wait_cancellable: the predicate is false.  The token is looked at only  *)
(* when a poll interval has ended.                                         *)
wait_cancellable(t, c, polled) ==
  IF t \in cancelled /\ polled
  THEN Return(t, "cancelled")
  ELSE /\ pc' = [pc EXCEPT ![t] = "wait"]
       /\ call' = [call EXCEPT ![t] = c]
       /\ UNCHANGED <<buffer, outcome>>

(* Seeded fault: the deadline is forgotten after a wake-up.                *)
wait_without_deadline(t, c) ==
  IF t \in cancelled THEN Return(t, "cancelled")
  ELSE /\ pc' = [pc EXCEPT ![t] = "wait"]
       /\ call' = [call EXCEPT ![t] = c]
       /\ UNCHANGED <<buffer, outcome>>

(* wait_until_cancellable: the predicate is false.  The token first, then  *)
(* the deadline, then one more wait.                                       *)
wait_until_cancellable(t, c) ==
  IF t \in cancelled THEN Return(t, "cancelled")
  ELSE IF c.expired THEN Return(t, "timeout")
  ELSE /\ pc' = [pc EXCEPT ![t] = "wait"]
       /\ call' = [call EXCEPT ![t] = c]
       /\ UNCHANGED <<buffer, outcome>>

WaitStep(t, c, polled) ==
  IF c.op \in TimedOps
  THEN wait_until_cancellable(t, c)
  ELSE wait_cancellable(t, c, polled)

-----------------------------------------------------------------------------
(* The locked part of a send and of a receive, from the call or from a     *)
(* wake-up.                                                                *)

(* Seeded fault: no throw_if_closed() after the wait.                      *)
SendLockedUnchecked(t, c, polled) ==
  \/ /\ closed /\ is_full(buffer)
     /\ Return(t, "closed")
  \/ /\ ~is_full(buffer)
     /\ buffer' = push(buffer, c.value)
     /\ Report("sent", Nil)
     /\ Goto(t, "notify_not_empty")
  \/ /\ ~has_room_or_closed
     /\ IF is_bounded /\ c.op \notin TryOps
        THEN WaitStep(t, c, polled)
        ELSE Return(t, "full")

(* Seeded fault: the receivers are not notified of a pushed value.         *)
SendLockedSilent(t, c, polled) ==
  \/ /\ closed
     /\ Return(t, "closed")
  \/ /\ ~closed
     /\ ~is_full(buffer)
     /\ buffer' = push(buffer, c.value)
     /\ Report("sent", Nil)
     /\ Goto(t, "idle")
  \/ /\ ~has_room_or_closed
     /\ IF is_bounded /\ c.op \notin TryOps
        THEN WaitStep(t, c, polled)
        ELSE Return(t, "full")

SendLocked(t, c, polled) ==
  \/ /\ closed
     /\ Return(t, "closed")
  \/ /\ ~closed
     /\ ~is_full(buffer)
     /\ buffer' = push(buffer, c.value)
     /\ Report("sent", Nil)
     /\ Goto(t, "notify_not_empty")
  \/ /\ ~has_room_or_closed
     /\ IF is_bounded /\ c.op \notin TryOps
        THEN WaitStep(t, c, polled)
        ELSE Return(t, "full")

(* Seeded fault: the senders of a bounded channel are not notified.        *)
notify_no_senders(t) == Goto(t, "idle")

notify_senders_if_needed(t) ==
  Goto(t, IF is_bounded THEN "notify_not_full" ELSE "idle")

ReceiveLocked(t, c, polled) ==
  \/ /\ ~is_empty(buffer)
     /\ buffer' = pop(buffer)
     /\ Report("received", front(buffer))
     /\ notify_senders_if_needed(t)
  \/ /\ is_empty(buffer) /\ closed
     /\ Return(t, "drained")
  \/ /\ ~has_value_or_closed
     /\ IF c.op \in TryOps THEN Return(t, "empty") ELSE WaitStep(t, c, polled)

Call(o, v, e) == [op |-> o, value |-> v, expired |-> e]

(* A timeout of zero has passed when the call starts, any other may have.  *)
send(t, v) ==
  /\ pc[t] = "idle"
  /\ SendLocked(t, Call("send", v, FALSE), FALSE)
  /\ UNCHANGED <<closed, cancelled>>

send_timeout(t, v) ==
  /\ pc[t] = "idle"
  /\ \E e \in BOOLEAN : SendLocked(t, Call("send_timeout", v, e), FALSE)
  /\ UNCHANGED <<closed, cancelled>>

try_send(t, v) ==
  /\ pc[t] = "idle"
  /\ SendLocked(t, Call("try_send", v, FALSE), FALSE)
  /\ UNCHANGED <<closed, cancelled>>

receive(t) ==
  /\ pc[t] = "idle"
  /\ ReceiveLocked(t, Call("receive", Nil, FALSE), FALSE)
  /\ UNCHANGED <<closed, cancelled>>

receive_timeout(t) ==
  /\ pc[t] = "idle"
  /\ \E e \in BOOLEAN : ReceiveLocked(t, Call("receive_timeout", Nil, e), FALSE)
  /\ UNCHANGED <<closed, cancelled>>

try_receive(t) ==
  /\ pc[t] = "idle"
  /\ ReceiveLocked(t, Call("try_receive", Nil, FALSE), FALSE)
  /\ UNCHANGED <<closed, cancelled>>

close(t) ==
  /\ pc[t] = "idle"
  /\ closed' = TRUE
  /\ Goto(t, "close_not_empty")
  /\ UNCHANGED <<buffer, cancelled, outcome>>

-----------------------------------------------------------------------------
(* The condition variables, and what the rest of the program does to a     *)
(* waiter: time passes, its token is cancelled.                            *)

NotifyOne(t, at, ops) ==
  /\ pc[t] = at
  /\ \/ /\ Waiting(ops) = {}
        /\ pc' = [pc EXCEPT ![t] = "idle"]
     \/ \E w \in Waiting(ops) :
          pc' = [pc EXCEPT ![t] = "idle", ![w] = "awake"]
  /\ UNCHANGED <<buffer, closed, cancelled, call, outcome>>

(* Seeded fault: close() notifies one waiter of each queue.                *)
NotifyOneOnly(t, at, next, ops) ==
  /\ pc[t] = at
  /\ \/ /\ Waiting(ops) = {}
        /\ pc' = [pc EXCEPT ![t] = next]
     \/ \E w \in Waiting(ops) :
          pc' = [pc EXCEPT ![t] = next, ![w] = "awake"]
  /\ UNCHANGED <<buffer, closed, cancelled, call, outcome>>

NotifyAll(t, at, next, ops) ==
  /\ pc[t] = at
  /\ pc' = [u \in Thread |-> IF u = t THEN next
                             ELSE IF u \in Waiting(ops) THEN "awake"
                             ELSE pc[u]]
  /\ UNCHANGED <<buffer, closed, cancelled, call, outcome>>

Notify(t) ==
  \/ NotifyOne(t, "notify_not_empty", ReceiveOps)
  \/ NotifyOne(t, "notify_not_full", SendOps)
  \/ NotifyAll(t, "close_not_empty", "close_not_full", ReceiveOps)
  \/ NotifyAll(t, "close_not_full", "idle", SendOps)

(* The bounded wait of wait_for ends.  An untimed call without a token     *)
(* waits unboundedly, a timed one without a token up to its deadline.      *)
Poll(t) ==
  /\ pc[t] = "wait"
  /\ t \in HasToken \/ call[t].expired
  /\ pc' = [pc EXCEPT ![t] = "polled"]
  /\ UNCHANGED <<buffer, closed, cancelled, call, outcome>>

SpuriousWakeup(t) ==
  /\ pc[t] = "wait"
  /\ pc' = [pc EXCEPT ![t] = "awake"]
  /\ UNCHANGED <<buffer, closed, cancelled, call, outcome>>

(* A woken waiter has the mutex again and re-checks its predicate.         *)
Recheck(t) ==
  /\ pc[t] \in {"awake", "polled"}
  /\ IF call[t].op \in SendOps
     THEN SendLocked(t, call[t], pc[t] = "polled")
     ELSE ReceiveLocked(t, call[t], pc[t] = "polled")
  /\ UNCHANGED <<closed, cancelled>>

DeadlinePasses(t) ==
  /\ Blocked(t)
  /\ call[t].op \in TimedOps
  /\ ~call[t].expired
  /\ call' = [call EXCEPT ![t].expired = TRUE]
  /\ UNCHANGED <<buffer, closed, cancelled, pc, outcome>>

Cancel(t) ==
  /\ t \in HasToken
  /\ t \notin cancelled
  /\ cancelled' = cancelled \cup {t}
  /\ UNCHANGED <<buffer, closed, pc, call, outcome>>

-----------------------------------------------------------------------------
Step(t) == Notify(t) \/ Recheck(t) \/ Poll(t) \/ DeadlinePasses(t)

Next ==
  \E t \in Thread :
    \/ \E v \in Value : send(t, v) \/ send_timeout(t, v) \/ try_send(t, v)
    \/ receive(t) \/ receive_timeout(t) \/ try_receive(t)
    \/ close(t)
    \/ Step(t)
    \/ SpuriousWakeup(t)
    \/ Cancel(t)

Spec == Init /\ [][Next]_vars

(* A runnable thread runs and time reaches every deadline.  wait_for keeps *)
(* its absolute end over wake-ups in between, so an interval that is begun *)
(* again and again is also ended: strong fairness for Poll.  Nothing says  *)
(* that anybody calls, closes or cancels, or that a wake-up is spurious.   *)
Fairness ==
  \A t \in Thread :
    /\ WF_vars(Notify(t))
    /\ WF_vars(Recheck(t))
    /\ SF_vars(Poll(t))
    /\ WF_vars(DeadlinePasses(t))

FairSpec == Spec /\ Fairness

-----------------------------------------------------------------------------
(* Properties.                                                             *)

Notifying(l) == {t \in Thread : pc[t] = l}

(* No receiver sleeps through a value: while one waits on not_empty_cv_,   *)
(* every buffered value is matched by a sender about to notify or by a     *)
(* receiver already woken.  send() notifies after the unlock, so this      *)
(* spans the window between the push and the notify_one.                   *)
NoLostReceiverWakeup ==
  Waiting(ReceiveOps) # {} =>
    Cardinality(Notifying("notify_not_empty") \cup Woken(ReceiveOps)) >= size(buffer)

(* No sender sleeps through a free slot of an open bounded channel: the    *)
(* same for not_full_cv_ and notify_senders_if_needed().                   *)
NoLostSenderWakeup ==
  (~closed /\ Waiting(SendOps) # {}) =>
    Cardinality(Notifying("notify_not_full") \cup Woken(SendOps))
      >= Capacity - size(buffer)

(* close() leaves nobody behind: somebody still waits on a closed channel  *)
(* only while a close() has its notify_all of that queue ahead of it.      *)
CloseWakesEveryone ==
  closed =>
    /\ Waiting(ReceiveOps) # {} => Notifying("close_not_empty") # {}
    /\ Waiting(SendOps) # {} =>
         Notifying("close_not_empty") \cup Notifying("close_not_full") # {}

(* The ring never leaves its slots.  It holds values exactly in its count_ *)
(* slots from head_ and the next free slot is tail_; a slot outside is the *)
(* reset Value{}.                                                          *)
RingConsistent ==
  /\ TypeOK
  /\ is_bounded =>
       /\ buffer.tail = (buffer.head + buffer.count) % Capacity
       /\ \A i \in Slots :
            (buffer.ring[i] # Nil) <=>
              (\E k \in 0 .. (buffer.count - 1) : i = (buffer.head + k) % Capacity)

(* The channel implements the abstract one: its operations are atomic,     *)
(* first in first out, and report what they did.                           *)
Abstract ==
  INSTANCE ChannelSpec WITH
    queue <- Contents(buffer),
    Limit <- IF is_bounded THEN Capacity ELSE max_channel_queue_size

ImplementsChannelSpec == Abstract!Spec

(* A blocked call returns, whatever the other threads do, if it has a      *)
(* deadline (receive_timeout "blocks for at most timeout_ms milliseconds"),*)
(* if its task is cancelled, which only the polling sees, or if the        *)
(* channel is closed, also an untimed call without a token.                *)
BlockedCallReturns ==
  \A t \in Thread :
    (Blocked(t) /\ (call[t].op \in TimedOps \/ t \in cancelled \/ closed)) ~> ~Blocked(t)
=============================================================================
