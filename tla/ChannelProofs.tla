---------------------------- MODULE ChannelProofs ----------------------------
(***************************************************************************)
(* What the channel promises for any number of threads, any capacity and   *)
(* any set of values: the invariant behind TypeOK, that neither a receiver *)
(* nor a sender nor a waiter on a closed channel is forgotten, that the    *)
(* ring is sound, and that the channel implements ChannelSpec.             *)
(***************************************************************************)
EXTENDS Channel, Integers, FiniteSetTheorems, SequenceTheorems, TLAPS

(* A set that gains a member counts one more.                              *)
LEMMA CountAdd ==
  ASSUME NEW S, NEW R, NEW x, IsFiniteSet(S), x \notin S, R = S \cup {x}
  PROVE  IsFiniteSet(R) /\ Cardinality(R) = Cardinality(S) + 1
         /\ Cardinality(S) \in Nat
BY FS_AddElement, FS_CardinalityType

(* A set that loses a member counts one less.                              *)
LEMMA CountRemove ==
  ASSUME NEW S, NEW R, NEW x, IsFiniteSet(S), x \in S, R = S \ {x}
  PROVE  IsFiniteSet(R) /\ Cardinality(R) = Cardinality(S) - 1
         /\ Cardinality(S) \in Nat
BY FS_RemoveElement, FS_CardinalityType

(* Replacing one member of a set by another keeps the count.               *)
LEMMA CountSwap ==
  ASSUME NEW S, NEW R, NEW x, NEW y, IsFiniteSet(S), x \in S, y \notin S,
         R = (S \ {x}) \cup {y}
  PROVE  Cardinality(R) = Cardinality(S)
<1>1. IsFiniteSet(S \ {x}) /\ Cardinality(S \ {x}) = Cardinality(S) - 1
      /\ Cardinality(S) \in Nat
  BY CountRemove
<1>2. Cardinality(R) = Cardinality(S \ {x}) + 1
  BY <1>1, CountAdd
<1>3. QED BY <1>1, <1>2

(* The wrapped successor of a ring index, (i + 1) % capacity_, is a ring   *)
(* index.                                                                  *)
LEMMA ModSuccessor ==
  ASSUME NEW c \in Nat \ {0}, NEW x \in 0 .. (c - 1)
  PROVE  /\ (x + 1) % c = IF x + 1 = c THEN 0 ELSE x + 1
         /\ (x + 1) % c \in 0 .. (c - 1)
BY Z3

(* push() on a buffer that is not full gives a buffer with one value more. *)
LEMMA PushBuffer ==
  ASSUME NEW b \in Buffers, NEW v \in Value, ~is_full(b)
  PROVE  push(b, v) \in Buffers /\ size(push(b, v)) = size(b) + 1
<1>1. CASE is_bounded
  <2>1. Capacity \in Nat \ {0} BY <1>1, BufferAssumption DEF is_bounded
  <2>2. b \in BoundedBuffers BY <1>1 DEF Buffers
  <2>3. (b.tail + 1) % Capacity \in Slots
    BY <2>1, <2>2, ModSuccessor DEF BoundedBuffers, Slots
  <2>4. QED
    BY <1>1, <2>1, <2>2, <2>3 DEF Buffers, BoundedBuffers, push, size, is_full
<1>2. CASE ~is_bounded
  BY <1>2 DEF Buffers, UnboundedBuffers, push, size
<1>3. QED BY <1>1, <1>2

(* pop() on a buffer that is not empty takes the content of a slot and     *)
(* leaves a buffer with one value less.                                    *)
LEMMA PopBuffer ==
  ASSUME NEW b \in Buffers, ~is_empty(b)
  PROVE  /\ pop(b) \in Buffers
         /\ size(pop(b)) = size(b) - 1
         /\ front(b) \in Value \cup {Nil}
<1>1. CASE is_bounded
  <2>1. Capacity \in Nat \ {0} BY <1>1, BufferAssumption DEF is_bounded
  <2>2. b \in BoundedBuffers BY <1>1 DEF Buffers
  <2>3. (b.head + 1) % Capacity \in Slots
    BY <2>1, <2>2, ModSuccessor DEF BoundedBuffers, Slots
  <2>4. QED
    BY <1>1, <2>1, <2>2, <2>3 DEF Buffers, BoundedBuffers, pop, front, size, is_empty
<1>2. CASE ~is_bounded
  BY <1>2 DEF Buffers, UnboundedBuffers, pop, front, size, is_empty
<1>3. QED BY <1>1, <1>2

(* size() of either buffer is a natural number.                            *)
LEMMA SizeNat == ASSUME NEW b \in Buffers PROVE size(b) \in Nat
BY BufferAssumption DEF Buffers, BoundedBuffers, UnboundedBuffers, size

-----------------------------------------------------------------------------
(* What a blocked call looks like: the strengthening that makes TypeOK     *)
(* inductive (a woken sender pushes the value of its call).                *)
CallOK ==
  \A t \in Thread :
    /\ Blocked(t) <=> call[t].op # "none"
    /\ call[t].op \in SendOps => call[t].value \in Value
    /\ call[t].op \in SendOps => is_bounded

Inv == TypeOK /\ CallOK

PcOK == pc \in [Thread -> Pcs] /\ call \in [Thread -> Calls]

(* A thread that leaves the locked part for somewhere else than the wait.  *)
LEMMA GotoStep ==
  ASSUME PcOK, CallOK, NEW t \in Thread,
         NEW l \in Pcs \ {"wait", "awake", "polled"}, Goto(t, l)
  PROVE  PcOK' /\ CallOK'
<1>1. NoCall \in Calls BY DEF NoCall, Calls
<1>2. PcOK' BY <1>1 DEF PcOK, Goto
<1>3. ASSUME NEW u \in Thread
      PROVE  /\ Blocked(u)' <=> call'[u].op # "none"
             /\ call'[u].op \in SendOps => call'[u].value \in Value /\ is_bounded
  <2>1. CASE u = t
    BY <2>1 DEF PcOK, Goto, Blocked, NoCall, SendOps
  <2>2. CASE u # t
    <3>1. pc'[u] = pc[u] /\ call'[u] = call[u]
      BY <2>2 DEF PcOK, Goto
    <3>2. QED BY <3>1 DEF CallOK, Blocked
  <2>3. QED BY <2>1, <2>2
<1>4. QED BY <1>2, <1>3 DEF CallOK

(* A thread that waits.                                                    *)
LEMMA BlockStep ==
  ASSUME PcOK, CallOK, NEW t \in Thread, NEW c \in Calls,
         c.op # "none", c.op \in SendOps => c.value \in Value /\ is_bounded,
         pc' = [pc EXCEPT ![t] = "wait"], call' = [call EXCEPT ![t] = c]
  PROVE  PcOK' /\ CallOK'
<1>1. PcOK' BY DEF PcOK, Pcs
<1>2. ASSUME NEW u \in Thread
      PROVE  /\ Blocked(u)' <=> call'[u].op # "none"
             /\ call'[u].op \in SendOps => call'[u].value \in Value /\ is_bounded
  <2>1. CASE u = t
    BY <2>1 DEF PcOK, Blocked
  <2>2. CASE u # t
    <3>1. pc'[u] = pc[u] /\ call'[u] = call[u]
      BY <2>2 DEF PcOK
    <3>2. QED BY <3>1 DEF CallOK, Blocked
  <2>3. QED BY <2>1, <2>2
<1>3. QED BY <1>1, <1>2 DEF CallOK

(* The locked part of a send preserves the invariant, from the call and    *)
(* from a wake-up.                                                         *)
LEMMA SendStep ==
  ASSUME Inv, NEW t \in Thread, NEW c \in Calls, NEW polled \in BOOLEAN,
         c.op \in SendOps, c.value \in Value, SendLocked(t, c, polled),
         UNCHANGED <<closed, cancelled>>
  PROVE  Inv'
<1>. USE DEF Inv, TypeOK, PcOK
<1>2. ASSUME Goto(t, "idle") \/ Goto(t, "notify_not_empty")
      PROVE  PcOK' /\ CallOK'
  BY <1>2, GotoStep DEF Pcs
<1>3. ASSUME NEW k, k \in {"sent", "closed", "full", "timeout", "cancelled"}, Report(k, Nil)
      PROVE  outcome' \in Outcomes
  BY <1>3 DEF Report, Outcomes
<1>4. ASSUME NEW k, k \in {"closed", "full", "timeout", "cancelled"}, Return(t, k)
      PROVE  Inv'
  BY <1>2, <1>3, <1>4 DEF Return
<1>5. CASE closed /\ Return(t, "closed")
  BY <1>4, <1>5
<1>6. CASE /\ ~is_full(buffer)
           /\ buffer' = push(buffer, c.value)
           /\ Report("sent", Nil)
           /\ Goto(t, "notify_not_empty")
  BY <1>2, <1>3, <1>6, PushBuffer
<1>7. ASSUME is_bounded, c.op \notin TryOps,
             pc' = [pc EXCEPT ![t] = "wait"], call' = [call EXCEPT ![t] = c],
             UNCHANGED <<buffer, outcome>>
      PROVE  Inv'
  BY <1>7, BlockStep DEF SendOps
<1>8. CASE ~has_room_or_closed /\ (IF is_bounded /\ c.op \notin TryOps
                                    THEN WaitStep(t, c, polled) ELSE Return(t, "full"))
  BY <1>4, <1>7, <1>8 DEF WaitStep, wait_cancellable, wait_until_cancellable
<1>9. QED BY <1>5, <1>6, <1>8 DEF SendLocked

(* The locked part of a receive preserves the invariant, from the call and *)
(* from a wake-up.                                                         *)
LEMMA ReceiveStep ==
  ASSUME Inv, NEW t \in Thread, NEW c \in Calls, NEW polled \in BOOLEAN,
         c.op \in ReceiveOps, ReceiveLocked(t, c, polled),
         UNCHANGED <<closed, cancelled>>
  PROVE  Inv'
<1>. USE DEF Inv, TypeOK, PcOK
<1>2. ASSUME Goto(t, "idle") \/ Goto(t, "notify_not_full")
      PROVE  PcOK' /\ CallOK'
  BY <1>2, GotoStep DEF Pcs
<1>3. ASSUME NEW k, k \in {"drained", "empty", "timeout", "cancelled"}, Return(t, k)
      PROVE  Inv'
  BY <1>2, <1>3 DEF Return, Report, Outcomes
<1>4. CASE /\ ~is_empty(buffer)
           /\ buffer' = pop(buffer)
           /\ Report("received", front(buffer))
           /\ notify_senders_if_needed(t)
  <2>1. buffer' \in Buffers /\ front(buffer) \in Value \cup {Nil}
    BY <1>4, PopBuffer
  <2>2. outcome' \in Outcomes
    BY <1>4, <2>1 DEF Report, Outcomes
  <2>3. QED BY <1>2, <1>4, <2>1, <2>2 DEF notify_senders_if_needed
<1>5. ASSUME c.op \notin TryOps,
             pc' = [pc EXCEPT ![t] = "wait"], call' = [call EXCEPT ![t] = c],
             UNCHANGED <<buffer, outcome>>
      PROVE  Inv'
  BY <1>5, BlockStep DEF SendOps, ReceiveOps
<1>6. CASE ~has_value_or_closed /\ (IF c.op \in TryOps THEN Return(t, "empty")
                                     ELSE WaitStep(t, c, polled))
  BY <1>3, <1>5, <1>6 DEF WaitStep, wait_cancellable, wait_until_cancellable
<1>7. QED BY <1>3, <1>4, <1>6 DEF ReceiveLocked

(* A step of the condition variables: it moves threads among the blocked   *)
(* labels and from a notification to the next label, and nothing else.     *)
LEMMA WakeStep ==
  ASSUME Inv, NEW t \in Thread, Notify(t) \/ Poll(t) \/ SpuriousWakeup(t)
  PROVE  /\ Inv'
         /\ UNCHANGED <<buffer, closed, cancelled, call, outcome>>
         /\ \A u \in Thread : Blocked(u)' <=> Blocked(u)
<1>. USE DEF Inv, TypeOK
<1>1. UNCHANGED <<buffer, closed, cancelled, call, outcome>>
  BY DEF Notify, NotifyOne, NotifyAll, Poll, SpuriousWakeup
<1>2. pc' \in [Thread -> Pcs] /\ \A u \in Thread : Blocked(u)' <=> Blocked(u)
  <2>1. ASSUME NEW l \in {"notify_not_empty", "notify_not_full"}, NEW ops,
               NotifyOne(t, l, ops)
        PROVE  <1>2
    BY <2>1 DEF NotifyOne, Waiting, Blocked, Pcs
  <2>2. ASSUME NEW l \in {"close_not_empty", "close_not_full"}, NEW ops,
               NEW n \in {"close_not_full", "idle"}, NotifyAll(t, l, n, ops)
        PROVE  <1>2
    BY <2>2 DEF NotifyAll, Waiting, Blocked, Pcs
  <2>3. CASE Poll(t) \/ SpuriousWakeup(t)
    BY <2>3 DEF Poll, SpuriousWakeup, Blocked, Pcs
  <2>4. QED BY <2>1, <2>2, <2>3 DEF Notify
<1>3. QED BY <1>1, <1>2 DEF CallOK, Blocked

(* What a caller passes to send() or receive() is a call record.           *)
LEMMA CallRecord ==
  ASSUME NEW o \in SendOps \cup ReceiveOps, NEW v \in Value \cup {Nil},
         NEW e \in BOOLEAN
  PROVE  /\ Call(o, v, e) \in Calls
         /\ Call(o, v, e).op = o
         /\ Call(o, v, e).value = v
BY DEF Call, Calls

(* A thread that is blocked is inside a send or a receive.                 *)
LEMMA CallOps ==
  ASSUME Inv, NEW t \in Thread, Blocked(t)
  PROVE  call[t].op \in SendOps \cup ReceiveOps
BY DEF Inv, TypeOK, CallOK, Calls

(* Every step of the channel is one of these: a locked send, a locked      *)
(* receive, a close, a wake-up, or time and cancellation.  The proofs      *)
(* below go by these cases.                                                *)
SendCase(t, c) ==
  /\ c.op \in SendOps /\ c.value \in Value
  /\ \E polled \in BOOLEAN : SendLocked(t, c, polled)
  /\ UNCHANGED <<closed, cancelled>>
  /\ pc[t] = "idle" \/ (pc[t] \in {"awake", "polled"} /\ c = call[t])

ReceiveCase(t, c) ==
  /\ c.op \in ReceiveOps
  /\ \E polled \in BOOLEAN : ReceiveLocked(t, c, polled)
  /\ UNCHANGED <<closed, cancelled>>
  /\ pc[t] = "idle" \/ (pc[t] \in {"awake", "polled"} /\ c = call[t])

WakeCase(t) == Notify(t) \/ Poll(t) \/ SpuriousWakeup(t)

(* Every step of the channel is one of the cases above.                    *)
LEMMA StepCases ==
  ASSUME Inv, Next
  PROVE  \E t \in Thread :
           \/ \E c \in Calls : SendCase(t, c) \/ ReceiveCase(t, c)
           \/ close(t)
           \/ WakeCase(t)
           \/ DeadlinePasses(t)
           \/ Cancel(t)
<1>1. PICK t \in Thread :
        \/ \E v \in Value : send(t, v) \/ send_timeout(t, v) \/ try_send(t, v)
        \/ receive(t) \/ receive_timeout(t) \/ try_receive(t)
        \/ close(t) \/ Step(t) \/ SpuriousWakeup(t) \/ Cancel(t)
  BY DEF Next
<1>2. ASSUME NEW v \in Value, send(t, v) \/ send_timeout(t, v) \/ try_send(t, v)
      PROVE  \E c \in Calls : SendCase(t, c)
  <2>1. PICK o \in SendOps, e \in BOOLEAN :
          /\ SendLocked(t, Call(o, v, e), FALSE)
          /\ pc[t] = "idle" /\ UNCHANGED <<closed, cancelled>>
    BY <1>2 DEF send, send_timeout, try_send, SendOps
  <2>2. /\ Call(o, v, e) \in Calls
        /\ Call(o, v, e).op \in SendOps /\ Call(o, v, e).value \in Value
    BY CallRecord
  <2>3. SendCase(t, Call(o, v, e)) BY <2>1, <2>2 DEF SendCase
  <2>4. QED BY <2>2, <2>3
<1>3. ASSUME receive(t) \/ receive_timeout(t) \/ try_receive(t)
      PROVE  \E c \in Calls : ReceiveCase(t, c)
  <2>1. PICK o \in ReceiveOps, e \in BOOLEAN :
          /\ ReceiveLocked(t, Call(o, Nil, e), FALSE)
          /\ pc[t] = "idle" /\ UNCHANGED <<closed, cancelled>>
    BY <1>3 DEF receive, receive_timeout, try_receive, ReceiveOps
  <2>2. Call(o, Nil, e) \in Calls /\ Call(o, Nil, e).op \in ReceiveOps
    BY CallRecord
  <2>3. ReceiveCase(t, Call(o, Nil, e)) BY <2>1, <2>2 DEF ReceiveCase
  <2>4. QED BY <2>2, <2>3
<1>4. ASSUME Recheck(t)
      PROVE  \E c \in Calls : SendCase(t, c) \/ ReceiveCase(t, c)
  <2>1. call[t] \in Calls /\ Blocked(t)
    BY <1>4 DEF Inv, TypeOK, Recheck, Blocked
  <2>2. call[t].op \in SendOps \cup ReceiveOps
    BY <2>1, CallOps
  <2>3. (pc[t] = "polled") \in BOOLEAN OBVIOUS
  <2>4. CASE call[t].op \in SendOps
    <3>1. SendCase(t, call[t])
      BY <1>4, <2>3, <2>4 DEF Recheck, SendCase, Inv, CallOK
    <3>2. QED BY <2>1, <3>1
  <2>5. CASE call[t].op \notin SendOps
    <3>1. ReceiveCase(t, call[t])
      BY <1>4, <2>2, <2>3, <2>5 DEF Recheck, ReceiveCase
    <3>2. QED BY <2>1, <3>1
  <2>6. QED BY <2>4, <2>5
<1>5. QED BY <1>1, <1>2, <1>3, <1>4 DEF Step, WakeCase

(* close() preserves the invariant.                                        *)
LEMMA CloseStep ==
  ASSUME Inv, NEW t \in Thread, close(t)
  PROVE  Inv'
<1>1. PcOK /\ CallOK BY DEF Inv, TypeOK, PcOK
<1>2. PcOK' /\ CallOK' BY <1>1, GotoStep DEF close, Pcs
<1>3. QED BY <1>2 DEF Inv, TypeOK, PcOK, close

(* A deadline that passes and a token that is cancelled preserve the       *)
(* invariant.                                                              *)
LEMMA ClockStep ==
  ASSUME Inv, NEW t \in Thread, DeadlinePasses(t) \/ Cancel(t)
  PROVE  /\ Inv'
         /\ UNCHANGED <<buffer, closed, pc, outcome>>
         /\ \A u \in Thread : call'[u].op = call[u].op
<1>1. CASE DeadlinePasses(t)
  BY <1>1 DEF DeadlinePasses, Inv, TypeOK, CallOK, Calls, Blocked
<1>2. CASE Cancel(t)
  BY <1>2 DEF Cancel, Inv, TypeOK, CallOK, Blocked
<1>3. QED BY <1>1, <1>2

(* The inductive step: every action of the channel preserves the           *)
(* invariant.                                                              *)
LEMMA InvStep == Inv /\ [Next]_vars => Inv'
<1>1. ASSUME Inv, Next PROVE Inv'
  <2>1. PICK t \in Thread :
           \/ \E c \in Calls : SendCase(t, c) \/ ReceiveCase(t, c)
           \/ close(t) \/ WakeCase(t) \/ DeadlinePasses(t) \/ Cancel(t)
    BY <1>1, StepCases
  <2>2. ASSUME NEW c \in Calls, SendCase(t, c) PROVE Inv'
    BY <1>1, <2>2, SendStep DEF SendCase
  <2>3. ASSUME NEW c \in Calls, ReceiveCase(t, c) PROVE Inv'
    BY <1>1, <2>3, ReceiveStep DEF ReceiveCase
  <2>4. QED BY <1>1, <2>1, <2>2, <2>3, CloseStep, WakeStep, ClockStep DEF WakeCase
<1>2. ASSUME Inv, UNCHANGED vars PROVE Inv'
  BY <1>2 DEF Inv, TypeOK, CallOK, Blocked, vars
<1>3. QED BY <1>1, <1>2

(* A new channel satisfies the invariant.                                  *)
LEMMA InvInit == Init => Inv
<1>1. SUFFICES ASSUME Init PROVE Inv OBVIOUS
<1>2. make_channel_buffer \in Buffers
  <2>1. CASE is_bounded
    <3>1. 0 \in Slots /\ 0 \in 0 .. Capacity
      BY <2>1, BufferAssumption DEF is_bounded, Slots
    <3>2. [i \in Slots |-> Nil] \in [Slots -> Value \cup {Nil}] OBVIOUS
    <3>3. QED BY <2>1, <3>1, <3>2 DEF make_channel_buffer, Buffers, BoundedBuffers
  <2>2. CASE ~is_bounded
    BY <2>2 DEF make_channel_buffer, Buffers, UnboundedBuffers
  <2>3. QED BY <2>1, <2>2
<1>3. QED
  BY <1>1, <1>2 DEF Init, Inv, TypeOK, CallOK, Calls, NoCall, Pcs, Outcomes, Blocked, SendOps

(* The inductive invariant holds in every state of the channel: TypeOK,    *)
(* and that a thread inside a blocking call has a call record of the right *)
(* kind with the value it is to send.                                      *)
THEOREM Invariance == Spec => []Inv
BY InvInit, InvStep, PTL DEF Spec

(* The state of the channel is always well typed: in particular the        *)
(* indices and the count of the ring never leave their range, so push()    *)
(* and pop() never write outside it.                                       *)
THEOREM TypeCorrect == Spec => []TypeOK
<1>1. Inv => TypeOK BY DEF Inv
<1>2. QED BY <1>1, Invariance, PTL

-----------------------------------------------------------------------------
(* What a locked send and a locked receive can do, seen from the wait      *)
(* sets.                                                                   *)

Elsewhere(t) ==
  \A u \in Thread \ {t} : pc'[u] = pc[u] /\ call'[u].op = call[u].op

(* The three ways the locked part of a send can end: nothing done, a value *)
(* pushed, or blocked.                                                     *)
LEMMA SendOutcome ==
  ASSUME Inv, NEW t \in Thread, NEW c \in Calls, SendCase(t, c)
  PROVE  /\ Elsewhere(t)
         /\ closed' = closed
         /\ pc[t] \in {"idle", "awake", "polled"}
         /\ pc[t] # "idle" => call[t].op \in SendOps
         /\ \/ /\ closed \/ is_full(buffer)
               /\ buffer' = buffer
               /\ pc'[t] = "idle"
            \/ /\ ~closed /\ ~is_full(buffer)
               /\ buffer' = push(buffer, c.value)
               /\ pc'[t] = "notify_not_empty"
            \/ /\ ~closed /\ is_full(buffer) /\ is_bounded
               /\ buffer' = buffer
               /\ pc'[t] = "wait" /\ call'[t].op \in SendOps
<1>1. PICK polled \in BOOLEAN : SendLocked(t, c, polled) BY DEF SendCase
<1>2. closed' = closed /\ pc[t] \in {"idle", "awake", "polled"}
      /\ (pc[t] # "idle" => call[t].op \in SendOps)
  BY DEF SendCase
<1>3. PcOK BY DEF Inv, TypeOK, PcOK
<1>4. ASSUME NEW l, Goto(t, l) PROVE Elsewhere(t) /\ pc'[t] = l
  BY <1>3, <1>4 DEF PcOK, Goto, Elsewhere
<1>5. ASSUME pc' = [pc EXCEPT ![t] = "wait"], call' = [call EXCEPT ![t] = c]
      PROVE  Elsewhere(t) /\ pc'[t] = "wait" /\ call'[t].op \in SendOps
  BY <1>3, <1>5 DEF PcOK, Elsewhere, SendCase
<1>6. QED
  BY <1>1, <1>2, <1>4, <1>5
  DEF SendLocked, Return, WaitStep, wait_cancellable, wait_until_cancellable,
      has_room_or_closed

(* The three ways the locked part of a receive can end: nothing there, a   *)
(* value popped, or blocked.                                               *)
LEMMA ReceiveOutcome ==
  ASSUME Inv, NEW t \in Thread, NEW c \in Calls, ReceiveCase(t, c)
  PROVE  /\ Elsewhere(t)
         /\ closed' = closed
         /\ pc[t] \in {"idle", "awake", "polled"}
         /\ pc[t] # "idle" => call[t].op \in ReceiveOps
         /\ \/ /\ is_empty(buffer)
               /\ buffer' = buffer
               /\ pc'[t] = "idle"
            \/ /\ ~is_empty(buffer)
               /\ buffer' = pop(buffer)
               /\ pc'[t] = IF is_bounded THEN "notify_not_full" ELSE "idle"
            \/ /\ ~closed /\ is_empty(buffer)
               /\ buffer' = buffer
               /\ pc'[t] = "wait" /\ call'[t].op \in ReceiveOps
<1>1. PICK polled \in BOOLEAN : ReceiveLocked(t, c, polled) BY DEF ReceiveCase
<1>2. closed' = closed /\ pc[t] \in {"idle", "awake", "polled"}
      /\ (pc[t] # "idle" => call[t].op \in ReceiveOps)
  BY DEF ReceiveCase
<1>3. PcOK BY DEF Inv, TypeOK, PcOK
<1>4. ASSUME NEW l, Goto(t, l) PROVE Elsewhere(t) /\ pc'[t] = l
  BY <1>3, <1>4 DEF PcOK, Goto, Elsewhere
<1>5. ASSUME pc' = [pc EXCEPT ![t] = "wait"], call' = [call EXCEPT ![t] = c]
      PROVE  Elsewhere(t) /\ pc'[t] = "wait" /\ call'[t].op \in ReceiveOps
  BY <1>3, <1>5 DEF PcOK, Elsewhere, ReceiveCase
<1>6. QED
  BY <1>1, <1>2, <1>4, <1>5
  DEF ReceiveLocked, notify_senders_if_needed, Return, WaitStep,
      wait_cancellable, wait_until_cancellable, has_value_or_closed

(* The same for the condition variables: what one step wakes.              *)
LEMMA WakeOutcome ==
  ASSUME Inv, NEW t \in Thread, WakeCase(t)
  PROVE  /\ UNCHANGED <<buffer, closed, call>>
         /\ \/ /\ pc[t] = "notify_not_empty" /\ pc'[t] = "idle"
               /\ Waiting(ReceiveOps) = {}
               /\ \A u \in Thread \ {t} : pc'[u] = pc[u]
            \/ /\ pc[t] = "notify_not_empty" /\ pc'[t] = "idle"
               /\ \E w \in Waiting(ReceiveOps) :
                    /\ w # t /\ pc'[w] = "awake"
                    /\ \A u \in Thread \ {t, w} : pc'[u] = pc[u]
            \/ /\ pc[t] = "notify_not_full" /\ pc'[t] = "idle"
               /\ Waiting(SendOps) = {}
               /\ \A u \in Thread \ {t} : pc'[u] = pc[u]
            \/ /\ pc[t] = "notify_not_full" /\ pc'[t] = "idle"
               /\ \E w \in Waiting(SendOps) :
                    /\ w # t /\ pc'[w] = "awake"
                    /\ \A u \in Thread \ {t, w} : pc'[u] = pc[u]
            \/ /\ pc[t] = "close_not_empty" /\ pc'[t] = "close_not_full"
               /\ \A u \in Waiting(ReceiveOps) : pc'[u] = "awake"
               /\ \A u \in Thread \ ({t} \cup Waiting(ReceiveOps)) : pc'[u] = pc[u]
            \/ /\ pc[t] = "close_not_full" /\ pc'[t] = "idle"
               /\ \A u \in Waiting(SendOps) : pc'[u] = "awake"
               /\ \A u \in Thread \ ({t} \cup Waiting(SendOps)) : pc'[u] = pc[u]
            \/ /\ pc[t] = "wait" /\ pc'[t] \in {"awake", "polled"}
               /\ \A u \in Thread \ {t} : pc'[u] = pc[u]
<1>1. pc \in [Thread -> Pcs] BY DEF Inv, TypeOK
<1>2. CASE NotifyOne(t, "notify_not_empty", ReceiveOps)
  BY <1>1, <1>2 DEF NotifyOne, Waiting
<1>3. CASE NotifyOne(t, "notify_not_full", SendOps)
  BY <1>1, <1>3 DEF NotifyOne, Waiting
<1>4. CASE NotifyAll(t, "close_not_empty", "close_not_full", ReceiveOps)
  BY <1>1, <1>4 DEF NotifyAll, Waiting
<1>5. CASE NotifyAll(t, "close_not_full", "idle", SendOps)
  BY <1>1, <1>5 DEF NotifyAll, Waiting
<1>6. CASE Poll(t) \/ SpuriousWakeup(t)
  BY <1>1, <1>6 DEF Poll, SpuriousWakeup
<1>7. QED BY <1>2, <1>3, <1>4, <1>5, <1>6 DEF WakeCase, Notify

(* No operation is both a send and a receive, so the two wait sets are     *)
(* disjoint.                                                               *)
LEMMA DisjointOps == SendOps \cap ReceiveOps = {}
BY DEF SendOps, ReceiveOps

(* A step of t alone that does not end in a wait leaves no new waiter, and *)
(* the closes of the other threads stay.                                   *)
LEMMA LocalStep ==
  ASSUME NEW t \in Thread, Elsewhere(t), pc'[t] # "wait",
         pc[t] \notin {"close_not_empty", "close_not_full"}
  PROVE  /\ Waiting(ReceiveOps)' \subseteq Waiting(ReceiveOps)
         /\ Waiting(SendOps)' \subseteq Waiting(SendOps)
         /\ Notifying("close_not_empty") \subseteq Notifying("close_not_empty")'
         /\ Notifying("close_not_full") \subseteq Notifying("close_not_full")'
BY DEF Elsewhere, Waiting, Notifying

(* No step of the channel leaves a waiter on a closed channel without a    *)
(* notify_all ahead.                                                       *)
LEMMA CloseWakesStep ==
  ASSUME Inv, CloseWakesEveryone, [Next]_vars
  PROVE  CloseWakesEveryone'
<1>1. CASE UNCHANGED vars
  BY <1>1 DEF vars, CloseWakesEveryone, Notifying, Waiting
<1>2. CASE Next
  <2>1. PICK t \in Thread :
           \/ \E c \in Calls : SendCase(t, c) \/ ReceiveCase(t, c)
           \/ close(t) \/ WakeCase(t) \/ DeadlinePasses(t) \/ Cancel(t)
    BY <1>2, StepCases
  <2>2. ASSUME NEW c \in Calls, SendCase(t, c) \/ ReceiveCase(t, c)
        PROVE  CloseWakesEveryone'
    <3>1. /\ Elsewhere(t) /\ closed' = closed
          /\ pc[t] \in {"idle", "awake", "polled"}
          /\ pc'[t] = "wait" => ~closed
      BY <2>2, SendOutcome, ReceiveOutcome
    <3>2. CASE ~closed BY <3>1, <3>2 DEF CloseWakesEveryone
    <3>3. CASE closed BY <3>1, <3>3, LocalStep DEF CloseWakesEveryone
    <3>4. QED BY <3>2, <3>3
  <2>3. CASE close(t)
    <3>1. pc'[t] = "close_not_empty"
      BY <2>3 DEF close, Goto, Inv, TypeOK
    <3>2. QED BY <3>1 DEF CloseWakesEveryone, Notifying
  <2>4. CASE WakeCase(t)
    <3>0. closed' = closed /\ call' = call BY <2>4, WakeOutcome
    <3>1. \/ \A u \in Thread :
               /\ (pc'[u] = "wait" => pc[u] = "wait")
               /\ (pc[u] \in {"close_not_empty", "close_not_full"} => pc'[u] = pc[u])
          \/ /\ pc'[t] = "close_not_full"
             /\ Waiting(ReceiveOps)' = {}
          \/ /\ Waiting(SendOps)' = {}
             /\ Waiting(ReceiveOps)' = Waiting(ReceiveOps)
             /\ Notifying("close_not_empty")' = Notifying("close_not_empty")
      <4>1. CASE pc[t] \in {"notify_not_empty", "notify_not_full", "wait"}
        BY <2>4, <4>1, WakeOutcome DEF Waiting
      <4>2. CASE pc[t] = "close_not_empty"
        BY <2>4, <3>0, <4>2, WakeOutcome DEF Waiting
      <4>3. CASE pc[t] = "close_not_full"
        BY <2>4, <3>0, <4>3, WakeOutcome, DisjointOps DEF Waiting, Notifying
      <4>4. QED BY <2>4, <4>1, <4>2, <4>3, WakeOutcome
    <3>2. QED BY <3>0, <3>1 DEF CloseWakesEveryone, Waiting, Notifying
  <2>5. CASE DeadlinePasses(t) \/ Cancel(t)
    BY <2>5, ClockStep DEF CloseWakesEveryone, Waiting, Notifying
  <2>6. QED BY <2>1, <2>2, <2>3, <2>4, <2>5
<1>3. QED BY <1>1, <1>2

(* close() leaves nobody waiting: whoever waits on a closed channel has a  *)
(* notify_all still coming.                                                *)
THEOREM CloseReachesEveryWaiter == Spec => []CloseWakesEveryone
<1>1. Init => CloseWakesEveryone BY DEF Init, CloseWakesEveryone
<1>2. QED BY <1>1, CloseWakesStep, Invariance, PTL DEF Spec

-----------------------------------------------------------------------------
(* The lost-wakeup theorems count threads.                                 *)
(* The receivers that will look at the buffer without being notified once  *)
(* more, with the senders that have a notification to send.                *)
ReceiverHelp == Notifying("notify_not_empty") \cup Woken(ReceiveOps)
SenderHelp   == Notifying("notify_not_full") \cup Woken(SendOps)

(* The threads that are about to notify or are woken can be counted.       *)
LEMMA HelpFinite ==
  /\ IsFiniteSet(ReceiverHelp) /\ Cardinality(ReceiverHelp) \in Nat
  /\ IsFiniteSet(SenderHelp) /\ Cardinality(SenderHelp) \in Nat
<1>1. ReceiverHelp \subseteq Thread /\ SenderHelp \subseteq Thread
  BY DEF ReceiverHelp, SenderHelp, Notifying, Woken
<1>2. QED BY <1>1, ThreadAssumption, FS_Subset, FS_CardinalityType

(* No step of the channel loses the wake-up of a receiver: a push adds a   *)
(* notification for the value it adds, a woken receiver is spent only on a *)
(* pop.                                                                    *)
LEMMA ReceiverWakeupStep ==
  ASSUME Inv, NoLostReceiverWakeup, [Next]_vars
  PROVE  NoLostReceiverWakeup'
<1>0. /\ NoLostReceiverWakeup <=>
           (Waiting(ReceiveOps) # {} => Cardinality(ReceiverHelp) >= size(buffer))
      /\ NoLostReceiverWakeup' <=>
           (Waiting(ReceiveOps)' # {} => Cardinality(ReceiverHelp') >= size(buffer'))
      /\ size(buffer) \in Nat /\ size(buffer') \in Nat
      /\ IsFiniteSet(ReceiverHelp) /\ Cardinality(ReceiverHelp) \in Nat
  <2>1. Inv' BY InvStep
  <2>2. size(buffer) \in Nat /\ size(buffer') \in Nat
    BY <2>1, SizeNat DEF Inv, TypeOK
  <2>3. QED BY <2>2, HelpFinite DEF NoLostReceiverWakeup, ReceiverHelp
<1>1. ASSUME Waiting(ReceiveOps)' \subseteq Waiting(ReceiveOps),
             ReceiverHelp' = ReceiverHelp, size(buffer') <= size(buffer)
      PROVE  NoLostReceiverWakeup'
  BY <1>0, <1>1
<1>2. CASE UNCHANGED vars
  BY <1>0, <1>1, <1>2 DEF vars, Waiting, ReceiverHelp, Notifying, Woken
<1>3. CASE Next
  <2>1. PICK t \in Thread :
           \/ \E c \in Calls : SendCase(t, c) \/ ReceiveCase(t, c)
           \/ close(t) \/ WakeCase(t) \/ DeadlinePasses(t) \/ Cancel(t)
    BY <1>3, StepCases
  <2>2. ASSUME NEW c \in Calls, SendCase(t, c) PROVE NoLostReceiverWakeup'
    <3>1. t \notin ReceiverHelp
      BY <2>2, SendOutcome, DisjointOps DEF ReceiverHelp, Notifying, Woken
    <3>2. Waiting(ReceiveOps)' \subseteq Waiting(ReceiveOps)
      BY <2>2, SendOutcome, DisjointOps DEF Waiting, Elsewhere
    <3>3. CASE pc'[t] # "notify_not_empty"
      <4>1. ReceiverHelp' = ReceiverHelp
        BY <2>2, <3>1, <3>3, SendOutcome DEF ReceiverHelp, Notifying, Woken, Elsewhere
      <4>2. buffer' = buffer BY <2>2, <3>3, SendOutcome
      <4>3. QED BY <1>0, <1>1, <3>2, <4>1, <4>2
    <3>4. CASE pc'[t] = "notify_not_empty"
      <4>1. ReceiverHelp' = ReceiverHelp \cup {t}
        BY <2>2, <3>1, <3>4, SendOutcome DEF ReceiverHelp, Notifying, Woken, Elsewhere
      <4>2. size(buffer') = size(buffer) + 1
        BY <2>2, <3>4, SendOutcome, PushBuffer DEF SendCase, Inv, TypeOK
      <4>3. Cardinality(ReceiverHelp') = Cardinality(ReceiverHelp) + 1
        BY <1>0, <3>1, <4>1, CountAdd
      <4>4. QED BY <1>0, <3>2, <4>2, <4>3
    <3>5. QED BY <3>3, <3>4
  <2>3. ASSUME NEW c \in Calls, ReceiveCase(t, c) PROVE NoLostReceiverWakeup'
    <3>1. CASE size(buffer') = 0
      <4>1. ReceiverHelp' \subseteq Thread BY DEF ReceiverHelp, Notifying, Woken
      <4>2. Cardinality(ReceiverHelp') \in Nat
        BY <4>1, ThreadAssumption, FS_Subset, FS_CardinalityType
      <4>3. QED BY <1>0, <3>1, <4>2
    <3>2. CASE size(buffer') # 0
      <4>1. /\ ~is_empty(buffer)
            /\ pc'[t] \in {"notify_not_full", "idle"}
            /\ buffer' = pop(buffer)
        BY <2>3, <3>2, ReceiveOutcome DEF is_empty
      <4>2. size(buffer') = size(buffer) - 1
        BY <4>1, PopBuffer DEF Inv, TypeOK
      <4>3. Waiting(ReceiveOps)' \subseteq Waiting(ReceiveOps)
        BY <2>3, <4>1, ReceiveOutcome DEF Waiting, Elsewhere
      <4>4. CASE t \notin ReceiverHelp
        <5>1. ReceiverHelp' = ReceiverHelp
          BY <2>3, <4>1, <4>4, ReceiveOutcome DEF ReceiverHelp, Notifying, Woken, Elsewhere
        <5>2. QED BY <1>0, <1>1, <4>2, <4>3, <5>1
      <4>5. CASE t \in ReceiverHelp
        <5>1. ReceiverHelp' = ReceiverHelp \ {t}
          BY <2>3, <4>1, <4>5, ReceiveOutcome DEF ReceiverHelp, Notifying, Woken, Elsewhere
        <5>2. Cardinality(ReceiverHelp') = Cardinality(ReceiverHelp) - 1
          BY <1>0, <4>5, <5>1, CountRemove
        <5>3. QED BY <1>0, <4>2, <4>3, <5>2
      <4>6. QED BY <4>4, <4>5
    <3>3. QED BY <3>1, <3>2
  <2>4. CASE close(t)
    <3>1. /\ Waiting(ReceiveOps)' \subseteq Waiting(ReceiveOps)
          /\ ReceiverHelp' = ReceiverHelp /\ buffer' = buffer
      BY <2>4 DEF close, Goto, Inv, TypeOK, Waiting, ReceiverHelp, Notifying, Woken
    <3>2. QED BY <1>0, <1>1, <3>1
  <2>5. CASE WakeCase(t)
    <3>0. call' = call /\ buffer' = buffer BY <2>5, WakeOutcome
    <3>1. CASE pc[t] = "notify_not_empty"
      <4>1. CASE Waiting(ReceiveOps) = {}
        <5>1. Waiting(ReceiveOps)' = {}
          BY <2>5, <3>0, <3>1, <4>1, WakeOutcome DEF Waiting
        <5>2. QED BY <1>0, <5>1
      <4>2. CASE Waiting(ReceiveOps) # {}
        <5>1. PICK w \in Waiting(ReceiveOps) :
                /\ w # t /\ pc'[w] = "awake" /\ pc'[t] = "idle"
                /\ \A u \in Thread \ {t, w} : pc'[u] = pc[u]
          BY <2>5, <3>1, <4>2, WakeOutcome
        <5>2. t \in ReceiverHelp /\ w \notin ReceiverHelp
          BY <3>1, <5>1 DEF ReceiverHelp, Notifying, Woken, Waiting
        <5>3. ReceiverHelp' = (ReceiverHelp \ {t}) \cup {w}
          BY <3>0, <3>1, <5>1 DEF ReceiverHelp, Notifying, Woken, Waiting
        <5>4. Cardinality(ReceiverHelp') = Cardinality(ReceiverHelp)
          BY <1>0, <5>2, <5>3, CountSwap
        <5>5. QED BY <1>0, <3>0, <4>2, <5>4
      <4>3. QED BY <4>1, <4>2
    <3>2. CASE pc[t] = "close_not_empty"
      <4>1. Waiting(ReceiveOps)' = {}
        BY <2>5, <3>0, <3>2, WakeOutcome DEF Waiting
      <4>2. QED BY <1>0, <4>1
    <3>3. CASE pc[t] \in {"notify_not_full", "close_not_full"}
      <4>1. Waiting(ReceiveOps)' = Waiting(ReceiveOps)
        BY <2>5, <3>0, <3>3, WakeOutcome, DisjointOps DEF Waiting
      <4>2. ReceiverHelp' = ReceiverHelp
        BY <2>5, <3>0, <3>3, WakeOutcome, DisjointOps
        DEF Waiting, ReceiverHelp, Notifying, Woken
      <4>3. QED BY <1>0, <1>1, <3>0, <4>1, <4>2
    <3>4. CASE pc[t] = "wait"
      <4>1. Waiting(ReceiveOps)' \subseteq Waiting(ReceiveOps)
        BY <2>5, <3>0, <3>4, WakeOutcome DEF Waiting
      <4>2. CASE call[t].op \notin ReceiveOps
        <5>1. ReceiverHelp' = ReceiverHelp
          BY <2>5, <3>0, <3>4, <4>2, WakeOutcome DEF ReceiverHelp, Notifying, Woken
        <5>2. QED BY <1>0, <1>1, <3>0, <4>1, <5>1
      <4>3. CASE call[t].op \in ReceiveOps
        <5>1. ReceiverHelp' = ReceiverHelp \cup {t} /\ t \notin ReceiverHelp
          BY <2>5, <3>0, <3>4, <4>3, WakeOutcome DEF ReceiverHelp, Notifying, Woken
        <5>2. Cardinality(ReceiverHelp') = Cardinality(ReceiverHelp) + 1
          BY <1>0, <5>1, CountAdd
        <5>3. QED BY <1>0, <3>0, <4>1, <5>2
      <4>4. QED BY <4>2, <4>3
    <3>5. QED BY <2>5, <3>1, <3>2, <3>3, <3>4, WakeOutcome
  <2>6. CASE DeadlinePasses(t) \/ Cancel(t)
    <3>1. /\ Waiting(ReceiveOps)' = Waiting(ReceiveOps)
          /\ ReceiverHelp' = ReceiverHelp /\ buffer' = buffer
      BY <2>6, ClockStep DEF Waiting, ReceiverHelp, Notifying, Woken
    <3>2. QED BY <1>0, <1>1, <3>1
  <2>7. QED BY <2>1, <2>2, <2>3, <2>4, <2>5, <2>6
<1>4. QED BY <1>2, <1>3

(* No blocked receiver is forgotten: as long as one waits, every buffered  *)
(* value has a notification or a woken receiver of its own.  It holds for  *)
(* any number of threads and any capacity, bounded or not.                 *)
THEOREM ReceiversAreWoken == Spec => []NoLostReceiverWakeup
<1>1. Init => NoLostReceiverWakeup
  BY DEF Init, NoLostReceiverWakeup, Waiting
<1>2. QED BY <1>1, ReceiverWakeupStep, Invariance, PTL DEF Spec

(* No step of the channel loses the wake-up of a sender: a pop adds a      *)
(* notification for the slot it frees, a woken sender is spent only on a   *)
(* push.                                                                   *)
LEMMA SenderWakeupStep ==
  ASSUME Inv, NoLostSenderWakeup, [Next]_vars
  PROVE  NoLostSenderWakeup'
<1>0. /\ NoLostSenderWakeup <=>
           (~closed /\ Waiting(SendOps) # {}
              => Cardinality(SenderHelp) >= Capacity - size(buffer))
      /\ NoLostSenderWakeup' <=>
           (~closed' /\ Waiting(SendOps)' # {}
              => Cardinality(SenderHelp') >= Capacity - size(buffer'))
      /\ size(buffer) \in Nat /\ size(buffer') \in Nat /\ Capacity \in Nat
      /\ IsFiniteSet(SenderHelp) /\ Cardinality(SenderHelp) \in Nat
      /\ Cardinality(SenderHelp') \in Nat
  <2>1. Inv' BY InvStep
  <2>2. size(buffer) \in Nat /\ size(buffer') \in Nat
    BY <2>1, SizeNat DEF Inv, TypeOK
  <2>3. SenderHelp' \subseteq Thread BY DEF SenderHelp, Notifying, Woken
  <2>4. Cardinality(SenderHelp') \in Nat
    BY <2>3, ThreadAssumption, FS_Subset, FS_CardinalityType
  <2>5. QED BY <2>2, <2>4, HelpFinite, BufferAssumption DEF NoLostSenderWakeup, SenderHelp
<1>1. ASSUME Waiting(SendOps)' \subseteq Waiting(SendOps), closed' = closed,
             SenderHelp' = SenderHelp, size(buffer') >= size(buffer)
      PROVE  NoLostSenderWakeup'
  BY <1>0, <1>1
<1>2. CASE UNCHANGED vars
  BY <1>0, <1>1, <1>2 DEF vars, Waiting, SenderHelp, Notifying, Woken
<1>3. CASE Next
  <2>1. PICK t \in Thread :
           \/ \E c \in Calls : SendCase(t, c) \/ ReceiveCase(t, c)
           \/ close(t) \/ WakeCase(t) \/ DeadlinePasses(t) \/ Cancel(t)
    BY <1>3, StepCases
  <2>2. ASSUME NEW c \in Calls, SendCase(t, c) PROVE NoLostSenderWakeup'
    <3>1. CASE closed' \/ size(buffer') >= Capacity
      BY <1>0, <3>1
    <3>2. CASE ~closed' /\ ~(size(buffer') >= Capacity)
      <4>1. is_bounded /\ ~closed BY <1>0, <2>2, <3>2, SendOutcome DEF is_bounded
      <4>2. ~is_full(buffer)
        <5>1. is_full(buffer) => size(buffer) >= Capacity
          BY <4>1 DEF is_full, size
        <5>2. is_full(buffer) => buffer' = buffer BY <2>2, SendOutcome
        <5>3. QED BY <3>2, <5>1, <5>2
      <4>3. pc'[t] = "notify_not_empty" /\ buffer' = push(buffer, c.value)
        BY <2>2, <4>1, <4>2, SendOutcome
      <4>4. size(buffer') = size(buffer) + 1
        BY <2>2, <4>2, <4>3, PushBuffer DEF SendCase, Inv, TypeOK
      <4>5. Waiting(SendOps)' \subseteq Waiting(SendOps)
        BY <2>2, <4>3, SendOutcome DEF Waiting, Elsewhere
      <4>6. CASE t \notin SenderHelp
        <5>1. SenderHelp' = SenderHelp
          BY <2>2, <4>3, <4>6, SendOutcome DEF SenderHelp, Notifying, Woken, Elsewhere
        <5>2. QED BY <1>0, <4>1, <4>4, <4>5, <5>1
      <4>7. CASE t \in SenderHelp
        <5>1. SenderHelp' = SenderHelp \ {t}
          BY <2>2, <4>3, <4>7, SendOutcome DEF SenderHelp, Notifying, Woken, Elsewhere
        <5>2. Cardinality(SenderHelp') = Cardinality(SenderHelp) - 1
          BY <1>0, <4>7, <5>1, CountRemove
        <5>3. QED BY <1>0, <4>1, <4>4, <4>5, <5>2
      <4>8. QED BY <4>6, <4>7
    <3>3. QED BY <3>1, <3>2
  <2>3. ASSUME NEW c \in Calls, ReceiveCase(t, c) PROVE NoLostSenderWakeup'
    <3>1. t \notin SenderHelp
      BY <2>3, ReceiveOutcome, DisjointOps DEF SenderHelp, Notifying, Woken
    <3>2. Waiting(SendOps)' \subseteq Waiting(SendOps) /\ closed' = closed
      BY <2>3, ReceiveOutcome, DisjointOps DEF Waiting, Elsewhere
    <3>3. CASE pc'[t] = "notify_not_full"
      <4>1. SenderHelp' = SenderHelp \cup {t}
        BY <2>3, <3>1, <3>3, ReceiveOutcome DEF SenderHelp, Notifying, Woken, Elsewhere
      <4>2. size(buffer') = size(buffer) - 1
        BY <2>3, <3>3, ReceiveOutcome, PopBuffer DEF Inv, TypeOK
      <4>3. Cardinality(SenderHelp') = Cardinality(SenderHelp) + 1
        BY <1>0, <3>1, <4>1, CountAdd
      <4>4. QED BY <1>0, <3>2, <4>2, <4>3
    <3>4. CASE pc'[t] # "notify_not_full"
      <4>1. CASE is_bounded
        <5>1. SenderHelp' = SenderHelp
          BY <2>3, <3>1, <3>4, ReceiveOutcome DEF SenderHelp, Notifying, Woken, Elsewhere
        <5>2. buffer' = buffer BY <2>3, <3>4, <4>1, ReceiveOutcome
        <5>3. QED BY <1>0, <1>1, <3>2, <5>1, <5>2
      <4>2. CASE ~is_bounded
        BY <1>0, <4>2 DEF is_bounded
      <4>3. QED BY <4>1, <4>2
    <3>5. QED BY <3>3, <3>4
  <2>4. CASE close(t)
    BY <1>0, <2>4 DEF close
  <2>5. CASE WakeCase(t)
    <3>0. call' = call /\ buffer' = buffer /\ closed' = closed
      BY <2>5, WakeOutcome
    <3>1. CASE pc[t] = "notify_not_full"
      <4>1. CASE Waiting(SendOps) = {}
        <5>1. Waiting(SendOps)' = {}
          BY <2>5, <3>0, <3>1, <4>1, WakeOutcome DEF Waiting
        <5>2. QED BY <1>0, <5>1
      <4>2. CASE Waiting(SendOps) # {}
        <5>1. PICK w \in Waiting(SendOps) :
                /\ w # t /\ pc'[w] = "awake" /\ pc'[t] = "idle"
                /\ \A u \in Thread \ {t, w} : pc'[u] = pc[u]
          BY <2>5, <3>1, <4>2, WakeOutcome
        <5>2. t \in SenderHelp /\ w \notin SenderHelp
          BY <3>1, <5>1 DEF SenderHelp, Notifying, Woken, Waiting
        <5>3. SenderHelp' = (SenderHelp \ {t}) \cup {w}
          BY <3>0, <3>1, <5>1 DEF SenderHelp, Notifying, Woken, Waiting
        <5>4. Cardinality(SenderHelp') = Cardinality(SenderHelp)
          BY <1>0, <5>2, <5>3, CountSwap
        <5>5. QED BY <1>0, <3>0, <4>2, <5>4
      <4>3. QED BY <4>1, <4>2
    <3>2. CASE pc[t] = "close_not_full"
      <4>1. Waiting(SendOps)' = {}
        BY <2>5, <3>0, <3>2, WakeOutcome DEF Waiting
      <4>2. QED BY <1>0, <4>1
    <3>3. CASE pc[t] \in {"notify_not_empty", "close_not_empty"}
      <4>1. Waiting(SendOps)' = Waiting(SendOps)
        BY <2>5, <3>0, <3>3, WakeOutcome, DisjointOps DEF Waiting
      <4>2. SenderHelp' = SenderHelp
        BY <2>5, <3>0, <3>3, WakeOutcome, DisjointOps
        DEF Waiting, SenderHelp, Notifying, Woken
      <4>3. QED BY <1>0, <1>1, <3>0, <4>1, <4>2
    <3>4. CASE pc[t] = "wait"
      <4>1. Waiting(SendOps)' \subseteq Waiting(SendOps)
        BY <2>5, <3>0, <3>4, WakeOutcome DEF Waiting
      <4>2. CASE call[t].op \notin SendOps
        <5>1. SenderHelp' = SenderHelp
          BY <2>5, <3>0, <3>4, <4>2, WakeOutcome DEF SenderHelp, Notifying, Woken
        <5>2. QED BY <1>0, <1>1, <3>0, <4>1, <5>1
      <4>3. CASE call[t].op \in SendOps
        <5>1. SenderHelp' = SenderHelp \cup {t} /\ t \notin SenderHelp
          BY <2>5, <3>0, <3>4, <4>3, WakeOutcome DEF SenderHelp, Notifying, Woken
        <5>2. Cardinality(SenderHelp') = Cardinality(SenderHelp) + 1
          BY <1>0, <5>1, CountAdd
        <5>3. QED BY <1>0, <3>0, <4>1, <5>2
      <4>4. QED BY <4>2, <4>3
    <3>5. QED BY <2>5, <3>1, <3>2, <3>3, <3>4, WakeOutcome
  <2>6. CASE DeadlinePasses(t) \/ Cancel(t)
    <3>1. /\ Waiting(SendOps)' = Waiting(SendOps) /\ closed' = closed
          /\ SenderHelp' = SenderHelp /\ buffer' = buffer
      BY <2>6, ClockStep DEF Waiting, SenderHelp, Notifying, Woken
    <3>2. QED BY <1>0, <1>1, <3>1
  <2>7. QED BY <2>1, <2>2, <2>3, <2>4, <2>5, <2>6
<1>4. QED BY <1>2, <1>3

(* No sender blocked on a full bounded channel is forgotten while the      *)
(* channel is open: every free slot has a notification or a woken sender.  *)
THEOREM SendersAreWoken == Spec => []NoLostSenderWakeup
<1>1. Init => NoLostSenderWakeup
  BY DEF Init, NoLostSenderWakeup, Waiting
<1>2. QED BY <1>1, SenderWakeupStep, Invariance, PTL DEF Spec

-----------------------------------------------------------------------------
(* The ring.  A position is at most one turn ahead, so wrapping it is a     *)
(* subtraction, and a slot holds a value when it is less than count_ slots *)
(* after head_.                                                            *)
Wrap(x) == IF x < Capacity THEN x ELSE x - Capacity
Distance(b, i) == IF b.head <= i THEN i - b.head ELSE i - b.head + Capacity

LEMMA ModOnce ==
  ASSUME NEW c \in Nat \ {0}, NEW x \in 0 .. (2 * c - 1)
  PROVE  x % c = IF x < c THEN x ELSE x - c
BY Z3

LEMMA WrapMod ==
  ASSUME is_bounded, NEW h \in Slots, NEW k \in 0 .. Capacity
  PROVE  (h + k) % Capacity = Wrap(h + k)
<1>1. Capacity \in Nat \ {0} BY BufferAssumption DEF is_bounded
<1>2. h + k \in 0 .. (2 * Capacity - 1) BY <1>1 DEF Slots
<1>3. QED BY <1>1, <1>2, ModOnce DEF Wrap

(* What BoundedChannelBuffer keeps true of its ring.                       *)
RingOK(b) ==
  /\ b.tail = Wrap(b.head + b.count)
  /\ \A i \in Slots : b.ring[i] # Nil <=> Distance(b, i) < b.count

LEMMA PushRing ==
  ASSUME is_bounded, NEW b \in BoundedBuffers, NEW v \in Value, RingOK(b), ~is_full(b)
  PROVE  RingOK(push(b, v))
<1>. DEFINE n == push(b, v)
<1>1. Capacity \in Nat \ {0} /\ v # Nil BY BufferAssumption DEF is_bounded
<1>2. /\ b.head \in Slots /\ b.tail \in Slots /\ b.count \in 0 .. Capacity
      /\ b.ring \in [Slots -> Value \cup {Nil}] /\ b.count < Capacity
  BY <1>1 DEF BoundedBuffers, is_full
<1>3. /\ n.ring = [b.ring EXCEPT ![b.tail] = v] /\ n.head = b.head
      /\ n.tail = Wrap(b.tail + 1) /\ n.count = b.count + 1
  <2>1. (b.tail + 1) % Capacity = Wrap(b.tail + 1) BY <1>1, <1>2, WrapMod
  <2>2. QED BY <2>1 DEF push
<1>4. b.tail = Wrap(b.head + b.count) BY DEF RingOK
<1>5. n.tail = Wrap(n.head + n.count) BY <1>1, <1>2, <1>3, <1>4 DEF Wrap, Slots
<1>6. ASSUME NEW i \in Slots PROVE n.ring[i] # Nil <=> Distance(n, i) < n.count
  <2>1. Distance(n, i) = Distance(b, i) BY <1>3 DEF Distance
  <2>2. i = b.tail <=> Distance(b, i) = b.count
    BY SMTT(60), <1>1, <1>2, <1>4 DEF Distance, Wrap, Slots
  <2>3. Distance(b, i) \in Nat BY <1>1, <1>2 DEF Distance, Slots
  <2>4. b.ring[i] # Nil <=> Distance(b, i) < b.count BY DEF RingOK
  <2>5. n.ring[i] = IF i = b.tail THEN v ELSE b.ring[i] BY <1>2, <1>3
  <2>6. QED BY <1>1, <1>2, <1>3, <2>1, <2>2, <2>3, <2>4, <2>5
<1>7. QED BY <1>5, <1>6 DEF RingOK

LEMMA PopRing ==
  ASSUME is_bounded, NEW b \in BoundedBuffers, RingOK(b), ~is_empty(b)
  PROVE  RingOK(pop(b)) /\ front(b) \in Value
<1>. DEFINE n == pop(b)
<1>1. Capacity \in Nat \ {0} BY BufferAssumption DEF is_bounded
<1>2. /\ b.head \in Slots /\ b.tail \in Slots /\ b.count \in 1 .. Capacity
      /\ b.ring \in [Slots -> Value \cup {Nil}]
  BY <1>1 DEF BoundedBuffers, is_empty, size
<1>3. /\ n.ring = [b.ring EXCEPT ![b.head] = Nil] /\ n.head = Wrap(b.head + 1)
      /\ n.tail = b.tail /\ n.count = b.count - 1
  <2>1. (b.head + 1) % Capacity = Wrap(b.head + 1) BY <1>1, <1>2, WrapMod
  <2>2. QED BY <2>1 DEF pop
<1>. HIDE DEF n
<1>4. b.tail = Wrap(b.head + b.count) BY DEF RingOK
<1>5. n.tail = Wrap(n.head + n.count) BY SMTT(60), <1>1, <1>2, <1>3, <1>4 DEF Wrap, Slots
<1>6. ASSUME NEW i \in Slots PROVE n.ring[i] # Nil <=> Distance(n, i) < n.count
  <2>1. /\ i # b.head => Distance(n, i) = Distance(b, i) - 1
        /\ i = b.head => Distance(n, i) = Capacity - 1
    <3>1. CASE b.head + 1 < Capacity
      <4>1. n.head = b.head + 1 BY <1>3, <3>1 DEF Wrap
      <4>2. QED BY SMTT(60), <1>1, <1>2, <4>1, <3>1 DEF Distance, Slots
    <3>2. CASE ~(b.head + 1 < Capacity)
      <4>1. b.head \in 0 .. (Capacity - 1) BY <1>2 DEF Slots
      <4>2. b.head + 1 = Capacity BY <1>1, <4>1, <3>2
      <4>3. n.head = 0
        <5>1. n.head = Wrap(Capacity) BY <1>3, <4>2
        <5>2. Wrap(Capacity) = 0 BY <1>1 DEF Wrap
        <5>3. QED BY <5>1, <5>2
      <4>4. b.head = Capacity - 1 BY <1>1, <4>1, <4>2
      <4>5. QED BY <1>1, <1>2, <4>3, <4>4 DEF Distance, Slots
    <3>3. QED BY <3>1, <3>2
  <2>2. Distance(b, i) \in Nat BY <1>1, <1>2 DEF Distance, Slots
  <2>3. b.ring[i] # Nil <=> Distance(b, i) < b.count BY DEF RingOK
  <2>4. n.ring[i] = IF i = b.head THEN Nil ELSE b.ring[i] BY <1>2, <1>3
  <2>5. QED BY <1>1, <1>2, <1>3, <2>1, <2>2, <2>3, <2>4
<1>7. front(b) \in Value
  <2>1. Distance(b, b.head) = 0 BY <1>1, <1>2 DEF Distance, Slots
  <2>2. b.ring[b.head] # Nil BY <1>2, <2>1 DEF RingOK
  <2>3. QED BY <1>2, <2>2 DEF front
<1>8. QED BY <1>5, <1>6, <1>7 DEF RingOK, n
(* The values of either buffer, oldest first.                              *)
BufferOK(b) ==
  /\ b \in Buffers
  /\ is_bounded => RingOK(b)
  /\ ~is_bounded => Len(b) <= max_channel_queue_size

LEMMA RingContents ==
  ASSUME is_bounded, NEW b \in BoundedBuffers, RingOK(b)
  PROVE  /\ Contents(b) \in Seq(Value) /\ Len(Contents(b)) = b.count
         /\ \A i \in 1 .. b.count : Contents(b)[i] = b.ring[Wrap(b.head + i - 1)]
<1>1. Capacity \in Nat \ {0} BY BufferAssumption DEF is_bounded
<1>2. /\ b.head \in Slots /\ b.count \in 0 .. Capacity
      /\ b.ring \in [Slots -> Value \cup {Nil}]
  BY DEF BoundedBuffers
<1>3. ASSUME NEW i \in 1 .. b.count
      PROVE  /\ (b.head + i - 1) % Capacity = Wrap(b.head + i - 1)
             /\ b.ring[Wrap(b.head + i - 1)] \in Value
  <2>1. i - 1 \in 0 .. Capacity /\ b.head + i - 1 = b.head + (i - 1)
    BY <1>1, <1>2 DEF Slots
  <2>2. (b.head + i - 1) % Capacity = Wrap(b.head + i - 1) BY <1>2, <2>1, WrapMod
  <2>3. PICK s \in Slots : s = Wrap(b.head + i - 1) /\ Distance(b, s) = i - 1
    <3>1. Wrap(b.head + i - 1) \in Slots BY <1>1, <1>2 DEF Wrap, Slots
    <3>2. Distance(b, Wrap(b.head + i - 1)) = i - 1
      BY <1>1, <1>2 DEF Wrap, Slots, Distance
    <3>3. QED BY <3>1, <3>2
  <2>4. b.ring[s] # Nil BY <1>2, <2>3 DEF RingOK
  <2>5. QED BY <1>2, <2>2, <2>3, <2>4
<1>4. Contents(b) = [i \in 1 .. b.count |-> b.ring[(b.head + i - 1) % Capacity]]
  BY DEF Contents
<1>5. QED BY <1>2, <1>3, <1>4

LEMMA PushContents ==
  ASSUME NEW b, BufferOK(b), NEW v \in Value, ~is_full(b)
  PROVE  /\ BufferOK(push(b, v))
         /\ Contents(push(b, v)) = Append(Contents(b), v)
<1>1. CASE is_bounded
  <2>. DEFINE n == push(b, v)
  <2>1. b \in BoundedBuffers /\ RingOK(b) BY <1>1 DEF BufferOK, Buffers
  <2>2. n \in BoundedBuffers /\ RingOK(n)
    BY <1>1, <2>1, PushBuffer, PushRing DEF BufferOK, Buffers
  <2>3. /\ n.ring = [b.ring EXCEPT ![b.tail] = v] /\ n.head = b.head
        /\ n.count = b.count + 1
    BY <1>1 DEF push
  <2>4. BufferOK(n) BY <1>1, <2>2 DEF BufferOK, Buffers
  <2>. HIDE DEF n
  <2>5. /\ Contents(b) \in Seq(Value) /\ Len(Contents(b)) = b.count
        /\ \A i \in 1 .. b.count : Contents(b)[i] = b.ring[Wrap(b.head + i - 1)]
    BY <1>1, <2>1, RingContents
  <2>6. /\ Contents(n) \in Seq(Value) /\ Len(Contents(n)) = n.count
        /\ \A i \in 1 .. n.count : Contents(n)[i] = n.ring[Wrap(n.head + i - 1)]
    BY <1>1, <2>2, RingContents
  <2>7. /\ b.head \in Slots /\ b.tail \in Slots /\ b.count \in 0 .. (Capacity - 1)
        /\ b.ring \in [Slots -> Value \cup {Nil}] /\ Capacity \in Nat
        /\ b.tail = Wrap(b.head + b.count)
    BY <1>1, <2>1, BufferAssumption DEF BoundedBuffers, is_full, RingOK
  <2>8. ASSUME NEW i \in 1 .. n.count PROVE Contents(n)[i] = Append(Contents(b), v)[i]
    <3>1. CASE i = b.count + 1
      <4>1. Wrap(n.head + i - 1) = b.tail BY <2>3, <2>7, <3>1
      <4>2. Contents(n)[i] = v BY <2>3, <2>6, <2>7, <4>1
      <4>3. QED BY <2>5, <3>1, <4>2, AppendProperties
    <3>2. CASE i # b.count + 1
      <4>1. i \in 1 .. b.count BY <2>3, <2>7, <3>2
      <4>2. PICK s \in Slots : s = Wrap(b.head + i - 1) /\ s # b.tail
        BY SMTT(60), <2>7, <4>1 DEF Wrap, Slots
      <4>3. Contents(n)[i] = b.ring[s] BY <2>3, <2>6, <2>7, <4>2
      <4>4. QED BY <2>5, <4>1, <4>2, <4>3, AppendProperties
    <3>3. QED BY <3>1, <3>2
  <2>9. Len(Append(Contents(b), v)) = n.count /\ Append(Contents(b), v) \in Seq(Value)
    BY <2>3, <2>5, AppendProperties
  <2>10. Contents(n) = Append(Contents(b), v) BY <2>6, <2>8, <2>9, SeqEqual
  <2>11. QED BY <2>4, <2>10 DEF n
<1>2. CASE ~is_bounded
  <2>1. b \in Seq(Value) /\ Len(b) < max_channel_queue_size
    BY <1>2, BufferAssumption DEF BufferOK, Buffers, UnboundedBuffers, is_full
  <2>2. push(b, v) = Append(b, v) /\ Contents(b) = b /\ Contents(push(b, v)) = Append(b, v)
    BY <1>2 DEF push, Contents
  <2>3. Append(b, v) \in Seq(Value) /\ Len(Append(b, v)) = Len(b) + 1
    BY <2>1, AppendProperties
  <2>4. QED
    BY <1>2, <2>1, <2>2, <2>3, BufferAssumption DEF BufferOK, Buffers, UnboundedBuffers
<1>3. QED BY <1>1, <1>2

LEMMA PopContents ==
  ASSUME NEW b, BufferOK(b), ~is_empty(b)
  PROVE  /\ BufferOK(pop(b)) /\ front(b) \in Value
         /\ Contents(b) # <<>> /\ front(b) = Head(Contents(b))
         /\ Contents(pop(b)) = Tail(Contents(b))
<1>1. CASE is_bounded
  <2>. DEFINE n == pop(b)
  <2>1. b \in BoundedBuffers /\ RingOK(b) BY <1>1 DEF BufferOK, Buffers
  <2>2. n \in BoundedBuffers /\ RingOK(n) /\ front(b) \in Value
    BY <1>1, <2>1, PopBuffer, PopRing DEF BufferOK, Buffers
  <2>3. /\ b.head \in Slots /\ b.count \in 1 .. Capacity /\ Capacity \in Nat \ {0}
        /\ b.ring \in [Slots -> Value \cup {Nil}]
    BY <1>1, <2>1, BufferAssumption DEF BoundedBuffers, is_empty, size, is_bounded
  <2>4. /\ n.ring = [b.ring EXCEPT ![b.head] = Nil] /\ n.head = Wrap(b.head + 1)
        /\ n.count = b.count - 1
    <3>1. (b.head + 1) % Capacity = Wrap(b.head + 1) BY <1>1, <2>3, WrapMod
    <3>2. QED BY <1>1, <3>1 DEF pop
  <2>5. BufferOK(n) BY <1>1, <2>2 DEF BufferOK, Buffers
  <2>. HIDE DEF n
  <2>6. /\ Contents(b) \in Seq(Value) /\ Len(Contents(b)) = b.count
        /\ \A i \in 1 .. b.count : Contents(b)[i] = b.ring[Wrap(b.head + i - 1)]
    BY <1>1, <2>1, RingContents
  <2>7. /\ Contents(n) \in Seq(Value) /\ Len(Contents(n)) = n.count
        /\ \A i \in 1 .. n.count : Contents(n)[i] = n.ring[Wrap(n.head + i - 1)]
    BY <1>1, <2>2, RingContents
  <2>8. Contents(b) # <<>> BY <2>3, <2>6
  <2>9. /\ Tail(Contents(b)) \in Seq(Value) /\ Len(Tail(Contents(b))) = b.count - 1
        /\ \A i \in 1 .. (b.count - 1) : Tail(Contents(b))[i] = Contents(b)[i + 1]
    BY <2>6, <2>8, HeadTailProperties
  <2>10. ASSUME NEW i \in 1 .. n.count PROVE Contents(n)[i] = Tail(Contents(b))[i]
    <3>1. i \in 1 .. (b.count - 1) /\ i + 1 \in 1 .. b.count BY <2>3, <2>4
    <3>2. PICK s \in Slots : s = Wrap(b.head + i) /\ s # b.head
                             /\ s = Wrap(n.head + i - 1)
      <4>1. Wrap(b.head + i) \in Slots /\ Wrap(b.head + i) # b.head
        BY <2>3, <3>1 DEF Wrap, Slots
      <4>2. Wrap(n.head + i - 1) = Wrap(b.head + i)
        <5>1. CASE b.head + 1 < Capacity
          <6>1. n.head = b.head + 1 BY <2>4, <5>1 DEF Wrap
          <6>2. n.head + i - 1 = b.head + i BY <2>3, <3>1, <6>1 DEF Slots
          <6>3. QED BY <6>2
        <5>2. CASE ~(b.head + 1 < Capacity)
          <6>1. b.head = Capacity - 1 /\ n.head = 0
            BY <2>3, <2>4, <5>2 DEF Wrap, Slots
          <6>2. QED BY <2>3, <3>1, <6>1 DEF Wrap
        <5>3. QED BY <5>1, <5>2
      <4>3. QED BY <4>1, <4>2
    <3>3. Contents(n)[i] = b.ring[s] BY <2>3, <2>4, <2>7, <3>2
    <3>4. Contents(b)[i + 1] = b.ring[s]
      <4>1. b.head + (i + 1) - 1 = b.head + i BY <2>3 DEF Slots
      <4>2. QED BY <2>6, <3>1, <3>2, <4>1
    <3>5. QED BY <2>9, <3>1, <3>3, <3>4
  <2>11. Contents(n) = Tail(Contents(b)) BY <2>4, <2>7, <2>9, <2>10, SeqEqual
  <2>12. front(b) = Head(Contents(b))
    <3>1. Wrap(b.head + 1 - 1) = b.head BY <2>3 DEF Wrap, Slots
    <3>2. Contents(b)[1] = b.ring[b.head] BY <2>3, <2>6, <3>1
    <3>3. QED BY <1>1, <2>6, <2>8, <3>2 DEF front
  <2>13. QED BY <2>2, <2>5, <2>8, <2>11, <2>12 DEF n
<1>2. CASE ~is_bounded
  <2>1. b \in Seq(Value) /\ b # <<>> /\ Len(b) <= max_channel_queue_size
    BY <1>2 DEF BufferOK, Buffers, UnboundedBuffers, is_empty, size
  <2>2. pop(b) = Tail(b) /\ front(b) = Head(b) /\ Contents(b) = b
        /\ Contents(pop(b)) = Tail(b)
    BY <1>2 DEF pop, front, Contents
  <2>3. Tail(b) \in Seq(Value) /\ Len(Tail(b)) = Len(b) - 1 /\ Head(b) \in Value
        /\ Len(b) \in Nat
    BY <2>1, HeadTailProperties
  <2>4. QED
    BY <1>2, <2>1, <2>2, <2>3, BufferAssumption DEF BufferOK, Buffers, UnboundedBuffers
<1>3. QED BY <1>1, <1>2

-----------------------------------------------------------------------------
(* The buffer of a channel is only pushed to when it has room and only     *)
(* popped when it has a value.                                             *)
LEMMA BufferStep ==
  ASSUME Inv, BufferOK(buffer), [Next]_vars
  PROVE  BufferOK(buffer)'
<1>1. CASE UNCHANGED vars BY <1>1 DEF vars, BufferOK, RingOK
<1>2. CASE Next
  <2>1. PICK t \in Thread :
           \/ \E c \in Calls : SendCase(t, c) \/ ReceiveCase(t, c)
           \/ close(t) \/ WakeCase(t) \/ DeadlinePasses(t) \/ Cancel(t)
    BY <1>2, StepCases
  <2>2. ASSUME NEW c \in Calls, SendCase(t, c) PROVE BufferOK(buffer')
    <3>1. CASE buffer' = buffer BY <3>1
    <3>2. CASE ~is_full(buffer) /\ buffer' = push(buffer, c.value)
      BY <2>2, <3>2, PushContents DEF SendCase
    <3>3. QED BY <2>2, <3>1, <3>2, SendOutcome
  <2>3. ASSUME NEW c \in Calls, ReceiveCase(t, c) PROVE BufferOK(buffer')
    <3>1. CASE buffer' = buffer BY <3>1
    <3>2. CASE ~is_empty(buffer) /\ buffer' = pop(buffer) BY <3>2, PopContents
    <3>3. QED BY <2>3, <3>1, <3>2, ReceiveOutcome
  <2>4. CASE close(t) \/ WakeCase(t) \/ DeadlinePasses(t) \/ Cancel(t)
    <3>1. buffer' = buffer BY <2>4, WakeOutcome, ClockStep DEF close
    <3>2. QED BY <3>1
  <2>5. BufferOK(buffer') BY <2>1, <2>2, <2>3, <2>4
  <2>6. QED BY <2>5
<1>3. QED BY <1>1, <1>2

LEMMA BufferInit == Init => BufferOK(buffer)
<1> SUFFICES ASSUME Init PROVE BufferOK(buffer) OBVIOUS
<1>1. buffer \in Buffers /\ buffer = make_channel_buffer
  BY InvInit DEF Inv, TypeOK, Init
<1>2. ASSUME is_bounded PROVE RingOK(buffer)
  <2>1. Capacity \in Nat \ {0} BY <1>2, BufferAssumption DEF is_bounded
  <2>2. buffer = [ring |-> [i \in Slots |-> Nil], head |-> 0, tail |-> 0, count |-> 0]
    BY <1>1, <1>2 DEF make_channel_buffer
  <2>3. QED BY <2>1, <2>2 DEF RingOK, Wrap, Distance, Slots
<1>3. ~is_bounded => Len(buffer) <= max_channel_queue_size
  BY <1>1, BufferAssumption DEF make_channel_buffer
<1>4. QED BY <1>1, <1>2, <1>3 DEF BufferOK

LEMMA BufferInvariance == Spec => []BufferOK(buffer)
BY BufferInit, BufferStep, Invariance, PTL DEF Spec

(* The ring of BoundedChannelBuffer is sound for any capacity: its values  *)
(* are exactly in the count_ slots from head_ on, tail_ is the next free   *)
(* one, every other slot is the reset Value{}, and no index leaves them.   *)
THEOREM RingSound == Spec => []RingConsistent
<1>1. ASSUME TypeOK, BufferOK(buffer) PROVE RingConsistent
  <2> SUFFICES ASSUME is_bounded PROVE
           /\ buffer.tail = (buffer.head + buffer.count) % Capacity
           /\ \A i \in Slots :
                (buffer.ring[i] # Nil) <=>
                  (\E k \in 0 .. (buffer.count - 1) : i = (buffer.head + k) % Capacity)
    BY <1>1 DEF RingConsistent
  <2>1. /\ RingOK(buffer) /\ buffer.head \in Slots /\ buffer.count \in 0 .. Capacity
        /\ Capacity \in Nat \ {0}
    BY <1>1, BufferAssumption DEF BufferOK, Buffers, BoundedBuffers, is_bounded
  <2>2. buffer.tail = (buffer.head + buffer.count) % Capacity
    BY <2>1, WrapMod DEF RingOK
  <2>3. ASSUME NEW i \in Slots
        PROVE  Distance(buffer, i) < buffer.count
                 <=> \E k \in 0 .. (buffer.count - 1) : i = (buffer.head + k) % Capacity
    <3>1. ASSUME NEW k \in 0 .. (buffer.count - 1)
          PROVE  (buffer.head + k) % Capacity = Wrap(buffer.head + k)
      <4>1. k \in 0 .. Capacity BY <2>1
      <4>2. QED BY <2>1, <4>1, WrapMod
    <3>2. Distance(buffer, i) \in Nat /\ i = Wrap(buffer.head + Distance(buffer, i))
      BY <2>1 DEF Distance, Wrap, Slots
    <3>3. ASSUME NEW k \in 0 .. (buffer.count - 1), i = Wrap(buffer.head + k)
          PROVE  Distance(buffer, i) = k
      BY <2>1, <3>3 DEF Distance, Wrap, Slots
    <3>4. CASE Distance(buffer, i) < buffer.count
      <4>1. Distance(buffer, i) \in 0 .. (buffer.count - 1) BY <2>1, <3>2, <3>4
      <4>2. QED BY <3>1, <3>2, <3>4, <4>1
    <3>5. CASE ~(Distance(buffer, i) < buffer.count)
      <4>1. ASSUME NEW k \in 0 .. (buffer.count - 1), i = (buffer.head + k) % Capacity
            PROVE  FALSE
        <5>1. Distance(buffer, i) = k BY <3>1, <3>3, <4>1
        <5>2. QED BY <2>1, <3>5, <5>1
      <4>2. QED BY <3>5, <4>1
    <3>6. QED BY <3>4, <3>5
  <2>4. QED BY <2>1, <2>2, <2>3 DEF RingOK
<1>2. QED BY <1>1, TypeCorrect, BufferInvariance, PTL

-----------------------------------------------------------------------------
(* The refinement of ChannelSpec: the locked part of an operation is its   *)
(* abstract one, a wait, a wake-up and a notification are no step at all.  *)
Limit == IF is_bounded THEN Capacity ELSE max_channel_queue_size
Stutter == UNCHANGED <<buffer, closed, outcome>>

LEMMA ContentsSize ==
  ASSUME NEW b, BufferOK(b)
  PROVE  /\ Contents(b) \in Seq(Value)
         /\ is_full(b) <=> Len(Contents(b)) = Limit
         /\ ~is_full(b) <=> Len(Contents(b)) < Limit
         /\ is_empty(b) <=> Contents(b) = <<>>
<1>1. CASE is_bounded
  <2>1. b \in BoundedBuffers /\ RingOK(b) BY <1>1 DEF BufferOK, Buffers
  <2>2. Contents(b) \in Seq(Value) /\ Len(Contents(b)) = b.count
    BY <1>1, <2>1, RingContents
  <2>3. b.count \in 0 .. Capacity /\ Capacity \in Nat
    BY <2>1, BufferAssumption DEF BoundedBuffers
  <2>4. b.count = 0 <=> Contents(b) = <<>> BY <2>2, EmptySeq
  <2>5. QED BY <1>1, <2>2, <2>3, <2>4 DEF is_full, is_empty, size, Limit
<1>2. CASE ~is_bounded
  <2>1. b \in Seq(Value) /\ Len(b) <= max_channel_queue_size /\ Contents(b) = b
    BY <1>2 DEF BufferOK, Buffers, UnboundedBuffers, Contents
  <2>2. Len(b) \in Nat /\ (Len(b) = 0 <=> b = <<>>) BY <2>1, EmptySeq
  <2>3. QED
    BY <1>2, <2>1, <2>2, BufferAssumption DEF is_full, is_empty, size, Limit
<1>3. QED BY <1>1, <1>2

LEMMA SendRefines ==
  ASSUME Inv, BufferOK(buffer), NEW t \in Thread, NEW c \in Calls, SendCase(t, c)
  PROVE  Abstract!Next \/ Stutter
<1>. DEFINE q == Contents(buffer)
<1>1. PICK polled \in BOOLEAN : SendLocked(t, c, polled) BY DEF SendCase
<1>2. closed' = closed /\ c.value \in Value BY DEF SendCase
<1>3. /\ is_full(buffer) <=> Len(q) = Limit
      /\ ~is_full(buffer) <=> Len(q) < Limit
  BY ContentsSize
<1>4. CASE closed /\ Return(t, "closed")
  <2>1. Abstract!Refuse
    BY <1>2, <1>4 DEF Abstract!Refuse, Abstract!Report, Return, Report
  <2>2. QED BY <2>1 DEF Abstract!Next
<1>5. CASE /\ ~closed /\ ~is_full(buffer)
           /\ buffer' = push(buffer, c.value) /\ Report("sent", Nil)
  <2>1. Contents(buffer') = Append(q, c.value) BY <1>2, <1>5, PushContents
  <2>2. Abstract!Accept(c.value)
    BY <1>2, <1>3, <1>5, <2>1 DEF Abstract!Accept, Abstract!Report, Report, Limit
  <2>3. QED BY <1>2, <2>2 DEF Abstract!Next
<1>6. CASE ~has_room_or_closed /\ Return(t, "full")
  <2>1. Abstract!Refuse
    BY <1>2, <1>3, <1>6
    DEF Abstract!Refuse, Abstract!Report, Return, Report, has_room_or_closed, Limit
  <2>2. QED BY <2>1 DEF Abstract!Next
<1>7. CASE ~has_room_or_closed /\ WaitStep(t, c, polled)
  <2>1. CASE UNCHANGED <<buffer, outcome>> BY <1>2, <2>1 DEF Stutter
  <2>2. CASE Return(t, "cancelled") \/ Return(t, "timeout")
    <3>1. Abstract!GiveUp
      BY <1>2, <1>3, <1>7, <2>2
      DEF Abstract!GiveUp, Abstract!Report, Return, Report, has_room_or_closed, Limit
    <3>2. QED BY <3>1 DEF Abstract!Next
  <2>3. QED
    BY <1>7, <2>1, <2>2 DEF WaitStep, wait_cancellable, wait_until_cancellable
<1>8. QED BY <1>1, <1>4, <1>5, <1>6, <1>7 DEF SendLocked

LEMMA ReceiveRefines ==
  ASSUME Inv, BufferOK(buffer), NEW t \in Thread, NEW c \in Calls, ReceiveCase(t, c)
  PROVE  Abstract!Next \/ Stutter
<1>. DEFINE q == Contents(buffer)
<1>1. PICK polled \in BOOLEAN : ReceiveLocked(t, c, polled) BY DEF ReceiveCase
<1>2. closed' = closed BY DEF ReceiveCase
<1>3. is_empty(buffer) <=> q = <<>> BY ContentsSize
<1>4. CASE /\ ~is_empty(buffer)
           /\ buffer' = pop(buffer) /\ Report("received", front(buffer))
  <2>1. Contents(buffer') = Tail(q) /\ front(buffer) = Head(q) BY <1>4, PopContents
  <2>2. Abstract!Deliver
    BY <1>2, <1>3, <1>4, <2>1 DEF Abstract!Deliver, Abstract!Report, Report
  <2>3. QED BY <2>2 DEF Abstract!Next
<1>5. CASE \/ is_empty(buffer) /\ closed /\ Return(t, "drained")
           \/ ~has_value_or_closed /\ Return(t, "empty")
  <2>1. Abstract!Refuse
    BY <1>2, <1>3, <1>5
    DEF Abstract!Refuse, Abstract!Report, Return, Report, has_value_or_closed
  <2>2. QED BY <2>1 DEF Abstract!Next
<1>6. CASE ~has_value_or_closed /\ WaitStep(t, c, polled)
  <2>1. CASE UNCHANGED <<buffer, outcome>> BY <1>2, <2>1 DEF Stutter
  <2>2. CASE Return(t, "cancelled") \/ Return(t, "timeout")
    <3>1. Abstract!GiveUp
      BY <1>2, <1>3, <1>6, <2>2
      DEF Abstract!GiveUp, Abstract!Report, Return, Report, has_value_or_closed
    <3>2. QED BY <3>1 DEF Abstract!Next
  <2>3. QED
    BY <1>6, <2>1, <2>2 DEF WaitStep, wait_cancellable, wait_until_cancellable
<1>7. QED BY <1>1, <1>4, <1>5, <1>6 DEF ReceiveLocked

LEMMA StepRefines ==
  ASSUME Inv, BufferOK(buffer), [Next]_vars
  PROVE  [Abstract!Next]_(Abstract!vars)
<1>1. ASSUME Stutter PROVE UNCHANGED Abstract!vars
  BY <1>1 DEF Stutter, Abstract!vars
<1>2. CASE UNCHANGED vars
  <2>1. Stutter BY <1>2 DEF vars, Stutter
  <2>2. QED BY <1>1, <2>1
<1>3. CASE Next
  <2>1. PICK t \in Thread :
           \/ \E c \in Calls : SendCase(t, c) \/ ReceiveCase(t, c)
           \/ close(t) \/ WakeCase(t) \/ DeadlinePasses(t) \/ Cancel(t)
    BY <1>3, StepCases
  <2>2. ASSUME NEW c \in Calls, SendCase(t, c) \/ ReceiveCase(t, c)
        PROVE  Abstract!Next \/ Stutter
    BY <2>2, SendRefines, ReceiveRefines
  <2>3. CASE close(t)
    <3>1. Abstract!Close BY <2>3 DEF close, Abstract!Close
    <3>2. QED BY <3>1 DEF Abstract!Next
  <2>4. CASE WakeCase(t) \/ DeadlinePasses(t) \/ Cancel(t)
    <3>1. Stutter BY <2>4, WakeStep, ClockStep DEF Stutter, WakeCase
    <3>2. QED BY <1>1, <3>1
  <2>5. QED BY <1>1, <2>1, <2>2, <2>3, <2>4
<1>4. QED BY <1>2, <1>3

(* The channel is the atomic FIFO of ChannelSpec, for any threads, values, *)
(* capacity and cap: every send, receive and close takes effect in its     *)
(* critical section, in order, and what it reports is true at that moment. *)
THEOREM Refinement == Spec => ImplementsChannelSpec
<1>1. Init => Abstract!Init
  <2> SUFFICES ASSUME Init PROVE Abstract!Init OBVIOUS
  <2>1. is_empty(buffer)
    BY DEF Init, make_channel_buffer, is_empty, size
  <2>2. Contents(buffer) = <<>> BY <2>1, BufferInit, ContentsSize
  <2>3. QED BY <2>2 DEF Init, Abstract!Init
<1>2. Inv /\ BufferOK(buffer) /\ [Next]_vars => [Abstract!Next]_(Abstract!vars)
  BY StepRefines
<1>3. QED
  BY <1>1, <1>2, Invariance, BufferInvariance, PTL
  DEF Spec, ImplementsChannelSpec, Abstract!Spec
=============================================================================
