---------------------------- MODULE ChannelBuffer ----------------------------
(***************************************************************************)
(* The two storage strategies of a channel, core/runtime/concurrency/      *)
(* channel_buffer.hpp: the fixed-capacity ring of BoundedChannelBuffer and *)
(* the capped deque of UnboundedChannelBuffer.  Neither is thread-safe;    *)
(* the owning Channel does all the locking, so they are operators on a     *)
(* buffer value and not actions.                                           *)
(*                                                                         *)
(* Both are kept in one record type: a deque uses the field "deque", a     *)
(* ring the four others.                                                   *)
(***************************************************************************)
EXTENDS Naturals, Sequences

CONSTANTS
  Value,                  (* what programs send through the channel           *)
  Nil,                    (* the default-constructed Value{} of a free slot   *)
  Capacity,               (* constructor argument; 0 selects the deque        *)
  max_channel_queue_size  (* ResourceLimits: the safety cap of the deque      *)

ASSUME BufferAssumption ==
  /\ Nil \notin Value
  /\ Capacity \in Nat
  /\ max_channel_queue_size \in Nat \ {0}

is_bounded == Capacity # 0

Slots == 0 .. (Capacity - 1)

BoundedBuffers ==
  [ring : [Slots -> Value \cup {Nil}], head : Slots, tail : Slots,
   count : 0 .. Capacity]

UnboundedBuffers == Seq(Value)

Buffers == IF is_bounded THEN BoundedBuffers ELSE UnboundedBuffers

make_channel_buffer ==
  IF is_bounded
  THEN [ring |-> [i \in Slots |-> Nil], head |-> 0, tail |-> 0, count |-> 0]
  ELSE <<>>

size(b) == IF is_bounded THEN b.count ELSE Len(b)

is_empty(b) == size(b) = 0

is_full(b) ==
  IF is_bounded THEN b.count >= Capacity ELSE Len(b) >= max_channel_queue_size

(* Seeded fault: the unbounded buffer puts the value at the front.         *)
push_at_front(b, v) ==
  IF is_bounded
  THEN [ring  |-> [b.ring EXCEPT ![b.tail] = v],
        head  |-> b.head,
        tail  |-> (b.tail + 1) % Capacity,
        count |-> b.count + 1]
  ELSE <<v>> \o b

push(b, v) ==
  IF is_bounded
  THEN [ring  |-> [b.ring EXCEPT ![b.tail] = v],
        head  |-> b.head,
        tail  |-> (b.tail + 1) % Capacity,
        count |-> b.count + 1]
  ELSE Append(b, v)

(* Seeded fault: the slot a value was moved out of is not reset.           *)
pop_without_reset(b) ==
  IF is_bounded
  THEN [ring  |-> b.ring,
        head  |-> (b.head + 1) % Capacity,
        tail  |-> b.tail,
        count |-> b.count - 1]
  ELSE Tail(b)

(* pop() returns the value and shrinks the buffer: front is the value it   *)
(* returns, pop the buffer it leaves behind.                               *)
front(b) == IF is_bounded THEN b.ring[b.head] ELSE Head(b)

pop(b) ==
  IF is_bounded
  THEN [ring  |-> [b.ring EXCEPT ![b.head] = Nil],
        head  |-> (b.head + 1) % Capacity,
        tail  |-> b.tail,
        count |-> b.count - 1]
  ELSE Tail(b)

(* The values a buffer holds, oldest first: what the refinement mapping    *)
(* and the properties speak of.                                            *)
Contents(b) ==
  IF is_bounded
  THEN [i \in 1 .. b.count |-> b.ring[(b.head + i - 1) % Capacity]]
  ELSE b
=============================================================================
