----------------------------- MODULE MCComponents -----------------------------
(* Three components for TLC that share no variable: the key-value store, the *)
(* way a task unwinds, and an unbounded channel.  A behaviour is one of a    *)
(* single component, as part says; the others stay in their initial state.   *)
EXTENDS KeyValueStore, TaskUnwinding, TLC

CONSTANTS
  Thread, HasToken, Value, Nil, Capacity, max_channel_queue_size

VARIABLES
  part,
  buffer, ch_closed, ch_cancelled, ch_pc, call, ch_outcome

Ch == INSTANCE Channel WITH closed <- ch_closed, cancelled <- ch_cancelled, pc <- ch_pc,
        outcome <- ch_outcome

ch_vars == <<buffer, ch_closed, ch_cancelled, ch_pc, call, ch_outcome>>
mc_vars == <<part, vars, unwinding_vars, ch_vars>>

MCInit ==
  /\ Init /\ UnwindingInit /\ Ch!Init
  /\ \/ part = "store"
     \/ part \in {"channel", "unwinding"} /\ ~file.present

MCNext ==
  \/ part = "channel" /\ Ch!Next /\ UNCHANGED <<part, vars, unwinding_vars>>
  \/ part = "unwinding" /\ UnwindingNext /\ UNCHANGED <<part, vars, ch_vars>>
  \/ part = "store" /\ Next /\ UNCHANGED <<part, unwinding_vars, ch_vars>>

MCSpec == MCInit /\ [][MCNext]_mc_vars

Symmetry == Permutations(Client) \cup Permutations(Key)

(* Channel, without a capacity: every send, receive and close is an atomic   *)
(* operation on a FIFO queue that refuses a value at its cap.                *)
UnboundedImplementsSpec == Ch!ImplementsChannelSpec
===============================================================================
