------------------------------ MODULE TaskScope ------------------------------
(***************************************************************************)
(* Structured concurrency: the task_scope, spawn and await of              *)
(* vm_dispatch_concurrency.cpp, task_scope.cpp and Task.race of            *)
(* task_module.cpp over the completion protocol of task_completion.hpp and *)
(* the token tree of cancellation_token.hpp.                               *)
(*                                                                         *)
(* The pool is Workers threads that take queued tasks in any order: the    *)
(* pool once no more compensating workers can be started (module           *)
(* ThreadPool has the compensation).  A thread runs one VM, named by the   *)
(* task it executes; Main is the VM of the program.                        *)
(***************************************************************************)
EXTENDS Integers, Sequences, FiniteSets, SequencesExt

CONSTANTS
  Task,     (* the tasks that may be spawned                               *)
  Scope,    (* the TaskScope objects that may be created                   *)
  Main,     (* the program's own VM: it has no task and no token           *)
  Workers,  (* threads of the pool                                         *)
  (* What a program does is any interleaving of the operations below; these *)
  (* bound it: the VMs whose code may call                                  *)
  Racing,     (* Task.race                                                 *)
  Awaiting,   (* await                                                     *)
  Returning,  (* return, break or continue from inside a task_scope        *)
  Cancelling, (* Task.cancel                                               *)
  Throwing    (* something that raises an error                            *)

ASSUME ScopeAssumption ==
  /\ IsFiniteSet(Task) /\ IsFiniteSet(Scope)
  /\ Main \notin Task
  /\ Task \cap Scope = {}
  /\ Workers \in Nat \ {0}
  /\ Racing \subseteq Task
  /\ Awaiting \subseteq Task \cup {Main}
  /\ Returning \subseteq Task \cup {Main}
  /\ Cancelling \subseteq Task \cup {Main}
  /\ Throwing \subseteq Task \cup {Main}

VARIABLES
  pc,         (* where each VM, or the worker that has its task, is        *)
  started,    (* TaskCompletion::started_                                  *)
  promise,    (* what each task's future holds                             *)
  complete,   (* TaskCompletion::complete_                                 *)
  subs,       (* TaskCompletion::subscribers_, by the VM that waits        *)
  notified,   (* CompletionSignal::notified_ of each waiting VM            *)
  scopes,     (* "free", "open", "joined" or "failed", as its join ended,  *)
              (* or "left": its VM returned without a join                 *)
  children,   (* TaskScope::children_                                      *)
  chain,      (* a token and the tokens its parent_ pointers lead to       *)
  cancelled,  (* the tokens whose cancelled_ is set                        *)
  stack,      (* VMTaskManager::task_scopes of each VM                     *)
  spawning,   (* the task between enqueue and add_child                    *)
  join,       (* the locals of join_all (or of Task.race) in each VM       *)
  unwind      (* where an exception takes each VM                          *)

task_state  == <<started, promise, complete>>
tree        == <<scopes, children, chain, stack>>
vars == <<pc, task_state, subs, notified, tree, cancelled, spawning, join, unwind>>

VM      == Task \cup {Main}
Token   == Task \cup Scope
NoTask  == "none"

ASSUME NoTaskAssumption == NoTask \notin Task

(* A task's worker: between taking the task off the queue and leaving it.  *)
OnWorker(t) == pc[t] \notin {"new", "queued", "done"}

JoinPcs == {"join", "subscribe", "check", "exchange", "handler", "notify", "poll", "sleep"}
RacePcs == {"race_subscribe", "race_poll", "race_sleep"}
Pcs == {"new", "queued", "dequeued", "claimed", "run", "add", "unwind", "await",
         "destroy", "finish", "done"} \cup JoinPcs \cup RacePcs

(* collected and todo hold positions in snapshot: the children already     *)
(* collected, and those the pass in progress has not come to.              *)
Locals == [teardown : BOOLEAN, snapshot : Seq(Task), collected : SUBSET Nat,
           todo : SUBSET Nat, progressed : BOOLEAN, first_error : Task \cup {NoTask},
           abandoned : BOOLEAN, region : {"none", "OnPoolTasks", "External"}]

NoLocals == [teardown |-> FALSE, snapshot |-> <<>>, collected |-> {}, todo |-> {},
             progressed |-> FALSE, first_error |-> NoTask, abandoned |-> FALSE,
             region |-> "none"]

NoUnwind == [to |-> 0, outcome |-> "run"]

(* Type invariant.                                                         *)
TypeOK ==
  /\ pc \in [VM -> Pcs]
  /\ started \in [Task -> BOOLEAN]
  /\ promise \in [Task -> {"unset", "value", "error", "cancelled"}]
  /\ complete \in [Task -> BOOLEAN]
  /\ subs \in [Task -> SUBSET VM]
  /\ notified \in [VM -> BOOLEAN]
  /\ scopes \in [Scope -> {"free", "open", "joined", "failed", "left"}]
  /\ children \in [Scope -> Seq(Task)]
  /\ chain \in [Token -> SUBSET Token]
  /\ cancelled \subseteq Token
  /\ stack \in [VM -> Seq(Scope)]
  /\ spawning \in [VM -> Task \cup {NoTask}]
  /\ join \in [VM -> Locals]
  /\ unwind \in [VM -> [to : Nat, outcome : {"run", "error", "cancelled"}]]

Init ==
  /\ pc = [v \in VM |-> IF v = Main THEN "run" ELSE "new"]
  /\ started = [t \in Task |-> FALSE]
  /\ promise = [t \in Task |-> "unset"]
  /\ complete = [t \in Task |-> FALSE]
  /\ subs = [t \in Task |-> {}]
  /\ notified = [v \in VM |-> FALSE]
  /\ scopes = [s \in Scope |-> "free"]
  /\ children = [s \in Scope |-> <<>>]
  /\ chain = [x \in Token |-> {x}]
  /\ cancelled = {}
  /\ stack = [v \in VM |-> <<>>]
  /\ spawning = [v \in VM |-> NoTask]
  /\ join = [v \in VM |-> NoLocals]
  /\ unwind = [v \in VM |-> NoUnwind]

Goto(v, l) == pc' = [pc EXCEPT ![v] = l]

(* CancellationToken::is_cancelled: its own flag or an ancestor's.         *)
is_cancelled(x) == chain[x] \cap cancelled # {}

(* The VM's cancel_token_ and what hangs below it: nothing for Main.       *)
OwnChain(v) == IF v = Main THEN {} ELSE chain[v]

current_scope(v) == Last(stack[v])

Uncollected(v) == DOMAIN join[v].snapshot \ join[v].collected

(* The child whose turn it is in the pass, and the pass without it.        *)
Turn(v)      == join[v].snapshot[Min(join[v].todo)]
AfterTurn(v) == join[v].todo \ {Min(join[v].todo)}

-----------------------------------------------------------------------------
(* TaskCompletion.                                                         *)

(* mark_complete: set complete_, take the subscribers out, notify each.    *)
mark_complete(t) ==
  /\ complete' = [complete EXCEPT ![t] = TRUE]
  /\ subs' = [subs EXCEPT ![t] = {}]
  /\ notified' = [v \in VM |-> notified[v] \/ v \in subs[t]]

(* subscribe: a task that already completed notifies at once.              *)
subscribe(v, t) ==
  /\ subs' = IF complete[t] THEN subs ELSE [subs EXCEPT ![t] = @ \cup {v}]
  /\ notified' = IF complete[t] THEN [notified EXCEPT ![v] = TRUE] ELSE notified

(* ~CompletionSubscription; the signal dies with it.                       *)
unsubscribe(v) ==
  /\ subs' = [t \in Task |-> subs[t] \ {v}]
  /\ notified' = [notified EXCEPT ![v] = FALSE]

Resolve(t, outcome) == promise' = [promise EXCEPT ![t] = outcome]

-----------------------------------------------------------------------------
(* The pool's worker and the callable built by create_spawn_callable.      *)

fetch(t) ==
  /\ pc[t] = "queued"
  /\ Cardinality({u \in Task : OnWorker(u)}) < Workers
  /\ Goto(t, "dequeued")
  /\ UNCHANGED <<task_state, subs, notified, tree, cancelled, spawning, join, unwind>>

(* Seeded fault: the value of the exchange is ignored.                     *)
claim_start_always(t) ==
  /\ pc[t] = "dequeued"
  /\ started' = [started EXCEPT ![t] = TRUE]
  /\ Goto(t, "claimed")
  /\ UNCHANGED <<promise, complete, subs, notified, tree, cancelled, spawning, join, unwind>>

(* claim_start: an abandoned task is left alone, but still marked complete *)
(* by the guard that was declared first.                                   *)
claim_start(t) ==
  /\ pc[t] = "dequeued"
  /\ started' = [started EXCEPT ![t] = TRUE]
  /\ Goto(t, IF started[t] THEN "finish" ELSE "claimed")
  /\ UNCHANGED <<promise, complete, subs, notified, tree, cancelled, spawning, join, unwind>>

(* A task already cancelled is resolved without a VM.                      *)
start_task(t) ==
  /\ pc[t] = "claimed"
  /\ IF is_cancelled(t)
       THEN Resolve(t, "cancelled") /\ Goto(t, "finish")
       ELSE Goto(t, "run") /\ UNCHANGED promise
  /\ UNCHANGED <<started, complete, subs, notified, tree, cancelled, spawning, join, unwind>>

notify_completion(t) ==
  /\ pc[t] = "finish"
  /\ mark_complete(t)
  /\ Goto(t, "done")
  /\ UNCHANGED <<started, promise, tree, cancelled, spawning, join, unwind>>

-----------------------------------------------------------------------------
(* The body of a VM.                                                       *)

handle_task_scope_begin(v, s) ==
  /\ pc[v] = "run"
  /\ scopes[s] = "free"
  /\ scopes' = [scopes EXCEPT ![s] = "open"]
  /\ chain' = [chain EXCEPT ![s] = {s} \cup OwnChain(v)]
  /\ stack' = [stack EXCEPT ![v] = Append(@, s)]
  /\ UNCHANGED <<pc, task_state, subs, notified, children, cancelled, spawning, join, unwind>>

(* handle_spawn, up to the enqueue: from here on a worker may take t.  The *)
(* type checker rejects a spawn outside a task_scope.                      *)
handle_spawn(v, t) ==
  /\ pc[v] = "run"
  /\ stack[v] # <<>>
  /\ pc[t] = "new"
  /\ chain' = [chain EXCEPT ![t] = {t} \cup chain[current_scope(v)]]
  /\ pc' = [pc EXCEPT ![v] = "add", ![t] = "queued"]
  /\ spawning' = [spawning EXCEPT ![v] = t]
  /\ UNCHANGED <<task_state, subs, notified, scopes, children, stack, cancelled, join, unwind>>

add_child(v) ==
  /\ pc[v] = "add"
  /\ children' = [children EXCEPT ![current_scope(v)] = Append(@, spawning[v])]
  /\ spawning' = [spawning EXCEPT ![v] = NoTask]
  /\ Goto(v, "run")
  /\ UNCHANGED <<task_state, subs, notified, scopes, chain, stack, cancelled, join, unwind>>

(* Task.cancel; task handles travel in arguments and channels.             *)
cancel_task(v, t) ==
  /\ pc[v] = "run"
  /\ v \in Cancelling
  /\ pc[t] # "new"
  /\ cancelled' = cancelled \cup {t}
  /\ UNCHANGED <<pc, task_state, subs, notified, tree, spawning, join, unwind>>

(* An exception leaves v for a handler installed when to scopes were open, *)
(* or for good.  A handler that is a finally runs before the exception     *)
(* goes on: that is a resumption followed by another exception.            *)
ThrowFrom(v, depth, outcome) ==
  /\ \/ \E d \in 0..depth : unwind' = [unwind EXCEPT ![v] = [to |-> d, outcome |-> "run"]]
     \/ unwind' = [unwind EXCEPT ![v] = [to |-> 0, outcome |-> outcome]]
  /\ Goto(v, "unwind")

throw_error(v) ==
  /\ pc[v] = "run"
  /\ v \in Throwing
  /\ ThrowFrom(v, Len(stack[v]), "error")
  /\ UNCHANGED <<task_state, subs, notified, tree, cancelled, spawning, join>>

(* check_cancellation, at loop back-edges, calls and awaits of a task.     *)
check_cancellation(v) ==
  /\ pc[v] = "run"
  /\ v # Main
  /\ is_cancelled(v)
  /\ ThrowFrom(v, Len(stack[v]), "cancelled")
  /\ UNCHANGED <<task_state, subs, notified, tree, cancelled, spawning, join>>

Ended(v) == IF v = Main THEN "done" ELSE "finish"

(* The body returns; build_spawn_future sets the promise.  VM::run returns *)
(* whatever scopes are still open: nothing joins them any more.            *)
return_value(v) ==
  /\ pc[v] = "run"
  /\ stack[v] = <<>> \/ v \in Returning
  /\ Goto(v, IF stack[v] # <<>> THEN "destroy" ELSE Ended(v))
  /\ IF v = Main THEN UNCHANGED promise ELSE Resolve(v, "value")
  /\ scopes' = [s \in Scope |-> IF s \in ToSet(stack[v]) THEN "left" ELSE scopes[s]]
  /\ stack' = [stack EXCEPT ![v] = <<>>]
  /\ UNCHANGED <<started, complete, subs, notified, children, chain, cancelled, spawning,
                 join, unwind>>

(* The scopes v opened and returned from.                                  *)
LeftBy(v) == {s \in Scope : scopes[s] = "left" /\ chain[s] = {s} \cup OwnChain(v)}

(* ~VM cancels the scopes it still owns, after the promise is set; it does *)
(* not join them.                                                          *)
destroy_vm(v) ==
  /\ pc[v] = "destroy"
  /\ cancelled' = cancelled \cup LeftBy(v)
  /\ Goto(v, Ended(v))
  /\ UNCHANGED <<task_state, subs, notified, tree, spawning, join, unwind>>

(* unwind_task_scopes_to: retire the scopes above the handler, innermost   *)
(* first: cancel_all, then join_all(Teardown).                             *)
retire_task_scope(v) ==
  /\ pc[v] = "unwind"
  /\ Len(stack[v]) > unwind[v].to
  /\ cancelled' = cancelled \cup {current_scope(v)}
  /\ join' = [join EXCEPT ![v] = [NoLocals EXCEPT !.teardown = TRUE]]
  /\ Goto(v, "join")
  /\ UNCHANGED <<task_state, subs, notified, tree, spawning, unwind>>

(* The handler is reached, or the exception leaves the VM.  A task that    *)
(* fails while its token is cancelled counts as cancelled.                 *)
Unwound(v) ==
  /\ pc[v] = "unwind"
  /\ Len(stack[v]) = unwind[v].to
  /\ CASE unwind[v].outcome = "run" -> Goto(v, "run") /\ UNCHANGED promise
       [] unwind[v].outcome # "run" /\ v = Main -> Goto(v, "done") /\ UNCHANGED promise
       [] OTHER -> /\ Goto(v, "finish")
                   /\ Resolve(v, IF is_cancelled(v) THEN "cancelled" ELSE unwind[v].outcome)
  /\ unwind' = [unwind EXCEPT ![v] = NoUnwind]
  /\ UNCHANGED <<started, complete, subs, notified, tree, cancelled, spawning, join>>

-----------------------------------------------------------------------------
(* join_all.                                                               *)

handle_task_scope_end(v) ==
  /\ pc[v] = "run"
  /\ stack[v] # <<>>
  /\ join' = [join EXCEPT ![v] = NoLocals]
  /\ Goto(v, "join")
  /\ UNCHANGED <<task_state, subs, notified, tree, cancelled, spawning, unwind>>

take_children(v) ==
  LET s == current_scope(v) IN
  /\ pc[v] = "join"
  /\ join' = [join EXCEPT ![v].snapshot = children[s], ![v].todo = DOMAIN children[s]]
  /\ children' = [children EXCEPT ![s] = <<>>]
  /\ Goto(v, "subscribe")
  /\ UNCHANGED <<task_state, subs, notified, scopes, chain, stack, cancelled, spawning, unwind>>

subscribe_child(v) ==
  /\ pc[v] = "subscribe"
  /\ join[v].todo # {}
  /\ subscribe(v, Turn(v))
  /\ join' = [join EXCEPT ![v].todo = AfterTurn(v)]
  /\ UNCHANGED <<pc, task_state, tree, cancelled, spawning, unwind>>

subscribed(v) ==
  /\ pc[v] = "subscribe"
  /\ join[v].todo = {}
  /\ Goto(v, "check")
  /\ UNCHANGED <<task_state, subs, notified, tree, cancelled, spawning, join, unwind>>

(* Seeded fault: children that never started are waited for.               *)
AbandonNobody(v) == FALSE

(* Seeded fault: a join that nobody cancelled abandons children, too.      *)
AbandonAlways(v) == ~join[v].abandoned

(* A cancelled scope abandons its unstarted children, once.                *)
MustAbandon(v) ==
  /\ ~join[v].abandoned
  /\ join[v].teardown \/ is_cancelled(current_scope(v))

(* The head of the loop.                                                   *)
abandon_unstarted_if_cancelled(v) ==
  /\ pc[v] = "check"
  /\ Uncollected(v) # {}
  /\ join' = [join EXCEPT ![v].todo = Uncollected(v),
                          ![v].abandoned = @ \/ MustAbandon(v),
                          ![v].progressed = FALSE]
  /\ Goto(v, IF MustAbandon(v) THEN "exchange" ELSE "poll")
  /\ UNCHANGED <<task_state, subs, notified, tree, cancelled, spawning, unwind>>

(* abandon_if_not_started on the next child.                               *)
abandon_exchange(v) ==
  LET t == Turn(v) IN
  /\ pc[v] = "exchange"
  /\ join[v].todo # {}
  /\ started' = [started EXCEPT ![t] = TRUE]
  /\ IF started[t]
       THEN join' = [join EXCEPT ![v].todo = AfterTurn(v)] /\ UNCHANGED pc
       ELSE Goto(v, "handler") /\ UNCHANGED join
  /\ UNCHANGED <<promise, complete, subs, notified, tree, cancelled, spawning, unwind>>

abandon_handler(v) ==
  /\ pc[v] = "handler"
  /\ Resolve(Turn(v), "cancelled")
  /\ Goto(v, "notify")
  /\ UNCHANGED <<started, complete, subs, notified, tree, cancelled, spawning, join, unwind>>

abandon_notify(v) ==
  /\ pc[v] = "notify"
  /\ mark_complete(Turn(v))
  /\ join' = [join EXCEPT ![v].todo = AfterTurn(v)]
  /\ Goto(v, "exchange")
  /\ UNCHANGED <<started, promise, tree, cancelled, spawning, unwind>>

abandon_done(v) ==
  /\ pc[v] = "exchange"
  /\ join[v].todo = {}
  /\ join' = [join EXCEPT ![v].todo = Uncollected(v)]
  /\ Goto(v, "poll")
  /\ UNCHANGED <<task_state, subs, notified, tree, cancelled, spawning, unwind>>

(* One child of the polling pass: collect it if its future is ready; the   *)
(* first genuine error cancels the scope.                                  *)
poll_child(v) ==
  LET t == Turn(v)
      fails == promise[t] = "error" /\ join[v].first_error = NoTask IN
  /\ pc[v] = "poll"
  /\ join[v].todo # {}
  /\ IF promise[t] = "unset"
       THEN join' = [join EXCEPT ![v].todo = AfterTurn(v)]
       ELSE join' = [join EXCEPT ![v].todo = AfterTurn(v),
                                 ![v].collected = @ \cup {Min(join[v].todo)},
                                 ![v].progressed = TRUE,
                                 ![v].first_error = IF fails THEN t ELSE @]
  /\ cancelled' = IF fails THEN cancelled \cup {current_scope(v)} ELSE cancelled
  /\ UNCHANGED <<pc, task_state, subs, notified, tree, spawning, unwind>>

poll_again(v) ==
  /\ pc[v] = "poll"
  /\ join[v].todo = {}
  /\ join[v].progressed \/ Uncollected(v) = {}
  /\ Goto(v, "check")
  /\ UNCHANGED <<task_state, subs, notified, tree, cancelled, spawning, join, unwind>>

(* Nothing was ready: enter the BlockingRegion and wait.                   *)
EnterRegion(v) ==
  join' = [join EXCEPT ![v].region =
             IF @ # "none" THEN @ ELSE IF join[v].abandoned THEN "External" ELSE "OnPoolTasks"]

(* Seeded fault: the signal is armed again on entry instead of on return.  *)
wait_for_children_rearmed(v) ==
  /\ pc[v] = "poll"
  /\ join[v].todo = {}
  /\ ~join[v].progressed
  /\ Uncollected(v) # {}
  /\ EnterRegion(v)
  /\ notified' = [notified EXCEPT ![v] = FALSE]
  /\ Goto(v, "sleep")
  /\ UNCHANGED <<task_state, subs, tree, cancelled, spawning, unwind>>

wait_for_children(v) ==
  /\ pc[v] = "poll"
  /\ join[v].todo = {}
  /\ ~join[v].progressed
  /\ Uncollected(v) # {}
  /\ EnterRegion(v)
  /\ Goto(v, "sleep")
  /\ UNCHANGED <<task_state, subs, notified, tree, cancelled, spawning, unwind>>

(* Seeded fault: one worker too many must wait.                            *)
StalledAbove ==
  /\ Cardinality({t \in Task : join[t].region = "OnPoolTasks"}) > Workers
  /\ \E t \in Task : pc[t] = "queued"

(* The pool's verify_not_deadlocked: every worker waits for pool tasks and *)
(* one of them is still queued.                                            *)
Stalled ==
  /\ Cardinality({t \in Task : join[t].region = "OnPoolTasks"}) >= Workers
  /\ \E t \in Task : pc[t] = "queued"

(* Seeded fault: the children are not handed back.                         *)
report_stall_drops(v) ==
  /\ pc[v] = "poll"
  /\ v # Main
  /\ join[v].todo = {}
  /\ ~join[v].progressed
  /\ Uncollected(v) # {}
  /\ ~join[v].abandoned
  /\ join[v].region = "OnPoolTasks"
  /\ Stalled
  /\ unsubscribe(v)
  /\ join' = [join EXCEPT ![v] = NoLocals]
  /\ ThrowFrom(v, Len(stack[v]) - 1, "error")
  /\ UNCHANGED <<task_state, scopes, children, chain, stack, cancelled, spawning>>

(* ... throws in a worker; the children are handed back to the scope for   *)
(* the teardown join.                                                      *)
report_stall(v) ==
  /\ pc[v] = "poll"
  /\ v # Main
  /\ join[v].todo = {}
  /\ ~join[v].progressed
  /\ Uncollected(v) # {}
  /\ ~join[v].abandoned
  /\ join[v].region = "OnPoolTasks"
  /\ Stalled
  /\ children' = [children EXCEPT ![current_scope(v)] = join[v].snapshot]
  /\ unsubscribe(v)
  /\ join' = [join EXCEPT ![v] = NoLocals]
  /\ ThrowFrom(v, Len(stack[v]) - 1, "error")
  /\ UNCHANGED <<task_state, scopes, chain, stack, cancelled, spawning>>

(* wait_for returns: notified, or k_join_poll_interval is over.  Either    *)
(* way the signal is armed again.                                          *)
wake(v) ==
  /\ pc[v] = "sleep"
  /\ notified' = [notified EXCEPT ![v] = FALSE]
  /\ Goto(v, "check")
  /\ UNCHANGED <<task_state, subs, tree, cancelled, spawning, join, unwind>>

PopScope(v, how) ==
  /\ scopes' = [scopes EXCEPT ![current_scope(v)] = how]
  /\ stack' = [stack EXCEPT ![v] = Front(@)]

(* join_all returns.  Normally the scope is popped; in a teardown errors   *)
(* are suppressed and the unwinding goes on.                               *)
join_returns(v) ==
  /\ pc[v] = "check"
  /\ Uncollected(v) = {}
  /\ join[v].teardown \/ join[v].first_error = NoTask
  /\ PopScope(v, IF join[v].teardown THEN "failed" ELSE "joined")
  /\ unsubscribe(v)
  /\ join' = [join EXCEPT ![v] = NoLocals]
  /\ Goto(v, IF join[v].teardown THEN "unwind" ELSE "run")
  /\ UNCHANGED <<task_state, children, chain, cancelled, spawning, unwind>>

(* ... or rethrows the first error: the scope, whose children are gone, is *)
(* retired on the way out.                                                 *)
join_throws(v) ==
  /\ pc[v] = "check"
  /\ Uncollected(v) = {}
  /\ ~join[v].teardown /\ join[v].first_error # NoTask
  /\ unsubscribe(v)
  /\ join' = [join EXCEPT ![v] = NoLocals]
  /\ ThrowFrom(v, Len(stack[v]) - 1, "error")
  /\ UNCHANGED <<task_state, tree, cancelled, spawning>>

-----------------------------------------------------------------------------
(* Task.race over the tasks of R, which uses the same locals.              *)

race(v, R) ==
  /\ pc[v] = "run"
  /\ v \in Racing
  /\ R # {} /\ \A t \in R : t # v /\ pc[t] # "new"
  /\ join' = [join EXCEPT ![v] = [NoLocals EXCEPT !.snapshot = SetToSeq(R),
                                                  !.todo = 1 .. Cardinality(R)]]
  /\ Goto(v, "race_subscribe")
  /\ UNCHANGED <<task_state, subs, notified, tree, cancelled, spawning, unwind>>

race_subscribe(v) ==
  /\ pc[v] = "race_subscribe"
  /\ IF join[v].todo # {}
       THEN /\ subscribe(v, Turn(v))
            /\ join' = [join EXCEPT ![v].todo = AfterTurn(v)]
            /\ UNCHANGED pc
       ELSE /\ join' = [join EXCEPT ![v].todo = DOMAIN join[v].snapshot]
            /\ Goto(v, "race_poll")
            /\ UNCHANGED <<subs, notified>>
  /\ UNCHANGED <<task_state, tree, cancelled, spawning, unwind>>

EndRace(v) ==
  /\ unsubscribe(v)
  /\ join' = [join EXCEPT ![v] = NoLocals]

(* The next task of the pass: a ready one wins and the others are          *)
(* cancelled.                                                              *)
race_poll(v) ==
  LET t == Turn(v) IN
  /\ pc[v] = "race_poll"
  /\ join[v].todo # {}
  /\ IF promise[t] # "unset"
       THEN /\ cancelled' = cancelled \cup (ToSet(join[v].snapshot) \ {t})
            /\ EndRace(v)
            /\ Goto(v, "run")
       ELSE /\ join' = [join EXCEPT ![v].todo = AfterTurn(v)]
            /\ UNCHANGED <<cancelled, subs, notified, pc>>
  /\ UNCHANGED <<task_state, tree, spawning, unwind>>

(* None is ready: a cancelled VM stops waiting, a stall may be reported.   *)
race_throws(v) ==
  /\ pc[v] = "race_poll"
  /\ join[v].todo = {}
  /\ \/ is_cancelled(v) /\ ThrowFrom(v, Len(stack[v]), "cancelled")
     \/ /\ ~is_cancelled(v) /\ join[v].region = "OnPoolTasks" /\ Stalled
        /\ ThrowFrom(v, Len(stack[v]), "error")
  /\ EndRace(v)
  /\ UNCHANGED <<task_state, tree, cancelled, spawning>>

race_wait(v) ==
  /\ pc[v] = "race_poll"
  /\ join[v].todo = {}
  /\ ~is_cancelled(v)
  /\ EnterRegion(v)
  /\ Goto(v, "race_sleep")
  /\ UNCHANGED <<task_state, subs, notified, tree, cancelled, spawning, unwind>>

race_wake(v) ==
  /\ pc[v] = "race_sleep"
  /\ notified' = [notified EXCEPT ![v] = FALSE]
  /\ join' = [join EXCEPT ![v].todo = DOMAIN join[v].snapshot]
  /\ Goto(v, "race_poll")
  /\ UNCHANGED <<task_state, subs, tree, cancelled, spawning, unwind>>

-----------------------------------------------------------------------------
(* Awaiting one task, which uses the same locals.                          *)

Awaited(v) == Head(join[v].snapshot)

(* check_cancellation comes first, an action of its own: a finally that    *)
(* runs under its shield passes it.  Only a wait that blocks enters the    *)
(* BlockingRegion.                                                         *)
handle_await(v, t) ==
  /\ pc[v] = "run"
  /\ v \in Awaiting
  /\ t # v /\ pc[t] # "new"
  /\ join' = [join EXCEPT ![v] = [NoLocals EXCEPT !.snapshot = <<t>>,
                    !.region = IF promise[t] = "unset" THEN "OnPoolTasks" ELSE "none"]]
  /\ Goto(v, "await")
  /\ UNCHANGED <<task_state, subs, notified, tree, cancelled, spawning, unwind>>

(* future.get: the value, or the exception that ended the task, the        *)
(* CancelledException of another task included.                            *)
await_returns(v) ==
  LET outcome == promise[Awaited(v)] IN
  /\ pc[v] = "await"
  /\ outcome # "unset"
  /\ IF outcome = "value"
       THEN Goto(v, "run") /\ UNCHANGED unwind
       ELSE ThrowFrom(v, Len(stack[v]), outcome)
  /\ join' = [join EXCEPT ![v] = NoLocals]
  /\ UNCHANGED <<task_state, subs, notified, tree, cancelled, spawning>>

(* Every poll is a cancellation point of a task, but not in a finally that *)
(* runs under its shield, and may report a stall.                          *)
await_throws(v) ==
  /\ pc[v] = "await"
  /\ v # Main
  /\ join[v].region = "OnPoolTasks"
  /\ \/ is_cancelled(v) /\ ThrowFrom(v, Len(stack[v]), "cancelled")
     \/ Stalled /\ ThrowFrom(v, Len(stack[v]), "error")
  /\ join' = [join EXCEPT ![v] = NoLocals]
  /\ UNCHANGED <<task_state, subs, notified, tree, cancelled, spawning>>

-----------------------------------------------------------------------------

WorkerStep(t) == fetch(t) \/ claim_start(t) \/ start_task(t) \/ notify_completion(t)

JoinStep(v) ==
  \/ take_children(v) \/ subscribe_child(v) \/ subscribed(v)
  \/ abandon_unstarted_if_cancelled(v)
  \/ abandon_exchange(v) \/ abandon_handler(v) \/ abandon_notify(v) \/ abandon_done(v)
  \/ poll_child(v) \/ poll_again(v) \/ wait_for_children(v) \/ wake(v)
  \/ join_returns(v) \/ join_throws(v)
  \/ retire_task_scope(v) \/ Unwound(v)
  \/ add_child(v)
  \/ destroy_vm(v)

AwaitStep(v) == await_returns(v) \/ await_throws(v)

RaceStep(v) ==
  race_subscribe(v) \/ race_poll(v) \/ race_throws(v) \/ race_wait(v) \/ race_wake(v)

(* What the program does of its own accord.                                *)
Body(v) ==
  \/ \E s \in Scope : handle_task_scope_begin(v, s)
  \/ \E t \in Task : handle_spawn(v, t) \/ cancel_task(v, t) \/ handle_await(v, t)
  \/ \E R \in SUBSET Task : race(v, R)
  \/ throw_error(v)
  \/ check_cancellation(v)
  \/ handle_task_scope_end(v)
  \/ return_value(v)

Next ==
  \/ \E t \in Task : WorkerStep(t)
  \/ \E v \in VM : JoinStep(v) \/ report_stall(v) \/ AwaitStep(v) \/ RaceStep(v) \/ Body(v)

Spec == Init /\ [][Next]_vars

(* A cancelled task stops: whatever its finally blocks do, the exception   *)
(* of a cancellation point leaves its VM in the end.                       *)
StopsWhenCancelled(v) == check_cancellation(v) /\ unwind'[v].outcome = "cancelled"

(* Threads run, and cancelled tasks reach a cancellation point: a finally, *)
(* deaf under its shield, neither goes on nor awaits for ever.  Nothing is *)
(* assumed of tasks that are not cancelled.                                *)
Fairness ==
  /\ \A t \in Task : WF_vars(WorkerStep(t))
  /\ \A v \in VM : WF_vars(JoinStep(v) \/ AwaitStep(v) \/ RaceStep(v))
  /\ \A t \in Task : SF_vars(StopsWhenCancelled(t))

FairSpec == Spec /\ Fairness

(* Besides, every body comes to the end of its scopes and of its code, and *)
(* a stall that lasts outlives the grace period of verify_not_deadlocked.  *)
BodiesEnd ==
  /\ \A v \in VM : SF_vars(handle_task_scope_end(v) \/ return_value(v))
  /\ \A t \in Task : SF_vars(report_stall(t) \/ race_throws(t))

TerminatingSpec == FairSpec /\ BodiesEnd

-----------------------------------------------------------------------------
(* Properties.                                                             *)

(* The worker of t has claimed it and will resolve it.                     *)
Claimed(t) == pc[t] \notin {"new", "queued", "dequeued", "destroy", "finish", "done"}

(* claim_start against abandon_if_not_started: of the worker and the       *)
(* scope's teardown only one ever resolves a promise.  A second set_value  *)
(* or set_exception would throw in the worker.                             *)
ResolvedOnce ==
  \A t \in Task : Claimed(t) =>
    /\ promise[t] = "unset"
    /\ ~ \E v \in VM : pc[v] = "handler" /\ Turn(v) = t

(* No code has returned from inside a scope between x and t: those that    *)
(* were left so are above x.                                               *)
Intact(t, x) == \A r \in chain[t] \cap Scope : scopes[r] = "left" => r \in chain[x] \ {x}

(* Structured concurrency: once a task_scope has been joined or torn down, *)
(* every task spawned in it, and in the scopes those tasks opened, is      *)
(* resolved and none of their code runs.  The exception is what a task     *)
(* left behind that returned from inside a task_scope of its own: that     *)
(* scope is not joined, by it or by anybody above it.                      *)
NoOrphan ==
  \A s \in Scope, t \in Task :
    scopes[s] \in {"joined", "failed"} /\ s \in chain[t] /\ Intact(t, s) =>
      promise[t] # "unset" /\ pc[t] \in {"queued", "dequeued", "destroy", "finish", "done"}

(* Every task is in its place and none outlives its scope.                 *)
ChildrenAccounted == TypeOK /\ NoOrphan

IsChild(t, s) == chain[t] = {t} \cup chain[s]

(* A scope whose join returned results had no child that failed: the error *)
(* of a child is never lost, whatever was cancelled meanwhile.             *)
FailureSurfaces ==
  \A s \in Scope, t \in Task :
    scopes[s] = "joined" /\ IsChild(t, s) => promise[t] \in {"value", "cancelled"}

(* A task that ended as cancelled was cancelled, its own token or one it   *)
(* hangs from is set, or it awaits others and there is a task it can have  *)
(* the CancelledException from, directly or through the awaits of others:  *)
(* one that was cancelled itself.                                          *)
CancelledForAReason ==
  \A t \in Task : promise[t] = "cancelled" =>
    \/ is_cancelled(t)
    \/ t \in Awaiting /\ \E u \in Task \ {t} : promise[u] = "cancelled" /\ is_cancelled(u)

(* The outcome of a scope and of its tasks is one the program caused.      *)
OutcomesJustified == FailureSurfaces /\ CancelledForAReason

(* Somebody has resolved t and is about to call mark_complete on it.       *)
Marking(t) ==
  \/ pc[t] \in {"destroy", "finish"}
  \/ \E v \in VM : pc[v] = "notify" /\ Turn(v) = t

(* A joiner asleep on its CompletionSignal has not missed a child: one     *)
(* that is resolved and not collected has set the flag, or is about to.    *)
SignalNotMissed ==
  \A v \in VM : pc[v] = "sleep" =>
    \A i \in Uncollected(v) :
      LET t == join[v].snapshot[i] IN promise[t] # "unset" => notified[v] \/ Marking(t)

(* The same of Task.race: "Spawned tasks wake the waiter the moment they   *)
(* complete" (task_module.cpp).                                            *)
RaceNotMissed ==
  \A v \in VM : pc[v] = "race_sleep" =>
    \A t \in ToSet(join[v].snapshot) :
      promise[t] # "unset" => notified[v] \/ Marking(t)

Leaving(v, teardown) == pc[v] \in JoinPcs /\ join[v].teardown = teardown

(* A scope that is torn down is left although its tasks may run for ever:  *)
(* those that started are cancelled, and the others need no worker.  A     *)
(* child may itself be joining children that no worker is left to run.     *)
TeardownReturns == \A v \in VM : Leaving(v, TRUE) ~> ~Leaving(v, TRUE)

(* A normal join of tasks that end returns or throws, also when every      *)
(* worker is in such a join and the queued children can never run.         *)
JoinReturns == \A v \in VM : Leaving(v, FALSE) ~> ~Leaving(v, FALSE)

(* Task.race returns or throws: one of its tasks ends, the racing task is  *)
(* cancelled, or no worker is left to run any of them.                     *)
RaceReturns == \A v \in VM : pc[v] \in RacePcs ~> pc[v] \notin RacePcs

(* Whoever waits for tasks in a join or a race gets away.                  *)
WaitReturns == JoinReturns /\ RaceReturns
====
