# A TLA+ model of Luma

Luma is a statically typed language with a bytecode VM, a language server and a
debugger, all in C++.  This directory models the parts of it in which things
happen concurrently, fail or are undone in the middle, checks them with TLC on
small instances and proves some of their properties with TLAPS for every
instance.

Paths below are relative to the repository root.  `PROJECT.json` lists the
components, the runs, which lines each definition models (`map`), the seeded
faults that show that each property can fail (`mutants`), the hazards the
properties are aimed at, and the theorems.

## 1. Inventory

### The runtime (`core/runtime`)

| Part | State | Operations | Interaction | What is hard |
|---|---|---|---|---|
| Channel (`concurrency/channel.*`, `channel_buffer.hpp`) | ring or deque, `closed_`, two condition variables | send, receive, their timed and `try_` forms, close | shared by any VM threads; blocked calls poll a cancellation token | notification after the unlock, close against waiters, deadline against value, spurious wake-ups |
| Thread pool (`concurrency/thread_pool.*`) | a queue per worker, counters of queued tasks, live, blocked and task-blocked workers, `should_stop_` | enqueue, steal, execute, `BlockingRegion`, stall detection, destructor | VMs enqueue and block in it; it may start compensating workers | lost wake-ups, every worker waiting on queued work, shutdown with work queued, the soft limit of the queue |
| Task scopes (`concurrency/task_scope.*`, `task_completion.hpp`, `cancellation_token.hpp`, `vm/vm_dispatch_concurrency.cpp`) | a tree of scopes and tokens, `started_`, `complete_`, subscribers and the promise of each task | task_scope begin and end, spawn, join, tear-down, `Task.cancel`, `Task.race`, await | worker against joiner; exceptions unwind through scopes | start against abandon, fail-fast, joins that occupy the workers their children need, signals between poll and sleep |
| VM and compiler: control flow (`vm/`, `compiler/statement_compiler.cpp`) | frames, exception handlers, cancellation shields, open task scopes | try, catch, finally, return, break, continue, calls, callbacks from built-ins, cancellation | one thread per VM; other threads only set its token | each way out of a nest of blocks must undo exactly the blocks it leaves, under errors and a cancellation at any instruction |
| KeyValueStore (`stdlib/collections/keyvaluestore_module.cpp`) | a file, temporary files beside it, the entries in memory | open, reload, set, remove, clear, save, transaction, destroy | processes and tasks share the file | death in the middle of a save, failing I/O calls, concurrent saves, unreadable files |
| The rest of the VM, compiler, values, include resolver, REPL, CLI, library | - | - | sequential | - |

### The analysis library (`core/analysis`)

Lexer, parser, AST, type checker, linter and diagnostics: pure functions of the
source text, called by the CLI, the language server and the debugger.

### The language server (`language-server/source`) and the transport (`shared/protocol`)

The main thread reads one message after the other; a background worker analyses.
They share the document store, the analysis cache with its include graph and
the set of pending URIs (`state_mutex`), the set of URIs whose diagnostics are
forced (`force_diag_mutex_`), and two atomics, the cancel flag and `running_`.
Handlers lock several times, so the worker runs between their parts.  Hard: an
edit during the analysis of the older text, a cancel flag raised by one thread
and reset by the other, closing what is being analysed, diagnostics that go out
after the lock is released, skipping a document whose text did not change, and
shutdown.  The request handlers (completion, hover, rename...) are pure
functions of a cached result.

The transport frames messages by a Content-Length header, skips what is
oversized or not JSON, and searches for the next header after a frame it cannot
parse; the loop counts consecutive errors.  Hard: which bytes a malformed frame
costs, one answer for every request whatever happens to it, ids that are
cancelled and used again, a client that vanishes in the middle of a message.

### The debugger (`debugger/source`)

The protocol thread and the execution threads share a `ThreadState` each: paused
flag, step mode, pending stop reasons; the VM polls one request flag.  Hard:
continue against the wait for it, terminate, threads that come and go while all
are being paused or resumed, events that overtake one another, an editor that
goes away while events are being sent to it, breakpoints that are set before
their file is known or removed while a thread evaluates their condition.

### The rest

`core/common` (LRU cache, limits, codecs), `shared/json`, `extensions` (editor
glue, generated grammars), `external` (vendored), tests, fuzzers, benchmarks and
scripts.

## 2. Plan

1. `ChannelBuffer`, `ChannelSpec`, `Channel`, `ChannelProofs`. *Done.*
2. `ThreadPool`. *Done.*
3. `TaskScope`, over an abstract pool. *Done for scopes, spawn, await,
   cancel, race.*
4. `AnalysisPipeline`. *Done for document sync and the worker.*
5. `DebugEngine`, `Breakpoints`. *Done.*
6. `TaskUnwinding`: handlers, `finally`, shields, scopes. *Done.*
7. `KeyValueStore` and the abstract `KeyValueStoreSpec`. *Done.*
8. `ServerLoop`: transport, message loop, dispatch. *Done.*
9. Proofs: `ChannelProofs`, `ThreadPoolProofs`, `TaskScopeProofs`,
   `DebuggerProofs`, `AnalysisPipelineProofs`, `KeyValueStoreProofs`,
   `ServerLoopProofs`, `TaskUnwindingProofs`.  *Done for every safety invariant
   that a run checks, for both refinements, and for the action properties
   `NoFrameLost`, `CleanupRuns` and `HitsFollowBreakpoints`.*
10. Still open in the model: `Task.any`, `Task.all`, `Task.timeout`, function
    breakpoints, analysis timeouts.

`ChannelSpec` is the abstract specification of `Channel`, `KeyValueStoreSpec`
that of `KeyValueStore`.

## 3. The modules

### ChannelBuffer, ChannelSpec, Channel

`ChannelBuffer` has the two storage strategies as operators on a value:
`BoundedChannelBuffer`'s ring with `head_`, `tail_`, `count_` and slots that are
reset to `Value{}` (`Nil`), and `UnboundedChannelBuffer`'s deque with its cap.
`Capacity = 0` selects the deque, as the constructor does.

`Channel` has one action per operation.  What a thread does while it holds
`mutex_` is one step; the notification after the unlock is the next one (`pc` =
`notify_...`, `close_...`).  A blocked call is in the wait set (`wait`), or has
left it by a notification or spuriously (`awake`) or because its `wait_for` ended
(`polled`), and then checks its predicate again.  Deadlines pass and tokens are
cancelled at any moment.  A thread without a token (the main VM) waits without a
bound.  `outcome` records what the latest call reported.

`ChannelSpec` is a FIFO with atomic operations; `Channel` refines it under
`queue <- Contents(buffer)`.

### ThreadPool

The steps of `enqueue` (the check under the lock of one queue, the push, the
empty critical section on `mutex_`, the notification, the compensation check),
of `worker_loop` (own queue, stealing, the predicate under `mutex_`, the wait),
of `BlockingRegion`, of an await (its polling, its cancellation and
`verify_not_deadlocked`) and of the destructor.  Between reading the predicate and registering as a waiter a
worker is at `doze` with `mutex_` held: that window is what the empty critical
section of `enqueue` closes.  Starting a compensating worker may fail
(`OsRefusesThreads`).  Atomics are sequentially consistent in the model; the
code uses acquire/release and some relaxed loads of counters that are checked
again under a lock.

### TaskScope

VMs are named by the task they run, `Main` is the program.  The pool is
`Workers` threads that take queued tasks in any order, that is, the pool when no
compensating worker can be started any more.  A task is claimed by its worker or
abandoned by the scope (`started_.exchange`), resolved (the promise) and marked
complete, in separate steps: `abandon_if_not_started` is four of them.
`join_all` is modelled loop pass by loop pass; `collected` and `todo` are sets of
positions in its snapshot, as `collected[i]` is in the code.  A program is any interleaving of
the operations in `Body`.  The type checker rejects a spawn outside a
task_scope, so `handle_spawn` has that guard.

An await passes on what ended the task it waited for, so a task whose own token
is not set may end with the `CancelledException` of another (`await_returns`); it
is also a cancellation point and may report a stall (`await_throws`).
`return_value` may come with scopes still open: `VM::run` returns without a look
at them, the promise is set, and `~VM` cancels their tokens and joins nobody
(`destroy_vm`).  Such a scope is "left", not "joined" or "failed", and
`ChildrenAccounted` excepts what lies below it (`Intact`): a task that returned
from inside its task_scope is resolved, the scope it was spawned in is joined, and
its own children still run.  The constants `Racing`, `Awaiting`, `Returning`,
`Cancelling` and `Throwing` say which VMs have such code.

Abstractions: `mark_complete`'s swap and notifications are one step (the swap is
under its lock, and a subscriber that is notified late is only woken late); a
`finally` that runs during unwinding is a resumption followed by another
exception; what an await does to the pool's counters is in `ThreadPool`.

### AnalysisPipeline

A handler of the main thread is its first locked part plus `todo`, the list of
its remaining locked parts; the worker has a program counter.  A text is its own
hash (no collisions).  An analysis result is the text it was made from and the
included files as they were on disk.  `analyze` may finish, throw, or notice the
cancel flag.  The decision to publish (`publish_committed_diagnostics`) and the
publication (`send_diagnostics`) are two steps, because nothing is locked in
between.  `failed` is a history variable for the properties.

Left out: document versions and incremental edits, the semantic token cache, the
limit on background files, the LRU order of evictions (any evictable results may
go), analysis timeouts (a partial result is a result), re-scheduling when
`luma.json` changes.

### TaskUnwinding

`stack` is the nesting of blocks the program is in (try, catch, a `finally` as
the handler's copy or as the inlined copy, loop, task_scope, function call,
callback made by a built-in); the VM does not keep it.  What the VM keeps is
`handlers` (with the frame, the operand stack depth and the number of scopes at
the try), `shields` (frame and depth of the `finally` bodies in which a
cancelled task ignores its cancellation) and the number of open task scopes.  A
program is any nesting; every step may raise an error, and the token may be
cancelled at any time.  `compile_exit` and `resume_exit` are what the compiler
emits for return, break and continue: an `Op::TryEnd` per try that is left and
the `finally` bodies inlined.  `After` is what a built-in does when its callback
ends: rethrow (`each`), turn the error into a value (`map`), call the release
function (`Resource.with`).  `ScopeExits` and `FinallyExits` say whether
programs leave a task_scope or a `finally` by an exit; see the findings.

### DebugEngine, Breakpoints

`DebugEngine`: the protocol thread (`proto`) reads requests and serves them lock
by lock; `pc` is where each execution thread is: running, deciding in the line
hook, at a stop, asleep, starting or leaving a task.  `ts` holds each
`ThreadState`, `pause_requested` the flag the VM polls, `engine` the flags of
the session, `wire` the pipe, the send mutex and the disconnect callback.
`view` is what the editor was told of each thread.  A breakpoint is hit or not;
`Breakpoints` models which ones there are: `pending` before the session,
`path_bps` and `bound` in it, `shown` what the editor was told, `chk` a check
under way with the snapshot it took.

Left out: `noDebug`, a relaunch that fails on restart, frame depths and lines (a
step ends at any later line), the text of conditions, function breakpoints.

### KeyValueStoreSpec, KeyValueStore

`KeyValueStore` has `Client`s, each a process (or task) with one handle on one
file.  `write_store` is modelled call by call: create, write, flush, close,
rename, each of which may fail, with the clean-up of its failure path.  A client
may die anywhere, and the file may become unreadable (`damage`).  `whole` is
whether a file holds everything its writer meant to write.  `MaxFaults` bounds
deaths, failures and damage together.  `KeyValueStoreSpec` says what the module
promises: each load reads the contents of one moment or fails, each save
replaces the file or leaves it.

The model is of death of the process, not of the machine (the code flushes and
does not fsync).  Nested transactions are left out; transactions of different
clients are not isolated, in the model as in the code.

### ServerLoop

`input` is the stream as a sequence of pieces (a header with a length, another
header, the blank line, a body, a unit of garbage, a line of garbage).  The
loop's `phase` is headers, body, discard, resync or dispatch.  Lengths are in
units: a body of a well-formed message is one, `MaxMessage` is the limit.
`awaiting` are the requests the client has no answer to, `credit` the ids it has
cancelled and that were not used up.  `Malformed` are the frames the client may
send that are not messages: an oversized one, one that is not JSON, one without a
length, whose body may or may not end in a newline, and one with an over-long
header line in front of its length or after it.  `stray` says whether an
`Unskippable` one was sent: without a length, or with the over-long line after it
(`parse_headers` throws and the length is lost with it), and with a body that has
no newline.  The documentation says they can be recovered from and the code
cannot (see findings).

### The MC modules

`MCChannel`, `MCThreadPool` and `MCAnalysisPipeline` give one module its
constants.  `MCDebugger`, `MCComponents` and `MCLiveness` check several modules
that share no variable in one run: `part` chooses in the initial state which of
them moves, and the others stay in one initial state.  The states are the sum, not the product, of those of the
parts.  Their properties are those of the modules, restricted to the part where
that is needed.  `Breakpoints` and `TaskUnwinding` give `Init`, `Next`, `vars`
and `TypeOK` names of their own so that such a module can extend them beside
another one.

## 4. The runs

Bounds are in the `.cfg` files.  Every run is exhaustive within them.

| Run | Instance | What it shows |
|---|---|---|
| `channel_bounded` | 3 threads (one with a token), 2 values, capacity 2 | No receiver or sender sleeps through a value or a slot, `close()` leaves nobody behind, the ring is consistent, and the channel implements `ChannelSpec`.  Deadlock is checked. |
| `thread_pool` | 2 workers, 1 compensating, 4 tasks, queue limit 2, a region held plus an await on top | No lost wake-up, region counters and compensation (`WorkersAccounted`), drained queues at the end, and the documented overshoot of the queue limit. |
| `thread_pool_liveness` | 1 worker, 1 compensating that the OS may refuse, 2 tasks | Every task runs; the destructor returns when nobody is left awaiting. |
| `task_scope` | 2 tasks on 1 worker, 2 nested scopes; main cancels, a task throws, awaits and may return from inside its scope | No task outlives a scope that was joined or torn down, but below a scope that was returned from (`ChildrenAccounted`), no missed completion (`SignalNotMissed`), one resolver per task (`ResolvedOnce`), errors surface and a cancellation is that of the task or of one it awaits (`OutcomesJustified`), tear-down returns (`TeardownReturns`).  With more workers and scopes the four invariants are proved. |
| `task_scope_liveness` | 2 tasks on 1 worker, 2 scopes, a racing task | Joins and races return, by a stall report if need be (`WaitReturns`). |
| `analysis` | 2 documents, one including the other, 2 texts, 3 messages, cache of 1 | No lost edit, no stale skip, no stranded worker. |
| `debugger` | engine: main and 1 task, 2 requests, exceptions, broken pipe; breakpoints: 2 files, 2 lines, 2 breakpoints a request, 3 requests, a restart, 1 thread | The paused counter is right (`StopsCounted`), the editor knows who is stopped, no armed thread and no resume is lost; ids (`EditorKnowsBreakpoints`), the active flag and hit counts hold through every order of setBreakpoints, loading and checking. |
| `components` | store: 2 processes, 2 keys, 4 calls, 1 fault; unwinding: 4 nested blocks; channel: the deque, 3 threads, cap 2 | The store file is whole and no temporary file is forgotten (`DirectorySound`), `KeyValueStore` implements `KeyValueStoreSpec`; handlers, shields and scopes match the program (`VmMatchesProgram`), clean-up is never skipped (`CleanupRuns`); the deque implements `ChannelSpec`. |
| `message_loop` | 2 ids, 4 frames, 6 kinds of malformed ones, 3 errors in a row, a resync of 4 lines, 1 cancelled id remembered | Every request gets its answer and a cancellation is used once (`RequestsServedOnce`), a frame that is not `Unskippable` costs no message (`NoFrameLost`), answers come and the loop ends with its client (`LoopServes`). |
| `liveness` | engine: main and 1 task, 1 request plus terminate or a broken pipe; pipeline: 1 document, 2 texts, 4 messages; channel: 2 threads, 1 value, capacity 1 | terminate returns, a vanished editor ends the session, a pause is honoured, the analysis and the diagnostics catch up; timed channel calls, calls of cancelled tasks and calls on a closed channel return (`CallsReturn`). |
| `analysis_stop` | 1 document, 1 message | *Violated*: see findings. |
| `task_scope_exit` | 4 nested blocks, exits out of task_scope | *Violated*: see findings. |

Why these bounds: three threads are the least with two waiters of a kind and a
third that notifies, and a capacity of two is the least at which the ring wraps
between a full and an empty buffer.  For the liveness of a call two threads
suffice, the one that waits and one that notifies it and takes the value back
again and again: what ends the call is its own deadline, its token or the close.
Four tasks and two workers are the least
with which two enqueuers pass the check of the limit at once.  Two tasks on one
worker are the least in which a join occupies the worker its child needs.  Three
messages reach open, edit and close (or save) around one analysis.  Four blocks
are a callback or call, a loop and two try blocks in any order, so that an exit
crosses a `finally` inside another; five blocks were run once, without an error
(5.0 million states).  Two setBreakpoints around a third reach a breakpoint that is
replaced during a check and sent again.  Four calls on a store are two loads, a
change and a save, or two concurrent saves after their changes.  Four frames are
a request, its cancellation, garbage and a second request with the same id.
A resync of four lines is the least in which an `Unskippable` frame of either kind
costs a message before the search gives up: without `stray` this run fails.

`CHECK_DEADLOCK FALSE` is given where the system may stop: a pool that was
destroyed, a program that has ended, a server after its last message.

Several properties are conjunctions of named invariants of their module
(`WorkersAccounted`, `VmMatchesProgram`, ...): the parts have their own
definitions and comments.

### Fairness

*Channel*: a runnable thread runs and clocks advance; strong fairness of the poll
interval, because `wait_for` keeps its absolute end over wake-ups.  No fairness
for callers, `close()` or cancellation.
*ThreadPool*: threads run, and a mutex that is free again and again is obtained;
a task ends when it is not waiting.  Nothing obliges the program to spawn, to
block or to destroy the pool.
*TaskScope*: threads run and cancelled tasks reach a cancellation point (calls,
loop back-edges and awaits check the token): a `finally`, which a shield makes
deaf, is assumed to end.  `TerminatingSpec` adds that bodies
end, which `WaitReturns` needs and `TeardownReturns` does not, and that a stall
that lasts outlives the grace period.
*AnalysisPipeline*: both threads run and the main thread obtains `state_mutex`
when it is free again and again; no message has to arrive.
*DebugEngine*: every thread that can take a step does, a running program keeps
reaching lines or cancellation points, and the protocol thread serves what it
has read; no request has to come.
*ServerLoop*: the loop runs; the client owes nothing.

### Findings

* `analysis_stop`: `running_` is cleared and `analysis_cv_` notified without
  `state_mutex` (`lsp_server.cpp:211`).  A worker that has evaluated its
  predicate and not yet registered as a waiter misses both, and `stop()`, "Stop
  the background worker and join its thread.", waits for ever.
* `task_scope_exit`: return, break and continue out of a task_scope block compile
  to `Op::TryEnd` for the try blocks they leave and to nothing for the scope
  (`statement_compiler.cpp:119-141`, `:223-241`); neither parser nor type checker
  rejects them.  The scope stays open in the VM, its tasks are not joined where
  "all tasks spawned inside the block are automatically awaited before the scope
  exits" (`documents/Luma_Standard_Library_Reference.md:2133`).  When the exit ends
  a task, the task is resolved and whoever joins it goes on while those tasks run:
  that is the exception in `ChildrenAccounted`, which is refuted without it.

TLC refutes further formulas that say what a comment or a document says; no run
is kept for them.

* `DependentsRefreshed` (`AnalysisPipeline`, 2 documents): `didSave` promises to
  "re-schedule every dependent of B" (`lsp_server_workspace.cpp:262`), and does,
  but `analyze_single_uri` skips a dependent because its own text has not changed
  (`lsp_analysis_pipeline.cpp:197`).
* `ClosedIsCleared`, `SavedIsPublished` and, for a document that was indexed in
  the background first, `DiagnosticsCatchUp` (`AnalysisPipeline`, one document):
  diagnostics decided on before didClose go out after it; saving a document that
  is already analysed publishes nothing in diagnostics-on-save mode; a document
  indexed in the background, opened with another text and changed back is
  skipped and its diagnostics are never sent.
* `DestructorReturns` (`ThreadPool`, the instance of `thread_pool_liveness`):
  after the stop a worker that starts to await a queued task gets no
  compensating worker and no stall report.  Luma programs do not get there,
  because spawned tasks are joined by their scope.
* `RaceNotMissed` (`TaskScope`, 3 tasks on 2 workers with one racing and one
  throwing): a worker that finds its task abandoned marks it complete before the
  abandoner sets the promise, so a race may sleep until its 50 ms poll.
* `ReleaseGuaranteed` (`TaskUnwinding`): `Resource.with` "guarantees that a
  cleanup function is called" (`Luma_Standard_Library_Reference.md:1773`), but
  the call is a cancellation point, so a cancelled task does not make it.
* `ShieldsMatch` and `CleanupRuns` with `FinallyExits = TRUE`: a break or
  continue out of a `finally` that a cancelled task is in leaves the shield
  behind, and the frame is deaf to the cancellation from then on; a `finally`
  that exits on every path has no reachable `Op::Rethrow`, is not recognised as
  a clean-up handler, and is skipped by a cancellation ("`finally` always runs",
  `Luma_User_Manual.md:761`).
* `ResyncRecovers` (`ServerLoop`): after a frame without a Content-Length, or with
  an over-long header line after it (`transport.cpp:153-160` drops the length),
  whose body does not end in a newline, the line that the search reads starts with
  that body and the next message is lost with it (`error_recovery.hpp:32` says the
  transport resyncs to the next boundary).
* `ShutsDownCleanly` (`ServerLoop`): the loop's own handler of a read error
  writes a log message, and on a broken pipe that throws out of `run()`
  (`main.cpp` promises a clean shutdown).

Found while reading, outside of the models: `emit_loop_scope_unwind` subtracts
sizes that can be the wrong way round when a `finally` with a break is inlined at
a return inside an inner loop (`statement_compiler.cpp:129`); after a debugger
restart the breakpoints get ids the editor is not told of; the comment on pending
ids (`breakpoint_shared_context.hpp:91`) says they become positive, and they stay
negative; a pause that arrives before the VM is attached is lost; a pending pause
may be given as the reason of a later stop.

## 5. The proofs

Each theorem holds for every value of the constants that satisfies the named
assumptions: any number of threads, tasks, scopes, clients, documents, and any
limits.  The theorems are in modules of their own, one per component.

| Module | Theorem | States |
|---|---|---|
| `ChannelProofs` | `TypeCorrect` | `TypeOK`; the ring's indices and count stay in range |
| | `RingSound` | `RingConsistent`: no index leaves the ring, and the values fill exactly the `count_` slots from `head_` on |
| | `CloseReachesEveryWaiter`, `ReceiversAreWoken`, `SendersAreWoken` | no waiter sleeps through a close, a value or a slot |
| | `Refinement` | `Channel` implements `ChannelSpec`, with the ring and with the deque |
| `ThreadPoolProofs` | `QueueCapped` | `SoftCap` |
| | `WakeupsKept` | `NoLostWakeup` |
| | `PoolDrained` | `Drained` |
| | `CountersCount` | `TypeOK` and `RegionsCounted`, whether or not threads can be started |
| | `NeverShortOfWorkers` | `WorkersAccounted`, unless `OsRefusesThreads` |
| `TaskScopeProofs` | `NoTaskOutlivesItsScope` | `ChildrenAccounted`: for every scope that was joined or torn down, but not below one that was returned from |
| | `OneResolver` | `ResolvedOnce` |
| | `NoChildIsMissed` | `SignalNotMissed` |
| | `OutcomesHaveCauses` | `OutcomesJustified`: no failure is lost, and cancellation spreads by the tokens and by awaits only |
| `TaskUnwindingProofs` | `VmFollowsTheProgram` | `VmMatchesProgram`, for `Structured` programs |
| | `NoCleanupIsSkipped` | the action property `CleanupRuns`, for `Structured` programs |
| `DebuggerProofs` | `PausesCounted`, `ResumesKept`, `BreakpointsKept`, `EditorInformed` | `StopsCounted`, `NoLostResume`, `BreakpointsArmed`, `ClientInformed` |
| | `EditorAlwaysKnows` | `EditorKnowsBreakpoints`: unique ids, bound breakpoints are shown ones |
| | `FlagIsAlwaysTrue` | `FlagIsTrue` |
| | `HitsAlwaysFollow` | the action property `HitsFollowBreakpoints` |
| `AnalysisPipelineProofs` | `SkippedCached`, `EditsKept` | `SkippedIsCached`, `EditsAccounted` |
| `KeyValueStoreProofs` | `Soundness` | `DirectorySound` |
| | `Refinement` | `KeyValueStore` implements `KeyValueStoreSpec` |
| `ServerLoopProofs` | `RequestsServed` | `RequestsServedOnce` |
| | `FramesKept` | the action property `NoFrameLost`, of streams without an `Unskippable` frame |

Each module begins with the lemmas it needs about the data: what adding,
removing or exchanging one element does to a cardinality, what appending,
cutting and mapping do to a sequence.

### Assumptions

`BufferAssumption` (`Nil` is not a value, capacities are natural numbers, the cap
is positive), `ThreadAssumption`, `PoolAssumption` (finitely many tasks, at least
one worker, a positive queue limit), `ScopeAssumption` and `NoTaskAssumption`
(finitely many tasks and scopes, `Main` and `NoTask` are not tasks, at least one
worker), `DebugAssumption`, `PipelineAssumption`, `ClientAssumption`,
`BreakpointAssumption` (finitely many paths, finitely many lines with code, lines
and bounds are natural numbers), `KeyAssumption`, `LimitAssumption`,
`LoopAssumption` (the kinds of malformed frames are those of `Malformed`; the
limits are natural numbers, those of a message and of errors in a row are
positive).  They say that sets are finite and markers are not values; TLC
evaluates each in the runs of its module.

The theorems on `TaskUnwinding` have a hypothesis, `Structured`: the program does
not leave a task_scope or a `finally` by an exit (`ScopeExits` and `FinallyExits`
are false) and the bound on the nesting is a number.  It is there because the
conclusion is false without it: `ScopesMatch` fails with `ScopeExits` (the run
`task_scope_exit`), `ShieldsMatch` and `CleanupRuns` with `FinallyExits` (see
Findings).  The run `components` checks the same programs.

### The arguments

*Channel.*  `TypeOK` is not inductive: a woken sender pushes the value of its
call, which `TypeOK` allows to be `Nil`.  `Inv` adds `CallOK`: a thread has a
call record exactly while it is blocked, a blocked send carries a value, and only
a bounded channel has blocked senders.  `StepCases` reduces `Next` to a locked
send, a locked receive, `close()`, a wake-up, or time and cancellation, and
`SendOutcome`, `ReceiveOutcome`, `WakeOutcome` say what each does to the wait
sets.  The wake-up theorems count: a push adds one value and one notifier, a
notification turns a notifier and a waiter into a woken receiver, and a woken
receiver is spent on a pop or finds the buffer empty.  For the ring, `RingOK`
says which slots are full by their distance from `head_`; `PushContents` and
`PopContents` then show that a push appends to `Contents` and a pop takes its
head, which is what the refinement needs of the buffer.

*Thread pool.*  The invariant comes in layers, each proved with those before it.
`Control`: where a thread may be and which lock it holds there.  `Regions`: the
counters are those of the open regions, whose first one counts as blocked.
`Accounted`: a spawned task is on one queue once or runs on one worker, and
`total` counts them.  `StepEffects` then reduces each action to what the last
four layers look at (who moved where, what was pushed or taken).  `CapOK`: tasks
counted and enqueuers past the check are at most `MaxQueue + Workers - 1`,
because each of those holds the lock of a queue.  `DozeOK`: while a worker is
between its predicate and its registration, every queued task has a worker that
looks for work or an enqueuer still before its critical section on the mutex.
`ExitOK`: the last worker to leave saw the queues empty.  `Compensated`: with
every worker blocked and work queued, somebody has still to look at the counters.
`NeverShortOfWorkers` excludes `OsRefusesThreads` because a thread that cannot be
started is the one way in which the code gives up compensation; the stall report
takes over there, and `thread_pool_liveness` checks that case.

*Task scopes.*  Once a scope is joined nothing below it may be unresolved, save
below a scope that a task returned from, although its tasks open scopes and
spawn in turn.  `LineageOK` makes that inductive: a
scope above an unresolved task, with no scope from there down to the task
returned from (`Intact`), is open and has an unresolved child, above the task or
the task itself, that it still knows of: recorded, just spawned, or in the hands
of the VM that joins it (`Kid`).  A scope is joined only when it knows of no such
child, so it has no unresolved descendant but through a scope returned from.  `StacksOK` and `FreshOK`
say that the open scopes are on the stacks, each once, and that what does not
exist yet hangs below nothing; `PromiseOK` and `HandlerOK` settle the race
between `claim_start` and `abandon_if_not_started`.  For `SignalNotMissed`,
`Signals` says that a joiner is subscribed to every child it has not collected,
and that a child that completed since has set its flag or has a worker that is
about to.  For the outcomes, `Reasons` says that a scope that
abandons a child has a token above it that is set, and that whoever unwinds as
cancelled is `Excused`, by such a token or by an awaited task that was cancelled
itself: what an await passes on is `Excused` already, so chains of awaits are.
`FailuresKept`, last, follows a failed
child: it is recorded, just spawned, or not collected, or is the first
error or behind it, or its scope is being retired by an error already.

*Debugger.*  `PlaceOK` says where each thread may be and what its `ThreadState`
is there; `WakeOK` and `ArmedOK` are `NoLostResume` and `BreakpointsArmed` with
what a stopped thread must keep in order to run on; `InformedOK` adds that where
the editor already believes a waiting thread to run, the request that told it so
has that thread ahead of it.  `StopOK` and `StartOK` say that nothing is left of
a session once `terminate()` has joined, and no task exists before the program
starts; without them a later launch would break the rest.

*Breakpoints.*  The ids alone are not inductive: `BPInv` adds where they come
from.  `BPIdsOK` says that the ids of a session lie below `next_id`, and that a
request which waits has none or one between `next_pending_id` and 0 that no other
has.  `BPBoundOK` says that a file has no bound breakpoint or one for each
request, with its id and conditions, at its line with code (`Agrees`), so that
`resolve_pending_breakpoints`, which binds what has no id among the bound ones,
binds all or nothing.  `BPShownOK` says that the editor was told of every request
under its id, also of those that wait, for `launch` gives them to the session
unannounced.  Setting the breakpoints of a compiled file is a loop over the
requests: `LoopOK` is its invariant (the breakpoints left over, those adopted and
those made share no id), and `BindAll` carries it from request to request
(`LoopTakes`, `LoopMakes`).  A new session counts: the id of a request without
one is the number of such requests before it (`BeforeCount`), in whatever order
the files are taken, so ids are distinct (`BeforeOrder`) and below `next_id`
(`BeforeAll`).  `HitsFollowBreakpoints` follows, for an adopted breakpoint takes
id and hits together and a made one takes an id that no other has had.

*Analysis pipeline.*  The main thread's unfinished handler is a list (`todo`), so
its locked parts are proved one by one (`Handled`, `Moved`), as are the worker's
(`Walked`, `CommitOK`).  `TodoOK` says that a handler which still has documents
to schedule has the notification behind them.  `SkippedIsCached` needs that what
is evicted or dropped from the cache belongs to a document that is not tracked.

*KeyValueStore.*  `TempsOK`: a writer has a temporary file of its own, which
nobody has given up and which, once flushed, is the whole store.  `CounterOK`:
names are never reused.  The refinement maps the rename to the abstract save and
every other step of a writer to a stutter or to a failed save.

*Message loop.*  That requests are answered depends on where the reader is in the
client's bytes.  `Places` are the states of an automaton that reads whole frames,
good and malformed; `Parses(q, s)` says that the stream `s` leads it from `q` back
to the start of a frame, by a labelling of the positions of `s`, so that no
recursion is needed.  `Aligned` is the invariant: from one of the places that the
reader's phase, length and buffered header allow, the rest of the stream parses.
The client keeps it by adding whole frames (`ParsesConcat`).  For the transport,
`LinesKeepBodies` says that a line read outside a body takes no body and ends at
a place again, also when the line is too long and is left in the middle, and
`BodiesParse` that a body of the announced length is one body.  So a step takes a
body only to dispatch it (`Consumes`), which is `NoFrameLost`, and a request
without an answer is in the stream or is the message being dispatched
(`RequestsKept`).  `Aligned` needs `~stray`: after a body without a newline whose
length is missing or lost the code does lose frames (`ResyncRecovers`, Findings).

*VM and compiler.*  The program's nesting `stack` and the VM's three lists are
changed by different instructions, each by a rule of its own: a return cuts at
the innermost activation, a break takes one handler for each try it leaves, an
error goes to the last handler of the run and drops what its frame and depth
say, a built-in drops what is above its base frame.  `IInv` says that they agree
at every moment.  `HandlersMatch` needs `Types` and `Rooted` (the bottom of a
running task is its own activation, so there is a frame to return to).
`CallbacksOK` makes the scopes come out right when a callback ends by an error: a
callback keeps the number of scopes open at its start.  `ScopesOK` is
`ScopesMatch` without its premise that nothing is being thrown: only a failed
join, which has retired the scope of the innermost block, is ahead by one.
`ShieldsOK` orders the shields by frame and depth (`Below`), because the VM
compares those when it removes them, and gives each the block it belongs to
(`Guards`).  `ExitsOK` says that a `finally` which delays an exit stands where
the exit could be taken: its loop is there, and it leaves no task_scope and, for
break and continue, no clean-up.  The depth of the operand stack is the number of
slots that the blocks hold (`Slots`), a cardinality and no recursive sum, so the
lemmas on finite sets apply; `Nesting` orders the blocks by frame and depth, and
`HandlersCut`, `ShieldsCut` and `ScopesKept` say what remains of the lists when
`stack` is cut at a block, which is what every exit and every error does.

### What is only model-checked

All liveness properties: fairness and `ENABLED` are out of the prover's reach.
The inductive invariants were checked by TLC on the instances of the runs before
they were proved.  What the operators on sequences compute for any length is
proved only where a quantifier over positions says it: the ring, the snapshot of
a join, the requests of a setBreakpoints.

## 6. Not modelled

Lexer, parser, type checker, linter, the expression part of the compiler, the
arithmetic, pattern and collection opcodes of the VM and most of the library:
pure functions or sequential code whose correctness needs a semantics of Luma,
not a state machine.  REPL, CLI, JSON, editor extensions, vendored code: input,
output and glue.  These are nearly all of the repository's lines: a third of
them is one generated parser (`extensions/zed/.../parser.c`), and tables of
built-ins, formatting, codecs and wrappers of system calls are most of the rest.
The parts with state that several actors touch, or that failures can leave half
changed, are a few thousand lines, and those are what the modules above cover.

Of the modelled components: `Task.any`, `Task.all`, `Task.timeout`; nested store
transactions; function breakpoints, `noDebug`, a failed relaunch; the semantic
token cache, incremental edits and analysis timeouts of the language server.
