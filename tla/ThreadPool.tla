----------------------------- MODULE ThreadPool -----------------------------
(***************************************************************************)
(* core/runtime/concurrency/thread_pool.cpp: the work-stealing pool that   *)
(* runs spawned tasks.  A task is pushed under its queue's local_mutex; a  *)
(* worker looks for work, and decides to sleep, under mutex_.  The two do  *)
(* not exclude one another, so every step between them is an action.       *)
(*                                                                         *)
(* Atomics are sequentially consistent here.  queue_size changes only      *)
(* under local_mutex, with the deque: it is Len(queue[i]), and the scan of *)
(* has_any_work is one read.  live_workers_ changes under mutex_, with     *)
(* workers_: it is the number of workers started.                          *)
(***************************************************************************)
EXTENDS Integers, Sequences, FiniteSets

CONSTANTS
  Task,             (* the task objects                                    *)
  Workers,          (* thread_count: the base workers, one queue each      *)
  MaxCompensating,  (* max_compensating_workers_                           *)
  MaxQueue,         (* ResourceLimits::max_task_queue_size                 *)
  MaxNesting,       (* bound of the model: regions held while a task goes on *)
  OsRefusesThreads  (* TRUE if starting a thread may throw system_error    *)

NoTask == "none"

ASSUME PoolAssumption ==
  /\ IsFiniteSet(Task) /\ NoTask \notin Task
  /\ Workers \in Nat \ {0}
  /\ MaxCompensating \in Nat
  /\ MaxQueue \in Nat \ {0}
  /\ MaxNesting \in Nat
  /\ OsRefusesThreads \in BOOLEAN

VARIABLES
  queue,        (* local_queue of each base worker                         *)
  local_mutex,  (* who holds each queue's local_mutex across two steps     *)
  mutex,        (* who holds mutex_ across two steps                       *)
  total,        (* total_task_count_: queued or running                    *)
  should_stop,  (* should_stop_                                            *)
  live,         (* live_workers_ = workers_.size()                         *)
  blocked,      (* blocked_workers_                                        *)
  on_tasks,     (* blocked_on_tasks_                                       *)
  pc,           (* where each thread is                                    *)
  arg,          (* the task and the queue of a thread's current operation  *)
  after,        (* where maybe_add_compensating_worker returns to          *)
  job,          (* the task each worker runs                               *)
  regions,      (* the BlockingRegions open on each worker, outermost first*)
  status,       (* what became of each task                                *)
  spawner       (* the task that spawned each task                         *)

core == <<queue, local_mutex, mutex, total, should_stop, live>>
regs == <<blocked, on_tasks, regions>>
tasks == <<job, status, spawner>>
vars == <<core, regs, tasks, pc, arg, after>>

Nobody == -1
Main   == 0                        (* the VM that owns the pool            *)
Base   == 1..Workers
Worker == 1..(Workers + MaxCompensating)
Thread == {Main} \cup Worker

NoArg  == [task |-> NoTask, q |-> 1]

(* counts_*: this region is the outermost of its kind; since: a stall was  *)
(* seen at the latest poll.                                                *)
Region == [on_pool_tasks : BOOLEAN, counts_blocked : BOOLEAN,
           counts_on_tasks : BOOLEAN, since : BOOLEAN]

EnqueuePcs == {"enq_lock", "enq_push", "enq_sync", "enq_notify"}
CompPcs    == {"comp", "comp_lock"}
Pcs == {"off", "fetch", "steal", "lock", "doze", "sleep", "exited",
        "run", "await", "verify", "verify_failed",
        "stop_notify", "join", "joined"} \cup EnqueuePcs \cup CompPcs

(* Type invariant.                                                         *)
TypeOK ==
  /\ queue \in [Base -> Seq(Task)]
  /\ local_mutex \in [Base -> Thread \cup {Nobody}]
  /\ mutex \in Worker \cup {Nobody}
  /\ total \in Nat
  /\ should_stop \in BOOLEAN
  /\ live \in Workers..(Workers + MaxCompensating)
  /\ blocked \in Nat
  /\ on_tasks \in Nat
  /\ pc \in [Thread -> Pcs]
  /\ arg \in [Thread -> [task : Task \cup {NoTask}, q : Base]]
  /\ after \in [Thread -> {"run", "await", "verify"}]
  /\ job \in [Worker -> Task \cup {NoTask}]
  /\ regions \in [Worker -> Seq(Region)]
  /\ status \in [Task -> {"new", "spawned", "done"}]
  /\ spawner \in [Task -> Task \cup {NoTask}]

Init ==
  /\ queue = [i \in Base |-> <<>>]
  /\ local_mutex = [i \in Base |-> Nobody]
  /\ mutex = Nobody
  /\ total = 0
  /\ should_stop = FALSE
  /\ live = Workers
  /\ blocked = 0
  /\ on_tasks = 0
  /\ pc = [t \in Thread |-> IF t = Main THEN "run"
                            ELSE IF t \in Base THEN "fetch" ELSE "off"]
  /\ arg = [t \in Thread |-> NoArg]
  /\ after = [t \in Thread |-> "run"]
  /\ job = [w \in Worker |-> NoTask]
  /\ regions = [w \in Worker |-> <<>>]
  /\ status = [k \in Task |-> "new"]
  /\ spawner = [k \in Task |-> NoTask]

Goto(t, l) == pc' = [pc EXCEPT ![t] = l]

has_any_work == \E i \in Base : queue[i] # <<>>

-----------------------------------------------------------------------------
(* Enqueueing.                                                             *)

(* The first of the shortest queues, as a set of one.                      *)
pick_best_worker ==
  {i \in Base :
    /\ \A j \in Base : Len(queue[i]) <= Len(queue[j])
    /\ \A j \in 1..(i - 1) : Len(queue[j]) > Len(queue[i])}

RunningTask(t) == IF t = Main THEN NoTask ELSE job[t]

(* A running task, or the program itself, spawns: enqueue() picks a queue. *)
enqueue(t, k) ==
  /\ pc[t] = "run"
  /\ status[k] = "new"
  /\ \A u \in Thread : arg[u].task # k
  /\ \E i \in pick_best_worker : arg' = [arg EXCEPT ![t] = [task |-> k, q |-> i]]
  /\ Goto(t, "enq_lock")
  /\ UNCHANGED <<core, regs, tasks, after>>

(* Seeded fault: the limit is off by one.                                  *)
enqueue_check_late(t) ==
  /\ pc[t] = "enq_lock"
  /\ local_mutex[arg[t].q] = Nobody
  /\ IF should_stop \/ total > MaxQueue
     THEN /\ Goto(t, "run")
          /\ arg' = [arg EXCEPT ![t] = NoArg]
          /\ UNCHANGED local_mutex
     ELSE /\ Goto(t, "enq_push")
          /\ local_mutex' = [local_mutex EXCEPT ![arg[t].q] = t]
          /\ UNCHANGED arg
  /\ UNCHANGED <<queue, mutex, total, should_stop, live, regs, tasks, after>>

(* enqueue_to_worker, its two checks: a stopped or full pool throws.       *)
enqueue_check(t) ==
  /\ pc[t] = "enq_lock"
  /\ local_mutex[arg[t].q] = Nobody
  /\ IF should_stop \/ total >= MaxQueue
     THEN /\ Goto(t, "run")
          /\ arg' = [arg EXCEPT ![t] = NoArg]
          /\ UNCHANGED local_mutex
     ELSE /\ Goto(t, "enq_push")
          /\ local_mutex' = [local_mutex EXCEPT ![arg[t].q] = t]
          /\ UNCHANGED arg
  /\ UNCHANGED <<queue, mutex, total, should_stop, live, regs, tasks, after>>

(* enqueue_to_worker, the rest of the critical section.                    *)
enqueue_push(t) ==
  /\ pc[t] = "enq_push"
  /\ queue' = [queue EXCEPT ![arg[t].q] = Append(@, arg[t].task)]
  /\ total' = total + 1
  /\ local_mutex' = [local_mutex EXCEPT ![arg[t].q] = Nobody]
  /\ status' = [status EXCEPT ![arg[t].task] = "spawned"]
  /\ spawner' = [spawner EXCEPT ![arg[t].task] = RunningTask(t)]
  /\ arg' = [arg EXCEPT ![t] = NoArg]
  /\ Goto(t, "enq_sync")
  /\ UNCHANGED <<mutex, should_stop, live, regs, job, after>>

(* Seeded fault: the notification is not serialised with the sleepers.     *)
enqueue_no_sync(t) ==
  /\ pc[t] = "enq_sync"
  /\ Goto(t, "enq_notify")
  /\ UNCHANGED <<core, regs, tasks, arg, after>>

(* { const std::scoped_lock lock{mutex_}; }                                *)
enqueue_sync(t) ==
  /\ pc[t] = "enq_sync"
  /\ mutex = Nobody
  /\ Goto(t, "enq_notify")
  /\ UNCHANGED <<core, regs, tasks, arg, after>>

(* notify_one, then maybe_add_compensating_worker.                         *)
enqueue_notify(t) ==
  /\ pc[t] = "enq_notify"
  /\ LET Sleeping == {w \in Worker : pc[w] = "sleep"} IN
     IF Sleeping = {} THEN Goto(t, "comp")
     ELSE \E w \in Sleeping : pc' = [pc EXCEPT ![t] = "comp", ![w] = "lock"]
  /\ after' = [after EXCEPT ![t] = "run"]
  /\ UNCHANGED <<core, regs, tasks, arg>>

-----------------------------------------------------------------------------
(* maybe_add_compensating_worker: called by an enqueuer, by a worker that  *)
(* opens a region and by every poll of a worker that awaits a task.  It    *)
(* returns to after[t]; false matters to the polling waiter only.          *)

ReturnTrue(t)  == Goto(t, after[t])
ReturnFalse(t) == Goto(t, IF after[t] = "verify" THEN "verify_failed" ELSE after[t])

(* The lock-free part: a worker can run, or there is nothing to run.       *)
maybe_add_fast(t) ==
  /\ pc[t] = "comp"
  /\ IF blocked < live \/ ~has_any_work THEN ReturnTrue(t) ELSE Goto(t, "comp_lock")
  /\ UNCHANGED <<core, regs, tasks, arg, after>>

(* Under mutex_.  The new worker runs worker_loop.                         *)
maybe_add_compensating_worker(t) ==
  /\ pc[t] = "comp_lock"
  /\ mutex = Nobody
  /\ IF should_stop \/ blocked < live
     THEN ReturnTrue(t) /\ UNCHANGED live
     ELSE IF live >= Workers + MaxCompensating
     THEN ReturnFalse(t) /\ UNCHANGED live
     ELSE \/ /\ live' = live + 1
             /\ pc' = [pc EXCEPT ![t] = after[t], ![live + 1] = "fetch"]
          \/ /\ OsRefusesThreads
             /\ ReturnFalse(t)
             /\ UNCHANGED live
  /\ UNCHANGED <<queue, local_mutex, mutex, total, should_stop, regs, tasks, arg, after>>

-----------------------------------------------------------------------------
(* BlockingRegion, on a worker that runs a task.                           *)

OnTasksDepth(w) == Cardinality({n \in 1..Len(regions[w]) : regions[w][n].on_pool_tasks})
Top(w) == regions[w][Len(regions[w])]

BlockingRegion(w, on_pool_tasks, next) ==
  LET r == [on_pool_tasks |-> on_pool_tasks,
            counts_blocked |-> regions[w] = <<>>,
            counts_on_tasks |-> on_pool_tasks /\ OnTasksDepth(w) = 0,
            since |-> FALSE]
  IN /\ regions' = [regions EXCEPT ![w] = Append(@, r)]
     /\ blocked' = blocked + (IF r.counts_blocked THEN 1 ELSE 0)
     /\ on_tasks' = on_tasks + (IF r.counts_on_tasks THEN 1 ELSE 0)
     /\ after' = [after EXCEPT ![w] = next]
     /\ Goto(w, IF r.counts_blocked \/ r.counts_on_tasks THEN "comp" ELSE next)

(* Seeded fault: the count of workers waiting on tasks is not taken back.  *)
release_blocked_only(w) ==
  LET r == Top(w)
  IN /\ regions' = [regions EXCEPT ![w] = SubSeq(@, 1, Len(@) - 1)]
     /\ blocked' = blocked - (IF r.counts_blocked THEN 1 ELSE 0)
     /\ UNCHANGED on_tasks
     /\ Goto(w, "run")
     /\ UNCHANGED <<core, tasks, after>>

(* ~BlockingRegion of the innermost region.                                *)
release(w) ==
  LET r == Top(w)
  IN /\ regions' = [regions EXCEPT ![w] = SubSeq(@, 1, Len(@) - 1)]
     /\ blocked' = blocked - (IF r.counts_blocked THEN 1 ELSE 0)
     /\ on_tasks' = on_tasks - (IF r.counts_on_tasks THEN 1 ELSE 0)
     /\ Goto(w, "run")
     /\ UNCHANGED <<core, tasks, after>>

(* A region held while the task goes on (Task.map's callbacks) or while it *)
(* waits for something outside the pool (channel, sleep, socket).          *)
OpenRegion(w, on_pool_tasks) ==
  /\ pc[w] = "run"
  /\ Len(regions[w]) < MaxNesting
  /\ BlockingRegion(w, on_pool_tasks, "run")
  /\ UNCHANGED <<core, tasks, arg>>

CloseRegion(w) ==
  /\ pc[w] = "run"
  /\ regions[w] # <<>>
  /\ release(w)
  /\ UNCHANGED arg

(* handle_await on a task this one spawned and that has not finished.      *)
Await(w, k) ==
  /\ pc[w] = "run"
  /\ status[k] = "spawned"
  /\ spawner[k] = job[w]
  /\ arg' = [arg EXCEPT ![w] = [task |-> k, q |-> 1]]
  /\ BlockingRegion(w, TRUE, "await")
  /\ UNCHANGED <<core, tasks>>

(* One poll: the future is ready, or verify_not_deadlocked is called.      *)
AwaitReady(w) ==
  /\ pc[w] = "await"
  /\ status[arg[w].task] = "done"
  /\ arg' = [arg EXCEPT ![w] = NoArg]
  /\ release(w)

AwaitPoll(w) ==
  /\ pc[w] = "await"
  /\ status[arg[w].task] # "done"
  /\ after' = [after EXCEPT ![w] = "verify"]
  /\ Goto(w, "comp")
  /\ UNCHANGED <<core, regs, tasks, arg>>

(* Seeded fault: only a pool with a spare worker counts as stalled.        *)
stalled_above_live(w) ==
  pc[w] = "verify_failed" /\ on_tasks > live /\ has_any_work

stalled_on_pool_tasks(w) ==
  pc[w] = "verify_failed" /\ on_tasks >= live /\ has_any_work

SetSince(w, b) ==
  regions' = [regions EXCEPT ![w][Len(regions[w])].since = b]

(* verify_not_deadlocked: the first sight of a stall is remembered; while  *)
(* it lasts each poll may find the grace period over.                      *)
verify_not_deadlocked(w) ==
  /\ pc[w] \in {"verify", "verify_failed"}
  /\ SetSince(w, stalled_on_pool_tasks(w))
  /\ Goto(w, "await")
  /\ UNCHANGED <<core, blocked, on_tasks, tasks, arg, after>>

(* ... and throws "too many nested blocking tasks", which leaves the await.*)
ReportStall(w) ==
  /\ pc[w] = "verify_failed"
  /\ stalled_on_pool_tasks(w)
  /\ Top(w).since
  /\ arg' = [arg EXCEPT ![w] = NoArg]
  /\ release(w)

(* A poll that finds the awaiting task cancelled: check_cancellation       *)
(* throws, which leaves the await too.                                     *)
AwaitCancelled(w) ==
  /\ pc[w] = "await"
  /\ status[arg[w].task] # "done"
  /\ arg' = [arg EXCEPT ![w] = NoArg]
  /\ release(w)

-----------------------------------------------------------------------------
(* Workers.                                                                *)

Take(w, k) ==
  /\ job' = [job EXCEPT ![w] = k]
  /\ Goto(w, "run")
  /\ UNCHANGED <<local_mutex, mutex, total, should_stop, live, regs, status, spawner, after>>

try_dequeue_local(w) ==
  /\ pc[w] = "fetch"
  /\ w \in Base
  /\ local_mutex[w] = Nobody
  /\ queue[w] # <<>>
  /\ queue' = [queue EXCEPT ![w] = Tail(@)]
  /\ Take(w, queue[w][1])
  /\ UNCHANGED arg

(* try_steal_from_others: the first of the longest other queues; none if   *)
(* they all look empty.                                                    *)
PickVictim(w) ==
  /\ pc[w] = "fetch"
  /\ w \in Base => local_mutex[w] = Nobody /\ queue[w] = <<>>
  /\ LET Others == {i \in Base \ {w} : queue[i] # <<>>} IN
     \/ Others = {} /\ Goto(w, "lock") /\ UNCHANGED arg
     \/ \E victim \in Others :
          /\ \A j \in Others :
               \/ Len(queue[victim]) > Len(queue[j])
               \/ Len(queue[victim]) = Len(queue[j]) /\ victim <= j
          /\ Goto(w, "steal")
          /\ arg' = [arg EXCEPT ![w] = [task |-> NoTask, q |-> victim]]
  /\ UNCHANGED <<core, regs, tasks, after>>

(* The victim's lock is taken only now: its queue may have been emptied.   *)
try_steal_from_others(w) ==
  LET q == arg[w].q IN
  /\ pc[w] = "steal"
  /\ local_mutex[q] = Nobody
  /\ arg' = [arg EXCEPT ![w] = NoArg]
  /\ IF queue[q] = <<>>
     THEN Goto(w, "lock") /\ UNCHANGED <<core, regs, tasks, after>>
     ELSE /\ queue' = [queue EXCEPT ![q] = SubSeq(@, 1, Len(@) - 1)]
          /\ Take(w, queue[q][Len(queue[q])])

(* execute_task: the task resolves its future and ends, whatever it threw. *)
execute_task(w) ==
  /\ pc[w] = "run"
  /\ regions[w] = <<>>
  /\ status' = [status EXCEPT ![job[w]] = "done"]
  /\ job' = [job EXCEPT ![w] = NoTask]
  /\ total' = total - 1
  /\ Goto(w, "fetch")
  /\ UNCHANGED <<queue, local_mutex, mutex, should_stop, live, regs, spawner, arg, after>>

(* Seeded fault: a stopped worker leaves without looking at the queues.    *)
worker_loop_quits(w) ==
  /\ pc[w] = "lock"
  /\ mutex = Nobody
  /\ IF should_stop THEN Goto(w, "exited") /\ UNCHANGED mutex
     ELSE IF has_any_work THEN Goto(w, "fetch") /\ UNCHANGED mutex
     ELSE Goto(w, "doze") /\ mutex' = w
  /\ UNCHANGED <<queue, local_mutex, total, should_stop, live, regs, tasks, arg, after>>

(* worker_loop with mutex_ held, before a sleep or after a wake-up: work   *)
(* to do, nothing left after a stop, or a wait on task_available_cv_.      *)
worker_loop(w) ==
  /\ pc[w] = "lock"
  /\ mutex = Nobody
  /\ IF has_any_work THEN Goto(w, "fetch") /\ UNCHANGED mutex
     ELSE IF should_stop THEN Goto(w, "exited") /\ UNCHANGED mutex
     ELSE Goto(w, "doze") /\ mutex' = w
  /\ UNCHANGED <<queue, local_mutex, total, should_stop, live, regs, tasks, arg, after>>

(* The wait registers the waiter and releases mutex_.                      *)
Sleep(w) ==
  /\ pc[w] = "doze"
  /\ mutex' = Nobody
  /\ Goto(w, "sleep")
  /\ UNCHANGED <<queue, local_mutex, total, should_stop, live, regs, tasks, arg, after>>

SpuriousWakeup(w) ==
  /\ pc[w] = "sleep"
  /\ Goto(w, "lock")
  /\ UNCHANGED <<core, regs, tasks, arg, after>>

-----------------------------------------------------------------------------
(* ~ThreadPool, on the thread of the VM that owns the pool.                *)

request_stop ==
  /\ pc[Main] = "run"
  /\ mutex = Nobody
  /\ should_stop' = TRUE
  /\ Goto(Main, "stop_notify")
  /\ UNCHANGED <<queue, local_mutex, mutex, total, live, regs, tasks, arg, after>>

(* Seeded fault: the sleeping workers are not notified.                    *)
stop_notify_none ==
  /\ pc[Main] = "stop_notify"
  /\ Goto(Main, "join")
  /\ UNCHANGED <<core, regs, tasks, arg, after>>

stop_notify_all ==
  /\ pc[Main] = "stop_notify"
  /\ pc' = [t \in Thread |-> IF t = Main THEN "join"
                             ELSE IF pc[t] = "sleep" THEN "lock" ELSE pc[t]]
  /\ UNCHANGED <<core, regs, tasks, arg, after>>

join ==
  /\ pc[Main] = "join"
  /\ \A w \in 1..live : pc[w] = "exited"
  /\ Goto(Main, "joined")
  /\ UNCHANGED <<core, regs, tasks, arg, after>>

-----------------------------------------------------------------------------
Enqueueing(t) ==
  \/ enqueue_check(t)
  \/ enqueue_push(t)
  \/ enqueue_sync(t)
  \/ enqueue_notify(t)
  \/ maybe_add_fast(t)
  \/ maybe_add_compensating_worker(t)

(* What a worker does whatever the tasks are.                              *)
Serving(w) ==
  \/ try_dequeue_local(w)
  \/ PickVictim(w)
  \/ try_steal_from_others(w)
  \/ worker_loop(w)
  \/ Sleep(w)
  \/ AwaitReady(w)
  \/ AwaitPoll(w)
  \/ verify_not_deadlocked(w)

Stopping == request_stop \/ stop_notify_all \/ join

Next ==
  \/ \E t \in Thread : Enqueueing(t) \/ \E k \in Task : enqueue(t, k)
  \/ \E w \in Worker :
       \/ Serving(w) \/ ReportStall(w) \/ AwaitCancelled(w) \/ SpuriousWakeup(w)
       \/ CloseRegion(w) \/ execute_task(w)
       \/ \E b \in BOOLEAN : OpenRegion(w, b)
       \/ \E k \in Task : Await(w, k)
  \/ Stopping

Spec == Init /\ [][Next]_vars

(* The scheduler runs every thread, a lock that is free again and again is *)
(* obtained, and the tasks end once what they wait for has ended.  Nothing *)
(* obliges the program to spawn, to block or to stop the pool.             *)
Fairness ==
  /\ SF_vars(Enqueueing(Main))
  /\ \A w \in Worker :
       /\ SF_vars(Enqueueing(w) \/ Serving(w))
       /\ SF_vars(ReportStall(w))
       /\ \A n \in 1..MaxNesting :
            SF_vars(Len(regions[w]) = n /\ CloseRegion(w))
       /\ SF_vars(execute_task(w))
  /\ WF_vars(stop_notify_all \/ join)

FairSpec == Spec /\ Fairness

-----------------------------------------------------------------------------
(* Properties.                                                             *)

In(pcs) == {t \in Thread : pc[t] \in pcs}

(* The soft cap documented above enqueue_to_worker: concurrent enqueues    *)
(* may overshoot max_task_queue_size, by at most worker_count - 1 tasks.   *)
SoftCap == total <= MaxQueue + Workers - 1

(* The tasks that are on some queue.                                       *)
QueuedTasks == UNION {{queue[i][n] : n \in 1..Len(queue[i])} : i \in Base}

(* A worker asleep on task_available_cv_ has missed nothing: every queued  *)
(* task is matched by a worker that is looking for work or by an enqueuer  *)
(* that has yet to notify (the race described in enqueue()).               *)
NoLostWakeup ==
  In({"sleep"}) # {} =>
    Cardinality(QueuedTasks)
      <= Cardinality(In({"fetch", "steal", "lock"}))
         + Cardinality(In({"enq_sync", "enq_notify"}))

(* blocked_workers_ and blocked_on_tasks_ count the workers inside regions *)
(* however the regions nest.                                               *)
RegionsCounted ==
  /\ blocked = Cardinality({w \in Worker : regions[w] # <<>>})
  /\ on_tasks = Cardinality({w \in Worker :
                   \E n \in 1..Len(regions[w]) : regions[w][n].on_pool_tasks})

(* Compensation is never missed: with every worker blocked, work queued    *)
(* and the cap not reached, some thread is about to start a worker.  The   *)
(* last worker to block and the enqueuer check in opposite orders.         *)
Compensated ==
  /\ has_any_work
  /\ blocked >= live
  /\ live < Workers + MaxCompensating
  /\ ~should_stop
  => In({"enq_sync", "enq_notify"} \cup CompPcs) # {}

(* The counters are in range, count the regions and lead to compensation.  *)
WorkersAccounted == TypeOK /\ RegionsCounted /\ Compensated

(* The destructor's assertions: once the workers are joined the queues are *)
(* empty and no task is counted, although tasks that still ran when the    *)
(* stop was requested may have enqueued more.                              *)
Drained ==
  pc[Main] = "joined" => ~has_any_work /\ total = 0

(* A spawned task finishes: it is not left on a queue because its worker   *)
(* sleeps, or because all of them wait for one another, unless the pool is *)
(* being destroyed.                                                        *)
EveryTaskRuns ==
  []<>(should_stop \/ \A k \in Task : status[k] # "spawned")

(* "The destructor drains the pending task queue before joining all        *)
(* threads": it returns.                                                   *)
DestructorReturns == should_stop ~> pc[Main] = "joined"

(* It does when no task keeps awaiting another one.                        *)
QuietDestructorReturns ==
  (should_stop /\ [](In({"await"}) = {})) ~> pc[Main] = "joined"
====
