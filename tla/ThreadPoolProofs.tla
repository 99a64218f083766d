--------------------------- MODULE ThreadPoolProofs ---------------------------
(***************************************************************************)
(* What the pool promises for any number of workers and tasks, any nesting *)
(* of regions and any limits: the soft cap of the queue, counters that     *)
(* count, no worker asleep on work, and queues that are empty when the     *)
(* destructor returns.                                                     *)
(*                                                                         *)
(* The invariants are proved in layers; each layer may use those before it.*)
(***************************************************************************)
EXTENDS ThreadPool, Integers, SequenceTheorems, FiniteSetTheorems, TLAPS

(* A set that gains a member counts one more.                              *)
LEMMA CountAdd ==
  ASSUME NEW S, NEW R, NEW x, IsFiniteSet(S), x \notin S, R = S \cup {x}
  PROVE  IsFiniteSet(R) /\ Cardinality(R) = Cardinality(S) + 1
         /\ Cardinality(S) \in Nat
BY FS_AddElement, FS_CardinalityType

(* A set that loses a member counts one less.                              *)
LEMMA CountRemove ==
  ASSUME NEW S, NEW R, NEW x, IsFiniteSet(S), x \in S, R = S \ {x}
  PROVE  IsFiniteSet(R) /\ Cardinality(R) = Cardinality(S) - 1
         /\ Cardinality(S) \in Nat
BY FS_RemoveElement, FS_CardinalityType

(* A subset counts no more than its set.                                   *)
LEMMA CountSubset ==
  ASSUME NEW S, NEW R, IsFiniteSet(S), R \subseteq S
  PROVE  IsFiniteSet(R) /\ Cardinality(R) <= Cardinality(S)
         /\ Cardinality(R) \in Nat /\ Cardinality(S) \in Nat
BY FS_Subset, FS_CardinalityType

(* Only the empty set counts none.                                         *)
LEMMA CountNone ==
  ASSUME NEW S, IsFiniteSet(S)
  PROVE  Cardinality(S) = 0 <=> S = {}
BY FS_EmptySet

(* Numbering the members of a set apart bounds how many they are.          *)
LEMMA CountInjective ==
  ASSUME NEW S, NEW T, IsFiniteSet(T), NEW f \in [S -> T],
         \A x, y \in S : f[x] = f[y] => x = y
  PROVE  IsFiniteSet(S) /\ Cardinality(S) <= Cardinality(T)
         /\ Cardinality(S) \in Nat /\ Cardinality(T) \in Nat
<1>1. f \in Injection(S, T) BY DEF Injection, IsInjective
<1>2. QED BY <1>1, FS_Injection, FS_CardinalityType

-----------------------------------------------------------------------------
(* Layer 1: where each thread may be, and what it holds there.             *)

IdlePcs  == {"off", "fetch", "steal", "lock", "doze", "sleep", "exited"}
AwaitPcs == {"await", "verify", "verify_failed"}
StopPcs  == {"stop_notify", "join", "joined"}

(* The types of everything but the counters, which later layers type.      *)
TypeCore ==
  /\ queue \in [Base -> Seq(Task)]
  /\ local_mutex \in [Base -> Thread \cup {Nobody}]
  /\ mutex \in Worker \cup {Nobody}
  /\ should_stop \in BOOLEAN
  /\ live \in Workers..(Workers + MaxCompensating)
  /\ pc \in [Thread -> Pcs]
  /\ arg \in [Thread -> [task : Task \cup {NoTask}, q : Base]]
  /\ after \in [Thread -> {"run", "await", "verify"}]
  /\ job \in [Worker -> Task \cup {NoTask}]
  /\ regions \in [Worker -> Seq(Region)]
  /\ status \in [Task -> {"new", "spawned", "done"}]
  /\ spawner \in [Task -> Task \cup {NoTask}]

(* The thread is in an await, or will be when it has compensated.          *)
Awaiting(t) == pc[t] \in AwaitPcs \/ (pc[t] \in CompPcs /\ after[t] # "run")

MainOK ==
  /\ pc[Main] \in {"run"} \cup EnqueuePcs \cup CompPcs \cup StopPcs
  /\ after[Main] = "run"
  /\ should_stop <=> pc[Main] \in StopPcs

WorkerOK(w) ==
  /\ pc[w] \notin StopPcs
  /\ pc[w] = "off" <=> w > live
  /\ pc[w] \in IdlePcs <=> job[w] = NoTask
  /\ pc[w] \in IdlePcs => regions[w] = <<>>
  /\ Awaiting(w) => regions[w] # <<>> /\ arg[w].task \in Task
  /\ pc[w] = "doze" => mutex = w
  /\ pc[w] = "exited" => should_stop

HolderOK(t) ==
  /\ pc[t] = "enq_push" => local_mutex[arg[t].q] = t
  /\ pc[t] \in {"enq_lock", "enq_push"} => arg[t].task \in Task

Control ==
  /\ TypeCore
  /\ MainOK
  /\ \A w \in Worker : WorkerOK(w)
  /\ \A t \in Thread : HolderOK(t)

-----------------------------------------------------------------------------
(* Layer 2: the regions.                                                   *)
RegionsOK ==
  \A w \in Worker : \A n \in 1..Len(regions[w]) :
    /\ regions[w][n].counts_blocked <=> n = 1
    /\ regions[w][n].counts_on_tasks <=>
         /\ regions[w][n].on_pool_tasks
         /\ \A m \in 1..(n - 1) : ~regions[w][m].on_pool_tasks

Regions == RegionsOK /\ RegionsCounted

-----------------------------------------------------------------------------
(* Layer 3: a spawned task is on one queue, once, or runs on one worker.   *)
Elems(s) == {s[n] : n \in 1..Len(s)}
Distinct(s) == \A m, n \in 1..Len(s) : s[m] = s[n] => m = n

Spawned == {k \in Task : status[k] = "spawned"}

QueuesOK ==
  /\ \A i \in Base : Distinct(queue[i]) /\ Elems(queue[i]) \subseteq Spawned
  /\ \A i, j \in Base : i # j => Elems(queue[i]) \cap Elems(queue[j]) = {}

JobsOK ==
  \A w \in Worker : job[w] # NoTask =>
    /\ job[w] \in Spawned
    /\ \A i \in Base : job[w] \notin Elems(queue[i])
    /\ \A v \in Worker : job[v] = job[w] => v = w

NewOK ==
  \A t \in Thread : pc[t] \in {"enq_lock", "enq_push"} =>
    /\ status[arg[t].task] = "new"
    /\ \A u \in Thread : arg[u].task = arg[t].task => u = t

SpawnedOK ==
  \A k \in Spawned :
    (\E i \in Base : k \in Elems(queue[i])) \/ (\E w \in Worker : job[w] = k)

Accounted ==
  QueuesOK /\ JobsOK /\ NewOK /\ SpawnedOK /\ total = Cardinality(Spawned)

-----------------------------------------------------------------------------
(* The other layers.                                                       *)
Pushers == In({"enq_push"})
CapOK == total + Cardinality(Pushers) <= MaxQueue + Workers - 1

Looking == In({"fetch", "steal", "lock"})
DozeOK ==
  In({"doze"}) # {} =>
    Cardinality(QueuedTasks) <= Cardinality(Looking) + Cardinality(In({"enq_sync"}))

(* The last worker to exit has seen the queues empty.                      *)
AllOut == \A w \in 1..live : pc[w] = "exited"
ExitOK == (AllOut => ~has_any_work) /\ (pc[Main] = "joined" => AllOut)

-----------------------------------------------------------------------------
(* Facts about the sets of threads.                                        *)
LEMMA ThreadSets ==
  /\ Main \notin Worker /\ Main \in Thread /\ Worker \subseteq Thread
  /\ Base \subseteq Worker /\ Nobody \notin Thread
  /\ \A t \in Thread : t = Main \/ t \in Worker
  /\ IsFiniteSet(Thread) /\ IsFiniteSet(Worker) /\ IsFiniteSet(Base)
  /\ Cardinality(Base) = Workers
<1>1. Workers \in Nat \ {0} /\ MaxCompensating \in Nat BY PoolAssumption
<1>2. IsFiniteSet(Worker) /\ IsFiniteSet(Base) /\ Cardinality(Base) = Workers
  BY <1>1, FS_Interval DEF Worker, Base
<1>3. IsFiniteSet(Thread)
  BY <1>2, FS_AddElement DEF Thread
<1>4. QED BY <1>1, <1>2, <1>3 DEF Thread, Worker, Base, Main, Nobody

(* The sets of threads at certain places can be counted.                   *)
LEMMA InFinite ==
  ASSUME NEW S
  PROVE  IsFiniteSet(In(S)) /\ Cardinality(In(S)) \in Nat
BY ThreadSets, FS_Subset, FS_CardinalityType DEF In

-----------------------------------------------------------------------------
(* Layer 1.                                                                *)

LEMMA InitControl == Init => Control
<1> SUFFICES ASSUME Init PROVE Control OBVIOUS
<1>. USE DEF Init
<1>1. Workers \in Nat \ {0} /\ MaxCompensating \in Nat BY PoolAssumption
<1>2. TypeCore
  <2>1. \A i \in Base : queue[i] \in Seq(Task) OBVIOUS
  <2>2. \A w \in Worker : regions[w] \in Seq(Region) OBVIOUS
  <2>3. pc \in [Thread -> Pcs] BY DEF Pcs
  <2>4. NoArg \in [task : Task \cup {NoTask}, q : Base]
    BY <1>1 DEF NoArg, Base
  <2>5. live \in Workers..(Workers + MaxCompensating) BY <1>1
  <2>6. QED BY <2>1, <2>2, <2>3, <2>4, <2>5 DEF TypeCore
<1>3. MainOK BY ThreadSets DEF MainOK, StopPcs
<1>4. \A w \in Worker : WorkerOK(w)
  <2>1. \A w \in Worker : pc[w] = IF w \in Base THEN "fetch" ELSE "off"
    BY ThreadSets
  <2>2. \A w \in Worker : w \in Base <=> ~(w > live)
    BY <1>1 DEF Worker, Base
  <2>3. QED
    BY <2>1, <2>2, ThreadSets
    DEF WorkerOK, StopPcs, IdlePcs, Awaiting, AwaitPcs, CompPcs
<1>5. \A t \in Thread : HolderOK(t) BY ThreadSets DEF HolderOK
<1>6. QED BY <1>2, <1>3, <1>4, <1>5 DEF Control

(* A step keeps what the threads are that it does not move.                *)
LEMMA Elsewhere ==
  ASSUME Control, NEW S, TypeCore',
         \A u \in Thread \ S :
           /\ pc'[u] = pc[u] /\ arg'[u] = arg[u] /\ after'[u] = after[u]
           /\ pc[u] = "enq_push" => local_mutex'[arg[u].q] = u
           /\ pc[u] = "doze" => mutex' = u,
         \A w \in Worker \ S :
           /\ job'[w] = job[w] /\ regions'[w] = regions[w]
           /\ w > live' <=> w > live,
         IF Main \in S THEN MainOK' /\ (should_stop => should_stop')
                       ELSE UNCHANGED should_stop,
         \A w \in Worker \cap S : WorkerOK(w)',
         \A u \in Thread \cap S : HolderOK(u)'
  PROVE  Control'
<1>1. MainOK'
  <2>1. CASE Main \in S BY <2>1
  <2>2. CASE Main \notin S BY <2>2, ThreadSets DEF Control, MainOK
  <2>3. QED BY <2>1, <2>2
<1>2. ASSUME NEW w \in Worker PROVE WorkerOK(w)'
  <2>1. CASE w \in S BY <2>1
  <2>2. CASE w \notin S
    <3>1. should_stop => should_stop' OBVIOUS
    <3>2. /\ pc'[w] = pc[w] /\ arg'[w] = arg[w] /\ after'[w] = after[w]
          /\ job'[w] = job[w] /\ regions'[w] = regions[w]
          /\ w > live' <=> w > live
          /\ pc[w] = "doze" => mutex' = w
      BY <2>2, ThreadSets
    <3>3. QED BY <3>1, <3>2 DEF Control, WorkerOK, Awaiting
  <2>3. QED BY <2>1, <2>2
<1>3. ASSUME NEW u \in Thread PROVE HolderOK(u)'
  BY DEF Control, HolderOK
<1>4. QED BY <1>1, <1>2, <1>3 DEF Control

(* A step that moves one thread.                                           *)
LEMMA OneThread ==
  ASSUME Control, NEW t \in Thread, TypeCore',
         \A u \in Thread \ {t} :
           /\ pc'[u] = pc[u] /\ arg'[u] = arg[u] /\ after'[u] = after[u]
           /\ pc[u] = "enq_push" => local_mutex'[arg[u].q] = u
           /\ pc[u] = "doze" => mutex' = u,
         \A w \in Worker \ {t} : job'[w] = job[w] /\ regions'[w] = regions[w],
         UNCHANGED live,
         t \in Worker => WorkerOK(t)' /\ UNCHANGED should_stop,
         t = Main => MainOK' /\ (should_stop => should_stop'),
         HolderOK(t)'
  PROVE  Control'
<1>. DEFINE S == {t}
<1>1. IF Main \in S THEN MainOK' /\ (should_stop => should_stop')
                    ELSE UNCHANGED should_stop
  BY ThreadSets
<1>2. \A w \in Worker \cap S : WorkerOK(w)' OBVIOUS
<1>3. \A u \in Thread \cap S : HolderOK(u)' OBVIOUS
<1>4. \A u \in Thread \ S :
           /\ pc'[u] = pc[u] /\ arg'[u] = arg[u] /\ after'[u] = after[u]
           /\ pc[u] = "enq_push" => local_mutex'[arg[u].q] = u
           /\ pc[u] = "doze" => mutex' = u
  OBVIOUS
<1>5. \A w \in Worker \ S :
           /\ job'[w] = job[w] /\ regions'[w] = regions[w]
           /\ w > live' <=> w > live
  OBVIOUS
<1>. HIDE DEF S
<1>6. QED BY <1>1, <1>2, <1>3, <1>4, <1>5, Elsewhere

(* enqueue() and enqueue_to_worker().                                      *)
LEMMA EnqueueControl ==
  ASSUME Control, NEW t \in Thread, NEW k,
         (k \in Task /\ enqueue(t, k)) \/ enqueue_check(t) \/ enqueue_push(t) \/ enqueue_sync(t)
  PROVE  Control'
<1>. USE DEF Goto, core, regs, tasks
<1>1. NoArg \in [task : Task \cup {NoTask}, q : Base]
  BY PoolAssumption DEF NoArg, Base
<1>2. TypeCore'
  <2>1. CASE k \in Task /\ enqueue(t, k)
    BY <2>1 DEF enqueue, pick_best_worker, Control, TypeCore, Pcs, EnqueuePcs
  <2>2. CASE enqueue_check(t)
    <3>1. UNCHANGED <<queue, mutex, should_stop, live, regions, status, spawner, job, after>>
      BY <2>2 DEF enqueue_check
    <3>2. local_mutex' \in [Base -> Thread \cup {Nobody}]
      BY <2>2 DEF enqueue_check, Control, TypeCore
    <3>3. arg' \in [Thread -> [task : Task \cup {NoTask}, q : Base]]
      BY ZenonT(40), <1>1, <2>2 DEF enqueue_check, Control, TypeCore
    <3>4. pc' \in [Thread -> Pcs]
      <4>1. pc' = [pc EXCEPT ![t] = "run"] \/ pc' = [pc EXCEPT ![t] = "enq_push"]
        BY <2>2 DEF enqueue_check
      <4>2. QED BY <4>1 DEF Control, TypeCore, Pcs, EnqueuePcs
    <3>5. QED BY <3>1, <3>2, <3>3, <3>4 DEF Control, TypeCore
  <2>3. CASE enqueue_push(t)
    <3>1. arg[t].task \in Task /\ arg[t].q \in Base
      BY <2>3 DEF enqueue_push, Control, TypeCore, HolderOK
    <3>2. queue' \in [Base -> Seq(Task)]
      BY <2>3, <3>1, AppendProperties DEF enqueue_push, Control, TypeCore
    <3>3. RunningTask(t) \in Task \cup {NoTask}
      BY ThreadSets DEF RunningTask, Control, TypeCore
    <3>4. QED
      BY <1>1, <2>3, <3>1, <3>2, <3>3 DEF enqueue_push, Control, TypeCore, Pcs, EnqueuePcs
  <2>4. CASE enqueue_sync(t)
    BY <2>4 DEF enqueue_sync, Control, TypeCore, Pcs, EnqueuePcs
  <2>5. QED BY <2>1, <2>2, <2>3, <2>4
<1>3. /\ pc[t] \in {"run", "enq_lock", "enq_push", "enq_sync"}
      /\ pc'[t] \in {"run"} \cup EnqueuePcs
      /\ \A u \in Thread \ {t} : pc'[u] = pc[u] /\ arg'[u] = arg[u]
      /\ UNCHANGED <<mutex, should_stop, live, regions, job, after>>
  BY DEF enqueue, enqueue_check, enqueue_push, enqueue_sync, Control, TypeCore, EnqueuePcs
<1>4. \A u \in Thread \ {t} : pc[u] = "enq_push" => local_mutex'[arg[u].q] = u
  BY ThreadSets DEF enqueue, enqueue_check, enqueue_push, enqueue_sync, Control, TypeCore, HolderOK
<1>5. t \in Worker => WorkerOK(t)'
  BY <1>3 DEF Control, WorkerOK, Awaiting, AwaitPcs, CompPcs, StopPcs, IdlePcs, EnqueuePcs
<1>6. t = Main => MainOK'
  BY <1>3 DEF Control, MainOK, EnqueuePcs, CompPcs, StopPcs
<1>7. HolderOK(t)'
  BY DEF enqueue, enqueue_check, enqueue_push, enqueue_sync, Control, TypeCore, HolderOK,
         pick_best_worker
<1>8. \A u \in Thread \ {t} : pc[u] = "doze" => mutex' = u
  BY <1>3, ThreadSets DEF Control, MainOK, WorkerOK, EnqueuePcs, CompPcs, StopPcs
<1>9. t \in Worker => UNCHANGED should_stop BY <1>3
<1>10. QED BY <1>2, <1>3, <1>4, <1>5, <1>6, <1>7, <1>8, <1>9, OneThread

(* enqueue() and the polls after maybe_add_compensating_worker().          *)
LEMMA PollControl ==
  ASSUME Control, NEW t \in Thread,
         maybe_add_fast(t) \/ (t \in Worker /\ AwaitPoll(t))
  PROVE  Control'
<1>1. /\ pc[t] \in {"comp", "await"}
      /\ pc'[t] \in CompPcs \cup {"run", "await", "verify"}
      /\ t = Main => pc'[t] \in CompPcs \cup {"run"} /\ UNCHANGED after
      /\ Awaiting(t)' => Awaiting(t)
      /\ \A u \in Thread \ {t} : pc'[u] = pc[u] /\ after'[u] = after[u]
      /\ UNCHANGED <<core, regions, tasks, arg>>
      /\ TypeCore'
  <2>1. CASE maybe_add_fast(t)
    <3>1. pc' = [pc EXCEPT ![t] = after[t]] \/ pc' = [pc EXCEPT ![t] = "comp_lock"]
      BY <2>1 DEF maybe_add_fast, ReturnTrue, Goto
    <3>2. UNCHANGED <<core, regions, tasks, arg, after>> /\ pc[t] = "comp"
      BY <2>1 DEF maybe_add_fast, regs
    <3>3. after[t] \in {"run", "await", "verify"} /\ (t = Main => after[t] = "run")
      BY DEF Control, TypeCore, MainOK
    <3>4. TypeCore'
      BY <3>1, <3>2, <3>3 DEF Control, TypeCore, core, tasks, Pcs, CompPcs, EnqueuePcs
    <3>5. QED
      BY <3>1, <3>2, <3>3, <3>4
      DEF Control, TypeCore, Awaiting, AwaitPcs, CompPcs
  <2>2. CASE t \in Worker /\ AwaitPoll(t)
    <3>1. /\ pc' = [pc EXCEPT ![t] = "comp"] /\ after' = [after EXCEPT ![t] = "verify"]
          /\ UNCHANGED <<core, regions, tasks, arg>> /\ pc[t] = "await"
      BY <2>2 DEF AwaitPoll, regs, Goto
    <3>2. TypeCore'
      BY <3>1 DEF Control, TypeCore, core, tasks, Pcs, CompPcs, EnqueuePcs
    <3>3. QED
      BY ZenonT(40), <2>2, <3>1, <3>2, ThreadSets
      DEF Control, TypeCore, Awaiting, AwaitPcs, CompPcs
  <2>3. QED BY <2>1, <2>2
<1>2. t \in Worker => WorkerOK(t)'
  BY <1>1 DEF Control, WorkerOK, AwaitPcs, CompPcs, StopPcs, IdlePcs, core, tasks
<1>3. t = Main => MainOK'
  BY <1>1 DEF Control, MainOK, CompPcs, StopPcs, EnqueuePcs, core
<1>4. HolderOK(t)' BY <1>1 DEF HolderOK, CompPcs
<1>5. \A u \in Thread \ {t} : pc[u] = "doze" => mutex' = u
  BY <1>1, ThreadSets
  DEF Control, MainOK, WorkerOK, core, EnqueuePcs, CompPcs, StopPcs
<1>6. \A u \in Thread \ {t} : pc[u] = "enq_push" => local_mutex'[arg[u].q] = u
  BY <1>1 DEF Control, HolderOK, core
<1>7. QED
  BY <1>1, <1>2, <1>3, <1>4, <1>5, <1>6, OneThread DEF core, tasks

(* A notification moves its caller and wakes any of the sleepers.          *)
LEMMA WakeControl ==
  ASSUME Control, NEW t \in Thread,
         enqueue_notify(t) \/ (t = Main /\ (stop_notify_all \/ join))
                           \/ (t \in Worker /\ SpuriousWakeup(t))
  PROVE  Control'
<1>. DEFINE S == {u \in Thread : u = t \/ pc'[u] # pc[u]}
<1>1. /\ pc' \in [Thread -> Pcs] /\ after' \in [Thread -> {"run", "await", "verify"}]
      /\ UNCHANGED <<core, regions, tasks, arg>>
      /\ \A u \in Thread \ {t} :
           /\ pc'[u] = pc[u] \/ (u \in Worker /\ pc[u] = "sleep" /\ pc'[u] = "lock")
           /\ after'[u] = after[u]
      /\ \/ pc[t] = "enq_notify" /\ pc'[t] = "comp" /\ after'[t] = "run"
         \/ t = Main /\ pc[t] \in StopPcs /\ pc'[t] \in StopPcs /\ after' = after
         \/ t \in Worker /\ pc[t] = "sleep" /\ pc'[t] = "lock" /\ after' = after
  <2>1. CASE enqueue_notify(t)
    <3>1. /\ UNCHANGED <<core, regions, tasks, arg>> /\ pc[t] = "enq_notify"
          /\ after' = [after EXCEPT ![t] = "run"]
      BY <2>1 DEF enqueue_notify, regs
    <3>2. \/ pc' = [pc EXCEPT ![t] = "comp"]
          \/ \E w \in Worker : pc[w] = "sleep" /\ pc' = [pc EXCEPT ![t] = "comp", ![w] = "lock"]
      BY <2>1 DEF enqueue_notify, Goto
    <3>4. ASSUME NEW w \in Worker, pc[w] = "sleep",
                 pc' = [pc EXCEPT ![t] = "comp", ![w] = "lock"]
          PROVE  /\ pc' \in [Thread -> Pcs] /\ pc'[t] = "comp"
                 /\ \A u \in Thread \ {t} : pc'[u] = pc[u]
                      \/ (u \in Worker /\ pc[u] = "sleep" /\ pc'[u] = "lock")
      BY <3>1, <3>4, ThreadSets DEF Control, TypeCore, Pcs, CompPcs
    <3>5. /\ after' \in [Thread -> {"run", "await", "verify"}] /\ after'[t] = "run"
          /\ \A u \in Thread \ {t} : after'[u] = after[u]
      BY <3>1 DEF Control, TypeCore
    <3>6. /\ pc' \in [Thread -> Pcs] /\ pc'[t] = "comp"
          /\ \A u \in Thread \ {t} : pc'[u] = pc[u]
               \/ (u \in Worker /\ pc[u] = "sleep" /\ pc'[u] = "lock")
      <4>1. CASE pc' = [pc EXCEPT ![t] = "comp"]
        BY <3>1, <4>1 DEF Control, TypeCore, Pcs, CompPcs
      <4>2. QED BY <3>2, <3>4, <4>1
    <3>7. QED BY <3>1, <3>5, <3>6
  <2>2. CASE t = Main /\ stop_notify_all
    BY <2>2, ThreadSets DEF stop_notify_all, regs, Control, TypeCore, Pcs, StopPcs
  <2>3. CASE t = Main /\ join
    BY <2>3, ThreadSets DEF join, regs, Control, TypeCore, Pcs, StopPcs, Goto
  <2>4. CASE t \in Worker /\ SpuriousWakeup(t)
    BY <2>4, ThreadSets DEF SpuriousWakeup, regs, Control, TypeCore, Pcs, Goto
  <2>5. QED BY <2>1, <2>2, <2>3, <2>4
<1>2. TypeCore' BY <1>1 DEF Control, TypeCore, core, tasks
<1>3. \A u \in Thread \ S :
           /\ pc'[u] = pc[u] /\ arg'[u] = arg[u] /\ after'[u] = after[u]
           /\ pc[u] = "enq_push" => local_mutex'[arg[u].q] = u
           /\ pc[u] = "doze" => mutex' = u
  BY <1>1, ThreadSets
  DEF Control, HolderOK, MainOK, WorkerOK, core, EnqueuePcs, CompPcs, StopPcs
<1>4. \A w \in Worker \ S :
           /\ job'[w] = job[w] /\ regions'[w] = regions[w]
           /\ w > live' <=> w > live
  BY <1>1 DEF core, tasks
<1>5. IF Main \in S THEN MainOK' /\ (should_stop => should_stop')
                    ELSE UNCHANGED should_stop
  BY <1>1, ThreadSets DEF Control, MainOK, StopPcs, EnqueuePcs, CompPcs, core
<1>6. ASSUME NEW w \in Worker \cap S PROVE WorkerOK(w)'
  <2>1. \/ pc[w] = "sleep" /\ pc'[w] = "lock"
        \/ pc[w] = "enq_notify" /\ pc'[w] = "comp" /\ after'[w] = "run"
    <3>1. CASE w = t BY <1>1, <3>1, ThreadSets
    <3>2. CASE w # t BY <1>1, <3>2
    <3>3. QED BY <3>1, <3>2
  <2>2. WorkerOK(w) BY DEF Control
  <2>3. QED
    BY <2>1, <2>2, <1>1
    DEF WorkerOK, Awaiting, AwaitPcs, CompPcs, StopPcs, IdlePcs, core, tasks
<1>7. \A u \in Thread \cap S : HolderOK(u)'
  BY <1>1 DEF HolderOK, StopPcs
<1>. HIDE DEF S
<1>8. QED BY <1>2, <1>3, <1>4, <1>5, <1>6, <1>7, Elsewhere

(* maybe_add_compensating_worker() under mutex_, which may start a worker. *)
LEMMA CompensateControl ==
  ASSUME Control, NEW t \in Thread, maybe_add_compensating_worker(t)
  PROVE  Control'
<1>. DEFINE S == {u \in Thread : u = t \/ u = live + 1}
<1>0. Workers \in Nat \ {0} /\ MaxCompensating \in Nat /\ live \in Workers..(Workers + MaxCompensating)
  BY PoolAssumption DEF Control, TypeCore
<1>1. /\ pc[t] = "comp_lock" /\ mutex = Nobody
      /\ UNCHANGED <<queue, local_mutex, mutex, total, should_stop, regs, tasks, arg, after>>
      /\ \/ live' = live /\ pc' = [pc EXCEPT ![t] = after[t]]
         \/ live' = live /\ after[t] = "verify" /\ pc' = [pc EXCEPT ![t] = "verify_failed"]
         \/ /\ live < Workers + MaxCompensating
            /\ live' = live + 1 /\ pc' = [pc EXCEPT ![t] = after[t], ![live + 1] = "fetch"]
  BY <1>0 DEF maybe_add_compensating_worker, ReturnTrue, ReturnFalse, Goto
<1>2. after[t] \in {"run", "await", "verify"} /\ (t = Main => after[t] = "run")
  BY DEF Control, TypeCore, MainOK
<1>3. CASE live' = live
  <2>1. /\ pc'[t] \in {after[t], "verify_failed"} /\ pc' \in [Thread -> Pcs]
        /\ pc'[t] = "verify_failed" => after[t] = "verify"
        /\ \A u \in Thread \ {t} : pc'[u] = pc[u]
    <3>1. \/ pc' = [pc EXCEPT ![t] = after[t]]
          \/ after[t] = "verify" /\ pc' = [pc EXCEPT ![t] = "verify_failed"]
      BY <1>0, <1>1, <1>3
    <3>2. pc \in [Thread -> Pcs] BY DEF Control, TypeCore
    <3>3. QED BY <1>2, <3>1, <3>2 DEF Pcs
  <2>2. TypeCore' BY <1>1, <1>3, <2>1 DEF Control, TypeCore, regs, tasks
  <2>3. t \in Worker => WorkerOK(t)'
    BY <1>1, <1>2, <1>3, <2>1
    DEF Control, WorkerOK, Awaiting, AwaitPcs, CompPcs, StopPcs, IdlePcs, regs, tasks
  <2>4. t = Main => MainOK' BY <1>1, <1>2, <2>1 DEF Control, MainOK, StopPcs, CompPcs
  <2>5. HolderOK(t)' BY <1>1, <1>2, <2>1 DEF HolderOK
  <2>6. \A u \in Thread \ {t} :
           /\ pc[u] = "enq_push" => local_mutex'[arg[u].q] = u
           /\ pc[u] = "doze" => mutex' = u
    BY <1>1, ThreadSets
    DEF Control, HolderOK, MainOK, WorkerOK, EnqueuePcs, CompPcs, StopPcs
  <2>7. QED BY <1>1, <1>3, <2>1, <2>2, <2>3, <2>4, <2>5, <2>6, OneThread DEF regs, tasks
<1>4. CASE live < Workers + MaxCompensating /\ live' = live + 1
            /\ pc' = [pc EXCEPT ![t] = after[t], ![live + 1] = "fetch"]
  <2>1. live + 1 \in Worker /\ live + 1 \in Thread
    BY <1>0, <1>4, ThreadSets DEF Worker
  <2>2. pc[live + 1] = "off" /\ job[live + 1] = NoTask /\ regions[live + 1] = <<>>
        /\ t # live + 1
    BY <1>0, <1>1, <2>1 DEF Control, WorkerOK, IdlePcs
  <2>3. /\ pc'[t] = after[t] /\ pc'[live + 1] = "fetch" /\ pc' \in [Thread -> Pcs]
        /\ \A u \in Thread \ S : pc'[u] = pc[u]
    BY <1>2, <1>4, <2>1, <2>2 DEF Control, TypeCore, Pcs
  <2>4. TypeCore'
    <3>1. live' \in Workers..(Workers + MaxCompensating) BY <1>0, <1>4
    <3>2. QED BY <1>1, <2>3, <3>1 DEF Control, TypeCore, regs, tasks
  <2>5. \A u \in Thread \ S :
           /\ pc'[u] = pc[u] /\ arg'[u] = arg[u] /\ after'[u] = after[u]
           /\ pc[u] = "enq_push" => local_mutex'[arg[u].q] = u
           /\ pc[u] = "doze" => mutex' = u
    BY <1>1, <2>3, ThreadSets
    DEF Control, HolderOK, MainOK, WorkerOK, EnqueuePcs, CompPcs, StopPcs
  <2>6. \A w \in Worker \ S :
           /\ job'[w] = job[w] /\ regions'[w] = regions[w]
           /\ w > live' <=> w > live
    BY <1>0, <1>1, <1>4, ThreadSets DEF Worker, regs, tasks
  <2>7. IF Main \in S THEN MainOK' /\ (should_stop => should_stop')
                      ELSE UNCHANGED should_stop
    BY <1>0, <1>1, <1>2, <2>2, <2>3 DEF Control, MainOK, StopPcs, CompPcs, Main
  <2>8. ASSUME NEW w \in Worker \cap S PROVE WorkerOK(w)'
    <3>1. CASE w = t
      <4>1. WorkerOK(t) /\ ~(t > live) BY <1>1, <3>1 DEF Control, WorkerOK
      <4>2. ~(t > live') BY <1>0, <1>4, <3>1, <4>1 DEF Worker
      <4>3. QED
        BY <1>1, <1>2, <2>3, <3>1, <4>1, <4>2
        DEF WorkerOK, Awaiting, AwaitPcs, CompPcs, StopPcs, IdlePcs, regs, tasks
    <3>2. CASE w = live + 1
      BY <1>0, <1>1, <1>4, <2>2, <2>3, <3>2
      DEF WorkerOK, Awaiting, AwaitPcs, CompPcs, StopPcs, IdlePcs, regs, tasks
    <3>3. QED BY <3>1, <3>2
  <2>9. \A u \in Thread \cap S : HolderOK(u)'
    BY <1>1, <1>2, <2>2, <2>3 DEF HolderOK
  <2>. HIDE DEF S
  <2>10. QED BY <2>4, <2>5, <2>6, <2>7, <2>8, <2>9, Elsewhere
<1>5. QED BY <1>1, <1>3, <1>4

-----------------------------------------------------------------------------
(* What the sequences of the model do.                                     *)

(* A sequence without its last element.                                    *)
LEMMA FrontProperties ==
  ASSUME NEW S, NEW s \in Seq(S), s # <<>>
  PROVE  /\ SubSeq(s, 1, Len(s) - 1) \in Seq(S)
         /\ Len(SubSeq(s, 1, Len(s) - 1)) = Len(s) - 1
         /\ \A n \in 1..(Len(s) - 1) : SubSeq(s, 1, Len(s) - 1)[n] = s[n]
         /\ Len(s) \in Nat \ {0} /\ s[Len(s)] \in S
<1>1. Len(s) \in Nat \ {0} BY EmptySeq
<1>2. \A n \in 1..Len(s) : s[n] \in S BY ElementOfSeq
<1>3. \A n \in 1..(Len(s) - 1) : s[n] \in S BY <1>1, <1>2
<1>4. PICK m \in Int : m = Len(s) - 1 BY <1>1
<1>5. \A n \in 1..m : s[n] \in S BY <1>3, <1>4
<1>6. /\ SubSeq(s, 1, m) \in Seq(S)
      /\ Len(SubSeq(s, 1, m)) = IF 1 <= m THEN m - 1 + 1 ELSE 0
      /\ \A n \in 1..(m - 1 + 1) : SubSeq(s, 1, m)[n] = s[1 + n - 1]
  BY <1>5, SubSeqProperties
<1>7. Len(SubSeq(s, 1, m)) = m BY <1>1, <1>4, <1>6
<1>8. ASSUME NEW n \in 1..m PROVE SubSeq(s, 1, m)[n] = s[n]
  <2>1. n \in 1..(m - 1 + 1) /\ 1 + n - 1 = n OBVIOUS
  <2>2. QED BY <1>6, <2>1
<1>9. QED BY <1>1, <1>2, <1>4, <1>6, <1>7, <1>8

(* Opening a region appends it.                                            *)
LEMMA OpenEffect ==
  ASSUME Control, NEW w \in Worker, NEW b \in BOOLEAN, NEW next \in {"run", "await"},
         BlockingRegion(w, b, next)
  PROVE  \E r \in Region :
           /\ r.on_pool_tasks <=> b
           /\ r.counts_blocked <=> regions[w] = <<>>
           /\ r.counts_on_tasks <=> b /\ OnTasksDepth(w) = 0
           /\ regions' = [regions EXCEPT ![w] = Append(@, r)]
           /\ regions' \in [Worker -> Seq(Region)] /\ regions'[w] # <<>>
           /\ \A v \in Worker \ {w} : regions'[v] = regions[v]
           /\ blocked' = blocked + (IF r.counts_blocked THEN 1 ELSE 0)
           /\ on_tasks' = on_tasks + (IF r.counts_on_tasks THEN 1 ELSE 0)
           /\ after' = [after EXCEPT ![w] = next]
           /\ pc' = [pc EXCEPT ![w] = "comp"] \/ pc' = [pc EXCEPT ![w] = next]
<1>. DEFINE r == [on_pool_tasks |-> b,
                  counts_blocked |-> regions[w] = <<>>,
                  counts_on_tasks |-> b /\ OnTasksDepth(w) = 0,
                  since |-> FALSE]
<1>1. r \in Region
  <2>1. (regions[w] = <<>>) \in BOOLEAN /\ (b /\ OnTasksDepth(w) = 0) \in BOOLEAN
    OBVIOUS
  <2>2. QED BY <2>1 DEF Region
<1>2. regions \in [Worker -> Seq(Region)] /\ regions[w] \in Seq(Region)
  BY DEF Control, TypeCore
<1>3. regions' = [regions EXCEPT ![w] = Append(@, r)]
  BY DEF BlockingRegion
<1>4. Append(regions[w], r) \in Seq(Region) /\ Append(regions[w], r) # <<>>
  <2>. HIDE DEF r
  <2>. QED BY <1>1, <1>2, AppendProperties
<1>5. /\ regions' \in [Worker -> Seq(Region)] /\ regions'[w] # <<>>
      /\ \A v \in Worker \ {w} : regions'[v] = regions[v]
  <2>. HIDE DEF r
  <2>. QED BY <1>2, <1>3, <1>4
<1>6. /\ r.on_pool_tasks <=> b
      /\ r.counts_blocked <=> regions[w] = <<>>
      /\ r.counts_on_tasks <=> b /\ OnTasksDepth(w) = 0
  OBVIOUS
<1>7. /\ blocked' = blocked + (IF r.counts_blocked THEN 1 ELSE 0)
      /\ on_tasks' = on_tasks + (IF r.counts_on_tasks THEN 1 ELSE 0)
      /\ after' = [after EXCEPT ![w] = next]
      /\ pc' = [pc EXCEPT ![w] = "comp"] \/ pc' = [pc EXCEPT ![w] = next]
  BY DEF BlockingRegion, Goto
<1>. HIDE DEF r
<1>8. QED BY <1>1, <1>3, <1>5, <1>6, <1>7

(* Leaving a region removes it.                                            *)
LEMMA ReleaseEffect ==
  ASSUME Control, NEW w \in Worker, regions[w] # <<>>, release(w)
  PROVE  /\ Len(regions[w]) \in Nat \ {0} /\ Top(w) \in Region
         /\ regions' \in [Worker -> Seq(Region)]
         /\ Len(regions'[w]) = Len(regions[w]) - 1
         /\ \A n \in 1..(Len(regions[w]) - 1) : regions'[w][n] = regions[w][n]
         /\ \A v \in Worker \ {w} : regions'[v] = regions[v]
         /\ blocked' = blocked - (IF Top(w).counts_blocked THEN 1 ELSE 0)
         /\ on_tasks' = on_tasks - (IF Top(w).counts_on_tasks THEN 1 ELSE 0)
         /\ pc' = [pc EXCEPT ![w] = "run"]
         /\ UNCHANGED <<core, tasks, after>>
<1>1. regions \in [Worker -> Seq(Region)] /\ regions[w] \in Seq(Region)
  BY DEF Control, TypeCore
<1>2. regions' = [regions EXCEPT ![w] = SubSeq(@, 1, Len(@) - 1)]
  BY DEF release
<1>3. QED
  BY <1>1, <1>2, FrontProperties DEF release, Goto, Top

(* A worker that opens or leaves a region, or looks for a stall.           *)
LEMMA RegionControl ==
  ASSUME Control, NEW w \in Worker, NEW k, NEW b \in BOOLEAN,
         \/ OpenRegion(w, b) \/ (k \in Task /\ Await(w, k)) \/ CloseRegion(w)
         \/ AwaitReady(w) \/ ReportStall(w) \/ AwaitCancelled(w) \/ verify_not_deadlocked(w)
  PROVE  Control'
<1>1. NoArg \in [task : Task \cup {NoTask}, q : Base] /\ NoArg.task = NoTask
  BY PoolAssumption DEF NoArg, Base
<1>2. regions \in [Worker -> Seq(Region)] /\ regions[w] \in Seq(Region)
      /\ arg \in [Thread -> [task : Task \cup {NoTask}, q : Base]]
      /\ after \in [Thread -> {"run", "await", "verify"}]
      /\ pc \in [Thread -> Pcs] /\ w \in Thread
  BY ThreadSets DEF Control, TypeCore
<1>3. /\ UNCHANGED <<core, tasks>>
      /\ regions' \in [Worker -> Seq(Region)]
      /\ \A v \in Worker \ {w} : regions'[v] = regions[v]
      /\ arg' \in [Thread -> [task : Task \cup {NoTask}, q : Base]]
      /\ after' \in [Thread -> {"run", "await", "verify"}]
      /\ pc' \in [Thread -> Pcs]
      /\ \A u \in Thread \ {w} : pc'[u] = pc[u] /\ arg'[u] = arg[u] /\ after'[u] = after[u]
      /\ pc[w] \in {"run"} \cup AwaitPcs
      /\ \/ pc'[w] = "run"
         \/ pc'[w] = "comp" /\ after'[w] = "run"
         \/ pc'[w] \in {"comp", "await"} /\ regions'[w] # <<>> /\ arg'[w].task \in Task
  <2>1. CASE OpenRegion(w, b)
    <3>1. /\ BlockingRegion(w, b, "run") /\ pc[w] = "run"
          /\ UNCHANGED <<core, tasks, arg>>
      BY <2>1 DEF OpenRegion
    <3>2. /\ regions' \in [Worker -> Seq(Region)] /\ regions'[w] # <<>>
          /\ \A v \in Worker \ {w} : regions'[v] = regions[v]
          /\ after' = [after EXCEPT ![w] = "run"]
          /\ pc' = [pc EXCEPT ![w] = "comp"] \/ pc' = [pc EXCEPT ![w] = "run"]
      BY <3>1, OpenEffect
    <3>3. QED BY <1>2, <3>1, <3>2 DEF Pcs, CompPcs
  <2>2. CASE k \in Task /\ Await(w, k)
    <3>1. /\ BlockingRegion(w, TRUE, "await") /\ pc[w] = "run"
          /\ UNCHANGED <<core, tasks>>
          /\ arg' = [arg EXCEPT ![w] = [task |-> k, q |-> 1]]
      BY <2>2 DEF Await
    <3>2. /\ regions' \in [Worker -> Seq(Region)] /\ regions'[w] # <<>>
          /\ \A v \in Worker \ {w} : regions'[v] = regions[v]
          /\ after' = [after EXCEPT ![w] = "await"]
          /\ pc' = [pc EXCEPT ![w] = "comp"] \/ pc' = [pc EXCEPT ![w] = "await"]
      BY <3>1, OpenEffect
    <3>3. [task |-> k, q |-> 1] \in [task : Task \cup {NoTask}, q : Base]
      BY <2>2, PoolAssumption DEF Base
    <3>4. QED BY <1>2, <2>2, <3>1, <3>2, <3>3 DEF Pcs, CompPcs
  <2>3. CASE CloseRegion(w)
    <3>1. release(w) /\ pc[w] = "run" /\ regions[w] # <<>> /\ UNCHANGED arg
      BY <2>3 DEF CloseRegion
    <3>2. QED BY <1>2, <3>1, ReleaseEffect DEF Pcs
  <2>4. CASE AwaitReady(w) \/ ReportStall(w) \/ AwaitCancelled(w)
    <3>1. release(w) /\ pc[w] \in AwaitPcs /\ arg' = [arg EXCEPT ![w] = NoArg]
      BY <2>4 DEF AwaitReady, ReportStall, AwaitCancelled, AwaitPcs
    <3>2. regions[w] # <<>> BY <3>1 DEF Control, WorkerOK, Awaiting
    <3>3. QED BY <1>1, <1>2, <3>1, <3>2, ReleaseEffect DEF Pcs
  <2>5. CASE verify_not_deadlocked(w)
    <3>1. /\ pc[w] \in AwaitPcs /\ pc' = [pc EXCEPT ![w] = "await"]
          /\ UNCHANGED <<core, tasks, arg, after>>
          /\ SetSince(w, stalled_on_pool_tasks(w))
      BY <2>5 DEF verify_not_deadlocked, AwaitPcs, Goto
    <3>2. regions[w] # <<>> /\ arg[w].task \in Task
      BY <3>1 DEF Control, WorkerOK, Awaiting
    <3>3. PICK x \in BOOLEAN : SetSince(w, x)
      <4>1. stalled_on_pool_tasks(w) \in BOOLEAN BY DEF stalled_on_pool_tasks
      <4>2. QED BY <3>1, <4>1
    <3>4. Len(regions[w]) \in Nat \ {0} BY <1>2, <3>2, EmptySeq
    <3>5. regions[w][Len(regions[w])] \in Region BY <1>2, <3>4, ElementOfSeq
    <3>6. [regions[w][Len(regions[w])] EXCEPT !.since = x] \in Region
      BY <3>5 DEF Region
    <3>7. /\ [regions[w] EXCEPT ![Len(regions[w])] =
                [regions[w][Len(regions[w])] EXCEPT !.since = x]] \in Seq(Region)
          /\ Len([regions[w] EXCEPT ![Len(regions[w])] =
                [regions[w][Len(regions[w])] EXCEPT !.since = x]]) = Len(regions[w])
      BY <1>2, <3>4, <3>6, ExceptSeq
    <3>8. regions' = [regions EXCEPT ![w] = [regions[w] EXCEPT ![Len(regions[w])] =
                [regions[w][Len(regions[w])] EXCEPT !.since = x]]]
      BY <3>3 DEF SetSince
    <3>9. /\ regions' \in [Worker -> Seq(Region)] /\ Len(regions'[w]) = Len(regions[w])
          /\ \A v \in Worker \ {w} : regions'[v] = regions[v]
      BY <1>2, <3>7, <3>8
    <3>10. regions'[w] # <<>> BY <3>4, <3>9, EmptySeq
    <3>11. QED BY <1>2, <3>1, <3>2, <3>9, <3>10 DEF Pcs
  <2>6. QED BY <2>1, <2>2, <2>3, <2>4, <2>5
<1>4. TypeCore' BY <1>3 DEF Control, TypeCore, core, tasks
<1>5. WorkerOK(w)'
  BY <1>3
  DEF Control, WorkerOK, Awaiting, AwaitPcs, CompPcs, StopPcs, IdlePcs, core, tasks
<1>6. HolderOK(w)' BY <1>3 DEF HolderOK
<1>7. \A u \in Thread \ {w} :
           /\ pc[u] = "enq_push" => local_mutex'[arg[u].q] = u
           /\ pc[u] = "doze" => mutex' = u
  BY <1>3, ThreadSets
  DEF Control, HolderOK, MainOK, WorkerOK, EnqueuePcs, CompPcs, StopPcs, core
<1>8. QED
  BY <1>2, <1>3, <1>4, <1>5, <1>6, <1>7, ThreadSets, OneThread DEF core, tasks

(* A worker that looks for a task, runs one to its end, sleeps or exits.   *)
LEMMA ServeControl ==
  ASSUME Control, NEW w \in Worker,
         \/ try_dequeue_local(w) \/ PickVictim(w) \/ try_steal_from_others(w)
         \/ execute_task(w) \/ worker_loop(w) \/ Sleep(w)
  PROVE  Control'
<1>1. NoArg \in [task : Task \cup {NoTask}, q : Base]
  BY PoolAssumption DEF NoArg, Base
<1>2. /\ TypeCore /\ w \in Thread
      /\ queue \in [Base -> Seq(Task)] /\ regions \in [Worker -> Seq(Region)]
      /\ arg \in [Thread -> [task : Task \cup {NoTask}, q : Base]]
      /\ job \in [Worker -> Task \cup {NoTask}]
      /\ pc \in [Thread -> Pcs]
  BY ThreadSets DEF Control, TypeCore
<1>3. /\ TypeCore'
      /\ \A u \in Thread \ {w} : pc'[u] = pc[u] /\ arg'[u] = arg[u]
      /\ \A v \in Worker \ {w} : job'[v] = job[v]
      /\ UNCHANGED <<local_mutex, should_stop, live, regions, after>>
      /\ mutex' = mutex \/ mutex = Nobody \/ (pc[w] = "doze" /\ mutex' = Nobody)
      /\ \/ /\ pc[w] \in {"fetch", "steal", "lock", "doze"} /\ job'[w] = job[w]
            /\ \/ pc'[w] \in {"lock", "steal", "fetch", "sleep"}
               \/ pc'[w] = "exited" /\ should_stop
               \/ pc'[w] = "doze" /\ mutex' = w
         \/ pc[w] \in {"fetch", "steal"} /\ job'[w] \in Task /\ pc'[w] = "run"
         \/ /\ pc[w] = "run" /\ job'[w] = NoTask /\ pc'[w] = "fetch"
            /\ regions[w] = <<>>
  <2>1. CASE try_dequeue_local(w)
    <3>1. /\ pc[w] = "fetch" /\ w \in Base /\ queue[w] # <<>>
          /\ queue' = [queue EXCEPT ![w] = Tail(queue[w])]
          /\ job' = [job EXCEPT ![w] = Head(queue[w])]
          /\ pc' = [pc EXCEPT ![w] = "run"]
          /\ UNCHANGED <<local_mutex, mutex, should_stop, live, regions, status,
                         spawner, after, arg>>
      BY <2>1 DEF try_dequeue_local, Take, Goto, regs
    <3>2. queue[w] \in Seq(Task) BY <1>2, <3>1
    <3>3. Head(queue[w]) \in Task /\ Tail(queue[w]) \in Seq(Task)
      BY <3>1, <3>2, HeadTailProperties
    <3>4. /\ queue' \in [Base -> Seq(Task)] /\ job' \in [Worker -> Task \cup {NoTask}]
          /\ pc' \in [Thread -> Pcs]
      BY <1>2, <3>1, <3>3 DEF Pcs
    <3>5. QED BY <1>2, <3>1, <3>3, <3>4 DEF TypeCore
  <2>2. CASE PickVictim(w)
    <3>1. /\ pc[w] = "fetch" /\ UNCHANGED <<core, regs, tasks, after>>
          /\ pc' = [pc EXCEPT ![w] = "lock"] \/ pc' = [pc EXCEPT ![w] = "steal"]
          /\ arg' = arg \/ \E q \in Base : arg' = [arg EXCEPT ![w] = [task |-> NoTask, q |-> q]]
      BY <2>2 DEF PickVictim, Goto
    <3>2. /\ arg' \in [Thread -> [task : Task \cup {NoTask}, q : Base]]
          /\ \A u \in Thread \ {w} : arg'[u] = arg[u]
      <4>1. CASE arg' = arg BY <1>2, <4>1
      <4>2. ASSUME NEW q \in Base, arg' = [arg EXCEPT ![w] = [task |-> NoTask, q |-> q]]
            PROVE  /\ arg' \in [Thread -> [task : Task \cup {NoTask}, q : Base]]
                   /\ \A u \in Thread \ {w} : arg'[u] = arg[u]
        <5>1. [task |-> NoTask, q |-> q] \in [task : Task \cup {NoTask}, q : Base]
          OBVIOUS
        <5>2. QED BY <1>2, <4>2, <5>1
      <4>3. QED BY <3>1, <4>1, <4>2
    <3>3. /\ pc' \in [Thread -> Pcs] /\ \A u \in Thread \ {w} : pc'[u] = pc[u]
          /\ pc'[w] \in {"lock", "steal"}
      BY <1>2, <3>1 DEF Pcs
    <3>4. QED BY <1>2, <3>1, <3>2, <3>3 DEF TypeCore, core, regs, tasks
  <2>3. CASE try_steal_from_others(w)
    <3>1. /\ pc[w] = "steal" /\ arg' = [arg EXCEPT ![w] = NoArg]
          /\ UNCHANGED <<local_mutex, mutex, should_stop, live, regions, status,
                         spawner, after>>
      BY <2>3 DEF try_steal_from_others, Take, core, regs, tasks
    <3>2. \/ pc' = [pc EXCEPT ![w] = "lock"] /\ UNCHANGED <<queue, job>>
          \/ /\ queue[arg[w].q] # <<>>
             /\ queue' = [queue EXCEPT ![arg[w].q] =
                            SubSeq(queue[arg[w].q], 1, Len(queue[arg[w].q]) - 1)]
             /\ job' = [job EXCEPT ![w] = queue[arg[w].q][Len(queue[arg[w].q])]]
             /\ pc' = [pc EXCEPT ![w] = "run"]
      BY <2>3 DEF try_steal_from_others, Take, core, tasks, Goto
    <3>3. PICK q \in Base : q = arg[w].q BY <1>2
    <3>4. /\ arg' \in [Thread -> [task : Task \cup {NoTask}, q : Base]]
          /\ \A u \in Thread \ {w} : arg'[u] = arg[u]
      BY <1>1, <1>2, <3>1
    <3>5. CASE pc' = [pc EXCEPT ![w] = "lock"] /\ UNCHANGED <<queue, job>>
      <4>1. pc' \in [Thread -> Pcs] BY <1>2, <3>5 DEF Pcs
      <4>2. QED BY <1>2, <3>1, <3>4, <3>5, <4>1 DEF TypeCore
    <3>6. CASE /\ queue[q] # <<>>
               /\ queue' = [queue EXCEPT ![q] = SubSeq(queue[q], 1, Len(queue[q]) - 1)]
               /\ job' = [job EXCEPT ![w] = queue[q][Len(queue[q])]]
               /\ pc' = [pc EXCEPT ![w] = "run"]
      <4>1. /\ SubSeq(queue[q], 1, Len(queue[q]) - 1) \in Seq(Task)
            /\ queue[q][Len(queue[q])] \in Task
        BY <1>2, <3>6, FrontProperties
      <4>2. /\ queue' \in [Base -> Seq(Task)] /\ job' \in [Worker -> Task \cup {NoTask}]
            /\ pc' \in [Thread -> Pcs]
        BY <1>2, <3>6, <4>1 DEF Pcs
      <4>3. QED BY <1>2, <3>1, <3>4, <3>6, <4>1, <4>2 DEF TypeCore
    <3>7. QED BY <3>2, <3>3, <3>5, <3>6
  <2>4. CASE execute_task(w)
    <3>1. /\ pc[w] = "run" /\ regions[w] = <<>>
          /\ status' = [status EXCEPT ![job[w]] = "done"]
          /\ job' = [job EXCEPT ![w] = NoTask] /\ pc' = [pc EXCEPT ![w] = "fetch"]
          /\ UNCHANGED <<queue, local_mutex, mutex, should_stop, live, regions,
                         spawner, arg, after>>
      BY <2>4 DEF execute_task, Goto, regs
    <3>2. /\ status' \in [Task -> {"new", "spawned", "done"}]
          /\ job' \in [Worker -> Task \cup {NoTask}] /\ pc' \in [Thread -> Pcs]
      BY <1>2, <3>1 DEF TypeCore, Pcs
    <3>3. QED BY <1>2, <3>1, <3>2 DEF TypeCore
  <2>5. CASE worker_loop(w)
    <3>1. /\ pc[w] = "lock" /\ mutex = Nobody
          /\ \/ pc' = [pc EXCEPT ![w] = "fetch"] /\ mutex' = mutex
             \/ pc' = [pc EXCEPT ![w] = "exited"] /\ mutex' = mutex /\ should_stop
             \/ pc' = [pc EXCEPT ![w] = "doze"] /\ mutex' = w
          /\ UNCHANGED <<queue, local_mutex, should_stop, live, regions, job, status,
                         spawner, arg, after>>
      BY <2>5 DEF worker_loop, Goto, regs, tasks
    <3>2. pc' \in [Thread -> Pcs] /\ mutex' \in Worker \cup {Nobody}
      BY <1>2, <3>1 DEF Pcs
    <3>3. QED BY <1>2, <3>1, <3>2 DEF TypeCore
  <2>6. CASE Sleep(w)
    BY <1>2, <2>6 DEF Sleep, Goto, regs, tasks, TypeCore, Pcs
  <2>7. QED BY <2>1, <2>2, <2>3, <2>4, <2>5, <2>6
<1>4. WorkerOK(w)'
  <2>1. WorkerOK(w) BY DEF Control
  <2>2. job[w] \in Task => job[w] # NoTask BY PoolAssumption
  <2>3. job'[w] \in Task => job'[w] # NoTask BY PoolAssumption
  <2>4. QED
    BY <1>3, <2>1, <2>2, <2>3
    DEF WorkerOK, Awaiting, AwaitPcs, CompPcs, StopPcs, IdlePcs
<1>5. HolderOK(w)' BY <1>3 DEF HolderOK
<1>6. \A u \in Thread \ {w} :
           /\ pc[u] = "enq_push" => local_mutex'[arg[u].q] = u
           /\ pc[u] = "doze" => mutex' = u
  <2>1. ASSUME NEW u \in Thread \ {w}, pc[u] = "doze" PROVE mutex' = u
    <3>1. u \in Worker /\ mutex = u
      BY <2>1, ThreadSets DEF Control, MainOK, WorkerOK, EnqueuePcs, CompPcs, StopPcs
    <3>2. pc[w] = "doze" => mutex = w BY DEF Control, WorkerOK
    <3>3. QED BY <1>3, <3>1, <3>2, ThreadSets
  <2>2. QED BY <1>3, <2>1 DEF Control, HolderOK
<1>7. QED BY <1>2, <1>3, <1>4, <1>5, <1>6, ThreadSets, OneThread

(* ~ThreadPool asks the workers to stop.                                   *)
LEMMA StopControl ==
  ASSUME Control, request_stop
  PROVE  Control'
<1>1. /\ pc[Main] = "run" /\ should_stop' = TRUE
      /\ pc' = [pc EXCEPT ![Main] = "stop_notify"]
      /\ UNCHANGED <<queue, local_mutex, mutex, live, regions, job, status, spawner,
                     arg, after>>
  BY DEF request_stop, Goto, regs, tasks
<1>2. TypeCore' BY <1>1 DEF Control, TypeCore, Pcs
<1>3. /\ pc'[Main] = "stop_notify"
      /\ \A u \in Thread \ {Main} : pc'[u] = pc[u]
  BY <1>1, ThreadSets DEF Control, TypeCore
<1>4. MainOK' BY <1>1, <1>3 DEF Control, MainOK, StopPcs
<1>5. HolderOK(Main)' BY <1>3 DEF HolderOK
<1>6. \A u \in Thread \ {Main} :
           /\ pc[u] = "enq_push" => local_mutex'[arg[u].q] = u
           /\ pc[u] = "doze" => mutex' = u
  BY <1>1, ThreadSets DEF Control, HolderOK, WorkerOK
<1>7. QED BY <1>1, <1>2, <1>3, <1>4, <1>5, <1>6, ThreadSets, OneThread

(* The steps of the pool, for the proofs that go through them.             *)
LEMMA Steps ==
  ASSUME [Next]_vars
  PROVE  \/ \E t \in Thread : Enqueueing(t) \/ \E k \in Task : enqueue(t, k)
         \/ \E w \in Worker :
              \/ try_dequeue_local(w) \/ PickVictim(w) \/ try_steal_from_others(w)
              \/ execute_task(w) \/ worker_loop(w) \/ Sleep(w)
         \/ \E w \in Worker :
              \/ CloseRegion(w) \/ AwaitReady(w) \/ ReportStall(w) \/ AwaitCancelled(w)
              \/ verify_not_deadlocked(w)
              \/ \E b \in BOOLEAN : OpenRegion(w, b)
              \/ \E k \in Task : Await(w, k)
         \/ \E w \in Worker : AwaitPoll(w) \/ SpuriousWakeup(w)
         \/ stop_notify_all \/ join
         \/ request_stop
         \/ UNCHANGED vars
BY DEF Next, Serving, Stopping

LEMMA StepControl ==
  ASSUME Control, [Next]_vars
  PROVE  Control'
<1>1. ASSUME NEW t \in Thread, Enqueueing(t) PROVE Control'
  BY <1>1, EnqueueControl, PollControl, WakeControl, CompensateControl DEF Enqueueing
<1>2. ASSUME NEW t \in Thread, NEW k \in Task, enqueue(t, k) PROVE Control'
  BY <1>2, EnqueueControl
<1>3. ASSUME NEW w \in Worker,
             \/ try_dequeue_local(w) \/ PickVictim(w) \/ try_steal_from_others(w)
             \/ execute_task(w) \/ worker_loop(w) \/ Sleep(w)
      PROVE Control'
  BY <1>3, ServeControl
<1>4. ASSUME NEW w \in Worker,
             \/ CloseRegion(w) \/ AwaitReady(w) \/ ReportStall(w) \/ AwaitCancelled(w)
             \/ verify_not_deadlocked(w)
             \/ \E b \in BOOLEAN : OpenRegion(w, b)
             \/ \E k \in Task : Await(w, k)
      PROVE Control'
  BY <1>4, RegionControl
<1>5. ASSUME NEW w \in Worker, AwaitPoll(w) \/ SpuriousWakeup(w) PROVE Control'
  BY <1>5, ThreadSets, PollControl, WakeControl
<1>6. CASE stop_notify_all \/ join BY <1>6, ThreadSets, WakeControl
<1>7. CASE request_stop BY <1>7, StopControl
<1>8. CASE UNCHANGED vars
  BY <1>8
  DEF vars, core, regs, tasks, Control, TypeCore, MainOK, WorkerOK, HolderOK, Awaiting
<1>9. QED BY <1>1, <1>2, <1>3, <1>4, <1>5, <1>6, <1>7, <1>8, Steps

LEMMA ControlInvariant == Spec => []Control
BY InitControl, StepControl, PTL DEF Spec

-----------------------------------------------------------------------------
(* Layer 2: the counters of blocked workers.                               *)

OnTasks(w) == \E n \in 1..Len(regions[w]) : regions[w][n].on_pool_tasks
Blocked    == {w \in Worker : regions[w] # <<>>}
Waiting    == {w \in Worker : OnTasks(w)}

(* OnTasksDepth(w) = 0 says that no region of the worker is on_pool_tasks. *)
LEMMA DepthZero ==
  ASSUME NEW w \in Worker, Len(regions[w]) \in Nat
  PROVE  OnTasksDepth(w) = 0 <=> ~OnTasks(w)
<1>. DEFINE D == {n \in 1..Len(regions[w]) : regions[w][n].on_pool_tasks}
<1>1. IsFiniteSet(D)
  <2>1. IsFiniteSet(1..Len(regions[w])) BY FS_Interval
  <2>2. D \subseteq 1..Len(regions[w]) OBVIOUS
  <2>. HIDE DEF D
  <2>3. QED BY <2>1, <2>2, FS_Subset
<1>2. D = {} <=> ~OnTasks(w) BY DEF OnTasks
<1>3. OnTasksDepth(w) = Cardinality(D) BY DEF OnTasksDepth
<1>. HIDE DEF D
<1>4. QED BY <1>1, <1>2, <1>3, CountNone

(* The counters are natural numbers, whatever the worker regions are.      *)
LEMMA CountsTyped ==
  ASSUME RegionsCounted
  PROVE  /\ blocked = Cardinality(Blocked) /\ blocked \in Nat /\ IsFiniteSet(Blocked)
         /\ on_tasks = Cardinality(Waiting) /\ on_tasks \in Nat /\ IsFiniteSet(Waiting)
<1>1. IsFiniteSet(Blocked) /\ IsFiniteSet(Waiting)
  BY ThreadSets, FS_Subset DEF Blocked, Waiting
<1>2. QED
  BY <1>1, FS_CardinalityType DEF RegionsCounted, Blocked, Waiting, OnTasks

(* A step that changes one worker's regions and the counters with them.    *)
LEMMA RecountRegions ==
  ASSUME RegionsCounted, NEW w \in Worker,
         \A v \in Worker \ {w} : regions'[v] = regions[v],
         \/ (w \in Blocked) = (w \in Blocked)' /\ blocked' = blocked
         \/ w \notin Blocked /\ (w \in Blocked)' /\ blocked' = blocked + 1
         \/ w \in Blocked /\ (w \notin Blocked)' /\ blocked' = blocked - 1,
         \/ (w \in Waiting) = (w \in Waiting)' /\ on_tasks' = on_tasks
         \/ w \notin Waiting /\ (w \in Waiting)' /\ on_tasks' = on_tasks + 1
         \/ w \in Waiting /\ (w \notin Waiting)' /\ on_tasks' = on_tasks - 1
  PROVE  RegionsCounted'
<1>1. /\ \A v \in Worker \ {w} : v \in Blocked <=> v \in Blocked'
      /\ \A v \in Worker \ {w} : v \in Waiting <=> v \in Waiting'
      /\ Blocked \subseteq Worker /\ Blocked' \subseteq Worker
      /\ Waiting \subseteq Worker /\ Waiting' \subseteq Worker
  BY DEF Blocked, Waiting, OnTasks
<1>2. blocked' = Cardinality(Blocked')
  <2>1. CASE (w \in Blocked) = (w \in Blocked)' /\ blocked' = blocked
    <3>1. Blocked' = Blocked BY <1>1, <2>1
    <3>2. QED BY <2>1, <3>1, CountsTyped
  <2>2. CASE w \notin Blocked /\ (w \in Blocked)' /\ blocked' = blocked + 1
    <3>1. Blocked' = Blocked \cup {w} BY <1>1, <2>2
    <3>2. QED BY <2>2, <3>1, CountsTyped, CountAdd
  <2>3. CASE w \in Blocked /\ (w \notin Blocked)' /\ blocked' = blocked - 1
    <3>1. Blocked' = Blocked \ {w} BY <1>1, <2>3
    <3>2. QED BY <2>3, <3>1, CountsTyped, CountRemove
  <2>4. QED BY <2>1, <2>2, <2>3
<1>3. on_tasks' = Cardinality(Waiting')
  <2>1. CASE (w \in Waiting) = (w \in Waiting)' /\ on_tasks' = on_tasks
    <3>1. Waiting' = Waiting BY <1>1, <2>1
    <3>2. QED BY <2>1, <3>1, CountsTyped
  <2>2. CASE w \notin Waiting /\ (w \in Waiting)' /\ on_tasks' = on_tasks + 1
    <3>1. Waiting' = Waiting \cup {w} BY <1>1, <2>2
    <3>2. QED BY <2>2, <3>1, CountsTyped, CountAdd
  <2>3. CASE w \in Waiting /\ (w \notin Waiting)' /\ on_tasks' = on_tasks - 1
    <3>1. Waiting' = Waiting \ {w} BY <1>1, <2>3
    <3>2. QED BY <2>3, <3>1, CountsTyped, CountRemove
  <2>4. QED BY <2>1, <2>2, <2>3
<1>4. QED BY <1>2, <1>3 DEF RegionsCounted, Blocked, Waiting, OnTasks

LEMMA OpenRegions ==
  ASSUME Control, Regions, NEW w \in Worker, NEW b \in BOOLEAN,
         NEW next \in {"run", "await"}, BlockingRegion(w, b, next)
  PROVE  Regions'
<1>1. PICK r \in Region :
        /\ r.on_pool_tasks <=> b
        /\ r.counts_blocked <=> regions[w] = <<>>
        /\ r.counts_on_tasks <=> b /\ OnTasksDepth(w) = 0
        /\ regions' = [regions EXCEPT ![w] = Append(@, r)]
        /\ \A v \in Worker \ {w} : regions'[v] = regions[v]
        /\ blocked' = blocked + (IF r.counts_blocked THEN 1 ELSE 0)
        /\ on_tasks' = on_tasks + (IF r.counts_on_tasks THEN 1 ELSE 0)
  BY OpenEffect
<1>2. PICK l \in Nat : l = Len(regions[w])
  BY LenProperties DEF Control, TypeCore
<1>3. /\ regions \in [Worker -> Seq(Region)] /\ regions[w] \in Seq(Region)
      /\ Len(regions[w]) \in Nat /\ (regions[w] = <<>> <=> l = 0)
  BY <1>2, LenProperties, EmptySeq DEF Control, TypeCore
<1>4. /\ Len(regions'[w]) = l + 1 /\ regions'[w] # <<>>
      /\ \A n \in 1..l : regions'[w][n] = regions[w][n]
      /\ regions'[w][l + 1] = r
  <2>1. regions'[w] = Append(regions[w], r) BY <1>1, <1>3
  <2>2. QED BY <1>2, <1>3, <2>1, AppendProperties
<1>5. OnTasksDepth(w) = 0 <=> ~OnTasks(w) BY <1>3, DepthZero
<1>6. OnTasks(w)' <=> OnTasks(w) \/ b
  <2>1. OnTasks(w)' <=> \E n \in 1..(l + 1) : regions'[w][n].on_pool_tasks
    BY <1>4 DEF OnTasks
  <2>2. OnTasks(w) <=> \E n \in 1..l : regions[w][n].on_pool_tasks
    BY <1>2 DEF OnTasks
  <2>3. \A n \in 1..(l + 1) : n \in 1..l \/ n = l + 1 OBVIOUS
  <2>4. 1..l \subseteq 1..(l + 1) /\ l + 1 \in 1..(l + 1) OBVIOUS
  <2>5. QED BY <1>1, <1>4, <2>1, <2>2, <2>3, <2>4
<1>7. RegionsOK'
  <2>1. ASSUME NEW n \in 1..(l + 1)
        PROVE  /\ regions'[w][n].counts_blocked <=> n = 1
               /\ regions'[w][n].counts_on_tasks <=>
                    /\ regions'[w][n].on_pool_tasks
                    /\ \A m \in 1..(n - 1) : ~regions'[w][m].on_pool_tasks
    <3>1. CASE n \in 1..l
      <4>1. \A m \in 1..(n - 1) : m \in 1..l BY <3>1
      <4>2. \A m \in 1..n : regions'[w][m] = regions[w][m] BY <1>4, <3>1
      <4>3. /\ regions[w][n].counts_blocked <=> n = 1
            /\ regions[w][n].counts_on_tasks <=>
                    /\ regions[w][n].on_pool_tasks
                    /\ \A m \in 1..(n - 1) : ~regions[w][m].on_pool_tasks
        BY <1>2, <3>1 DEF Regions, RegionsOK
      <4>4. regions'[w][n] = regions[w][n]
            /\ \A m \in 1..(n - 1) : regions'[w][m] = regions[w][m]
        BY <1>4, <3>1, <4>1
      <4>5. QED BY <4>3, <4>4
    <3>2. CASE n = l + 1
      <4>1. n - 1 = l /\ (n = 1 <=> l = 0) BY <3>2
      <4>2. (\A m \in 1..l : ~regions'[w][m].on_pool_tasks) <=> ~OnTasks(w)
        BY <1>2, <1>4 DEF OnTasks
      <4>3. QED BY <1>1, <1>3, <1>4, <1>5, <3>2, <4>1, <4>2
    <3>3. QED BY <3>1, <3>2
  <2>2. QED BY <1>1, <1>4, <2>1 DEF Regions, RegionsOK
<1>8. RegionsCounted'
  <2>1. w \in Blocked <=> l # 0 BY <1>3 DEF Blocked
  <2>2. (w \in Blocked)' BY <1>4 DEF Blocked
  <2>3. (w \in Waiting <=> OnTasks(w)) /\ (w \in Waiting <=> OnTasks(w))'
    BY DEF Waiting
  <2>4. blocked \in Nat /\ on_tasks \in Nat BY CountsTyped DEF Regions
  <2>5. \/ (w \in Blocked) = (w \in Blocked)' /\ blocked' = blocked
        \/ w \notin Blocked /\ (w \in Blocked)' /\ blocked' = blocked + 1
    BY <1>1, <1>3, <2>1, <2>2, <2>4
  <2>6. \/ (w \in Waiting) = (w \in Waiting)' /\ on_tasks' = on_tasks
        \/ w \notin Waiting /\ (w \in Waiting)' /\ on_tasks' = on_tasks + 1
    BY <1>1, <1>5, <1>6, <2>3, <2>4
  <2>7. QED BY <1>1, <2>5, <2>6, RecountRegions DEF Regions
<1>9. QED BY <1>7, <1>8 DEF Regions

LEMMA ReleaseRegions ==
  ASSUME Control, Regions, NEW w \in Worker, regions[w] # <<>>, release(w)
  PROVE  Regions'
<1>1. PICK l \in Nat : l + 1 = Len(regions[w])
  <2>1. Len(regions[w]) \in Nat \ {0} BY ReleaseEffect
  <2>2. PICK n \in Nat \ {0} : n = Len(regions[w]) BY <2>1
  <2>3. n - 1 \in Nat /\ (n - 1) + 1 = n OBVIOUS
  <2>4. QED BY <2>2, <2>3
<1>2. /\ regions' \in [Worker -> Seq(Region)]
      /\ Len(regions'[w]) = l
      /\ \A n \in 1..l : regions'[w][n] = regions[w][n]
      /\ \A v \in Worker \ {w} : regions'[v] = regions[v]
      /\ Top(w) = regions[w][l + 1]
      /\ blocked' = blocked - (IF Top(w).counts_blocked THEN 1 ELSE 0)
      /\ on_tasks' = on_tasks - (IF Top(w).counts_on_tasks THEN 1 ELSE 0)
  <2>1. Len(regions[w]) - 1 = l BY <1>1
  <2>2. QED BY <1>1, <2>1, ReleaseEffect DEF Top
<1>3. regions'[w] = <<>> <=> l = 0
  <2>1. regions'[w] \in Seq(Region) BY <1>2
  <2>2. QED BY <1>2, <2>1, EmptySeq
<1>4. ASSUME NEW n \in 1..(l + 1)
      PROVE  /\ regions[w][n].counts_blocked <=> n = 1
             /\ regions[w][n].counts_on_tasks <=>
                  /\ regions[w][n].on_pool_tasks
                  /\ \A m \in 1..(n - 1) : ~regions[w][m].on_pool_tasks
  BY <1>1 DEF Regions, RegionsOK
<1>5. RegionsOK'
  <2>1. ASSUME NEW n \in 1..l
        PROVE  /\ regions'[w][n].counts_blocked <=> n = 1
               /\ regions'[w][n].counts_on_tasks <=>
                    /\ regions'[w][n].on_pool_tasks
                    /\ \A m \in 1..(n - 1) : ~regions'[w][m].on_pool_tasks
    <3>1. n \in 1..(l + 1) /\ \A m \in 1..(n - 1) : m \in 1..l OBVIOUS
    <3>2. regions'[w][n] = regions[w][n]
          /\ \A m \in 1..(n - 1) : regions'[w][m] = regions[w][m]
      BY <1>2, <3>1
    <3>3. QED BY <1>4, <3>1, <3>2
  <2>2. \A v \in Worker \ {w} : regions'[v] = regions[v] BY <1>2
  <2>3. Len(regions'[w]) = l BY <1>2
  <2>4. ASSUME NEW v \in Worker \ {w}, NEW n \in 1..Len(regions'[v])
        PROVE  /\ regions'[v][n].counts_blocked <=> n = 1
               /\ regions'[v][n].counts_on_tasks <=>
                    /\ regions'[v][n].on_pool_tasks
                    /\ \A m \in 1..(n - 1) : ~regions'[v][m].on_pool_tasks
    <3>1. regions'[v] = regions[v] BY <2>2
    <3>2. n \in 1..Len(regions[v]) BY <3>1
    <3>3. QED BY <3>1, <3>2 DEF Regions, RegionsOK
  <2>5. QED BY <2>1, <2>3, <2>4 DEF RegionsOK
<1>6. OnTasks(w) <=> OnTasks(w)' \/ Top(w).on_pool_tasks
  <2>1. OnTasks(w) <=> \E n \in 1..(l + 1) : regions[w][n].on_pool_tasks
    BY <1>1 DEF OnTasks
  <2>2. OnTasks(w)' <=> \E n \in 1..l : regions[w][n].on_pool_tasks
    BY <1>2 DEF OnTasks
  <2>3. \A n \in 1..(l + 1) : n \in 1..l \/ n = l + 1 OBVIOUS
  <2>4. 1..l \subseteq 1..(l + 1) /\ l + 1 \in 1..(l + 1) OBVIOUS
  <2>5. QED BY <1>2, <2>1, <2>2, <2>3, <2>4
<1>7. Top(w).counts_on_tasks <=> Top(w).on_pool_tasks /\ ~OnTasks(w)'
  <2>1. OnTasks(w)' <=> \E n \in 1..l : regions[w][n].on_pool_tasks
    BY <1>2 DEF OnTasks
  <2>2. l + 1 \in 1..(l + 1) /\ (l + 1) - 1 = l OBVIOUS
  <2>3. PICK n \in 1..(l + 1) : n = l + 1 /\ n - 1 = l BY <2>2
  <2>4. Top(w) = regions[w][n] BY <1>2, <2>3
  <2>5. QED BY <1>4, <2>1, <2>3, <2>4
<1>8. Top(w).counts_blocked <=> l = 0
  <2>1. PICK n \in 1..(l + 1) : n = l + 1 /\ (n = 1 <=> l = 0) OBVIOUS
  <2>2. Top(w) = regions[w][n] BY <1>2, <2>1
  <2>3. QED BY <1>4, <2>1, <2>2
<1>9. RegionsCounted'
  <2>1. w \in Blocked BY DEF Blocked
  <2>2. (w \in Blocked)' <=> l # 0 BY <1>3 DEF Blocked
  <2>3. (w \in Waiting <=> OnTasks(w)) /\ (w \in Waiting <=> OnTasks(w))'
    BY DEF Waiting
  <2>4. blocked \in Nat /\ on_tasks \in Nat BY CountsTyped DEF Regions
  <2>5. \/ (w \in Blocked) = (w \in Blocked)' /\ blocked' = blocked
        \/ w \in Blocked /\ (w \notin Blocked)' /\ blocked' = blocked - 1
    BY <1>2, <1>8, <2>1, <2>2, <2>4
  <2>6. \/ (w \in Waiting) = (w \in Waiting)' /\ on_tasks' = on_tasks
        \/ w \in Waiting /\ (w \notin Waiting)' /\ on_tasks' = on_tasks - 1
    BY <1>2, <1>6, <1>7, <2>3, <2>4
  <2>7. QED BY <1>2, <2>5, <2>6, RecountRegions DEF Regions
<1>10. QED BY <1>5, <1>9 DEF Regions

(* Whether a stall was seen does not change what a region counts.          *)
LEMMA StallRegions ==
  ASSUME Control, Regions, NEW w \in Worker, verify_not_deadlocked(w)
  PROVE  Regions'
<1>1. regions \in [Worker -> Seq(Region)] /\ regions[w] \in Seq(Region)
  BY DEF Control, TypeCore
<1>2. PICK x \in BOOLEAN : regions' = [regions EXCEPT ![w][Len(regions[w])].since = x]
  <2>1. stalled_on_pool_tasks(w) \in BOOLEAN BY DEF stalled_on_pool_tasks
  <2>2. QED BY <2>1 DEF verify_not_deadlocked, SetSince
<1>3. regions[w] # <<>>
  BY DEF verify_not_deadlocked, Control, WorkerOK, Awaiting, AwaitPcs
<1>4. PICK l \in Nat \ {0} : l = Len(regions[w]) BY <1>1, <1>3, EmptySeq
<1>5. /\ regions'[w] = [regions[w] EXCEPT ![l] = [regions[w][l] EXCEPT !.since = x]]
      /\ \A v \in Worker \ {w} : regions'[v] = regions[v]
  BY <1>1, <1>2, <1>4
<1>6. \A n \in 1..l : regions[w][n] \in Region BY <1>1, <1>4, ElementOfSeq
<1>7. [regions[w][l] EXCEPT !.since = x] \in Region BY <1>4, <1>6 DEF Region
<1>8. /\ Len(regions'[w]) = l
      /\ \A n \in 1..l : regions'[w][n] =
           IF n = l THEN [regions[w][l] EXCEPT !.since = x] ELSE regions[w][n]
      /\ regions'[w] \in Seq(Region)
  <2>1. l \in 1..Len(regions[w]) BY <1>4
  <2>2. QED BY <1>1, <1>4, <1>5, <1>7, <2>1, ExceptSeq
<1>9. \A n \in 1..l :
        /\ regions'[w][n].on_pool_tasks = regions[w][n].on_pool_tasks
        /\ regions'[w][n].counts_blocked = regions[w][n].counts_blocked
        /\ regions'[w][n].counts_on_tasks = regions[w][n].counts_on_tasks
  <2>1. [regions[w][l] EXCEPT !.since = x].on_pool_tasks = regions[w][l].on_pool_tasks
        /\ [regions[w][l] EXCEPT !.since = x].counts_blocked = regions[w][l].counts_blocked
        /\ [regions[w][l] EXCEPT !.since = x].counts_on_tasks = regions[w][l].counts_on_tasks
    BY <1>4, <1>6 DEF Region
  <2>2. QED BY <1>8, <2>1
<1>10. RegionsOK'
  <2>1. ASSUME NEW n \in 1..l
        PROVE  /\ regions'[w][n].counts_blocked <=> n = 1
               /\ regions'[w][n].counts_on_tasks <=>
                    /\ regions'[w][n].on_pool_tasks
                    /\ \A m \in 1..(n - 1) : ~regions'[w][m].on_pool_tasks
    <3>1. \A m \in 1..(n - 1) : m \in 1..l BY <1>4
    <3>2. /\ regions[w][n].counts_blocked <=> n = 1
          /\ regions[w][n].counts_on_tasks <=>
               /\ regions[w][n].on_pool_tasks
               /\ \A m \in 1..(n - 1) : ~regions[w][m].on_pool_tasks
      BY <1>4 DEF Regions, RegionsOK
    <3>3. QED BY <1>9, <3>1, <3>2
  <2>2. \A v \in Worker \ {w} : regions'[v] = regions[v] BY <1>5
  <2>3. Len(regions'[w]) = l BY <1>8
  <2>4. QED BY <2>1, <2>2, <2>3 DEF Regions, RegionsOK
<1>11. RegionsCounted'
  <2>1. w \in Blocked /\ (w \in Blocked)'
    BY <1>3, <1>4, <1>8, EmptySeq DEF Blocked
  <2>2. (w \in Waiting) = (w \in Waiting)'
    BY <1>4, <1>8, <1>9 DEF Waiting, OnTasks
  <2>3. blocked' = blocked /\ on_tasks' = on_tasks BY DEF verify_not_deadlocked
  <2>4. (w \in Blocked) = (w \in Blocked)' BY <2>1
  <2>5. QED BY <1>5, <2>2, <2>3, <2>4, RecountRegions DEF Regions
<1>12. QED BY <1>10, <1>11 DEF Regions

LEMMA RegionsInvariant == Spec => []Regions
<1>1. Init => Regions
  <2> SUFFICES ASSUME Init PROVE Regions OBVIOUS
  <2>1. \A w \in Worker : regions[w] = <<>> /\ Len(regions[w]) = 0
    BY DEF Init
  <2>2. Blocked = {} /\ Waiting = {} BY <2>1 DEF Blocked, Waiting, OnTasks
  <2>3. RegionsCounted
    BY <2>2, FS_EmptySet DEF Init, RegionsCounted, Blocked, Waiting, OnTasks
  <2>4. QED BY <2>1, <2>3 DEF Regions, RegionsOK
<1>2. ASSUME Control, Regions, [Next]_vars PROVE Regions'
  <2>1. CASE UNCHANGED regs
    BY <1>2, <2>1 DEF regs, Regions, RegionsOK, RegionsCounted
  <2>2. ASSUME NEW w \in Worker, NEW b \in BOOLEAN, OpenRegion(w, b) PROVE Regions'
    BY <1>2, <2>2, OpenRegions DEF OpenRegion
  <2>3. ASSUME NEW w \in Worker, NEW k \in Task, Await(w, k) PROVE Regions'
    BY <1>2, <2>3, OpenRegions DEF Await
  <2>4. ASSUME NEW w \in Worker, CloseRegion(w) PROVE Regions'
    BY <1>2, <2>4, ReleaseRegions DEF CloseRegion
  <2>5. ASSUME NEW w \in Worker, AwaitReady(w) \/ ReportStall(w) \/ AwaitCancelled(w) PROVE Regions'
    <3>1. release(w) /\ pc[w] \in AwaitPcs
      BY <2>5 DEF AwaitReady, ReportStall, AwaitCancelled, AwaitPcs
    <3>2. regions[w] # <<>> BY <1>2, <3>1 DEF Control, WorkerOK, Awaiting
    <3>3. QED BY <1>2, <3>1, <3>2, ReleaseRegions
  <2>6. ASSUME NEW w \in Worker, verify_not_deadlocked(w) PROVE Regions'
    BY <1>2, <2>6, StallRegions
  <2>7. ASSUME NEW t \in Thread, Enqueueing(t) \/ \E k \in Task : enqueue(t, k)
        PROVE  UNCHANGED regs
    BY <2>7
    DEF Enqueueing, enqueue, enqueue_check, enqueue_push, enqueue_sync, enqueue_notify,
        maybe_add_fast, maybe_add_compensating_worker
  <2>8. ASSUME NEW w \in Worker,
               \/ try_dequeue_local(w) \/ PickVictim(w) \/ try_steal_from_others(w)
               \/ execute_task(w) \/ worker_loop(w) \/ Sleep(w)
               \/ AwaitPoll(w) \/ SpuriousWakeup(w)
        PROVE  UNCHANGED regs
    BY <2>8
    DEF try_dequeue_local, PickVictim, try_steal_from_others, Take, execute_task,
        worker_loop, Sleep, AwaitPoll, SpuriousWakeup
  <2>9. CASE stop_notify_all \/ join \/ request_stop \/ UNCHANGED vars
    BY <2>1, <2>9 DEF stop_notify_all, join, request_stop, vars
  <2>10. QED
    BY <1>2, <2>1, <2>2, <2>3, <2>4, <2>5, <2>6, <2>7, <2>8, <2>9, Steps
<1>3. QED BY <1>1, <1>2, ControlInvariant, PTL DEF Spec

-----------------------------------------------------------------------------
(* Layer 3: the tasks.                                                     *)

LEMMA ElemsAppend ==
  ASSUME NEW S, NEW s \in Seq(S), NEW x \in S, Distinct(s), x \notin Elems(s)
  PROVE  Distinct(Append(s, x)) /\ Elems(Append(s, x)) = Elems(s) \cup {x}
<1>1. PICK l \in Nat : l = Len(s) BY LenProperties
<1>2. PICK a : a = Append(s, x) OBVIOUS
<1>3. /\ Len(a) = l + 1 /\ a[l + 1] = x
      /\ \A n \in 1..l : a[n] = s[n]
  BY <1>1, <1>2, AppendProperties
<1>4. \A n \in 1..(l + 1) : n \in 1..l \/ n = l + 1 OBVIOUS
<1>5. 1..l \subseteq 1..(l + 1) /\ l + 1 \in 1..(l + 1) OBVIOUS
<1>6. \A n \in 1..l : s[n] # x BY <1>1 DEF Elems
<1>7. Distinct(a) BY <1>1, <1>3, <1>4, <1>6 DEF Distinct
<1>8. Elems(a) = Elems(s) \cup {x}
  <2>1. ASSUME NEW y \in Elems(a) PROVE y \in Elems(s) \cup {x}
    BY <2>1, <1>1, <1>3, <1>4 DEF Elems
  <2>2. ASSUME NEW y \in Elems(s) PROVE y \in Elems(a)
    BY <2>2, <1>1, <1>3, <1>5 DEF Elems
  <2>3. x \in Elems(a) BY <1>3, <1>5 DEF Elems
  <2>4. QED BY <2>1, <2>2, <2>3
<1>9. QED BY <1>2, <1>7, <1>8

LEMMA ElemsTail ==
  ASSUME NEW S, NEW s \in Seq(S), s # <<>>, Distinct(s)
  PROVE  /\ Distinct(Tail(s)) /\ Head(s) \in Elems(s)
         /\ Elems(Tail(s)) = Elems(s) \ {Head(s)}
<1>1. PICK l \in Nat : l + 1 = Len(s)
  <2>1. PICK n \in Nat \ {0} : n = Len(s) BY EmptySeq
  <2>2. n - 1 \in Nat /\ (n - 1) + 1 = n OBVIOUS
  <2>3. QED BY <2>1, <2>2
<1>2. PICK a : a = Tail(s) OBVIOUS
<1>3. Len(a) = l /\ \A n \in 1..l : a[n] = s[n + 1]
  <2>1. Len(s) - 1 = l BY <1>1
  <2>2. QED BY <1>2, <2>1, HeadTailProperties
<1>4. Head(s) = s[1] OBVIOUS
<1>5. /\ \A n \in 1..l : n + 1 \in 1..(l + 1) /\ n + 1 # 1
      /\ \A n \in 1..(l + 1) : n # 1 => n - 1 \in 1..l /\ (n - 1) + 1 = n
      /\ \A m, n \in 1..l : m + 1 = n + 1 => m = n
      /\ 1 \in 1..(l + 1)
  OBVIOUS
<1>6. Distinct(a) BY <1>1, <1>3, <1>5 DEF Distinct
<1>7. Elems(a) = Elems(s) \ {Head(s)}
  <2>1. ASSUME NEW y \in Elems(a) PROVE y \in Elems(s) /\ y # Head(s)
    BY <2>1, <1>1, <1>3, <1>4, <1>5 DEF Elems, Distinct
  <2>2. ASSUME NEW y \in Elems(s), y # Head(s) PROVE y \in Elems(a)
    <3>1. PICK n \in 1..(l + 1) : y = s[n] BY <1>1 DEF Elems
    <3>2. n # 1 BY <2>2, <3>1, <1>4
    <3>3. n - 1 \in 1..l /\ a[n - 1] = y BY <1>3, <1>5, <3>1, <3>2
    <3>4. QED BY <1>3, <3>3 DEF Elems
  <2>3. QED BY <2>1, <2>2
<1>8. Head(s) \in Elems(s) BY <1>1, <1>4, <1>5 DEF Elems
<1>9. QED BY <1>2, <1>6, <1>7, <1>8

LEMMA ElemsFront ==
  ASSUME NEW S, NEW s \in Seq(S), s # <<>>, Distinct(s)
  PROVE  /\ Distinct(SubSeq(s, 1, Len(s) - 1)) /\ s[Len(s)] \in Elems(s)
         /\ Elems(SubSeq(s, 1, Len(s) - 1)) = Elems(s) \ {s[Len(s)]}
<1>1. PICK l \in Nat : l + 1 = Len(s)
  <2>1. PICK n \in Nat \ {0} : n = Len(s) BY EmptySeq
  <2>2. n - 1 \in Nat /\ (n - 1) + 1 = n OBVIOUS
  <2>3. QED BY <2>1, <2>2
<1>2. PICK a : a = SubSeq(s, 1, Len(s) - 1) OBVIOUS
<1>3. Len(a) = l /\ \A n \in 1..l : a[n] = s[n]
  <2>1. Len(s) - 1 = l BY <1>1
  <2>2. QED BY <1>2, <2>1, FrontProperties
<1>4. /\ \A n \in 1..l : n \in 1..(l + 1) /\ n # l + 1
      /\ \A n \in 1..(l + 1) : n # l + 1 => n \in 1..l
      /\ l + 1 \in 1..(l + 1)
  OBVIOUS
<1>5. Distinct(a) BY <1>1, <1>3, <1>4 DEF Distinct
<1>6. Elems(a) = Elems(s) \ {s[l + 1]}
  <2>1. ASSUME NEW y \in Elems(a) PROVE y \in Elems(s) /\ y # s[l + 1]
    BY <2>1, <1>1, <1>3, <1>4 DEF Elems, Distinct
  <2>2. ASSUME NEW y \in Elems(s), y # s[l + 1] PROVE y \in Elems(a)
    BY <2>2, <1>1, <1>3, <1>4 DEF Elems
  <2>3. QED BY <2>1, <2>2
<1>7. s[l + 1] \in Elems(s) BY <1>1, <1>4 DEF Elems
<1>8. QED BY <1>1, <1>2, <1>5, <1>6, <1>7

LEMMA SpawnedFinite == IsFiniteSet(Spawned) /\ Cardinality(Spawned) \in Nat
BY PoolAssumption, FS_Subset, FS_CardinalityType DEF Spawned

(* The tasks about to be pushed stay new and in one hand each.             *)
LEMMA NewKept ==
  ASSUME Control, NewOK,
         \A u \in Thread : pc'[u] \in {"enq_lock", "enq_push"} =>
           /\ pc[u] \in {"enq_lock", "enq_push"} /\ arg'[u] = arg[u]
           /\ status'[arg[u].task] = "new",
         \A u \in Thread :
           \/ arg'[u].task = arg[u].task \/ arg'[u].task = NoTask
           \/ arg'[u].task \in Task /\ status[arg'[u].task] # "new"
  PROVE  NewOK'
<1>1. ASSUME NEW t \in Thread, pc'[t] \in {"enq_lock", "enq_push"}
      PROVE  /\ status'[arg'[t].task] = "new"
             /\ \A u \in Thread : arg'[u].task = arg'[t].task => u = t
  <2>1. /\ pc[t] \in {"enq_lock", "enq_push"} /\ arg'[t] = arg[t]
        /\ status'[arg[t].task] = "new"
    BY <1>1
  <2>2. /\ arg[t].task \in Task /\ arg[t].task # NoTask
        /\ status[arg[t].task] = "new"
        /\ \A u \in Thread : arg[u].task = arg[t].task => u = t
    BY <2>1, PoolAssumption DEF Control, HolderOK, NewOK
  <2>3. QED BY <2>1, <2>2
<1>2. QED BY <1>1 DEF NewOK

(* A worker takes a task off a queue.                                      *)
LEMMA TakeAccounted ==
  ASSUME Control, Accounted, NEW w \in Worker, job[w] = NoTask,
         NEW q \in Base, NEW x \in Elems(queue[q]), NEW s,
         Distinct(s), Elems(s) = Elems(queue[q]) \ {x},
         queue' = [queue EXCEPT ![q] = s], job' = [job EXCEPT ![w] = x],
         UNCHANGED <<status, total>>, NewOK'
  PROVE  Accounted'
<1>1. /\ queue'[q] = s /\ \A i \in Base \ {q} : queue'[i] = queue[i]
      /\ job'[w] = x /\ \A v \in Worker \ {w} : job'[v] = job[v]
  BY DEF Control, TypeCore
<1>2. Spawned' = Spawned BY DEF Spawned
<1>3. QueuesOK BY DEF Accounted
<1>4. /\ x \in Spawned /\ x # NoTask
      /\ \A i \in Base \ {q} : x \notin Elems(queue[i])
      /\ \A v \in Worker : job[v] # x
  <2>1. x \in Spawned BY <1>3 DEF QueuesOK
  <2>2. x # NoTask BY <2>1, PoolAssumption DEF Spawned
  <2>3. \A i \in Base \ {q} : x \notin Elems(queue[i]) BY <1>3 DEF QueuesOK
  <2>4. \A v \in Worker : job[v] # x BY <2>2 DEF Accounted, JobsOK
  <2>5. QED BY <2>1, <2>2, <2>3, <2>4
<1>5. \A i \in Base : Elems(queue'[i]) = Elems(queue[i]) \ {x}
  BY <1>1, <1>4
<1>6. QueuesOK'
  <2>1. \A i \in Base : Distinct(queue'[i]) /\ Elems(queue'[i]) \subseteq Spawned'
    BY <1>1, <1>2, <1>3, <1>5 DEF QueuesOK
  <2>2. \A i, j \in Base : i # j => Elems(queue'[i]) \cap Elems(queue'[j]) = {}
    BY <1>3, <1>5 DEF QueuesOK
  <2>3. QED BY <2>1, <2>2 DEF QueuesOK
<1>7. JobsOK'
  BY <1>1, <1>2, <1>4, <1>5 DEF Accounted, JobsOK
<1>8. SpawnedOK'
  <2>1. ASSUME NEW k \in Spawned
        PROVE (\E i \in Base : k \in Elems(queue'[i])) \/ (\E v \in Worker : job'[v] = k)
    <3>1. CASE k = x BY <1>1, <3>1
    <3>2. CASE k # x
      <4>1. (\E i \in Base : k \in Elems(queue[i])) \/ (\E v \in Worker : job[v] = k)
        BY DEF Accounted, SpawnedOK
      <4>2. k # NoTask BY PoolAssumption DEF Spawned
      <4>3. \A v \in Worker : job[v] = k => job'[v] = k BY <1>1, <4>2
      <4>4. QED BY <3>2, <4>1, <4>3, <1>5
    <3>3. QED BY <3>1, <3>2
  <2>2. QED BY <1>2, <2>1 DEF SpawnedOK
<1>9. QED BY <1>2, <1>6, <1>7, <1>8 DEF Accounted

LEMMA PushAccounted ==
  ASSUME Control, Accounted, NEW t \in Thread, enqueue_push(t)
  PROVE  Accounted'
<1>1. PICK q \in Base, k \in Task : q = arg[t].q /\ k = arg[t].task
  BY DEF enqueue_push, Control, TypeCore, HolderOK
<1>2. /\ pc[t] = "enq_push"
      /\ queue' = [queue EXCEPT ![q] = Append(queue[q], k)]
      /\ total' = total + 1
      /\ status' = [status EXCEPT ![k] = "spawned"]
      /\ arg' = [arg EXCEPT ![t] = NoArg]
      /\ pc' = [pc EXCEPT ![t] = "enq_sync"]
      /\ job' = job
  BY <1>1 DEF enqueue_push, Goto
<1>3. /\ status[k] = "new" /\ k # NoTask
      /\ \A u \in Thread : arg[u].task = k => u = t
  BY <1>1, <1>2, PoolAssumption DEF Accounted, NewOK
<1>4. QueuesOK /\ k \notin Spawned /\ \A i \in Base : k \notin Elems(queue[i])
  BY <1>3 DEF Accounted, QueuesOK, Spawned
<1>5. Spawned' = Spawned \cup {k}
  <2>1. status'[k] = "spawned" /\ \A x \in Task \ {k} : status'[x] = status[x]
    BY <1>2 DEF Control, TypeCore
  <2>2. QED BY <2>1 DEF Spawned
<1>6. queue[q] \in Seq(Task) /\ Distinct(queue[q])
  BY <1>4 DEF Control, TypeCore, QueuesOK
<1>7. Distinct(Append(queue[q], k)) /\ Elems(Append(queue[q], k)) = Elems(queue[q]) \cup {k}
  BY <1>4, <1>6, ElemsAppend
<1>8. /\ Distinct(queue'[q]) /\ Elems(queue'[q]) = Elems(queue[q]) \cup {k}
      /\ \A i \in Base \ {q} : queue'[i] = queue[i]
  BY <1>2, <1>7 DEF Control, TypeCore
<1>9. QueuesOK'
  <2>1. \A i \in Base : Distinct(queue'[i]) /\ Elems(queue'[i]) \subseteq Spawned'
    BY <1>4, <1>5, <1>8 DEF QueuesOK
  <2>2. ASSUME NEW i \in Base, NEW j \in Base, i # j
        PROVE  Elems(queue'[i]) \cap Elems(queue'[j]) = {}
    <3>1. Elems(queue[i]) \cap Elems(queue[j]) = {} BY <1>4, <2>2 DEF QueuesOK
    <3>2. /\ Elems(queue'[i]) = Elems(queue[i]) \cup (IF i = q THEN {k} ELSE {})
          /\ Elems(queue'[j]) = Elems(queue[j]) \cup (IF j = q THEN {k} ELSE {})
      BY <1>8
    <3>3. k \notin Elems(queue[i]) /\ k \notin Elems(queue[j]) BY <1>4
    <3>4. QED BY <2>2, <3>1, <3>2, <3>3
  <2>3. QED BY <2>1, <2>2 DEF QueuesOK
<1>10. JobsOK'
  <2>1. ASSUME NEW w \in Worker, job[w] # NoTask
        PROVE  /\ job[w] \in Spawned' /\ \A i \in Base : job[w] \notin Elems(queue'[i])
    <3>1. job[w] \in Spawned /\ \A i \in Base : job[w] \notin Elems(queue[i])
      BY <2>1 DEF Accounted, JobsOK
    <3>2. job[w] # k BY <3>1, <1>4
    <3>3. QED BY <3>1, <3>2, <1>5, <1>8
  <2>2. QED BY <1>2, <2>1 DEF Accounted, JobsOK
<1>11. NewOK'
  <2>1. /\ arg'[t] = NoArg /\ pc'[t] = "enq_sync"
        /\ \A u \in Thread \ {t} : arg'[u] = arg[u] /\ pc'[u] = pc[u]
    BY <1>2 DEF Control, TypeCore
  <2>2. ASSUME NEW u \in Thread, pc'[u] \in {"enq_lock", "enq_push"}
        PROVE  /\ pc[u] \in {"enq_lock", "enq_push"} /\ arg'[u] = arg[u]
               /\ status'[arg[u].task] = "new"
    <3>1. u # t /\ pc[u] = pc'[u] /\ arg'[u] = arg[u] BY <2>1, <2>2
    <3>2. arg[u].task \in Task /\ arg[u].task # k /\ status[arg[u].task] = "new"
      BY <1>3, <2>2, <3>1 DEF Control, HolderOK, Accounted, NewOK
    <3>3. QED BY <1>2, <2>2, <3>1, <3>2 DEF Control, TypeCore
  <2>3. \A u \in Thread : arg'[u].task = arg[u].task \/ arg'[u].task = NoTask
    BY <2>1 DEF NoArg
  <2>4. QED BY <2>2, <2>3, NewKept DEF Accounted
<1>12. SpawnedOK'
  <2>1. ASSUME NEW x \in Spawned'
        PROVE  (\E i \in Base : x \in Elems(queue'[i])) \/ (\E w \in Worker : job'[w] = x)
    <3>1. CASE x = k BY <1>8, <3>1
    <3>2. CASE x # k
      <4>1. (\E i \in Base : x \in Elems(queue[i])) \/ (\E w \in Worker : job[w] = x)
        BY <1>5, <2>1, <3>2 DEF Accounted, SpawnedOK
      <4>2. \A i \in Base : Elems(queue[i]) \subseteq Elems(queue'[i]) BY <1>8
      <4>3. QED BY <1>2, <4>1, <4>2
    <3>3. QED BY <3>1, <3>2
  <2>2. QED BY <2>1 DEF SpawnedOK
<1>13. total' = Cardinality(Spawned')
  BY <1>2, <1>4, <1>5, SpawnedFinite, CountAdd DEF Accounted
<1>14. QED BY <1>9, <1>10, <1>11, <1>12, <1>13 DEF Accounted

LEMMA EndAccounted ==
  ASSUME Control, Accounted, NEW w \in Worker, execute_task(w)
  PROVE  Accounted'
<1>1. /\ pc[w] = "run" /\ pc' = [pc EXCEPT ![w] = "fetch"]
      /\ status' = [status EXCEPT ![job[w]] = "done"]
      /\ job' = [job EXCEPT ![w] = NoTask]
      /\ total' = total - 1
      /\ UNCHANGED <<queue, arg>>
  BY DEF execute_task, Goto
<1>2. PICK k \in Task : k = job[w]
  <2>1. job[w] # NoTask BY <1>1 DEF Control, WorkerOK, IdlePcs
  <2>2. QED BY <2>1 DEF Control, TypeCore
<1>3. k # NoTask BY PoolAssumption
<1>4. /\ k \in Spawned /\ \A i \in Base : k \notin Elems(queue[i])
      /\ \A v \in Worker : job[v] = k => v = w
  BY <1>2, <1>3 DEF Accounted, JobsOK
<1>5. status'[k] = "done" /\ \A x \in Task \ {k} : status'[x] = status[x]
  BY <1>1, <1>2 DEF Control, TypeCore
<1>6. Spawned' = Spawned \ {k} BY <1>5 DEF Spawned
<1>7. job'[w] = NoTask /\ \A v \in Worker \ {w} : job'[v] = job[v]
  BY <1>1 DEF Control, TypeCore
<1>8. QueuesOK' BY <1>1, <1>4, <1>6 DEF Accounted, QueuesOK
<1>9. JobsOK' BY <1>1, <1>4, <1>6, <1>7 DEF Accounted, JobsOK
<1>10. NewOK'
  <2>1. \A u \in Thread : pc'[u] \in {"enq_lock", "enq_push"} =>
          pc[u] \in {"enq_lock", "enq_push"} /\ pc'[u] = pc[u]
    BY <1>1 DEF Control, TypeCore
  <2>2. ASSUME NEW u \in Thread, pc'[u] \in {"enq_lock", "enq_push"}
        PROVE  status'[arg[u].task] = "new"
    <3>1. arg[u].task \in Task /\ status[arg[u].task] = "new"
      BY <2>1, <2>2 DEF Control, HolderOK, Accounted, NewOK
    <3>2. arg[u].task # k BY <3>1, <1>4 DEF Spawned
    <3>3. QED BY <3>1, <3>2, <1>5
  <2>3. QED BY <1>1, <2>1, <2>2, NewKept DEF Accounted
<1>11. SpawnedOK'
  <2>1. ASSUME NEW x \in Spawned'
        PROVE  (\E i \in Base : x \in Elems(queue'[i])) \/ (\E v \in Worker : job'[v] = x)
    <3>1. x \in Spawned /\ x # k BY <1>6, <2>1
    <3>2. (\E i \in Base : x \in Elems(queue[i])) \/ (\E v \in Worker : job[v] = x)
      BY <3>1 DEF Accounted, SpawnedOK
    <3>3. QED BY <1>1, <1>2, <1>7, <3>1, <3>2
  <2>2. QED BY <2>1 DEF SpawnedOK
<1>12. total' = Cardinality(Spawned')
  BY <1>1, <1>4, <1>6, SpawnedFinite, CountRemove DEF Accounted
<1>13. QED BY <1>8, <1>9, <1>10, <1>11, <1>12 DEF Accounted

(* A step that neither spawns, takes nor ends a task.                      *)
LEMMA QuietAccounted ==
  ASSUME Control, Accounted, UNCHANGED <<queue, job, status, total>>,
         \A u \in Thread : pc'[u] \in {"enq_lock", "enq_push"} =>
           pc[u] \in {"enq_lock", "enq_push"} /\ arg'[u] = arg[u],
         \A u \in Thread :
           \/ arg'[u].task = arg[u].task \/ arg'[u].task = NoTask
           \/ arg'[u].task \in Task /\ status[arg'[u].task] # "new"
  PROVE  Accounted'
<1>1. NewOK'
  <2>1. \A u \in Thread : pc'[u] \in {"enq_lock", "enq_push"} =>
          status'[arg[u].task] = "new"
    BY DEF Accounted, NewOK
  <2>2. QED BY <2>1, NewKept DEF Accounted
<1>2. QED BY <1>1 DEF Accounted, QueuesOK, JobsOK, SpawnedOK, Spawned

LEMMA StepAccounted ==
  ASSUME Control, Accounted, [Next]_vars
  PROVE  Accounted'
<1>0. /\ pc \in [Thread -> Pcs]
      /\ arg \in [Thread -> [task : Task \cup {NoTask}, q : Base]]
      /\ \A t \in Thread : after[t] \in {"run", "await", "verify"}
      /\ Worker \subseteq Thread /\ Main \in Thread
  BY ThreadSets DEF Control, TypeCore
<1>. DEFINE Quiet ==
       /\ UNCHANGED <<queue, job, status, total>>
       /\ \A u \in Thread : pc'[u] \in {"enq_lock", "enq_push"} =>
            pc[u] \in {"enq_lock", "enq_push"} /\ arg'[u] = arg[u]
       /\ \A u \in Thread :
            \/ arg'[u].task = arg[u].task \/ arg'[u].task = NoTask
            \/ arg'[u].task \in Task /\ status[arg'[u].task] # "new"
<1>1. ASSUME NEW t \in Thread, NEW k \in Task, enqueue(t, k) PROVE Accounted'
  <2>1. PICK q \in Base : arg' = [arg EXCEPT ![t] = [task |-> k, q |-> q]]
    BY <1>1 DEF enqueue, pick_best_worker
  <2>2. /\ status[k] = "new" /\ \A u \in Thread : arg[u].task # k
        /\ pc' = [pc EXCEPT ![t] = "enq_lock"]
        /\ UNCHANGED <<queue, job, status, total>>
    BY <1>1 DEF enqueue, Goto, core, tasks
  <2>3. /\ arg'[t].task = k
        /\ \A u \in Thread \ {t} : arg'[u] = arg[u] /\ pc'[u] = pc[u]
    BY <1>0, <2>1, <2>2
  <2>4. ASSUME NEW v \in Thread, pc'[v] \in {"enq_lock", "enq_push"}
        PROVE  /\ status[arg'[v].task] = "new"
               /\ \A u \in Thread : arg'[u].task = arg'[v].task => u = v
    <3>1. CASE v = t BY <2>2, <2>3, <3>1
    <3>2. CASE v # t
      <4>1. /\ status[arg[v].task] = "new"
            /\ \A u \in Thread : arg[u].task = arg[v].task => u = v
        BY <2>3, <2>4, <3>2 DEF Accounted, NewOK
      <4>2. QED BY <2>2, <2>3, <3>2, <4>1
    <3>3. QED BY <3>1, <3>2
  <2>5. NewOK' BY <2>2, <2>4 DEF NewOK
  <2>6. QED
    BY <2>2, <2>5 DEF Accounted, QueuesOK, JobsOK, SpawnedOK, Spawned
<1>2. ASSUME NEW t \in Thread, enqueue_check(t) PROVE Accounted'
  <2>1. /\ UNCHANGED <<queue, job, status, total>> /\ pc[t] = "enq_lock"
        /\ \/ pc' = [pc EXCEPT ![t] = "run"] /\ arg' = [arg EXCEPT ![t] = NoArg]
           \/ pc' = [pc EXCEPT ![t] = "enq_push"] /\ arg' = arg
    BY <1>2 DEF enqueue_check, Goto, tasks
  <2>2. Quiet BY <1>0, <2>1 DEF NoArg
  <2>3. QED BY <2>2, QuietAccounted
<1>3. ASSUME NEW t \in Thread,
             \/ enqueue_sync(t) \/ enqueue_notify(t) \/ maybe_add_fast(t)
             \/ maybe_add_compensating_worker(t) \/ (t \in Worker /\ AwaitPoll(t))
             \/ (t \in Worker /\ SpuriousWakeup(t))
             \/ stop_notify_all \/ join \/ request_stop \/ UNCHANGED vars
      PROVE  Accounted'
  <2>1. UNCHANGED <<queue, job, status, total, arg>>
    BY <1>3
    DEF enqueue_sync, enqueue_notify, maybe_add_fast, maybe_add_compensating_worker,
        AwaitPoll, SpuriousWakeup, stop_notify_all, join, request_stop, vars, core, tasks
  <2>2. \A u \in Thread : pc'[u] \in {"enq_lock", "enq_push"} => pc'[u] = pc[u]
    <3>1. CASE enqueue_notify(t)
      BY <1>0, <3>1 DEF enqueue_notify, Goto
    <3>2. CASE maybe_add_fast(t)
      <4>1. pc' = [pc EXCEPT ![t] = "comp_lock"] \/ pc' = [pc EXCEPT ![t] = after[t]]
        BY <3>2 DEF maybe_add_fast, ReturnTrue, Goto
      <4>2. QED BY <1>0, <4>1
    <3>3. CASE maybe_add_compensating_worker(t)
      <4>1. \/ pc' = [pc EXCEPT ![t] = "verify_failed"] \/ pc' = [pc EXCEPT ![t] = after[t]]
            \/ pc' = [pc EXCEPT ![t] = after[t], ![live + 1] = "fetch"]
        BY <3>3 DEF maybe_add_compensating_worker, ReturnTrue, ReturnFalse, Goto
      <4>2. QED BY <1>0, <4>1
    <3>4. CASE enqueue_sync(t) BY <1>0, <3>4 DEF enqueue_sync, Goto
    <3>5. CASE t \in Worker /\ (AwaitPoll(t) \/ SpuriousWakeup(t))
      BY <1>0, <3>5 DEF AwaitPoll, SpuriousWakeup, Goto
    <3>6. CASE join \/ request_stop BY <1>0, <3>6 DEF join, request_stop, Goto
    <3>7. CASE stop_notify_all BY <1>0, <3>7 DEF stop_notify_all
    <3>8. CASE UNCHANGED vars BY <3>8 DEF vars
    <3>9. QED BY <1>3, <3>1, <3>2, <3>3, <3>4, <3>5, <3>6, <3>7, <3>8
  <2>3. Quiet BY <2>1, <2>2
  <2>4. QED BY <2>3, QuietAccounted
<1>4. ASSUME NEW w \in Worker,
             \/ CloseRegion(w) \/ AwaitReady(w) \/ ReportStall(w) \/ AwaitCancelled(w)
             \/ verify_not_deadlocked(w)
             \/ \E b \in BOOLEAN : OpenRegion(w, b)
             \/ \E k \in Task : Await(w, k)
      PROVE  Accounted'
  <2>1. /\ UNCHANGED <<queue, job, status, total>>
        /\ \/ pc' = [pc EXCEPT ![w] = "run"] \/ pc' = [pc EXCEPT ![w] = "await"]
           \/ pc' = [pc EXCEPT ![w] = "comp"]
        /\ \/ arg' = arg \/ arg' = [arg EXCEPT ![w] = NoArg]
           \/ \E k \in Task : /\ status[k] = "spawned"
                              /\ arg' = [arg EXCEPT ![w] = [task |-> k, q |-> 1]]
    <3>1. CASE CloseRegion(w)
      BY <3>1 DEF CloseRegion, release, Goto, core, tasks
    <3>2. CASE AwaitReady(w) \/ ReportStall(w) \/ AwaitCancelled(w)
      BY <3>2 DEF AwaitReady, ReportStall, AwaitCancelled, release, Goto, core, tasks
    <3>3. CASE verify_not_deadlocked(w)
      BY <3>3 DEF verify_not_deadlocked, Goto, core, tasks
    <3>4. CASE \E b \in BOOLEAN : OpenRegion(w, b)
      BY <3>4 DEF OpenRegion, BlockingRegion, Goto, core, tasks
    <3>5. CASE \E k \in Task : Await(w, k)
      BY <3>5 DEF Await, BlockingRegion, Goto, core, tasks
    <3>6. QED BY <1>4, <3>1, <3>2, <3>3, <3>4, <3>5
  <2>2. \A u \in Thread : pc'[u] \in {"enq_lock", "enq_push"} => u # w /\ pc'[u] = pc[u]
    BY <1>0, <2>1
  <2>3. \A u \in Thread \ {w} : arg'[u] = arg[u] BY <1>0, <2>1
  <2>4. \/ arg'[w].task = arg[w].task \/ arg'[w].task = NoTask
        \/ arg'[w].task \in Task /\ status[arg'[w].task] # "new"
    <3>1. CASE arg' = arg BY <3>1
    <3>2. CASE arg' = [arg EXCEPT ![w] = NoArg] BY <1>0, <3>2 DEF NoArg
    <3>3. ASSUME NEW k \in Task, status[k] = "spawned",
                 arg' = [arg EXCEPT ![w] = [task |-> k, q |-> 1]]
          PROVE  arg'[w].task \in Task /\ status[arg'[w].task] # "new"
      BY <1>0, <3>3
    <3>4. QED BY <2>1, <3>1, <3>2, <3>3
  <2>5. Quiet BY <2>1, <2>2, <2>3, <2>4
  <2>6. QED BY <2>5, QuietAccounted
<1>5. ASSUME NEW w \in Worker, PickVictim(w) \/ worker_loop(w) \/ Sleep(w)
      PROVE  Accounted'
  <2>1. /\ UNCHANGED <<queue, job, status, total>>
        /\ \E l \in {"lock", "steal", "fetch", "exited", "doze", "sleep"} :
             pc' = [pc EXCEPT ![w] = l]
        /\ \/ arg' = arg
           \/ \E q \in Base : arg' = [arg EXCEPT ![w] = [task |-> NoTask, q |-> q]]
    <3>1. CASE PickVictim(w) BY <3>1 DEF PickVictim, Goto, core, tasks
    <3>2. CASE worker_loop(w) BY <3>2 DEF worker_loop, Goto, tasks
    <3>3. CASE Sleep(w) BY <3>3 DEF Sleep, Goto, tasks
    <3>4. QED BY <1>5, <3>1, <3>2, <3>3
  <2>2. \A u \in Thread : pc'[u] \in {"enq_lock", "enq_push"} => u # w /\ pc'[u] = pc[u]
    BY <1>0, <2>1
  <2>3. \A u \in Thread \ {w} : arg'[u] = arg[u] BY <1>0, <2>1
  <2>4. arg'[w].task = arg[w].task \/ arg'[w].task = NoTask
    <3>1. CASE arg' = arg BY <3>1
    <3>2. ASSUME NEW q \in Base, arg' = [arg EXCEPT ![w] = [task |-> NoTask, q |-> q]]
          PROVE  arg'[w].task = NoTask
      BY <1>0, <3>2
    <3>3. QED BY <2>1, <3>1, <3>2
  <2>5. Quiet BY <2>1, <2>2, <2>3, <2>4
  <2>6. QED BY <2>5, QuietAccounted
<1>6. ASSUME NEW w \in Worker, try_dequeue_local(w) PROVE Accounted'
  <2>1. /\ pc[w] = "fetch" /\ w \in Base /\ queue[w] # <<>>
        /\ queue' = [queue EXCEPT ![w] = Tail(queue[w])]
        /\ job' = [job EXCEPT ![w] = Head(queue[w])]
        /\ pc' = [pc EXCEPT ![w] = "run"] /\ arg' = arg
        /\ UNCHANGED <<status, total>>
    BY <1>6 DEF try_dequeue_local, Take, Goto
  <2>2. job[w] = NoTask BY <2>1 DEF Control, WorkerOK, IdlePcs
  <2>3. queue[w] \in Seq(Task) /\ Distinct(queue[w])
    BY <2>1 DEF Control, TypeCore, Accounted, QueuesOK
  <2>4. /\ Distinct(Tail(queue[w])) /\ Head(queue[w]) \in Elems(queue[w])
        /\ Elems(Tail(queue[w])) = Elems(queue[w]) \ {Head(queue[w])}
    BY <2>1, <2>3, ElemsTail
  <2>5. \A u \in Thread : pc'[u] \in {"enq_lock", "enq_push"} => pc'[u] = pc[u]
    BY <1>0, <2>1
  <2>6. NewOK'
    BY <2>1, <2>5 DEF Accounted, NewOK
  <2>7. QED BY <2>1, <2>2, <2>4, <2>6, TakeAccounted
<1>7. ASSUME NEW w \in Worker, try_steal_from_others(w) PROVE Accounted'
  <2>1. PICK q \in Base : q = arg[w].q BY <1>0
  <2>2. /\ pc[w] = "steal" /\ arg' = [arg EXCEPT ![w] = NoArg]
        /\ UNCHANGED <<status, total>>
        /\ \/ pc' = [pc EXCEPT ![w] = "lock"] /\ UNCHANGED <<queue, job>>
           \/ /\ queue[q] # <<>>
              /\ queue' = [queue EXCEPT ![q] = SubSeq(queue[q], 1, Len(queue[q]) - 1)]
              /\ job' = [job EXCEPT ![w] = queue[q][Len(queue[q])]]
              /\ pc' = [pc EXCEPT ![w] = "run"]
    BY <1>7, <2>1 DEF try_steal_from_others, Take, Goto, core, tasks
  <2>3. \A u \in Thread : pc'[u] \in {"enq_lock", "enq_push"} => u # w /\ pc'[u] = pc[u]
    BY <1>0, <2>2
  <2>4. \A u \in Thread : arg'[u] = arg[u] \/ arg'[u].task = NoTask
    BY <1>0, <2>2 DEF NoArg
  <2>5. \A u \in Thread \ {w} : arg'[u] = arg[u] BY <1>0, <2>2
  <2>6. CASE UNCHANGED <<queue, job>>
    <3>1. Quiet BY <2>2, <2>3, <2>4, <2>5, <2>6
    <3>2. QED BY <3>1, QuietAccounted
  <2>7. CASE /\ queue[q] # <<>>
             /\ queue' = [queue EXCEPT ![q] = SubSeq(queue[q], 1, Len(queue[q]) - 1)]
             /\ job' = [job EXCEPT ![w] = queue[q][Len(queue[q])]]
    <3>1. job[w] = NoTask BY <2>2 DEF Control, WorkerOK, IdlePcs
    <3>2. queue[q] \in Seq(Task) /\ Distinct(queue[q])
      BY DEF Control, TypeCore, Accounted, QueuesOK
    <3>3. PICK s, x : s = SubSeq(queue[q], 1, Len(queue[q]) - 1) /\ x = queue[q][Len(queue[q])]
      OBVIOUS
    <3>4. Distinct(s) /\ x \in Elems(queue[q]) /\ Elems(s) = Elems(queue[q]) \ {x}
      BY <2>7, <3>2, <3>3, ElemsFront
    <3>5. NewOK'
      <4>1. \A u \in Thread : pc'[u] \in {"enq_lock", "enq_push"} =>
              status'[arg[u].task] = "new"
        BY <2>2, <2>3 DEF Accounted, NewOK
      <4>2. QED BY <2>3, <2>4, <2>5, <4>1, NewKept DEF Accounted
    <3>6. queue' = [queue EXCEPT ![q] = s] /\ job' = [job EXCEPT ![w] = x]
      BY <2>7, <3>3
    <3>7. QED BY <2>2, <3>1, <3>4, <3>5, <3>6, TakeAccounted
  <2>8. QED BY <2>2, <2>6, <2>7
<1>8. QED
  BY <1>0, <1>1, <1>2, <1>3, <1>4, <1>5, <1>6, <1>7, PushAccounted, EndAccounted, Steps
  DEF Enqueueing

LEMMA AccountedInvariant == Spec => []Accounted
<1>1. Init => Accounted
  <2> SUFFICES ASSUME Init PROVE Accounted OBVIOUS
  <2>1. \A i \in Base : queue[i] = <<>> /\ Len(queue[i]) = 0 BY DEF Init
  <2>2. \A i \in Base : Distinct(queue[i]) /\ Elems(queue[i]) = {}
    BY <2>1 DEF Distinct, Elems
  <2>3. Spawned = {} BY DEF Init, Spawned
  <2>4. total = Cardinality(Spawned) BY <2>3, FS_EmptySet DEF Init
  <2>5. NewOK BY DEF Init, NewOK
  <2>6. JobsOK BY DEF Init, JobsOK
  <2>7. QED BY <2>2, <2>3, <2>4, <2>5, <2>6 DEF Accounted, QueuesOK, SpawnedOK
<1>2. QED BY <1>1, StepAccounted, ControlInvariant, PTL DEF Spec

-----------------------------------------------------------------------------
(* What a step does to the threads' places and to what they look at.  The  *)
(* remaining layers need no more of it than this.                          *)

Move(t, P, R) == pc[t] \in P /\ \E l \in R : pc' = [pc EXCEPT ![t] = l]

Plain == {"run", "enq_lock"} \cup AwaitPcs

Kept ==
  QueuedTasks' = QueuedTasks /\ UNCHANGED <<total, should_stop, live, blocked>>

Pushes(t) ==
  /\ Move(t, {"enq_push"}, {"enq_sync"})
  /\ total' = total + 1 /\ UNCHANGED <<should_stop, live, blocked>>
  /\ \E k \in Task \ QueuedTasks : QueuedTasks' = QueuedTasks \cup {k}

Notifies(t) ==
  /\ Kept
  /\ \/ In({"sleep"}) = {} /\ Move(t, {"enq_notify"}, {"comp"})
     \/ /\ pc[t] = "enq_notify"
        /\ \E w \in In({"sleep"}) : pc' = [pc EXCEPT ![t] = "comp", ![w] = "lock"]

Enqueues(t) ==
  \/ Kept /\ Move(t, Plain, Plain)
  \/ Kept /\ total < MaxQueue /\ Move(t, {"enq_lock"}, {"enq_push"})
  \/ Pushes(t)
  \/ Kept /\ mutex = Nobody /\ Move(t, {"enq_sync"}, {"enq_notify"})
  \/ Notifies(t)

Starts(t) ==
  /\ QueuedTasks' = QueuedTasks /\ UNCHANGED <<total, should_stop, blocked>>
  /\ live' = live + 1 /\ live + 1 \in In({"off"}) \ {t}
  /\ pc[t] = "comp_lock"
  /\ \E l \in Plain : pc' = [pc EXCEPT ![t] = l, ![live + 1] = "fetch"]

Compensates(t) ==
  \/ Kept /\ Move(t, {"comp"}, {"comp_lock"})
  \/ /\ Kept /\ Move(t, CompPcs, Plain)
     /\ \/ blocked < live \/ ~has_any_work \/ should_stop
        \/ live >= Workers + MaxCompensating \/ OsRefusesThreads
  \/ Starts(t)

Blocks(w) ==
  \/ Kept /\ Move(w, Plain, Plain \cup {"comp"})
  \/ /\ QueuedTasks' = QueuedTasks /\ UNCHANGED <<total, should_stop, live>>
     /\ \/ blocked' = blocked + 1 /\ Move(w, {"run"}, {"comp"})
        \/ blocked' = blocked - 1 /\ Move(w, Plain, {"run"})

Takes(w) ==
  /\ Move(w, {"fetch", "steal"}, {"run"})
  /\ UNCHANGED <<total, should_stop, live, blocked>>
  /\ \E k \in QueuedTasks : QueuedTasks' = QueuedTasks \ {k}

Looks(w) ==
  \/ Kept /\ Move(w, {"fetch", "steal", "lock", "sleep"}, {"fetch", "steal", "lock"})
  \/ Kept /\ ~has_any_work /\ Move(w, {"lock"}, {"doze"})
  \/ Kept /\ ~has_any_work /\ should_stop /\ Move(w, {"lock"}, {"exited"})
  \/ Kept /\ Move(w, {"doze"}, {"sleep"})
  \/ Takes(w)
  \/ /\ QueuedTasks' = QueuedTasks /\ UNCHANGED <<should_stop, live, blocked>>
     /\ total' = total - 1 /\ Move(w, {"run"}, {"fetch"})

Stops ==
  \/ /\ QueuedTasks' = QueuedTasks /\ UNCHANGED <<total, live, blocked>>
     /\ should_stop' = TRUE /\ Move(Main, {"run"}, {"stop_notify"})
  \/ /\ Kept /\ pc[Main] = "stop_notify"
     /\ pc' = [t \in Thread |-> IF t = Main THEN "join"
                                ELSE IF pc[t] = "sleep" THEN "lock" ELSE pc[t]]
  \/ /\ Kept /\ \A w \in 1..live : pc[w] = "exited"
     /\ Move(Main, {"join"}, {"joined"})

Effects ==
  \/ \E t \in Thread : Enqueues(t) \/ Compensates(t)
  \/ \E w \in Worker : Blocks(w) \/ Looks(w)
  \/ Stops
  \/ Kept /\ UNCHANGED pc

LEMMA QueuedElems ==
  /\ QueuedTasks = UNION {Elems(queue[i]) : i \in Base}
  /\ \A k : k \in QueuedTasks <=> \E i \in Base : k \in Elems(queue[i])
BY DEF QueuedTasks, Elems

LEMMA QueuedFinite ==
  ASSUME Control
  PROVE  /\ QueuedTasks \subseteq Task /\ IsFiniteSet(QueuedTasks)
         /\ Cardinality(QueuedTasks) \in Nat
         /\ has_any_work <=> QueuedTasks # {}
<1>1. ASSUME NEW i \in Base
      PROVE  Elems(queue[i]) \subseteq Task /\ (queue[i] = <<>> <=> Elems(queue[i]) = {})
  <2>1. queue[i] \in Seq(Task) BY DEF Control, TypeCore
  <2>2. \A n \in 1..Len(queue[i]) : queue[i][n] \in Task BY <2>1, ElementOfSeq
  <2>3. queue[i] = <<>> => Len(queue[i]) = 0 OBVIOUS
  <2>4. queue[i] # <<>> => Len(queue[i]) \in Nat \ {0} BY <2>1, EmptySeq
  <2>5. queue[i] # <<>> => 1 \in 1..Len(queue[i]) BY <2>4
  <2>6. queue[i] = <<>> => Elems(queue[i]) = {} BY <2>3 DEF Elems
  <2>7. queue[i] # <<>> => queue[i][1] \in Elems(queue[i]) BY <2>5 DEF Elems
  <2>8. QED BY <2>2, <2>6, <2>7 DEF Elems
<1>2. QueuedTasks \subseteq Task BY <1>1, QueuedElems
<1>3. has_any_work <=> QueuedTasks # {} BY <1>1, QueuedElems DEF has_any_work
<1>4. QED BY <1>2, <1>3, PoolAssumption, FS_Subset, FS_CardinalityType

LEMMA PushEffect ==
  ASSUME Control, Accounted, NEW t \in Thread, enqueue_push(t)
  PROVE  Pushes(t)
<1>1. PICK q \in Base, k \in Task : q = arg[t].q /\ k = arg[t].task
  BY DEF enqueue_push, Control, TypeCore, HolderOK
<1>2. /\ pc[t] = "enq_push"
      /\ queue' = [queue EXCEPT ![q] = Append(queue[q], k)]
      /\ total' = total + 1
      /\ pc' = [pc EXCEPT ![t] = "enq_sync"]
      /\ UNCHANGED <<should_stop, live, blocked>>
  BY <1>1 DEF enqueue_push, Goto, regs
<1>3. k \notin Spawned BY <1>1, <1>2 DEF Accounted, NewOK, Spawned
<1>4. queue[q] \in Seq(Task) /\ Distinct(queue[q]) /\ k \notin Elems(queue[q])
  BY <1>3 DEF Control, TypeCore, Accounted, QueuesOK
<1>5. /\ Elems(queue'[q]) = Elems(queue[q]) \cup {k}
      /\ \A i \in Base \ {q} : queue'[i] = queue[i]
  <2>1. Elems(Append(queue[q], k)) = Elems(queue[q]) \cup {k} BY <1>4, ElemsAppend
  <2>2. QED BY <1>2, <2>1 DEF Control, TypeCore
<1>6. k \notin QueuedTasks BY <1>3, QueuedElems DEF Accounted, QueuesOK
<1>7. QueuedTasks' = QueuedTasks \cup {k}
  <2>1. \A x : x \in QueuedTasks' <=> \E i \in Base : x \in Elems(queue'[i])
    BY DEF QueuedTasks, Elems
  <2>2. QED BY <1>5, <2>1, QueuedElems
<1>8. QED BY <1>2, <1>6, <1>7 DEF Pushes, Move

(* Taking a task off a queue takes it off all of them.                     *)
LEMMA TakeEffect ==
  ASSUME Control, Accounted, NEW q \in Base, NEW x \in Elems(queue[q]), NEW s,
         Elems(s) = Elems(queue[q]) \ {x}, queue' = [queue EXCEPT ![q] = s]
  PROVE  \E k \in QueuedTasks : QueuedTasks' = QueuedTasks \ {k}
<1>1. queue'[q] = s /\ \A i \in Base \ {q} : queue'[i] = queue[i]
  BY DEF Control, TypeCore
<1>2. \A i \in Base \ {q} : x \notin Elems(queue[i]) BY DEF Accounted, QueuesOK
<1>3. \A y : y \in QueuedTasks' <=> \E i \in Base : y \in Elems(queue'[i])
  BY DEF QueuedTasks, Elems
<1>4. x \in QueuedTasks /\ QueuedTasks' = QueuedTasks \ {x}
  BY <1>1, <1>2, <1>3, QueuedElems
<1>5. QED BY <1>4

LEMMA StepEffects ==
  ASSUME Control, Regions, Accounted, [Next]_vars
  PROVE  Effects
<1>0. /\ pc \in [Thread -> Pcs]
      /\ \A t \in Thread : after[t] \in {"run", "await", "verify"}
      /\ arg \in [Thread -> [task : Task \cup {NoTask}, q : Base]]
      /\ queue \in [Base -> Seq(Task)]
      /\ Worker \subseteq Thread /\ Main \in Thread
  BY ThreadSets DEF Control, TypeCore
<1>1. UNCHANGED queue => QueuedTasks' = QueuedTasks BY DEF QueuedTasks
<1>2. ASSUME NEW t \in Thread,
             enqueue_check(t) \/ enqueue_sync(t) \/ \E k \in Task : enqueue(t, k)
      PROVE  Enqueues(t)
  <2>1. CASE \E k \in Task : enqueue(t, k)
    <3>1. pc[t] = "run" /\ pc' = [pc EXCEPT ![t] = "enq_lock"] /\ UNCHANGED <<core, regs>>
      BY <2>1 DEF enqueue, Goto
    <3>2. QED BY <1>1, <3>1 DEF Enqueues, Kept, Move, Plain, core, regs
  <2>2. CASE enqueue_check(t)
    <3>1. /\ pc[t] = "enq_lock" /\ UNCHANGED <<queue, total, should_stop, live, blocked>>
          /\ \/ pc' = [pc EXCEPT ![t] = "run"]
             \/ ~(total >= MaxQueue) /\ pc' = [pc EXCEPT ![t] = "enq_push"]
      BY <2>2 DEF enqueue_check, Goto, regs
    <3>2. total \in Nat /\ MaxQueue \in Nat
      BY PoolAssumption, SpawnedFinite DEF Accounted
    <3>3. QED BY <1>1, <3>1, <3>2 DEF Enqueues, Kept, Move, Plain
  <2>3. CASE enqueue_sync(t)
    BY <1>1, <2>3 DEF enqueue_sync, Goto, Enqueues, Kept, Move, core, regs
  <2>4. QED BY <1>2, <2>1, <2>2, <2>3
<1>3. ASSUME NEW t \in Thread, enqueue_notify(t) PROVE Enqueues(t)
  <2>1. Kept /\ pc[t] = "enq_notify"
    BY <1>1, <1>3 DEF enqueue_notify, Kept, core, regs
  <2>2. {w \in Worker : pc[w] = "sleep"} = In({"sleep"})
    BY ThreadSets DEF In, Control, MainOK, EnqueuePcs, CompPcs, StopPcs
  <2>3. \/ In({"sleep"}) = {} /\ pc' = [pc EXCEPT ![t] = "comp"]
        \/ \E w \in In({"sleep"}) : pc' = [pc EXCEPT ![t] = "comp", ![w] = "lock"]
    BY <1>3, <2>2 DEF enqueue_notify, Goto
  <2>4. QED BY <2>1, <2>3 DEF Enqueues, Notifies, Move
<1>4. ASSUME NEW t \in Thread, maybe_add_fast(t) PROVE Compensates(t)
  <2>1. Kept /\ pc[t] = "comp" BY <1>1, <1>4 DEF maybe_add_fast, Kept, core, regs
  <2>2. \/ pc' = [pc EXCEPT ![t] = "comp_lock"]
        \/ (blocked < live \/ ~has_any_work) /\ pc' = [pc EXCEPT ![t] = after[t]]
    BY <1>4 DEF maybe_add_fast, ReturnTrue, Goto
  <2>3. after[t] \in Plain BY <1>0 DEF Plain, AwaitPcs
  <2>4. QED BY <2>1, <2>2, <2>3 DEF Compensates, Move, CompPcs
<1>5. ASSUME NEW t \in Thread, maybe_add_compensating_worker(t) PROVE Compensates(t)
  <2>1. after[t] \in Plain /\ "verify_failed" \in Plain
    BY <1>0 DEF Plain, AwaitPcs
  <2>2. /\ pc[t] = "comp_lock" /\ QueuedTasks' = QueuedTasks
        /\ UNCHANGED <<total, should_stop, blocked>>
    BY <1>1, <1>5 DEF maybe_add_compensating_worker, regs
  <2>3. \/ /\ live' = live
           /\ pc' = [pc EXCEPT ![t] = after[t]] \/ pc' = [pc EXCEPT ![t] = "verify_failed"]
           /\ \/ blocked < live \/ should_stop
              \/ live >= Workers + MaxCompensating \/ OsRefusesThreads
        \/ /\ ~(live >= Workers + MaxCompensating)
           /\ live' = live + 1 /\ pc' = [pc EXCEPT ![t] = after[t], ![live + 1] = "fetch"]
    BY <1>5 DEF maybe_add_compensating_worker, ReturnTrue, ReturnFalse, Goto
  <2>4. CASE /\ ~(live >= Workers + MaxCompensating)
             /\ live' = live + 1 /\ pc' = [pc EXCEPT ![t] = after[t], ![live + 1] = "fetch"]
    <3>1. /\ live \in Workers..(Workers + MaxCompensating)
          /\ Workers \in Nat \ {0} /\ MaxCompensating \in Nat
      BY PoolAssumption DEF Control, TypeCore
    <3>2. live + 1 \in Worker /\ live + 1 > live BY <2>4, <3>1 DEF Worker
    <3>3. pc[live + 1] = "off" BY <3>2 DEF Control, WorkerOK
    <3>4. live + 1 \in In({"off"}) \ {t} BY <1>0, <2>2, <3>2, <3>3 DEF In
    <3>5. QED BY <2>1, <2>2, <2>4, <3>4 DEF Compensates, Starts
  <2>5. CASE ~(/\ ~(live >= Workers + MaxCompensating)
               /\ live' = live + 1 /\ pc' = [pc EXCEPT ![t] = after[t], ![live + 1] = "fetch"])
    <3>1. Kept BY <2>2, <2>3, <2>5 DEF Kept
    <3>2. Move(t, CompPcs, Plain) BY <2>1, <2>2, <2>3, <2>5 DEF Move, CompPcs
    <3>3. QED BY <2>3, <2>5, <3>1, <3>2 DEF Compensates
  <2>6. QED BY <2>4, <2>5
<1>6. ASSUME NEW w \in Worker, NEW b \in BOOLEAN, NEW next \in {"run", "await"},
             pc[w] = "run", BlockingRegion(w, b, next), UNCHANGED core
      PROVE  Blocks(w)
  <2>1. QueuedTasks' = QueuedTasks /\ UNCHANGED <<total, should_stop, live>>
    BY <1>1, <1>6 DEF core
  <2>2. blocked \in Nat BY CountsTyped DEF Regions
  <2>3. PICK r \in Region :
          /\ r.counts_blocked <=> regions[w] = <<>>
          /\ r.counts_on_tasks <=> b /\ OnTasksDepth(w) = 0
          /\ blocked' = blocked + (IF r.counts_blocked THEN 1 ELSE 0)
          /\ pc' = [pc EXCEPT ![w] = "comp"] \/ pc' = [pc EXCEPT ![w] = next]
    BY <1>6, OpenEffect
  <2>4. CASE r.counts_blocked
    <3>1. pc' = [pc EXCEPT ![w] = "comp"]
      BY <1>6, <2>3, <2>4 DEF BlockingRegion, Goto
    <3>2. QED BY <1>6, <2>1, <2>3, <2>4, <3>1 DEF Blocks, Move
  <2>5. CASE ~r.counts_blocked
    <3>1. blocked' = blocked BY <2>2, <2>3, <2>5
    <3>2. Move(w, Plain, Plain \cup {"comp"})
      BY <1>6, <2>3 DEF Move, Plain, AwaitPcs
    <3>3. QED BY <2>1, <3>1, <3>2 DEF Blocks, Kept
  <2>6. QED BY <2>4, <2>5
<1>7. ASSUME NEW w \in Worker, regions[w] # <<>>, pc[w] \in Plain, release(w)
      PROVE  Blocks(w)
  <2>1. /\ QueuedTasks' = QueuedTasks /\ UNCHANGED <<total, should_stop, live>>
        /\ blocked' = blocked - (IF Top(w).counts_blocked THEN 1 ELSE 0)
        /\ pc' = [pc EXCEPT ![w] = "run"]
    BY <1>1, <1>7, ReleaseEffect DEF core
  <2>2. blocked \in Nat BY CountsTyped DEF Regions
  <2>3. Move(w, Plain, {"run"}) /\ Move(w, Plain, Plain \cup {"comp"})
    BY <1>7, <2>1 DEF Move, Plain
  <2>4. blocked' = blocked \/ blocked' = blocked - 1 BY <2>1, <2>2
  <2>5. QED BY <2>1, <2>3, <2>4 DEF Blocks, Kept
<1>8. ASSUME NEW w \in Worker,
             \/ CloseRegion(w) \/ AwaitReady(w) \/ ReportStall(w) \/ AwaitCancelled(w)
             \/ verify_not_deadlocked(w) \/ AwaitPoll(w)
             \/ \E b \in BOOLEAN : OpenRegion(w, b)
             \/ \E k \in Task : Await(w, k)
      PROVE  Blocks(w)
  <2>1. CASE CloseRegion(w) BY <1>7, <2>1 DEF CloseRegion, Plain
  <2>2. CASE AwaitReady(w) \/ ReportStall(w) \/ AwaitCancelled(w)
    <3>1. release(w) /\ pc[w] \in AwaitPcs
      BY <2>2 DEF AwaitReady, ReportStall, AwaitCancelled, AwaitPcs
    <3>2. regions[w] # <<>> BY <3>1 DEF Control, WorkerOK, Awaiting
    <3>3. QED BY <1>7, <3>1, <3>2 DEF Plain
  <2>3. CASE verify_not_deadlocked(w)
    BY <1>1, <2>3
    DEF verify_not_deadlocked, Blocks, Kept, Move, Goto, Plain, AwaitPcs, core
  <2>4. CASE AwaitPoll(w)
    BY <1>1, <2>4 DEF AwaitPoll, Blocks, Kept, Move, Goto, Plain, AwaitPcs, core, regs
  <2>5. CASE \E b \in BOOLEAN : OpenRegion(w, b) BY <1>6, <2>5 DEF OpenRegion
  <2>6. CASE \E k \in Task : Await(w, k) BY <1>6, <2>6 DEF Await
  <2>7. QED BY <1>8, <2>1, <2>2, <2>3, <2>4, <2>5, <2>6
<1>9. ASSUME NEW w \in Worker, try_dequeue_local(w) PROVE Looks(w)
  <2>1. /\ pc[w] = "fetch" /\ w \in Base /\ queue[w] # <<>>
        /\ queue' = [queue EXCEPT ![w] = Tail(queue[w])]
        /\ pc' = [pc EXCEPT ![w] = "run"]
        /\ UNCHANGED <<total, should_stop, live, blocked>>
    BY <1>9 DEF try_dequeue_local, Take, Goto, regs
  <2>2. queue[w] \in Seq(Task) /\ Distinct(queue[w])
    BY <1>0, <2>1 DEF Accounted, QueuesOK
  <2>3. /\ Head(queue[w]) \in Elems(queue[w])
        /\ Elems(Tail(queue[w])) = Elems(queue[w]) \ {Head(queue[w])}
    BY <2>1, <2>2, ElemsTail
  <2>4. \E k \in QueuedTasks : QueuedTasks' = QueuedTasks \ {k}
    BY <2>1, <2>3, TakeEffect
  <2>5. QED BY <2>1, <2>4 DEF Looks, Takes, Move
<1>10. ASSUME NEW w \in Worker, try_steal_from_others(w) PROVE Looks(w)
  <2>1. PICK q \in Base : q = arg[w].q BY <1>0
  <2>2. /\ pc[w] = "steal"
        /\ UNCHANGED <<total, should_stop, live, blocked>>
        /\ \/ pc' = [pc EXCEPT ![w] = "lock"] /\ UNCHANGED queue
           \/ /\ queue[q] # <<>>
              /\ queue' = [queue EXCEPT ![q] = SubSeq(queue[q], 1, Len(queue[q]) - 1)]
              /\ pc' = [pc EXCEPT ![w] = "run"]
    BY <1>10, <2>1 DEF try_steal_from_others, Take, Goto, core, regs
  <2>3. CASE pc' = [pc EXCEPT ![w] = "lock"] /\ UNCHANGED queue
    BY <1>1, <2>2, <2>3 DEF Looks, Kept, Move
  <2>4. CASE /\ queue[q] # <<>>
             /\ queue' = [queue EXCEPT ![q] = SubSeq(queue[q], 1, Len(queue[q]) - 1)]
             /\ pc' = [pc EXCEPT ![w] = "run"]
    <3>1. queue[q] \in Seq(Task) /\ Distinct(queue[q])
      BY <1>0 DEF Accounted, QueuesOK
    <3>2. PICK s, x : s = SubSeq(queue[q], 1, Len(queue[q]) - 1) /\ x = queue[q][Len(queue[q])]
      OBVIOUS
    <3>3. x \in Elems(queue[q]) /\ Elems(s) = Elems(queue[q]) \ {x}
      BY <2>4, <3>1, <3>2, ElemsFront
    <3>4. queue' = [queue EXCEPT ![q] = s] BY <2>4, <3>2
    <3>5. \E k \in QueuedTasks : QueuedTasks' = QueuedTasks \ {k}
      BY <3>3, <3>4, TakeEffect
    <3>6. QED BY <2>2, <2>4, <3>5 DEF Looks, Takes, Move
  <2>5. QED BY <2>2, <2>3, <2>4
<1>11. ASSUME NEW w \in Worker,
              PickVictim(w) \/ execute_task(w) \/ worker_loop(w) \/ Sleep(w)
              \/ SpuriousWakeup(w)
       PROVE  Looks(w)
  <2>1. CASE PickVictim(w)
    <3>1. /\ UNCHANGED <<core, regs>> /\ pc[w] = "fetch"
          /\ pc' = [pc EXCEPT ![w] = "lock"] \/ pc' = [pc EXCEPT ![w] = "steal"]
      BY <2>1 DEF PickVictim, Goto
    <3>2. QED BY <1>1, <3>1 DEF Looks, Kept, Move, core, regs
  <2>2. CASE execute_task(w)
    BY <1>1, <2>2 DEF execute_task, Goto, Looks, Move, regs
  <2>3. CASE worker_loop(w)
    <3>1. /\ UNCHANGED <<queue, total, should_stop, live, blocked>> /\ pc[w] = "lock"
          /\ \/ pc' = [pc EXCEPT ![w] = "fetch"]
             \/ ~has_any_work /\ should_stop /\ pc' = [pc EXCEPT ![w] = "exited"]
             \/ ~has_any_work /\ pc' = [pc EXCEPT ![w] = "doze"]
      BY <2>3 DEF worker_loop, Goto, regs
    <3>2. QED BY <1>1, <3>1 DEF Looks, Kept, Move
  <2>4. CASE Sleep(w)
    BY <1>1, <2>4 DEF Sleep, Goto, Looks, Kept, Move, regs
  <2>5. CASE SpuriousWakeup(w)
    BY <1>1, <2>5 DEF SpuriousWakeup, Goto, Looks, Kept, Move, core, regs
  <2>6. QED BY <1>11, <2>1, <2>2, <2>3, <2>4, <2>5
<1>12. CASE stop_notify_all \/ join \/ request_stop
  <2>1. CASE stop_notify_all BY <1>1, <2>1 DEF stop_notify_all, Effects, Stops, Kept, core, regs
  <2>2. CASE join BY <1>1, <2>2 DEF join, Effects, Stops, Kept, Move, Goto, core, regs
  <2>3. CASE request_stop
    BY <1>1, <2>3 DEF request_stop, Effects, Stops, Move, Goto, regs
  <2>4. QED BY <1>12, <2>1, <2>2, <2>3
<1>13. CASE UNCHANGED vars BY <1>1, <1>13 DEF vars, core, regs, Effects, Kept
<1>14. ASSUME NEW t \in Thread, enqueue_push(t) PROVE Enqueues(t)
  BY <1>14, PushEffect DEF Enqueues
<1>15. QED
  BY <1>2, <1>3, <1>4, <1>5, <1>8, <1>9, <1>10, <1>11, <1>12, <1>13, <1>14, Steps
  DEF Enqueueing, Effects

(* Where the threads are after a move.                                     *)
LEMMA MoveIn ==
  ASSUME Control, NEW t \in Thread, NEW P, NEW R, Move(t, P, R), NEW S
  PROVE  /\ In(S)' \subseteq In(S) \cup {t} /\ In(S) \subseteq In(S)' \cup {t}
         /\ R \cap S = {} => t \notin In(S)'
         /\ R \subseteq S => t \in In(S)'
         /\ P \cap S = {} => t \notin In(S)
         /\ P \subseteq S => t \in In(S)
BY DEF Move, In, Control, TypeCore

-----------------------------------------------------------------------------
(* Layer 4: how far concurrent enqueues overshoot the limit of the queue.  *)

FewPushers ==
  /\ IsFiniteSet(Pushers) /\ Cardinality(Pushers) \in Nat
  /\ Cardinality(Pushers) <= Workers

(* Each enqueuer past the check holds a queue's local_mutex: there are no  *)
(* more of them than queues.                                               *)
LEMMA PushersHoldQueues == Control => FewPushers
<1> SUFFICES ASSUME Control PROVE FewPushers OBVIOUS
<1>. DEFINE f == [t \in Pushers |-> arg[t].q]
<1>1. f \in [Pushers -> Base] BY DEF Pushers, In, Control, TypeCore
<1>2. \A x, y \in Pushers : f[x] = f[y] => x = y
  BY DEF Pushers, In, Control, HolderOK
<1>. HIDE DEF f
<1>3. QED BY <1>1, <1>2, ThreadSets, CountInjective DEF FewPushers

LEMMA StepCap ==
  ASSUME Control, FewPushers, FewPushers', Accounted, CapOK, Effects
  PROVE  CapOK'
<1>1. /\ total \in Nat /\ MaxQueue \in Nat \ {0} /\ Workers \in Nat \ {0}
      /\ IsFiniteSet(Pushers) /\ Cardinality(Pushers) \in Nat
      /\ Cardinality(Pushers') \in Nat /\ Cardinality(Pushers') <= Workers
  BY PoolAssumption, SpawnedFinite DEF Accounted, FewPushers
<1>2. ASSUME total' = total \/ total' = total - 1, Pushers' \subseteq Pushers
      PROVE  CapOK'
  <2>1. Cardinality(Pushers') <= Cardinality(Pushers) BY <1>1, <1>2, CountSubset
  <2>2. QED BY <1>1, <1>2, <2>1 DEF CapOK
<1>3. ASSUME NEW t \in Thread, NEW P, NEW R, Move(t, P, R), "enq_push" \notin R
      PROVE  Pushers' \subseteq Pushers
  <2>1. R \cap {"enq_push"} = {} BY <1>3
  <2>2. QED BY <1>3, <2>1, MoveIn DEF Pushers
<1>4. ASSUME NEW t \in Thread, Enqueues(t) PROVE CapOK'
  <2>1. CASE Kept /\ Move(t, Plain, Plain)
    BY <1>2, <1>3, <2>1 DEF Kept, Plain, AwaitPcs
  <2>2. CASE Kept /\ total < MaxQueue /\ Move(t, {"enq_lock"}, {"enq_push"})
    BY <1>1, <2>2 DEF Kept, CapOK
  <2>3. CASE Pushes(t)
    <3>1. t \in Pushers /\ t \notin Pushers' /\ Pushers' \subseteq Pushers \cup {t}
          /\ Pushers \subseteq Pushers' \cup {t}
      BY <2>3, MoveIn DEF Pushes, Pushers
    <3>2. Pushers' = Pushers \ {t} BY <3>1
    <3>3. Cardinality(Pushers') = Cardinality(Pushers) - 1
      BY <1>1, <3>1, <3>2, CountRemove
    <3>4. QED BY <1>1, <2>3, <3>3 DEF Pushes, CapOK
  <2>4. CASE Kept /\ Move(t, {"enq_sync"}, {"enq_notify"})
    BY <1>2, <1>3, <2>4 DEF Kept
  <2>5. CASE Notifies(t)
    <3>1. CASE Move(t, {"enq_notify"}, {"comp"})
      BY <1>2, <1>3, <2>5, <3>1 DEF Notifies, Kept
    <3>2. ASSUME NEW w \in In({"sleep"}), pc[t] = "enq_notify",
                 pc' = [pc EXCEPT ![t] = "comp", ![w] = "lock"]
          PROVE  Pushers' \subseteq Pushers
      BY <3>2 DEF Pushers, In, Control, TypeCore
    <3>3. QED BY <1>2, <2>5, <3>1, <3>2 DEF Notifies, Kept
  <2>6. QED BY <1>4, <2>1, <2>2, <2>3, <2>4, <2>5 DEF Enqueues
<1>5. ASSUME NEW t \in Thread, Compensates(t) PROVE CapOK'
  <2>1. CASE Kept /\ Move(t, {"comp"}, {"comp_lock"})
    BY <1>2, <1>3, <2>1 DEF Kept
  <2>2. CASE Kept /\ Move(t, CompPcs, Plain)
    BY <1>2, <1>3, <2>2 DEF Kept, Plain, AwaitPcs
  <2>3. CASE Starts(t)
    <3>1. Pushers' \subseteq Pushers
      BY <2>3 DEF Starts, Pushers, In, Control, TypeCore, Plain, AwaitPcs
    <3>2. QED BY <1>2, <2>3, <3>1 DEF Starts
  <2>4. QED BY <1>5, <2>1, <2>2, <2>3 DEF Compensates
<1>6. ASSUME NEW w \in Worker, Blocks(w) PROVE CapOK'
  <2>1. w \in Thread BY ThreadSets
  <2>2. Pushers' \subseteq Pushers
    BY <1>3, <1>6, <2>1 DEF Blocks, Plain, AwaitPcs
  <2>3. QED BY <1>2, <1>6, <2>2 DEF Blocks, Kept
<1>7. ASSUME NEW w \in Worker, Looks(w) PROVE CapOK'
  <2>1. w \in Thread BY ThreadSets
  <2>2. Pushers' \subseteq Pushers BY <1>3, <1>7, <2>1 DEF Looks, Takes
  <2>3. QED BY <1>2, <1>7, <2>2 DEF Looks, Takes, Kept
<1>8. CASE Stops
  <2>1. Main \in Thread BY ThreadSets
  <2>2. Pushers' \subseteq Pushers
    <3>1. CASE pc' = [t \in Thread |-> IF t = Main THEN "join"
                                ELSE IF pc[t] = "sleep" THEN "lock" ELSE pc[t]]
      BY <3>1 DEF Pushers, In
    <3>2. QED BY <1>3, <1>8, <2>1, <3>1 DEF Stops
  <2>3. QED BY <1>2, <1>8, <2>2 DEF Stops, Kept
<1>9. CASE Kept /\ UNCHANGED pc
  BY <1>2, <1>9 DEF Kept, Pushers, In
<1>10. QED BY <1>4, <1>5, <1>6, <1>7, <1>8, <1>9 DEF Effects

(* The soft cap that enqueue_to_worker() documents: tasks are refused once *)
(* max_task_queue_size are counted, and the enqueuers that passed the      *)
(* check before that overshoot it by fewer than the pool has workers.      *)
THEOREM QueueCapped == Spec => []SoftCap
<1>1. Init => CapOK
  <2> SUFFICES ASSUME Init PROVE CapOK OBVIOUS
  <2>1. Pushers = {} BY DEF Init, Pushers, In
  <2>2. Cardinality(Pushers) = 0 BY <2>1, FS_EmptySet
  <2>3. QED BY <2>2, PoolAssumption DEF Init, CapOK
<1>2. Control /\ Control' /\ Regions /\ Accounted /\ CapOK /\ [Next]_vars => CapOK'
  <2>1. Control' => FewPushers' BY PushersHoldQueues, PTL
  <2>2. QED BY <2>1, PushersHoldQueues, StepEffects, StepCap
<1>3. Control /\ Accounted /\ CapOK => SoftCap
  <2> SUFFICES ASSUME Control, Accounted, CapOK PROVE SoftCap OBVIOUS
  <2>1. total \in Nat /\ Cardinality(Pushers) \in Nat
    BY SpawnedFinite, PushersHoldQueues DEF Accounted, FewPushers
  <2>2. QED BY <2>1, PoolAssumption DEF CapOK, SoftCap
<1>4. QED
  BY <1>1, <1>2, <1>3, ControlInvariant, RegionsInvariant, AccountedInvariant, PTL
  DEF Spec

(* How a move changes the number of threads at certain places.             *)
LEMMA MoveCount ==
  ASSUME Control, NEW t \in Thread, NEW P, NEW R, Move(t, P, R), NEW S
  PROVE  /\ P \cap S = {} /\ R \cap S = {} => In(S)' = In(S)
         /\ P \subseteq S /\ R \subseteq S => In(S)' = In(S)
         /\ P \cap S = {} /\ R \subseteq S =>
              Cardinality(In(S)') = Cardinality(In(S)) + 1
         /\ P \subseteq S /\ R \cap S = {} =>
              Cardinality(In(S)') = Cardinality(In(S)) - 1
<1>1. /\ In(S)' \subseteq In(S) \cup {t} /\ In(S) \subseteq In(S)' \cup {t}
      /\ R \cap S = {} => t \notin In(S)'
      /\ R \subseteq S => t \in In(S)'
      /\ P \cap S = {} => t \notin In(S)
      /\ P \subseteq S => t \in In(S)
  BY MoveIn
<1>2. IsFiniteSet(In(S)) BY InFinite
<1>3. ASSUME P \cap S = {}, R \subseteq S
      PROVE  Cardinality(In(S)') = Cardinality(In(S)) + 1
  <2>1. t \notin In(S) /\ In(S)' = In(S) \cup {t} BY <1>1, <1>3
  <2>2. QED BY <1>2, <2>1, CountAdd
<1>4. ASSUME P \subseteq S, R \cap S = {}
      PROVE  Cardinality(In(S)') = Cardinality(In(S)) - 1
  <2>1. t \in In(S) /\ In(S)' = In(S) \ {t} BY <1>1, <1>4
  <2>2. QED BY <1>2, <2>1, CountRemove
<1>5. QED BY <1>1, <1>3, <1>4

-----------------------------------------------------------------------------
(* Layer 5: the notifications.                                             *)

Looks3 == {"fetch", "steal", "lock"}
Notify == {"enq_sync", "enq_notify"}

LEMMA StepWakeups ==
  ASSUME Control, Control', DozeOK, NoLostWakeup, Effects
  PROVE  DozeOK' /\ NoLostWakeup'
<1>1. PICK Q \in Nat, L \in Nat, Y \in Nat, N \in Nat :
        /\ Q = Cardinality(QueuedTasks) /\ L = Cardinality(In(Looks3))
        /\ Y = Cardinality(In({"enq_sync"})) /\ N = Cardinality(In(Notify))
        /\ Y <= N
        /\ IsFiniteSet(In(Looks3)) /\ IsFiniteSet(In(Notify)) /\ IsFiniteSet(QueuedTasks)
  <2>1. In({"enq_sync"}) \subseteq In(Notify) BY DEF In, Notify
  <2>2. QED BY <2>1, QueuedFinite, InFinite, CountSubset
<1>2. PICK R \in Nat, M \in Nat, Z \in Nat, O \in Nat :
        /\ R = Cardinality(QueuedTasks') /\ M = Cardinality(In(Looks3)')
        /\ Z = Cardinality(In({"enq_sync"})') /\ O = Cardinality(In(Notify)')
        /\ IsFiniteSet(In(Looks3)')
  <2>1. ASSUME NEW S PROVE IsFiniteSet(In(S)') /\ Cardinality(In(S)') \in Nat
    BY ThreadSets, FS_Subset, FS_CardinalityType DEF In
  <2>2. QueuedTasks' \subseteq Task
    <3>1. \A i \in Base : queue'[i] \in Seq(Task) BY DEF Control, TypeCore
    <3>2. \A i \in Base : \A n \in 1..Len(queue'[i]) : queue'[i][n] \in Task
      BY <3>1, ElementOfSeq
    <3>3. QED BY <3>2 DEF QueuedTasks
  <2>3. Cardinality(QueuedTasks') \in Nat
    BY <2>2, PoolAssumption, FS_Subset, FS_CardinalityType
  <2>4. QED BY <2>1, <2>3
<1>3. /\ In({"doze"}) # {} => Q <= L + Y
      /\ In({"sleep"}) # {} => Q <= L + N
  BY <1>1 DEF DozeOK, NoLostWakeup, Looking, Looks3, Notify
<1>4. ASSUME In({"doze"})' # {} => R <= M + Z, In({"sleep"})' # {} => R <= M + O
      PROVE  DozeOK' /\ NoLostWakeup'
  BY <1>1, <1>2, <1>4 DEF DozeOK, NoLostWakeup, Looking, Looks3, Notify
<1>5. /\ QueuedTasks' = QueuedTasks => R = Q
      /\ In(Looks3)' = In(Looks3) => M = L
      /\ In({"enq_sync"})' = In({"enq_sync"}) => Z = Y
      /\ In(Notify)' = In(Notify) => O = N
  BY <1>1, <1>2
<1>6. Kept => R = Q BY <1>5 DEF Kept
<1>7. ASSUME R = Q, M >= L, Z = Y, O = N,
             In({"doze"})' \subseteq In({"doze"}), In({"sleep"})' \subseteq In({"sleep"})
      PROVE  DozeOK' /\ NoLostWakeup'
  <2>1. In({"doze"})' # {} => In({"doze"}) # {} BY <1>7
  <2>2. In({"sleep"})' # {} => In({"sleep"}) # {} BY <1>7
  <2>3. In({"doze"})' # {} => R <= M + Z BY <1>1, <1>2, <1>3, <1>7, <2>1
  <2>4. In({"sleep"})' # {} => R <= M + O BY <1>1, <1>2, <1>3, <1>7, <2>2
  <2>5. QED BY <1>4, <2>3, <2>4
<1>8. ASSUME NEW t \in Thread, NEW P, NEW T, Move(t, P, T), R = Q,
             P \cap (Looks3 \cup Notify \cup {"doze", "sleep"}) = {},
             T \cap (Looks3 \cup Notify \cup {"doze", "sleep"}) = {}
      PROVE  DozeOK' /\ NoLostWakeup'
  <2>1. /\ P \cap Looks3 = {} /\ T \cap Looks3 = {}
        /\ P \cap Notify = {} /\ T \cap Notify = {}
        /\ P \cap {"enq_sync"} = {} /\ T \cap {"enq_sync"} = {}
        /\ P \cap {"doze"} = {} /\ T \cap {"doze"} = {}
        /\ P \cap {"sleep"} = {} /\ T \cap {"sleep"} = {}
    BY <1>8 DEF Notify
  <2>2. In(Looks3)' = In(Looks3) /\ In(Notify)' = In(Notify)
        /\ In({"enq_sync"})' = In({"enq_sync"})
        /\ In({"doze"})' = In({"doze"}) /\ In({"sleep"})' = In({"sleep"})
    BY <1>8, <2>1, MoveCount
  <2>3. M = L /\ Z = Y /\ O = N BY <1>5, <2>2
  <2>4. QED BY <1>1, <1>7, <1>8, <2>2, <2>3
<1>. USE DEF Looks3, Notify
<1>9. ASSUME NEW t \in Thread, Enqueues(t) PROVE DozeOK' /\ NoLostWakeup'
  <2>1. CASE Kept /\ Move(t, Plain, Plain)
    BY <1>6, <1>8, <2>1 DEF Plain, AwaitPcs
  <2>2. CASE Kept /\ Move(t, {"enq_lock"}, {"enq_push"})
    BY <1>6, <1>8, <2>2
  <2>3. CASE Pushes(t)
    <3>1. Move(t, {"enq_push"}, {"enq_sync"}) BY <2>3 DEF Pushes
    <3>2. In(Looks3)' = In(Looks3) /\ In({"doze"})' = In({"doze"})
          /\ In({"sleep"})' = In({"sleep"})
      BY <3>1, MoveCount
    <3>3. M = L BY <1>5, <3>2
    <3>4. Z = Y + 1 BY <1>1, <1>2, <3>1, MoveCount
    <3>5. O = N + 1 BY <1>1, <1>2, <3>1, MoveCount
    <3>6. R = Q + 1 BY <1>1, <1>2, <2>3, CountAdd DEF Pushes
    <3>7. QED BY <1>1, <1>3, <1>4, <3>2, <3>3, <3>4, <3>5, <3>6
  <2>4. CASE Kept /\ mutex = Nobody /\ Move(t, {"enq_sync"}, {"enq_notify"})
    <3>1. In({"doze"}) = {}
      BY <2>4, ThreadSets
      DEF In, Control, MainOK, WorkerOK, EnqueuePcs, CompPcs, StopPcs
    <3>2. In(Looks3)' = In(Looks3) /\ In({"doze"})' = In({"doze"})
          /\ In({"sleep"})' = In({"sleep"}) /\ In(Notify)' = In(Notify)
      BY <2>4, MoveCount
    <3>3. M = L /\ O = N BY <1>5, <3>2
    <3>4. QED BY <1>1, <1>3, <1>4, <1>6, <2>4, <3>1, <3>2, <3>3
  <2>5. CASE Kept /\ In({"sleep"}) = {} /\ Move(t, {"enq_notify"}, {"comp"})
    <3>1. In(Looks3)' = In(Looks3) /\ In({"doze"})' = In({"doze"})
          /\ In({"sleep"})' = In({"sleep"}) /\ In({"enq_sync"})' = In({"enq_sync"})
      BY <2>5, MoveCount
    <3>2. M = L /\ Z = Y BY <1>5, <3>1
    <3>3. QED BY <1>1, <1>3, <1>4, <1>6, <2>5, <3>1, <3>2
  <2>6. ASSUME Kept, pc[t] = "enq_notify", NEW w \in In({"sleep"}),
               pc' = [pc EXCEPT ![t] = "comp", ![w] = "lock"]
        PROVE  DozeOK' /\ NoLostWakeup'
    <3>1. w \in Thread /\ t # w /\ pc[w] = "sleep" BY <2>6 DEF In
    <3>2. /\ pc[t] = "enq_notify" /\ pc[w] = "sleep" /\ pc'[t] = "comp" /\ pc'[w] = "lock"
          /\ \A u \in Thread \ {t, w} : pc'[u] = pc[u]
      BY <2>6, <3>1 DEF Control, TypeCore
    <3>3. In(Looks3)' = In(Looks3) \cup {w} /\ w \notin In(Looks3) BY <3>1, <3>2 DEF In
    <3>4. In(Notify)' = In(Notify) \ {t} /\ t \in In(Notify) BY <3>1, <3>2 DEF In
    <3>5. In({"doze"})' = In({"doze"}) /\ In({"enq_sync"})' = In({"enq_sync"})
      BY <3>1, <3>2 DEF In
    <3>6. M = L + 1 BY <1>1, <1>2, <3>3, CountAdd
    <3>7. O = N - 1 BY <1>1, <1>2, <3>4, CountRemove
    <3>8. Z = Y BY <1>5, <3>5
    <3>9. In({"sleep"}) # {} BY <2>6
    <3>10. QED BY <1>1, <1>3, <1>4, <1>6, <2>6, <3>5, <3>6, <3>7, <3>8, <3>9
  <2>7. QED
    BY <1>9, <2>1, <2>2, <2>3, <2>4, <2>5, <2>6 DEF Enqueues, Notifies
<1>10. ASSUME NEW t \in Thread, Compensates(t) PROVE DozeOK' /\ NoLostWakeup'
  <2>1. CASE Kept /\ (Move(t, {"comp"}, {"comp_lock"}) \/ Move(t, CompPcs, Plain))
    BY <1>6, <1>8, <2>1 DEF Plain, AwaitPcs, CompPcs
  <2>2. ASSUME QueuedTasks' = QueuedTasks, pc[t] = "comp_lock",
               live + 1 \in In({"off"}) \ {t}, NEW l \in Plain,
               pc' = [pc EXCEPT ![t] = l, ![live + 1] = "fetch"]
        PROVE  DozeOK' /\ NoLostWakeup'
    <3>1. PICK w \in Thread : w = live + 1 /\ t # w /\ pc[w] = "off" BY <2>2 DEF In
    <3>2. /\ pc[t] = "comp_lock" /\ pc[w] = "off" /\ pc'[t] = l /\ pc'[w] = "fetch"
          /\ \A u \in Thread \ {t, w} : pc'[u] = pc[u]
      BY <2>2, <3>1 DEF Control, TypeCore
    <3>3. l \notin Looks3 /\ l \notin Notify /\ l # "enq_sync" /\ l # "doze" /\ l # "sleep"
      BY DEF Plain, AwaitPcs
    <3>4. In(Looks3)' = In(Looks3) \cup {w} /\ w \notin In(Looks3)
      BY <3>1, <3>2, <3>3 DEF In
    <3>6. In(Notify)' = In(Notify) /\ In({"enq_sync"})' = In({"enq_sync"})
      BY <3>1, <3>2, <3>3 DEF In
    <3>7. In({"doze"})' = In({"doze"}) /\ In({"sleep"})' = In({"sleep"})
      BY <3>1, <3>2, <3>3 DEF In
    <3>8. M = L + 1 BY <1>1, <1>2, <3>4, CountAdd
    <3>9. QED BY <1>1, <1>5, <1>7, <2>2, <3>6, <3>7, <3>8
  <2>3. QED BY <1>10, <2>1, <2>2 DEF Compensates, Starts
<1>11. ASSUME NEW w \in Worker, Blocks(w) PROVE DozeOK' /\ NoLostWakeup'
  <2>1. w \in Thread BY ThreadSets
  <2>2. R = Q BY <1>5, <1>6, <1>11 DEF Blocks
  <2>3. QED BY <1>8, <1>11, <2>1, <2>2 DEF Blocks, Plain, AwaitPcs
<1>12. ASSUME NEW w \in Worker, Looks(w) PROVE DozeOK' /\ NoLostWakeup'
  <2>0. w \in Thread BY ThreadSets
  <2>1. ASSUME Kept, Move(w, {"fetch", "steal", "lock", "sleep"}, {"fetch", "steal", "lock"})
        PROVE  DozeOK' /\ NoLostWakeup'
    <3>1. CASE Move(w, {"sleep"}, Looks3)
      <4>1. /\ In({"doze"})' = In({"doze"}) /\ In({"enq_sync"})' = In({"enq_sync"})
            /\ In(Notify)' = In(Notify) /\ In({"sleep"})' \subseteq In({"sleep"})
        BY <2>0, <3>1, MoveCount, MoveIn
      <4>2. M = L + 1 BY <1>1, <1>2, <2>0, <3>1, MoveCount
      <4>3. QED BY <1>1, <1>5, <1>6, <1>7, <2>1, <4>1, <4>2
    <3>2. CASE Move(w, Looks3, Looks3)
      <4>1. /\ In({"doze"})' = In({"doze"}) /\ In({"enq_sync"})' = In({"enq_sync"})
            /\ In(Notify)' = In(Notify) /\ In({"sleep"})' = In({"sleep"})
            /\ In(Looks3)' = In(Looks3)
        BY <2>0, <3>2, MoveCount
      <4>2. QED BY <1>1, <1>5, <1>6, <1>7, <2>1, <4>1
    <3>3. QED BY <2>1, <3>1, <3>2 DEF Move
  <2>2. CASE Kept /\ ~has_any_work
    <3>1. QueuedTasks' = {} BY <2>2, QueuedFinite DEF Kept
    <3>2. R = 0 BY <1>2, <3>1, FS_EmptySet
    <3>3. R <= M + Z /\ R <= M + O BY <1>2, <3>2
    <3>4. QED BY <1>4, <3>3
  <2>3. CASE Kept /\ Move(w, {"doze"}, {"sleep"})
    <3>1. /\ In({"enq_sync"})' = In({"enq_sync"})
          /\ In(Notify)' = In(Notify) /\ In(Looks3)' = In(Looks3)
          /\ w \in In({"doze"}) /\ In({"doze"})' \subseteq In({"doze"})
      BY <2>0, <2>3, MoveCount, MoveIn
    <3>2. Q <= L + Y BY <1>3, <3>1
    <3>3. QED BY <1>1, <1>4, <1>5, <1>6, <2>3, <3>1, <3>2
  <2>4. CASE Takes(w)
    <3>1. Move(w, {"fetch", "steal"}, {"run"}) BY <2>4 DEF Takes
    <3>2. /\ In({"doze"})' = In({"doze"}) /\ In({"enq_sync"})' = In({"enq_sync"})
          /\ In(Notify)' = In(Notify) /\ In({"sleep"})' = In({"sleep"})
      BY <2>0, <3>1, MoveCount
    <3>3. M = L - 1 BY <1>1, <1>2, <2>0, <3>1, MoveCount
    <3>4. R = Q - 1 BY <1>1, <1>2, <2>4, CountRemove DEF Takes
    <3>5. Z = Y /\ O = N BY <1>5, <3>2
    <3>6. QED BY <1>1, <1>3, <1>4, <3>2, <3>3, <3>4, <3>5
  <2>5. CASE QueuedTasks' = QueuedTasks /\ Move(w, {"run"}, {"fetch"})
    <3>1. /\ In({"doze"})' = In({"doze"}) /\ In({"enq_sync"})' = In({"enq_sync"})
          /\ In(Notify)' = In(Notify) /\ In({"sleep"})' = In({"sleep"})
      BY <2>0, <2>5, MoveCount
    <3>2. M = L + 1 BY <1>1, <1>2, <2>0, <2>5, MoveCount
    <3>3. QED BY <1>1, <1>5, <1>7, <2>5, <3>1, <3>2
  <2>6. QED BY <1>12, <2>1, <2>2, <2>3, <2>4, <2>5 DEF Looks
<1>13. CASE Stops
  <2>0. Main \in Thread BY ThreadSets
  <2>1. CASE QueuedTasks' = QueuedTasks /\ Move(Main, {"run"}, {"stop_notify"})
    BY <1>5, <1>8, <2>0, <2>1
  <2>2. CASE Kept /\ Move(Main, {"join"}, {"joined"})
    BY <1>6, <1>8, <2>0, <2>2
  <2>3. CASE /\ Kept /\ pc[Main] = "stop_notify"
             /\ pc' = [t \in Thread |-> IF t = Main THEN "join"
                                ELSE IF pc[t] = "sleep" THEN "lock" ELSE pc[t]]
    <3>1. /\ In({"doze"})' = In({"doze"}) /\ In({"enq_sync"})' = In({"enq_sync"})
          /\ In(Notify)' = In(Notify) /\ In({"sleep"})' = {}
          /\ In(Looks3) \subseteq In(Looks3)'
      BY <2>3 DEF In
    <3>2. M >= L BY <1>1, <1>2, <3>1, CountSubset
    <3>3. QED BY <1>1, <1>5, <1>6, <1>7, <2>3, <3>1, <3>2
  <2>4. QED BY <1>13, <2>1, <2>2, <2>3 DEF Stops
<1>14. CASE Kept /\ UNCHANGED pc
  <2>1. \A S : In(S)' = In(S) BY <1>14 DEF In
  <2>2. QED BY <1>1, <1>5, <1>6, <1>7, <1>14, <2>1
<1>15. QED BY <1>9, <1>10, <1>11, <1>12, <1>13, <1>14 DEF Effects

(* No lost wake-up: whatever the order in which enqueuers push, take the   *)
(* mutex and notify while workers look for work and go to sleep, a worker  *)
(* asleep has missed nothing that nobody else will see to.                 *)
THEOREM WakeupsKept == Spec => []NoLostWakeup
<1>1. Init => DozeOK /\ NoLostWakeup
  <2> SUFFICES ASSUME Init PROVE DozeOK /\ NoLostWakeup OBVIOUS
  <2>1. In({"doze"}) = {} /\ In({"sleep"}) = {} BY DEF Init, In
  <2>2. QED BY <2>1 DEF DozeOK, NoLostWakeup
<1>2. /\ Control /\ Control' /\ Regions /\ Accounted
      /\ DozeOK /\ NoLostWakeup /\ [Next]_vars
      => (DozeOK /\ NoLostWakeup)'
  BY StepEffects, StepWakeups
<1>3. QED
  BY <1>1, <1>2, ControlInvariant, RegionsInvariant, AccountedInvariant, PTL DEF Spec

-----------------------------------------------------------------------------
(* Layer 6: the last worker to exit, and the join that waits for it.       *)

HasWork == has_any_work <=> QueuedTasks # {}

LEMMA WorkQueued == Control => HasWork
BY QueuedFinite DEF HasWork

(* Once every worker is out nothing happens to the queues any more.        *)
LEMMA OutForGood ==
  ASSUME Control, AllOut, Effects
  PROVE  AllOut' /\ QueuedTasks' = QueuedTasks
<1>1. /\ live \in Workers..(Workers + MaxCompensating)
      /\ Workers \in Nat \ {0} /\ MaxCompensating \in Nat
      /\ pc \in [Thread -> Pcs] /\ 1..live \subseteq Worker
  BY PoolAssumption DEF Control, TypeCore, Worker
<1>2. \A w \in Worker : pc[w] \in {"exited", "off"}
  <2> SUFFICES ASSUME NEW w \in Worker PROVE pc[w] \in {"exited", "off"} OBVIOUS
  <2>1. w \in 1..(Workers + MaxCompensating) /\ (pc[w] = "off" <=> w > live)
    BY DEF Control, WorkerOK, Worker
  <2>2. CASE w > live BY <2>1, <2>2
  <2>3. CASE w \in 1..live BY <2>3 DEF AllOut
  <2>4. QED BY <1>1, <2>1, <2>2, <2>3
<1>3. pc[Main] \in StopPcs
  <2>1. 1 \in 1..live /\ 1 \in Worker BY <1>1
  <2>2. should_stop BY <2>1 DEF AllOut, Control, WorkerOK
  <2>3. QED BY <2>2 DEF Control, MainOK
<1>4. \A t \in Thread : pc[t] \in {"exited", "off"} \cup StopPcs
  BY <1>2, <1>3, ThreadSets
<1>5. ASSUME NEW t \in Thread, Enqueues(t) \/ Compensates(t) PROVE FALSE
  BY <1>4, <1>5
  DEF Enqueues, Compensates, Starts, Pushes, Notifies, Move, Plain, AwaitPcs, CompPcs, StopPcs
<1>6. ASSUME NEW w \in Worker, Blocks(w) \/ Looks(w) PROVE FALSE
  BY <1>2, <1>6 DEF Blocks, Looks, Takes, Move, Plain, AwaitPcs
<1>7. CASE Stops
  <2>1. /\ QueuedTasks' = QueuedTasks /\ live' = live
        /\ \A w \in Worker : pc[w] = "exited" => pc'[w] = "exited"
    BY <1>1, <1>7, ThreadSets DEF Stops, Kept, Move
  <2>2. QED BY <1>1, <2>1 DEF AllOut
<1>8. CASE Kept /\ UNCHANGED pc BY <1>8 DEF Kept, AllOut
<1>9. QED BY <1>5, <1>6, <1>7, <1>8 DEF Effects

(* A worker exits after it has seen the queues empty, or had exited before.*)
LEMMA StepOut ==
  ASSUME Control, Effects
  PROVE  \/ QueuedTasks' = QueuedTasks /\ ~has_any_work
         \/ /\ live' \in {live, live + 1}
            /\ \A w \in Worker : pc'[w] = "exited" => pc[w] = "exited"
<1>1. pc \in [Thread -> Pcs] /\ Worker \subseteq Thread /\ Main \in Thread
  BY ThreadSets DEF Control, TypeCore
<1>2. ASSUME NEW t \in Thread, NEW P, NEW R, Move(t, P, R), "exited" \notin R
      PROVE  \A w \in Worker : pc'[w] = "exited" => pc[w] = "exited"
  BY <1>1, <1>2 DEF Move
<1>3. ASSUME NEW t \in Thread, Enqueues(t)
      PROVE  /\ live' = live
             /\ \A w \in Worker : pc'[w] = "exited" => pc[w] = "exited"
  <2>1. live' = live BY <1>3 DEF Enqueues, Pushes, Notifies, Kept
  <2>3. CASE Notifies(t)
    <3>1. CASE pc' = [pc EXCEPT ![t] = "comp"] BY <1>1, <2>1, <3>1
    <3>2. ASSUME NEW v \in Thread, pc' = [pc EXCEPT ![t] = "comp", ![v] = "lock"]
          PROVE  \A w \in Worker : pc'[w] = "exited" => pc[w] = "exited"
      BY <1>1, <3>2
    <3>3. In({"sleep"}) \subseteq Thread BY DEF In
    <3>4. QED BY <2>1, <2>3, <3>1, <3>2, <3>3 DEF Notifies, Move
  <2>4. CASE Pushes(t) BY <1>2, <2>4 DEF Pushes
  <2>5. QED BY <1>2, <1>3, <2>1, <2>3, <2>4 DEF Enqueues, Plain, AwaitPcs
<1>4. ASSUME NEW t \in Thread, Compensates(t)
      PROVE  /\ live' \in {live, live + 1}
             /\ \A w \in Worker : pc'[w] = "exited" => pc[w] = "exited"
  <2>1. CASE Starts(t)
    BY <1>1, <2>1 DEF Starts, Plain, AwaitPcs
  <2>2. CASE ~Starts(t)
    BY <1>2, <1>4, <2>2 DEF Compensates, Kept, Plain, AwaitPcs
  <2>3. QED BY <2>1, <2>2
<1>5. ASSUME NEW w \in Worker, Blocks(w)
      PROVE  /\ live' = live
             /\ \A v \in Worker : pc'[v] = "exited" => pc[v] = "exited"
  BY <1>1, <1>2, <1>5 DEF Blocks, Kept, Plain, AwaitPcs
<1>6. ASSUME NEW w \in Worker, Looks(w)
      PROVE  \/ QueuedTasks' = QueuedTasks /\ ~has_any_work
             \/ /\ live' = live
                /\ \A v \in Worker : pc'[v] = "exited" => pc[v] = "exited"
  BY <1>1, <1>2, <1>6 DEF Looks, Takes, Kept
<1>7. CASE Stops
  <2>1. /\ live' = live
        /\ \A w \in Worker : pc'[w] = "exited" => pc[w] = "exited"
    BY <1>1, <1>7, ThreadSets DEF Stops, Kept, Move
  <2>2. QED BY <2>1
<1>8. CASE Kept /\ UNCHANGED pc BY <1>8 DEF Kept
<1>9. QED BY <1>3, <1>4, <1>5, <1>6, <1>7, <1>8 DEF Effects

LEMMA StepExit ==
  ASSUME Control, HasWork, HasWork', ExitOK, Effects
  PROVE  ExitOK'
<1>1. CASE AllOut
  <2>1. AllOut' /\ QueuedTasks' = QueuedTasks BY <1>1, OutForGood
  <2>2. ~has_any_work' BY <1>1, <2>1 DEF HasWork, ExitOK
  <2>3. QED BY <2>1, <2>2 DEF ExitOK
<1>2. CASE ~AllOut
  <2>1. AllOut' => ~has_any_work'
    <3>1. CASE QueuedTasks' = QueuedTasks /\ ~has_any_work
      BY <3>1 DEF HasWork
    <3>2. CASE /\ live' \in {live, live + 1}
               /\ \A w \in Worker : pc'[w] = "exited" => pc[w] = "exited"
      <4>1. /\ live \in Nat /\ 1..live \subseteq Worker
        BY PoolAssumption DEF Control, TypeCore, Worker
      <4>2. PICK w \in 1..live : pc[w] # "exited" BY <1>2 DEF AllOut
      <4>3. w \in 1..live' /\ pc'[w] # "exited" BY <3>2, <4>1, <4>2
      <4>4. QED BY <4>3 DEF AllOut
    <3>3. QED BY <3>1, <3>2, StepOut
  <2>2. pc'[Main] # "joined"
    <3>1. pc[Main] # "joined" BY <1>2 DEF ExitOK
    <3>2. pc \in [Thread -> Pcs] /\ Main \in Thread /\ Main \notin Worker
      BY ThreadSets DEF Control, TypeCore
    <3>3. ASSUME NEW t \in Thread, NEW P, NEW R, Move(t, P, R), "joined" \notin R
          PROVE  pc'[Main] # "joined"
      BY <3>1, <3>2, <3>3 DEF Move
    <3>4. ASSUME NEW t \in Thread, Enqueues(t) PROVE pc'[Main] # "joined"
      <4>1. CASE Notifies(t) BY <3>1, <3>2, <3>3, <4>1 DEF Notifies
      <4>2. CASE ~Notifies(t)
        BY <3>3, <3>4, <4>2 DEF Enqueues, Pushes, Plain, AwaitPcs
      <4>3. QED BY <4>1, <4>2
    <3>5. ASSUME NEW t \in Thread, Compensates(t) PROVE pc'[Main] # "joined"
      <4>1. CASE Starts(t) BY <3>1, <3>2, <4>1 DEF Starts, Plain, AwaitPcs
      <4>2. CASE ~Starts(t) BY <3>3, <3>5, <4>2 DEF Compensates, Plain, AwaitPcs
      <4>3. QED BY <4>1, <4>2
    <3>6. ASSUME NEW w \in Worker, Blocks(w) \/ Looks(w) PROVE pc'[Main] # "joined"
      <4>1. w \in Thread BY ThreadSets
      <4>2. QED BY <3>3, <3>6, <4>1 DEF Blocks, Looks, Takes, Plain, AwaitPcs
    <3>7. CASE Stops
      <4>1. ~\A w \in 1..live : pc[w] = "exited" BY <1>2 DEF AllOut
      <4>2. QED BY <3>1, <3>2, <3>3, <3>7, <4>1 DEF Stops, Kept, Move
    <3>8. CASE Kept /\ UNCHANGED pc BY <3>1, <3>8
    <3>9. QED BY <3>4, <3>5, <3>6, <3>7, <3>8 DEF Effects
  <2>3. QED BY <2>1, <2>2 DEF ExitOK
<1>3. QED BY <1>1, <1>2

(* The destructor's assertions: when it has joined the workers, however    *)
(* many it had started and whatever they still enqueued after the stop was *)
(* requested, no queue holds a task and no task is counted.                *)
THEOREM PoolDrained == Spec => []Drained
<1>1. Init => ExitOK
  <2> SUFFICES ASSUME Init PROVE ExitOK OBVIOUS
  <2>1. pc[Main] = "run" BY ThreadSets DEF Init
  <2>2. ~has_any_work BY DEF Init, has_any_work
  <2>3. QED BY <2>1, <2>2 DEF ExitOK
<1>2. Control /\ Control' /\ Regions /\ Accounted /\ ExitOK /\ [Next]_vars => ExitOK'
  <2>1. Control' => HasWork' BY WorkQueued, PTL
  <2>2. QED BY <2>1, WorkQueued, StepEffects, StepExit
<1>3. Control /\ Accounted /\ ExitOK => Drained
  <2> SUFFICES ASSUME Control, Accounted, ExitOK, pc[Main] = "joined"
               PROVE  ~has_any_work /\ total = 0
    BY DEF Drained
  <2>1. AllOut /\ ~has_any_work BY DEF ExitOK
  <2>2. \A w \in Worker : job[w] = NoTask
    <3> SUFFICES ASSUME NEW w \in Worker PROVE job[w] = NoTask OBVIOUS
    <3>1. /\ w \in 1..(Workers + MaxCompensating) /\ live \in Nat
          /\ Workers \in Nat /\ MaxCompensating \in Nat
      BY PoolAssumption DEF Control, TypeCore, Worker
    <3>2. WorkerOK(w) BY DEF Control
    <3>3. pc[w] \in {"exited", "off"} BY <2>1, <3>1, <3>2 DEF AllOut, WorkerOK
    <3>4. QED BY <3>2, <3>3 DEF WorkerOK, IdlePcs
  <2>3. QueuedTasks = {} BY <2>1, WorkQueued DEF HasWork
  <2>4. Spawned = {}
    <3> SUFFICES ASSUME NEW k \in Spawned PROVE FALSE OBVIOUS
    <3>1. k # NoTask BY PoolAssumption DEF Spawned
    <3>2. \A i \in Base : k \notin Elems(queue[i]) BY <2>3, QueuedElems
    <3>3. QED BY <2>2, <3>1, <3>2 DEF Accounted, SpawnedOK
  <2>5. QED BY <2>1, <2>4, FS_EmptySet DEF Accounted
<1>4. QED
  BY <1>1, <1>2, <1>3, ControlInvariant, RegionsInvariant, AccountedInvariant, PTL
  DEF Spec

-----------------------------------------------------------------------------
(* Layer 7: the counters, and the worker that compensates for blocked ones.*)

(* The threads that are going to see whether a worker must be started.     *)
Compensators == {"enq_sync", "enq_notify"} \cup CompPcs

(* Only workers that were started block.                                   *)
LEMMA BlockedLive ==
  ASSUME Control, Regions
  PROVE  /\ blocked \in Nat /\ on_tasks \in Nat /\ live \in Nat
         /\ blocked <= live
<1>1. live \in Workers..(Workers + MaxCompensating) /\ Workers \in Nat /\ MaxCompensating \in Nat
  BY PoolAssumption DEF Control, TypeCore
<1>2. IsFiniteSet(1..live) /\ Cardinality(1..live) = live
  <2>1. live \in Int /\ 1 \in Int /\ live >= 1 BY <1>1, PoolAssumption
  <2>2. QED BY <2>1, FS_Interval
<1>3. Blocked \subseteq 1..live
  <2> SUFFICES ASSUME NEW w \in Blocked PROVE w \in 1..live OBVIOUS
  <2>1. w \in Worker /\ regions[w] # <<>> /\ WorkerOK(w) BY DEF Blocked, Control
  <2>2. pc[w] # "off" BY <2>1 DEF WorkerOK, IdlePcs
  <2>3. ~(w > live) BY <2>1, <2>2 DEF WorkerOK
  <2>4. QED BY <1>1, <2>1, <2>3 DEF Worker
<1>4. QED BY <1>1, <1>2, <1>3, CountSubset, CountsTyped DEF Regions

(* Where a thread among the compensators stays or is joined by another.    *)
LEMMA StepCompensated ==
  ASSUME ~OsRefusesThreads, Control, Control', HasWork, HasWork',
         blocked \in Nat, live \in Nat, blocked <= live, Compensated, Effects
  PROVE  Compensated'
<1>1. /\ pc \in [Thread -> Pcs] /\ Worker \subseteq Thread /\ Main \in Thread
      /\ Workers \in Nat /\ MaxCompensating \in Nat
  BY ThreadSets, PoolAssumption DEF Control, TypeCore
<1>2. Compensated' = (/\ has_any_work' /\ blocked' >= live'
                      /\ live' < Workers + MaxCompensating /\ ~should_stop'
                      => In(Compensators)' # {})
  BY DEF Compensated, Compensators
<1>3. Compensated = (/\ has_any_work /\ blocked >= live
                     /\ live < Workers + MaxCompensating /\ ~should_stop
                     => In(Compensators) # {})
  BY DEF Compensated, Compensators
<1>4. ASSUME In(Compensators) \subseteq In(Compensators)', live' = live,
             blocked' = blocked \/ blocked' = blocked - 1,
             ~should_stop' => ~should_stop,
             QueuedTasks' \subseteq QueuedTasks
      PROVE  Compensated'
  <2>1. has_any_work' => has_any_work BY <1>4 DEF HasWork
  <2>2. blocked' >= live' => blocked >= live BY <1>4
  <2>3. QED BY <1>2, <1>3, <1>4, <2>1, <2>2
<1>5. ASSUME In(Compensators)' # {} PROVE Compensated' BY <1>2, <1>5
<1>6. ASSUME NEW t \in Thread, NEW P, NEW R, Move(t, P, R),
             P \cap Compensators = {} \/ R \subseteq Compensators
      PROVE  In(Compensators) \subseteq In(Compensators)'
  BY <1>1, <1>6 DEF Move, In
<1>7. ASSUME NEW t \in Thread, NEW P, NEW R, Move(t, P, R), R \subseteq Compensators
      PROVE  In(Compensators)' # {}
  BY <1>1, <1>7 DEF Move, In
<1>8. Plain \cap Compensators = {}
  BY DEF Plain, AwaitPcs, Compensators, CompPcs
<1>9. ASSUME NEW t \in Thread, Enqueues(t) PROVE Compensated'
  <2>1. CASE Kept /\ Move(t, Plain, Plain)
    BY <1>4, <1>6, <1>8, <2>1 DEF Kept
  <2>2. CASE Kept /\ Move(t, {"enq_lock"}, {"enq_push"})
    BY <1>4, <1>6, <2>2 DEF Kept, Compensators, CompPcs
  <2>3. CASE Pushes(t)
    BY <1>5, <1>7, <2>3 DEF Pushes, Compensators
  <2>4. CASE Move(t, {"enq_sync"}, {"enq_notify"})
    BY <1>5, <1>7, <2>4 DEF Compensators
  <2>5. CASE Notifies(t)
    <3>1. pc'[t] = "comp" \/ \E w \in In({"sleep"}) : w # t /\ pc' = [pc EXCEPT ![t] = "comp", ![w] = "lock"]
      BY <1>1, <2>5 DEF Notifies, Move, In
    <3>2. pc'[t] = "comp" BY <1>1, <3>1
    <3>3. QED BY <1>5, <3>2 DEF In, Compensators, CompPcs
  <2>6. QED BY <1>9, <2>1, <2>2, <2>3, <2>4, <2>5 DEF Enqueues
<1>10. ASSUME NEW t \in Thread, Compensates(t) PROVE Compensated'
  <2>1. CASE Kept /\ Move(t, {"comp"}, {"comp_lock"})
    BY <1>5, <1>7, <2>1 DEF Compensators, CompPcs
  <2>2. CASE /\ Kept
             /\ \/ blocked < live \/ ~has_any_work \/ should_stop
                \/ live >= Workers + MaxCompensating \/ OsRefusesThreads
    <3>1. has_any_work' <=> has_any_work BY <2>2 DEF Kept, HasWork
    <3>2. live' = live /\ blocked' = blocked /\ should_stop' = should_stop
      BY <2>2 DEF Kept
    <3>3. CASE blocked < live
      <4>1. ~(blocked' >= live') BY <3>2, <3>3
      <4>2. QED BY <1>2, <4>1
    <3>4. CASE live >= Workers + MaxCompensating
      <4>1. ~(live' < Workers + MaxCompensating) BY <1>1, <3>2, <3>4
      <4>2. QED BY <1>2, <4>1
    <3>5. CASE ~has_any_work \/ should_stop BY <1>2, <3>1, <3>2, <3>5
    <3>6. QED BY <2>2, <3>3, <3>4, <3>5
  <2>3. CASE Starts(t)
    <3>1. live' = live + 1 /\ blocked' = blocked BY <2>3 DEF Starts
    <3>2. ~(blocked' >= live') BY <3>1
    <3>3. QED BY <1>2, <3>2
  <2>4. QED BY <1>10, <2>1, <2>2, <2>3 DEF Compensates
<1>11. ASSUME NEW w \in Worker, Blocks(w) PROVE Compensated'
  <2>0. w \in Thread BY <1>1
  <2>1. ASSUME Kept, NEW l \in Plain \cup {"comp"}, pc[w] \in Plain,
               pc' = [pc EXCEPT ![w] = l]
        PROVE  Compensated'
    <3>1. In(Compensators) \subseteq In(Compensators)'
      BY <1>1, <1>8, <2>0, <2>1 DEF In
    <3>2. QED BY <1>4, <2>1, <3>1 DEF Kept
  <2>2. CASE Move(w, {"run"}, {"comp"})
    BY <1>5, <1>7, <2>0, <2>2 DEF Compensators, CompPcs
  <2>3. CASE /\ QueuedTasks' = QueuedTasks /\ UNCHANGED <<total, should_stop, live>>
             /\ blocked' = blocked - 1 /\ Move(w, Plain, {"run"})
    <3>1. In(Compensators) \subseteq In(Compensators)' BY <1>6, <1>8, <2>0, <2>3
    <3>2. QED BY <1>4, <2>3, <3>1
  <2>4. QED BY <1>11, <2>1, <2>2, <2>3 DEF Blocks, Move
<1>12. ASSUME NEW w \in Worker, Looks(w) PROVE Compensated'
  <2>0. w \in Thread BY <1>1
  <2>1. ASSUME NEW P, NEW R, Move(w, P, R), P \cap Compensators = {}, live' = live,
               blocked' = blocked, should_stop' = should_stop,
               QueuedTasks' \subseteq QueuedTasks
        PROVE  Compensated'
    <3>1. In(Compensators) \subseteq In(Compensators)' BY <1>6, <2>0, <2>1
    <3>2. QED BY <1>4, <2>1, <3>1
  <2>2. QED BY <1>12, <2>1 DEF Looks, Takes, Kept, Compensators, CompPcs
<1>13. CASE Stops
  <2>1. CASE should_stop' = TRUE BY <1>2, <2>1
  <2>2. CASE Kept /\ Move(Main, {"join"}, {"joined"})
    BY <1>1, <1>4, <1>6, <2>2 DEF Kept, Compensators, CompPcs
  <2>3. CASE /\ Kept /\ pc[Main] = "stop_notify"
             /\ pc' = [t \in Thread |-> IF t = Main THEN "join"
                                ELSE IF pc[t] = "sleep" THEN "lock" ELSE pc[t]]
    <3>1. In(Compensators) \subseteq In(Compensators)'
      BY <2>3 DEF In, Compensators, CompPcs
    <3>2. QED BY <1>4, <2>3, <3>1 DEF Kept
  <2>4. QED BY <1>13, <2>1, <2>2, <2>3 DEF Stops
<1>14. CASE Kept /\ UNCHANGED pc
  <2>1. In(Compensators)' = In(Compensators) BY <1>14 DEF In
  <2>2. QED BY <1>4, <1>14, <2>1 DEF Kept
<1>15. QED BY <1>9, <1>10, <1>11, <1>12, <1>13, <1>14 DEF Effects

LEMMA Typed == Control /\ Regions /\ Accounted => TypeOK /\ RegionsCounted
<1> SUFFICES ASSUME Control, Regions, Accounted PROVE TypeOK /\ RegionsCounted
  OBVIOUS
<1>1. total \in Nat BY SpawnedFinite DEF Accounted
<1>2. blocked \in Nat /\ on_tasks \in Nat BY BlockedLive
<1>3. QED BY <1>1, <1>2 DEF TypeOK, Control, TypeCore, Regions

(* The counters of the pool never leave their range, and those of blocked  *)
(* workers count the workers inside regions however the regions nest,      *)
(* whether or not the operating system refuses threads.                    *)
THEOREM CountersCount == Spec => [](TypeOK /\ RegionsCounted)
BY Typed, ControlInvariant, RegionsInvariant, AccountedInvariant, PTL

(* Where starting a thread does not throw, compensation is never missed:   *)
(* the last worker to block and the enqueuer that finds all of them        *)
(* blocked look at each other's counter in opposite orders, and one of the *)
(* two starts a worker.                                                    *)
THEOREM NeverShortOfWorkers == ~OsRefusesThreads => (Spec => []WorkersAccounted)
<1> SUFFICES ASSUME ~OsRefusesThreads PROVE Spec => []WorkersAccounted
  OBVIOUS
<1>1. Init => Compensated
  BY DEF Init, Compensated, has_any_work
<1>2. Control /\ Control' /\ Regions /\ Accounted /\ Compensated /\ [Next]_vars
      => Compensated'
  <2>1. Control' => HasWork' BY WorkQueued, PTL
  <2>2. QED BY <2>1, WorkQueued, BlockedLive, StepEffects, StepCompensated
<1>3. QED
  BY <1>1, <1>2, Typed, ControlInvariant, RegionsInvariant, AccountedInvariant, PTL
  DEF Spec, WorkersAccounted
===============================================================================
