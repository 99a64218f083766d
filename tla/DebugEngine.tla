------------------------------ MODULE DebugEngine ------------------------------
(***************************************************************************)
(* The debug adapter's execution engine: the protocol thread that serves   *)
(* the editor's requests, the program's main execution thread and the      *)
(* threads of its tasks, sharing one ThreadState per program thread.       *)
(*                                                                         *)
(* A critical section under a ThreadState's mutex is one action; what the  *)
(* code does between two sections (the line hook, the stopped event, the   *)
(* wait, the notification after an unlock) is an action of its own.  Lines,*)
(* depths and breakpoint conditions are abstracted to whether the hook     *)
(* finds the step complete or a breakpoint hit.                            *)
(***************************************************************************)
EXTENDS Integers, FiniteSets

CONSTANTS
  Main,          \* k_main_thread_id
  Task,          \* the tasks a run may spawn
  StepModes,     \* the step requests the editor sends: within {"Into", "Over"}
  EntryStops,    \* the values of stopOnEntry in the launch request
  Throwing,      \* the threads whose code may throw
  Filters,       \* the exception filters the editor may set
  MaxRequests    \* bound: requests the editor sends

Thread == Task \cup {Main}

ASSUME DebugAssumption ==
  /\ Main \notin Task /\ IsFiniteSet(Task)
  /\ StepModes \subseteq {"Into", "Over"}
  /\ EntryStops \subseteq BOOLEAN
  /\ Throwing \subseteq Thread
  /\ MaxRequests \in Nat

VARIABLES
  ts,              \* ThreadState of every thread, and whether it is registered
  pause_requested, \* VM::debug_.pause_requested
  pc,              \* where each program thread is
  via,             \* what called the pause callback: the line hook or an exception
  paused_count,    \* ThreadStateManager::paused_count_
  engine,          \* the flags of DebugExecutionEngine and BreakpointManager
  proto,           \* the protocol thread
  wire,            \* DapProtocolHandler: pipe, disconnected_, callback_invoked_, send_mutex_
  view,            \* what the editor believes of each thread, from the events it got
  requests         \* requests sent so far

vars == <<ts, pause_requested, pc, via, paused_count, engine, proto, wire, view, requests>>

--------------------------------------------------------------------------------
(* State *)

NewThreadState(entry) ==
  [registered |-> FALSE, vm |-> FALSE, is_paused |-> FALSE,
   is_exception_terminated |-> FALSE, mode |-> "None", stop_on_entry |-> entry,
   pause |-> FALSE, exception |-> FALSE, hit |-> FALSE]

ThreadStates ==
  [registered : BOOLEAN, vm : BOOLEAN, is_paused : BOOLEAN,
   is_exception_terminated : BOOLEAN, mode : {"None", "Into", "Over"},
   stop_on_entry : BOOLEAN, pause : BOOLEAN, exception : BOOLEAN,
   hit : BOOLEAN]

MainPlaces == {"config", "config_asleep", "attach", "arm", "unhandled", "unhandled_emit",
               "result",
               "report", "done"}
TaskPlaces == {"none", "spawned", "exit", "gone"}
CommonPlaces == {"run", "lookup", "break", "pausing", "resolve", "emit", "wait", "asleep"}

ProtoPlaces == {"read", "continued", "target", "apply", "notify", "signal", "respond",
                "responding", "signal_disconnect", "loop_exit", "ended", "stop",
                "stop_config", "force_unpause", "join", "null_vms", "reset_vm"}

(* What the protocol thread is doing: its operation, the threads left to    *)
(* visit, the one to notify, and where it goes after a termination.         *)
Idle == [pc |-> "read", op |-> "none", todo |-> {}, who |-> Main, after |-> "respond"]

NewEngine(pending, filters) ==
  [session |-> "running", stop_requested |-> FALSE, is_config_done |-> FALSE,
   suppress_exit_events |-> FALSE, main_uncaught_stop_reported |-> FALSE,
   active |-> FALSE, pending |-> pending, filters |-> filters]

(* A launched session: the program is compiled and its execution thread     *)
(* created, the breakpoints set so far kept in pending_breakpoints.         *)
Launched(entry) ==
  [t \in Thread |-> IF t = Main THEN [NewThreadState(entry) EXCEPT !.registered = TRUE]
                                ELSE NewThreadState(FALSE)]
FirstPlace == [t \in Thread |-> IF t = Main THEN "config" ELSE "none"]

Init ==
  /\ \E entry \in EntryStops : ts = Launched(entry)
  /\ pause_requested = [t \in Thread |-> FALSE]
  /\ pc = FirstPlace
  /\ via = [t \in Thread |-> "line"]
  /\ paused_count = 0
  /\ \E pending \in BOOLEAN : engine = NewEngine(pending, {})
  /\ proto = Idle
  /\ wire = [pipe |-> "open", disconnected |-> FALSE, callback_invoked |-> FALSE,
             send_mutex |-> FALSE]
  /\ view = [t \in Thread |-> "running"]
  /\ requests = 0

Registered == {t \in Thread : ts[t].registered}

(* notify_all on a thread's condition variable, and on config_cv_: a         *)
(* sleeper goes back to its predicate.                                       *)
Woken(who) == [t \in Thread |-> IF t \in who /\ pc[t] = "asleep" THEN "wait" ELSE pc[t]]
ConfigWoken == [pc EXCEPT ![Main] = IF @ = "config_asleep" THEN "config" ELSE @]

(* send_event: serialised by send_mutex_; a failed write only sets the flag. *)
SendEvent(newview) ==
  /\ ~wire.send_mutex
  /\ IF wire.pipe = "open"
     THEN view' = newview /\ UNCHANGED wire
     ELSE wire' = [wire EXCEPT !.disconnected = TRUE] /\ UNCHANGED view

Goto(t, place) == pc' = [pc EXCEPT ![t] = place]

--------------------------------------------------------------------------------
(* The main execution thread, from its creation to the first line *)

(* state_ = SessionState::Terminated *)
Terminated(e) == [e EXCEPT !.session = "terminated"]

(* wait_for_configuration *)
WaitForConfiguration ==
  /\ pc[Main] = "config"
  /\ Goto(Main, CASE engine.stop_requested -> "done"
                  [] ~engine.stop_requested /\ engine.is_config_done -> "attach"
                  [] OTHER -> "config_asleep")
  /\ engine' = IF engine.stop_requested THEN Terminated(engine) ELSE engine
  /\ UNCHANGED <<ts, pause_requested, via, paused_count, proto, wire, view, requests>>

(* Resolve the pending breakpoints, set up the environment (a working       *)
(* directory that cannot be entered ends the run) and attach the VM.        *)
AttachVm ==
  /\ pc[Main] = "attach"
  /\ engine' = [engine EXCEPT !.active = @ \/ engine.pending]
  /\ \/ Goto(Main, "arm") /\ ts' = [ts EXCEPT ![Main].vm = TRUE]
     \/ Goto(Main, "result") /\ UNCHANGED ts
  /\ UNCHANGED <<pause_requested, via, paused_count, proto, wire, view, requests>>

(* Mutant: only an entry stop arms the first line. *)
ArmHooks_EntryOnly ==
  /\ pc[Main] = "arm"
  /\ Goto(Main, "run")
  /\ ts' = [ts EXCEPT ![Main].mode = IF ts[Main].stop_on_entry THEN "Into" ELSE @]
  /\ pause_requested' = [pause_requested EXCEPT ![Main] = @ \/ ts[Main].stop_on_entry]
  /\ UNCHANGED <<via, paused_count, engine, proto, wire, view, requests>>

(* The end of setup_vm_hooks: arm the first line for an entry stop or for   *)
(* breakpoints.                                                             *)
ArmHooks ==
  /\ pc[Main] = "arm"
  /\ Goto(Main, "run")
  /\ ts' = [ts EXCEPT ![Main].mode = IF ts[Main].stop_on_entry THEN "Into" ELSE ts[Main].mode]
  /\ pause_requested' = [pause_requested EXCEPT
                           ![Main] = @ \/ ts[Main].stop_on_entry \/ engine.active]
  /\ UNCHANGED <<via, paused_count, engine, proto, wire, view, requests>>

--------------------------------------------------------------------------------
(* A running program thread *)

EndOf(t) == IF t = Main THEN "result" ELSE "exit"

(* check_debug_hooks on a line change, up to the step criteria: an Into step *)
(* is complete on any line, an Over step on some lines.                      *)
LineHook(t) ==
  /\ pc[t] = "run"
  /\ pause_requested[t]
  /\ \/ engine.stop_requested /\ Goto(t, "break")
     \/ ~engine.stop_requested /\ ts[t].mode # "None" /\ Goto(t, "break")
     \/ ~engine.stop_requested /\ ts[t].mode # "Into" /\ Goto(t, "lookup")
  /\ UNCHANGED <<ts, pause_requested, via, paused_count, engine, proto, wire, view, requests>>

(* Mutant: a hook that finds nothing clears the request. *)
CheckBreakpoint_Clears(t) ==
  /\ pc[t] = "lookup"
  /\ \/ /\ engine.active
        /\ ts' = [ts EXCEPT ![t].hit = TRUE]
        /\ Goto(t, "break")
        /\ UNCHANGED pause_requested
     \/ /\ Goto(t, "run")
        /\ pause_requested' = [pause_requested EXCEPT ![t] = engine.active /\ ts[t].vm]
        /\ UNCHANGED ts
  /\ UNCHANGED <<via, paused_count, engine, proto, wire, view, requests>>

(* check_breakpoint and its result: a hit is recorded under the lock, and   *)
(* without one the next line stays armed while breakpoints are active.  The *)
(* VM pointer is read without the lock.                                     *)
CheckBreakpoint(t) ==
  /\ pc[t] = "lookup"
  /\ \/ /\ engine.active
        /\ ts' = [ts EXCEPT ![t].hit = TRUE]
        /\ Goto(t, "break")
        /\ UNCHANGED pause_requested
     \/ /\ Goto(t, "run")
        /\ pause_requested' = [pause_requested EXCEPT ![t] = @ \/ (engine.active /\ ts[t].vm)]
        /\ UNCHANGED ts
  /\ UNCHANGED <<via, paused_count, engine, proto, wire, view, requests>>

(* The hook asked for a stop: the request is consumed, then the pause       *)
(* callback called.                                                         *)
ConsumePauseRequest(t) ==
  /\ pc[t] = "break"
  /\ pause_requested' = [pause_requested EXCEPT ![t] = FALSE]
  /\ via' = [via EXCEPT ![t] = "line"]
  /\ Goto(t, "pausing")
  /\ UNCHANGED <<ts, paused_count, engine, proto, wire, view, requests>>

(* An exception is thrown: on_exception, and the pause callback when a      *)
(* filter asks for it.                                                      *)
AfterException(t, caught) ==
  IF caught THEN "run" ELSE IF t = Main THEN "unhandled" ELSE "exit"

Throw(t, caught) ==
  LET filter == IF caught THEN "caught" ELSE "uncaught" IN
  /\ pc[t] = "run" /\ t \in Throwing
  /\ IF filter \in engine.filters
     THEN /\ ts' = [ts EXCEPT ![t].exception = TRUE]
          /\ via' = [via EXCEPT ![t] = filter]
          /\ engine' = [engine EXCEPT !.main_uncaught_stop_reported =
                                         @ \/ (~caught /\ t = Main)]
          /\ Goto(t, "pausing")
     ELSE /\ Goto(t, AfterException(t, caught))
          /\ UNCHANGED <<ts, via, engine>>
  /\ UNCHANGED <<pause_requested, paused_count, proto, wire, view, requests>>

(* The program's last statement, or a cancellation point once the session's *)
(* token is cancelled.                                                      *)
Finish(t) ==
  /\ pc[t] = "run"
  /\ Goto(t, EndOf(t))
  /\ UNCHANGED <<ts, pause_requested, via, paused_count, engine, proto, wire, view, requests>>

Cancelled(t) == engine.stop_requested /\ Finish(t)

--------------------------------------------------------------------------------
(* Stopping and waiting for the editor *)

(* Where the thread goes when its pause callback returns: a line hook told  *)
(* to stop ends the program, an exception goes on whatever it was told.     *)
AfterPause(t) ==
  CASE via[t] = "line"      -> IF engine.stop_requested THEN EndOf(t) ELSE "run"
    [] via[t] = "caught"    -> "run"
    [] via[t] = "uncaught"  -> AfterException(t, FALSE)
    [] via[t] = "unhandled" -> "result"

(* wait_for_resume: nothing is stopped once the session is stopping. *)
WaitForResume(t) ==
  /\ pc[t] = "pausing"
  /\ Goto(t, IF engine.stop_requested THEN AfterPause(t) ELSE "resolve")
  /\ UNCHANGED <<ts, pause_requested, via, paused_count, engine, proto, wire, view, requests>>

(* resolve_stop_state: pick the reason, consume what it reports (and a      *)
(* breakpoint hit always), and mark the thread paused.                      *)
StopReason(state) ==
  CASE state.exception -> "exception"
    [] ~state.exception /\ state.stop_on_entry -> "entry"
    [] ~state.exception /\ ~state.stop_on_entry /\ state.pause -> "pause"
    [] OTHER -> IF ~state.hit /\ state.mode # "None" THEN "step" ELSE "breakpoint"

ResolveStopState(t) ==
  LET reason == StopReason(ts[t]) IN
  /\ pc[t] = "resolve"
  /\ ts' = [ts EXCEPT ![t].hit = FALSE,
                      ![t].exception = FALSE,
                      ![t].stop_on_entry = ts[t].stop_on_entry /\ reason # "entry",
                      ![t].pause = ts[t].pause /\ reason # "pause",
                      ![t].mode = "None",
                      ![t].is_paused = TRUE]
  /\ paused_count' = paused_count + 1
  /\ Goto(t, "emit")
  /\ UNCHANGED <<pause_requested, via, engine, proto, wire, view, requests>>

(* emit_stopped_event, with allThreadsStopped from the paused counter. *)
StoppedEvent(t) ==
  LET all == paused_count >= Cardinality(Registered) IN
  [u \in Thread |-> IF u = t \/ (all /\ ts[u].registered) THEN "stopped" ELSE view[u]]

EmitStopped(t) ==
  /\ pc[t] \in {"emit", "unhandled_emit"}
  /\ SendEvent(StoppedEvent(t))
  /\ Goto(t, "wait")
  /\ UNCHANGED <<ts, pause_requested, via, paused_count, engine, proto, requests>>

(* Mutant: the predicate looks at the pause flag alone. *)
CheckResumed_IgnoresStop(t) ==
  /\ pc[t] = "wait"
  /\ Goto(t, IF ~ts[t].is_paused THEN AfterPause(t) ELSE "asleep")
  /\ UNCHANGED <<ts, pause_requested, via, paused_count, engine, proto, wire, view, requests>>

(* The predicate of the wait, under the thread's lock. *)
CheckResumed(t) ==
  /\ pc[t] = "wait"
  /\ Goto(t, IF ~ts[t].is_paused \/ engine.stop_requested THEN AfterPause(t) ELSE "asleep")
  /\ UNCHANGED <<ts, pause_requested, via, paused_count, engine, proto, wire, view, requests>>

(* handle_unhandled_exception: skipped when the throw site already stopped  *)
(* or the session is stopping; otherwise paused before the event is sent.   *)
HandleUnhandledException ==
  /\ pc[Main] = "unhandled"
  /\ IF engine.main_uncaught_stop_reported \/ engine.stop_requested
     THEN Goto(Main, "result") /\ UNCHANGED <<ts, via, paused_count>>
     ELSE /\ ts' = [ts EXCEPT ![Main].is_paused = TRUE,
                              ![Main].is_exception_terminated = TRUE]
          /\ paused_count' = paused_count + 1
          /\ via' = [via EXCEPT ![Main] = "unhandled"]
          /\ Goto(Main, "unhandled_emit")
  /\ UNCHANGED <<pause_requested, engine, proto, wire, view, requests>>

(* handle_execution_result: the session is over; terminated and exited are  *)
(* sent unless a restart asked for silence.                                 *)
HandleExecutionResult ==
  /\ \/ /\ pc[Main] = "result"
        /\ Goto(Main, IF engine.suppress_exit_events THEN "done" ELSE "report")
        /\ engine' = Terminated(engine)
        /\ UNCHANGED <<wire, view>>
     \/ /\ pc[Main] = "report"
        /\ SendEvent(view)
        /\ Goto(Main, "done")
        /\ UNCHANGED engine
  /\ UNCHANGED <<ts, pause_requested, via, paused_count, proto, requests>>

--------------------------------------------------------------------------------
(* Tasks come and go *)

Spawn(t) ==
  /\ pc[t] = "none"
  /\ \E parent \in Thread : pc[parent] = "run"
  /\ Goto(t, "spawned")
  /\ UNCHANGED <<ts, pause_requested, via, paused_count, engine, proto, wire, view, requests>>

(* The task starts on a worker: armed, registered and announced; a task     *)
(* whose token is cancelled never gets a VM, only the exit hook.            *)
StartTask(t) ==
  /\ pc[t] = "spawned"
  /\ IF engine.stop_requested
     THEN Goto(t, "gone") /\ SendEvent(view) /\ UNCHANGED <<ts, pause_requested>>
     ELSE /\ pause_requested' = [pause_requested EXCEPT ![t] = TRUE]
          /\ ts' = [ts EXCEPT ![t].registered = TRUE, ![t].vm = TRUE]
          /\ SendEvent(view)
          /\ Goto(t, "run")
  /\ UNCHANGED <<via, paused_count, engine, proto, requests>>

(* Mutant: the exit hook forgets that the task may still count as paused. *)
RemoveThread_NoDecrement(t) ==
  /\ pc[t] = "exit"
  /\ ts' = [ts EXCEPT ![t].registered = FALSE, ![t].vm = FALSE]
  /\ SendEvent(view)
  /\ Goto(t, "gone")
  /\ UNCHANGED <<pause_requested, via, paused_count, engine, proto, requests>>

(* The exit hook: remove_thread and the thread event. *)
RemoveThread(t) ==
  /\ pc[t] = "exit"
  /\ ts' = [ts EXCEPT ![t].registered = FALSE, ![t].vm = FALSE]
  /\ paused_count' = paused_count - (IF ts[t].is_paused THEN 1 ELSE 0)
  /\ SendEvent(view)
  /\ Goto(t, "gone")
  /\ UNCHANGED <<pause_requested, via, engine, proto, requests>>

--------------------------------------------------------------------------------
(* The protocol thread: requests *)

ProtoAt(place) == proto.pc = place
At(place) == proto' = [proto EXCEPT !.pc = place]

(* A request is read while the loop runs; it needs a session to act on. *)
HasSession == engine.session # "none"

CanRead == ProtoAt("read") /\ ~wire.disconnected /\ wire.pipe = "open" /\ HasSession
Reads == CanRead /\ requests < MaxRequests /\ requests' = requests + 1

(* Once a run, and not counted among the bounded requests. *)
ConfigurationDone ==
  /\ CanRead /\ ~engine.is_config_done
  /\ engine' = [engine EXCEPT !.is_config_done = TRUE]
  /\ pc' = ConfigWoken
  /\ At("respond")
  /\ UNCHANGED <<ts, pause_requested, via, paused_count, wire, view, requests>>

(* set_breakpoints binds them and updates the active flag ... *)
SetBreakpoints(some) ==
  /\ Reads
  /\ engine' = [engine EXCEPT !.active = some, !.pending = some]
  /\ At("signal")
  /\ UNCHANGED <<ts, pause_requested, pc, via, paused_count, wire, view>>

(* ... then signal_all_vms_pause_check arms every attached VM. *)
Armed(flags, who) == [t \in Thread |-> flags[t] \/ (t \in who /\ ts[t].vm)]

SignalAllVms ==
  /\ ProtoAt("signal")
  /\ pause_requested' = Armed(pause_requested, Registered)
  /\ At("respond")
  /\ UNCHANGED <<ts, pc, via, paused_count, engine, wire, view, requests>>

SetExceptionBreakpoints(filters) ==
  /\ Reads
  /\ engine' = [engine EXCEPT !.filters = filters]
  /\ At("respond")
  /\ UNCHANGED <<ts, pause_requested, pc, via, paused_count, wire, view>>

(* execute_thread_action: an unknown thread is refused; for a known one, or *)
(* for all of them, the continued event comes before anything is resumed.   *)
ThreadAction(op, targets) ==
  /\ Reads
  /\ proto' = [proto EXCEPT
       !.op = op, !.todo = targets,
       !.pc = CASE op # "pause" /\ targets = Thread -> "continued"
                [] op # "pause" /\ targets # Thread /\ targets \subseteq Registered -> "continued"
                [] op = "pause" -> "target"
                [] OTHER -> "respond"]
  /\ UNCHANGED <<ts, pause_requested, pc, via, paused_count, engine, wire, view>>

(* Mutant: the continued event is sent once the thread has been resumed. *)
SendContinued_Late ==
  /\ \/ ProtoAt("continued") /\ At("target") /\ UNCHANGED <<wire, view>>
     \/ /\ ProtoAt("respond") /\ proto.op = "continue"
        /\ SendEvent([view EXCEPT ![proto.who] = "running"])
        /\ proto' = [proto EXCEPT !.op = "none"]
  /\ UNCHANGED <<ts, pause_requested, pc, via, paused_count, engine, requests>>

SendContinued ==
  /\ ProtoAt("continued")
  /\ SendEvent([t \in Thread |-> IF t \in proto.todo THEN "running" ELSE view[t]])
  /\ At("target")
  /\ UNCHANGED <<ts, pause_requested, pc, via, paused_count, engine, requests>>

(* get_thread, or the snapshot of every registered thread. *)
Targets ==
  /\ ProtoAt("target")
  /\ proto' = [proto EXCEPT !.todo = @ \cap Registered,
                            !.pc = IF proto.todo \cap Registered = {} THEN "respond" ELSE "apply"]
  /\ UNCHANGED <<ts, pause_requested, pc, via, paused_count, engine, wire, view, requests>>

(* The thread was visited: go to the next, or answer. *)
Visited(t) ==
  proto' = [proto EXCEPT !.todo = @ \ {t},
                         !.pc = IF proto.todo = {t} THEN "respond" ELSE "apply"]

(* continue_execution on one thread: unpause_thread_locked, then the        *)
(* notification, inside the lock only for a thread that ended in an         *)
(* exception.                                                               *)
UnpauseThread(t) ==
  /\ ProtoAt("apply") /\ proto.op = "continue" /\ t \in proto.todo
  /\ ts' = [ts EXCEPT ![t].is_paused = FALSE,
                      ![t].mode = IF ts[t].is_exception_terminated THEN ts[t].mode
                                  ELSE "None"]
  /\ paused_count' = paused_count - (IF ts[t].is_paused THEN 1 ELSE 0)
  /\ IF ts[t].is_exception_terminated
     THEN pc' = Woken({t}) /\ Visited(t) /\ UNCHANGED pause_requested
     ELSE /\ pause_requested' = Armed(pause_requested, {t})
          /\ proto' = [proto EXCEPT !.pc = "notify", !.who = t]
          /\ UNCHANGED pc
  /\ UNCHANGED <<via, engine, wire, view, requests>>

(* resume_thread: a step is refused unless the thread is paused. *)
StepThread(t) ==
  /\ ProtoAt("apply") /\ proto.op \in StepModes /\ t \in proto.todo
  /\ IF ~ts[t].is_paused
     THEN Visited(t) /\ UNCHANGED <<ts, pause_requested, paused_count>>
     ELSE /\ ts' = [ts EXCEPT ![t].is_paused = FALSE, ![t].mode = proto.op]
          /\ paused_count' = paused_count - 1
          /\ pause_requested' = Armed(pause_requested, {t})
          /\ proto' = [proto EXCEPT !.pc = "notify", !.who = t]
  /\ UNCHANGED <<pc, via, engine, wire, view, requests>>

NotifyResumed ==
  /\ ProtoAt("notify")
  /\ pc' = Woken({proto.who})
  /\ Visited(proto.who)
  /\ UNCHANGED <<ts, pause_requested, via, paused_count, engine, wire, view, requests>>

PauseThread(t) ==
  /\ ProtoAt("apply") /\ proto.op = "pause" /\ t \in proto.todo
  /\ ts' = [ts EXCEPT ![t].pause = ts[t].pause \/ ~ts[t].is_paused,
                      ![t].mode = IF ts[t].is_paused THEN ts[t].mode ELSE "Into"]
  /\ pause_requested' = Armed(pause_requested, {t})
  /\ Visited(t)
  /\ UNCHANGED <<pc, via, paused_count, engine, wire, view, requests>>

--------------------------------------------------------------------------------
(* The protocol thread: ending a run *)

(* terminate, restart and disconnect all run DebugExecutionEngine::terminate. *)
EndSession(op) ==
  /\ Reads
  /\ proto' = [proto EXCEPT !.pc = "stop", !.op = op, !.after = "respond"]
  /\ UNCHANGED <<ts, pause_requested, pc, via, paused_count, engine, wire, view>>

RequestStop ==
  /\ ProtoAt("stop")
  /\ engine' = [engine EXCEPT !.suppress_exit_events = (proto.op = "restart"),
                              !.stop_requested = TRUE]
  /\ At("stop_config")
  /\ UNCHANGED <<ts, pause_requested, pc, via, paused_count, wire, view, requests>>

StopConfiguration ==
  /\ ProtoAt("stop_config")
  /\ engine' = [engine EXCEPT !.is_config_done = TRUE]
  /\ pc' = ConfigWoken
  /\ At("force_unpause")
  /\ UNCHANGED <<ts, pause_requested, via, paused_count, wire, view, requests>>

ForceUnpauseAll ==
  /\ ProtoAt("force_unpause")
  /\ ts' = [t \in Thread |-> IF t \in Registered THEN [ts[t] EXCEPT !.is_paused = FALSE]
                             ELSE ts[t]]
  /\ paused_count' = paused_count - Cardinality({t \in Registered : ts[t].is_paused})
  /\ pc' = Woken(Registered)
  /\ pause_requested' = Armed(pause_requested, Registered)
  /\ At("join")
  /\ UNCHANGED <<via, engine, wire, view, requests>>

(* execution_thread_.join() *)
JoinExecutionThread ==
  /\ ProtoAt("join")
  /\ pc[Main] = "done"
  /\ At("null_vms")
  /\ UNCHANGED <<ts, pause_requested, pc, via, paused_count, engine, wire, view, requests>>

NullAllVms ==
  /\ ProtoAt("null_vms")
  /\ ts' = [t \in Thread |-> IF t \in Registered THEN [ts[t] EXCEPT !.vm = FALSE] ELSE ts[t]]
  /\ At("reset_vm")
  /\ UNCHANGED <<pause_requested, pc, via, paused_count, engine, wire, view, requests>>

(* vm_.reset(): destroying the VM joins the pool, so every task has ended.   *)
(* A restart then launches the next run in the same session of the editor, a *)
(* disconnect drops the session.                                             *)
ResetVm ==
  /\ ProtoAt("reset_vm")
  /\ \A t \in Task : pc[t] \in {"none", "gone"}
  /\ At(proto.after)
  /\ IF proto.op = "restart"
     THEN /\ \E entry \in EntryStops : ts' = Launched(entry)
          /\ pc' = FirstPlace
          /\ pause_requested' = [t \in Thread |-> FALSE]
          /\ via' = [t \in Thread |-> "line"]
          /\ paused_count' = 0
          /\ view' = [t \in Thread |-> "running"]
          /\ engine' = NewEngine(engine.pending, engine.filters)
     ELSE /\ engine' = IF proto.op = "disconnect" THEN [engine EXCEPT !.session = "none"]
                       ELSE Terminated(engine)
          /\ UNCHANGED <<ts, pc, pause_requested, via, paused_count, view>>
  /\ UNCHANGED <<wire, requests>>

--------------------------------------------------------------------------------
(* The protocol thread: answers and disconnection *)

(* Mutant: the disconnect callback runs under send_mutex_. *)
FinishResponse_UnderMutex ==
  /\ ProtoAt("responding")
  /\ wire' = [wire EXCEPT !.send_mutex = (wire.pipe = "broken")]
  /\ proto' = IF wire.pipe = "broken" \/ proto.op = "disconnect"
              THEN [proto EXCEPT !.pc = "signal_disconnect"] ELSE Idle
  /\ UNCHANGED <<ts, pause_requested, pc, via, paused_count, engine, view, requests>>

(* send_response writes under send_mutex_, and signals a failed write only   *)
(* after releasing it: the callback joins the execution thread, which may be *)
(* waiting for that mutex.                                                   *)
WriteResponse ==
  /\ ProtoAt("respond")
  /\ ~wire.send_mutex
  /\ wire' = [wire EXCEPT !.send_mutex = TRUE]
  /\ At("responding")
  /\ UNCHANGED <<ts, pause_requested, pc, via, paused_count, engine, view, requests>>

FinishResponse ==
  /\ ProtoAt("responding")
  /\ wire' = [wire EXCEPT !.send_mutex = FALSE]
  /\ proto' = IF wire.pipe = "broken" \/ proto.op = "disconnect"
              THEN [proto EXCEPT !.pc = "signal_disconnect"] ELSE Idle
  /\ UNCHANGED <<ts, pause_requested, pc, via, paused_count, engine, view, requests>>

(* invoke_disconnect_callback_once, from signal_disconnect or at the end of  *)
(* the message loop: the first caller terminates the session.                *)
DisconnectCallback(from, next) ==
  /\ ProtoAt(from)
  /\ wire' = [wire EXCEPT !.disconnected = TRUE, !.callback_invoked = TRUE]
  /\ proto' = IF ~wire.callback_invoked /\ HasSession
              THEN [Idle EXCEPT !.pc = "stop", !.op = "terminate", !.after = next]
              ELSE [Idle EXCEPT !.pc = next]
  /\ UNCHANGED <<ts, pause_requested, pc, via, paused_count, engine, view, requests>>

SignalDisconnect == DisconnectCallback("signal_disconnect", "read")
LoopExit == DisconnectCallback("loop_exit", "ended")

(* The loop ends when the flag is set, or at the end of the stream. *)
LeaveLoop ==
  /\ ProtoAt("read")
  /\ wire.disconnected \/ wire.pipe = "broken"
  /\ At("loop_exit")
  /\ UNCHANGED <<ts, pause_requested, pc, via, paused_count, engine, wire, view, requests>>

(* The editor goes away. *)
BreakPipe ==
  /\ wire.pipe = "open"
  /\ wire' = [wire EXCEPT !.pipe = "broken"]
  /\ UNCHANGED <<ts, pause_requested, pc, via, paused_count, engine, proto, view, requests>>

--------------------------------------------------------------------------------
(* The specification *)

Requests ==
  \/ ConfigurationDone
  \/ \E some \in BOOLEAN : SetBreakpoints(some)
  \/ \E filters \in SUBSET Filters : SetExceptionBreakpoints(filters)
  \/ \E targets \in {Thread} \cup {{t} : t \in Thread} :
       ThreadAction("continue", targets) \/ ThreadAction("pause", targets)
  \/ \E t \in Thread, mode \in StepModes : ThreadAction(mode, {t})
  \/ \E op \in {"terminate", "restart", "disconnect"} : EndSession(op)

ProtoStep ==
  \/ SignalAllVms \/ SendContinued \/ Targets \/ NotifyResumed
  \/ \E t \in Thread : UnpauseThread(t) \/ StepThread(t) \/ PauseThread(t)
  \/ RequestStop \/ StopConfiguration \/ ForceUnpauseAll \/ JoinExecutionThread
  \/ NullAllVms \/ ResetVm
  \/ WriteResponse \/ FinishResponse \/ SignalDisconnect \/ LoopExit \/ LeaveLoop

(* What a program thread does without a choice of the program's. *)
ThreadStep(t) ==
  \/ t = Main /\ \/ WaitForConfiguration \/ AttachVm \/ ArmHooks
                 \/ HandleUnhandledException \/ HandleExecutionResult
  \/ t \in Task /\ (StartTask(t) \/ RemoveThread(t))
  \/ LineHook(t) \/ CheckBreakpoint(t) \/ ConsumePauseRequest(t) \/ WaitForResume(t)
  \/ ResolveStopState(t) \/ EmitStopped(t) \/ CheckResumed(t) \/ Cancelled(t)

(* What the program decides. *)
ProgramStep(t) ==
  \/ \E caught \in BOOLEAN : Throw(t, caught)
  \/ Finish(t)
  \/ t \in Task /\ Spawn(t)

Next ==
  \/ Requests \/ ProtoStep \/ BreakPipe
  \/ \E t \in Thread : ThreadStep(t) \/ ProgramStep(t)

Spec == Init /\ [][Next]_vars

(* Every thread that can take a step does: the threads are the scheduler's,  *)
(* a program keeps reaching new lines or cancellation points, and the        *)
(* protocol thread serves the request it has read (and reads the end of the  *)
(* stream); no request is ever owed.                                         *)
Fairness == WF_vars(ProtoStep) /\ \A t \in Thread : WF_vars(ThreadStep(t))
FairSpec == Spec /\ Fairness

--------------------------------------------------------------------------------
(* Properties *)

Places == CommonPlaces \cup MainPlaces \cup TaskPlaces

(* Every variable holds a value of its kind; the paused counter never        *)
(* leaves 0 .. the number of threads.                                        *)
TypeOK ==
  /\ ts \in [Thread -> ThreadStates]
  /\ pause_requested \in [Thread -> BOOLEAN]
  /\ pc \in [Thread -> Places]
  /\ via \in [Thread -> {"line", "caught", "uncaught", "unhandled"}]
  /\ paused_count \in 0 .. Cardinality(Thread)
  /\ engine \in [session : {"running", "terminated", "none"}, stop_requested : BOOLEAN,
                 is_config_done : BOOLEAN, suppress_exit_events : BOOLEAN,
                 main_uncaught_stop_reported : BOOLEAN, active : BOOLEAN,
                 pending : BOOLEAN, filters : SUBSET Filters]
  /\ proto \in [pc : ProtoPlaces, op : {"none", "continue", "pause", "terminate", "restart",
                                        "disconnect"} \cup StepModes,
                todo : SUBSET Thread, who : Thread, after : {"respond", "read", "ended"}]
  /\ wire \in [pipe : {"open", "broken"}, disconnected : BOOLEAN, callback_invoked : BOOLEAN,
               send_mutex : BOOLEAN]
  /\ view \in [Thread -> {"running", "stopped"}]
  /\ requests \in 0 .. MaxRequests

(* The counter behind allThreadsStopped is the number of registered paused   *)
(* threads, through every race of a stop with a resume, a termination or the *)
(* exit of a task (ThreadStateManager::all_threads_stopped relies on it).    *)
PausedCounted == paused_count = Cardinality({t \in Registered : ts[t].is_paused})

(* The state of every thread is sound and the paused ones are counted.       *)
StopsCounted == TypeOK /\ PausedCounted

(* A thread asleep at a stop, with no request in progress, is one the editor *)
(* was told is stopped: no stopped event is overtaken by the continued event *)
(* of an earlier resume, so no stop leaves the editor waiting for it.        *)
ClientInformed ==
  wire.pipe = "open" /\ ProtoAt("read") =>
    \A t \in Thread : pc[t] = "asleep" => view[t] = "stopped"

(* While breakpoints are active every running thread's next line calls the   *)
(* hook: no start, stop, resume or change of breakpoints loses the request   *)
(* flag, which the code sets in six places and clears in one.                *)
BreakpointsArmed ==
  engine.active /\ ~ProtoAt("signal") =>
    \A t \in Thread : pc[t] = "run" /\ ts[t].vm => pause_requested[t]

(* No lost wakeup: a thread asleep although it was resumed, configured or    *)
(* told to stop is one the protocol thread has yet to notify.                *)
NoLostResume ==
  \A t \in Thread :
    /\ pc[t] = "asleep" /\ (~ts[t].is_paused \/ engine.stop_requested) =>
         \/ ProtoAt("notify") /\ proto.who = t
         \/ proto.pc \in {"stop_config", "force_unpause"} /\ ts[t].registered
    /\ pc[t] = "config_asleep" /\ (engine.is_config_done \/ engine.stop_requested) =>
         ProtoAt("stop_config")

(* terminate() returns: whatever the threads were doing (asleep at a stop,   *)
(* about to stop, waiting for the configuration, starting or leaving a task),*)
(* the joins of the execution thread and of the pool end.                    *)
TerminateReturns == ProtoAt("stop") ~> proto.pc \in {"respond", "read", "ended"}

(* An editor that goes away never leaves an orphaned session behind: the     *)
(* message loop ends and the run is terminated.                              *)
DisconnectEndsSession ==
  wire.pipe = "broken" ~> ProtoAt("ended") /\ engine.session # "running"

(* A pause request taken by an attached, running VM stops it, even one that   *)
(* arrives while the line hook is deciding not to stop, unless the program   *)
(* ends first or the editor resumes it with a continue.                      *)
PauseHonoured ==
  \A t \in Thread :
    (pc[t] \in {"run", "lookup"} /\ ts[t].pause /\ ts[t].mode = "Into" /\ pause_requested[t])
      ~> (ts[t].is_paused \/ ts[t].mode # "Into" \/ ~ts[t].vm \/ engine.stop_requested
          \/ pc[t] \in {EndOf(t), "report", "done", "unhandled"})
====
