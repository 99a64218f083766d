----------------------------- MODULE DebuggerProofs -----------------------------
(***************************************************************************)
(* What the debugger promises.  Its engine, for any number of tasks and    *)
(* requests, any exception filters and any choice of the editor: paused    *)
(* threads are counted, a resumed one is never left asleep, breakpoints    *)
(* stay armed, and a thread that waits is one the editor knows is stopped. *)
(* Its breakpoints, for any files, lines and requests: what is bound is    *)
(* what the editor shows, under ids that never coincide, and it is looked  *)
(* for.  The two share no variable.                                        *)
(***************************************************************************)
EXTENDS DebugEngine, Breakpoints, Integers, FiniteSetTheorems, SequenceTheorems,
        WellFoundedInduction, TLAPS

(* A set that gains a member counts one more.                              *)
LEMMA CountAdd ==
  ASSUME NEW S, NEW R, NEW x, IsFiniteSet(S), x \notin S, R = S \cup {x}
  PROVE  IsFiniteSet(R) /\ Cardinality(R) = Cardinality(S) + 1
         /\ Cardinality(S) \in Nat
BY FS_AddElement, FS_CardinalityType

(* A set that loses a member counts one less.                              *)
LEMMA CountRemove ==
  ASSUME NEW S, NEW R, NEW x, IsFiniteSet(S), x \in S, R = S \ {x}
  PROVE  IsFiniteSet(R) /\ Cardinality(R) = Cardinality(S) - 1
         /\ Cardinality(S) \in Nat
BY FS_RemoveElement, FS_CardinalityType

(* The types of everything but the paused counter.                         *)
TypeCore ==
  /\ ts \in [Thread -> ThreadStates]
  /\ pause_requested \in [Thread -> BOOLEAN]
  /\ pc \in [Thread -> Places]
  /\ via \in [Thread -> {"line", "caught", "uncaught", "unhandled"}]
  /\ engine \in [session : {"running", "terminated", "none"}, stop_requested : BOOLEAN,
                 is_config_done : BOOLEAN, suppress_exit_events : BOOLEAN,
                 main_uncaught_stop_reported : BOOLEAN, active : BOOLEAN,
                 pending : BOOLEAN, filters : SUBSET Filters]
  /\ proto \in [pc : ProtoPlaces, op : {"none", "continue", "pause", "terminate", "restart",
                                        "disconnect"} \cup StepModes,
                todo : SUBSET Thread, who : Thread, after : {"respond", "read", "ended"}]
  /\ wire \in [pipe : {"open", "broken"}, disconnected : BOOLEAN, callback_invoked : BOOLEAN,
               send_mutex : BOOLEAN]
  /\ view \in [Thread -> {"running", "stopped"}]
  /\ requests \in 0 .. MaxRequests

Starting  == {"config", "config_asleep", "attach", "arm"}
Stopped   == {"emit", "unhandled_emit", "wait", "asleep"}
Unstarted == {"none", "spawned"}

(* Where a thread may be, and what is true of it there.  A paused thread   *)
(* has left its stop only when the session is stopping, and one that ended *)
(* in an exception never runs again.                                       *)
PlaceOK(t) ==
  /\ t = Main => pc[t] \in CommonPlaces \cup MainPlaces
  /\ t # Main => pc[t] \in CommonPlaces \cup TaskPlaces
  /\ ts[t].registered <=> pc[t] \notin Unstarted \cup {"gone"}
  /\ ts[t].vm => ts[t].registered
  /\ pc[t] \in Unstarted \cup {"resolve"} => ~ts[t].is_paused
  /\ ts[t].is_paused /\ pc[t] \notin Stopped \cup {"gone"} => engine.stop_requested
  /\ via[t] = "unhandled" => t = Main
  /\ pc[t] = "unhandled_emit" => via[t] = "unhandled"
  /\ ts[t].is_exception_terminated =>
       /\ t = Main
       /\ \/ pc[t] \in {"result", "report", "done"}
          \/ pc[t] \in Stopped /\ via[t] = "unhandled"

(* No task is spawned before the program runs its first line.              *)
StartOK == pc[Main] \in Starting => \A t \in Task : pc[t] = "none"

(* NoLostResume, of one thread.                                            *)
WakeOK(t) ==
  /\ pc[t] = "asleep" /\ (~ts[t].is_paused \/ engine.stop_requested) =>
       \/ ProtoAt("notify") /\ proto.who = t
       \/ proto.pc \in {"stop_config", "force_unpause"} /\ ts[t].registered
  /\ pc[t] = "config_asleep" /\ (engine.is_config_done \/ engine.stop_requested) =>
       ProtoAt("stop_config")

(* BreakpointsArmed, and what keeps it: a thread at a stop that it will    *)
(* leave for the program keeps its request flag, or gets it when resumed.  *)
GoingOn(t) ==
  \/ pc[t] = "run"
  \/ via[t] = "caught" /\ pc[t] \in {"pausing", "resolve", "emit", "wait", "asleep"}
  \/ via[t] = "line" /\ pc[t] \in {"emit", "wait", "asleep"} /\ ~ts[t].is_paused
ArmedOK(t) ==
  engine.active /\ ~ProtoAt("signal") /\ ts[t].vm /\ GoingOn(t) => pause_requested[t]

(* ClientInformed, and what keeps it: where the editor believes that a     *)
(* waiting thread runs, the request that told it so is about to resume it. *)
Resumes(t) ==
  /\ proto.op \in {"continue"} \cup StepModes
  /\ proto.pc \in {"target", "apply", "notify"}
  /\ t \in proto.todo /\ (proto.pc = "notify" => t # proto.who)
InformedOK(t) ==
  wire.pipe = "open" /\ pc[t] \in {"wait", "asleep"} /\ ts[t].is_paused
  /\ ~engine.stop_requested
  => view[t] = "stopped" \/ Resumes(t)

ThreadOK(t) == PlaceOK(t) /\ WakeOK(t) /\ ArmedOK(t) /\ InformedOK(t)

(* Once terminate() has joined, the program is over; nothing runs under a  *)
(* later request.                                                          *)
StopOK ==
  engine.stop_requested /\ ~(proto.pc \in {"stop_config", "force_unpause", "join"}) =>
    /\ pc[Main] = "done"
    /\ ~(proto.pc \in {"null_vms", "reset_vm"}) => \A t \in Task : pc[t] \in {"none", "gone"}

(* What a request is about to resume is still counted if it is paused.     *)
TodoOK ==
  /\ proto.pc = "continued" => proto.op \in {"continue"} \cup StepModes
  /\ proto.pc \in {"apply", "notify"} =>
       \A t \in proto.todo : ts[t].registered \/ ~ts[t].is_paused

IInv ==
  /\ TypeCore
  /\ \A t \in Thread : ThreadOK(t)
  /\ StartOK
  /\ StopOK
  /\ TodoOK
  /\ PausedCounted

-----------------------------------------------------------------------------
LEMMA Threads ==
  /\ Main \in Thread /\ Task \subseteq Thread /\ IsFiniteSet(Thread)
  /\ \A t \in Thread : t = Main \/ t \in Task
  /\ \A t \in Task : t # Main
<1>1. IsFiniteSet(Thread) BY DebugAssumption, FS_AddElement DEF Thread
<1>2. QED BY <1>1, DebugAssumption DEF Thread

(* A paused thread that is registered.                                     *)
Counted(t) == ts[t].registered /\ ts[t].is_paused

LEMMA PausedSet ==
  /\ {t \in Registered : ts[t].is_paused} = {t \in Thread : Counted(t)}
  /\ IsFiniteSet({t \in Thread : Counted(t)})
  /\ Cardinality({t \in Thread : Counted(t)}) \in Nat
<1>1. {t \in Registered : ts[t].is_paused} = {t \in Thread : Counted(t)}
  BY DEF Registered, Counted
<1>2. QED BY <1>1, Threads, FS_Subset, FS_CardinalityType

(* A step that changes the state of one thread and the counter with it.    *)
Recounts(t) ==
  \/ paused_count' = paused_count /\ (Counted(t)' <=> Counted(t))
  \/ paused_count' = paused_count + 1 /\ ~Counted(t) /\ Counted(t)'
  \/ paused_count' = paused_count - 1 /\ Counted(t) /\ ~Counted(t)'

LEMMA Recount ==
  ASSUME PausedCounted, NEW t \in Thread, \A u \in Thread \ {t} : ts'[u] = ts[u],
         Recounts(t)
  PROVE  PausedCounted'
<1>. DEFINE S == {u \in Thread : Counted(u)}
            R == {u \in Thread : Counted(u)'}
<1>1. paused_count = Cardinality(S) /\ IsFiniteSet(S)
  BY PausedSet DEF PausedCounted
<1>2. PausedCounted' <=> paused_count' = Cardinality(R)
  BY DEF PausedCounted, Registered, Counted
<1>3. \A u \in Thread \ {t} : Counted(u)' <=> Counted(u) BY DEF Counted
<1>4. \/ paused_count' = paused_count /\ R = S
      \/ paused_count' = paused_count + 1 /\ t \notin S /\ R = S \cup {t}
      \/ paused_count' = paused_count - 1 /\ t \in S /\ R = S \ {t}
  BY <1>3 DEF Recounts
<1>. HIDE DEF S, R
<1>5. QED BY <1>1, <1>2, <1>4, CountAdd, CountRemove

(* A step of one thread leaves everything else of the others alone, but    *)
(* that it may report them as stopped.                                     *)
Local(t) ==
  /\ \A u \in Thread \ {t} :
       /\ ts'[u] = ts[u] /\ pc'[u] = pc[u] /\ via'[u] = via[u]
       /\ pause_requested'[u] = pause_requested[u]
       /\ view'[u] \in {view[u], "stopped"}
  /\ proto' = proto /\ wire'.pipe = wire.pipe
  /\ engine'.stop_requested = engine.stop_requested
  /\ engine'.is_config_done = engine.is_config_done
  /\ engine'.active # engine.active => t = Main /\ pc[Main] = "attach"

(* The threads that do nothing any more, or not yet.                       *)
Quiet == {"none", "gone", "done"}

LEMMA LocalStep ==
  ASSUME IInv, NEW t \in Thread, TypeCore', Local(t), ThreadOK(t)', Recounts(t),
         pc[t] # "done",
         t = Main \/ \E p \in Thread : pc[p] \notin Quiet \cup Starting,
         pc'[t] \in Starting => pc[t] \in Starting,
         pc'[t] = "gone" /\ ts'[t].is_paused => engine.stop_requested
  PROVE  IInv'
<1>1. ASSUME NEW u \in Thread \ {t} PROVE ThreadOK(u)'
  <2>1. /\ ts'[u] = ts[u] /\ pc'[u] = pc[u] /\ via'[u] = via[u]
        /\ pause_requested'[u] = pause_requested[u] /\ view'[u] \in {view[u], "stopped"}
        /\ proto' = proto /\ wire'.pipe = wire.pipe
        /\ engine'.stop_requested = engine.stop_requested
        /\ engine'.is_config_done = engine.is_config_done
    BY <1>1 DEF Local
  <2>2. PlaceOK(u) /\ WakeOK(u) /\ ArmedOK(u) /\ InformedOK(u) BY DEF IInv, ThreadOK
  <2>3. PlaceOK(u)' BY <2>1, <2>2 DEF PlaceOK
  <2>4. WakeOK(u)' BY <2>1, <2>2 DEF WakeOK, ProtoAt
  <2>5. InformedOK(u)' BY <2>1, <2>2 DEF InformedOK, Resumes
  <2>6. ArmedOK(u)'
    <3>1. CASE engine'.active = engine.active
      BY <2>1, <2>2, <3>1 DEF ArmedOK, GoingOn, ProtoAt
    <3>2. CASE engine'.active # engine.active
      <4>1. t = Main /\ pc[Main] = "attach" BY <3>2 DEF Local
      <4>2. pc[u] = "none" BY <1>1, <4>1, Threads DEF IInv, StartOK, Starting
      <4>3. QED BY <2>1, <4>2 DEF ArmedOK, GoingOn
    <3>3. QED BY <3>1, <3>2
  <2>7. QED BY <2>3, <2>4, <2>5, <2>6 DEF ThreadOK
<1>2. \A u \in Thread : ThreadOK(u)' BY <1>1
<1>3. /\ proto' = proto /\ engine'.stop_requested = engine.stop_requested
      /\ \A u \in Thread \ {t} : ts'[u] = ts[u] /\ pc'[u] = pc[u]
  BY DEF Local
<1>4. StartOK'
  <2> SUFFICES ASSUME pc'[Main] \in Starting, NEW u \in Task PROVE pc'[u] = "none"
    BY DEF StartOK
  <2>1. pc[Main] \in Starting BY <1>3, Threads
  <2>2. \A v \in Task : pc[v] = "none" BY <2>1 DEF IInv, StartOK
  <2>3. t = Main BY <2>1, <2>2, Threads DEF Quiet
  <2>4. QED BY <1>3, <2>2, <2>3, Threads
<1>5. engine.stop_requested =>
        proto.pc \in {"stop_config", "force_unpause", "join", "null_vms", "reset_vm"}
  BY Threads DEF IInv, StopOK, Quiet
<1>6. StopOK'
  <2>1. pc[Main] = "done" => pc'[Main] = "done" BY <1>3, Threads
  <2>2. QED BY <1>3, <1>5, <2>1 DEF IInv, StopOK
<1>7. TodoOK'
  <2>1. proto.pc \in {"apply", "notify"} => ts'[t].registered \/ ~ts'[t].is_paused
    <3>1. PlaceOK(t)' BY DEF ThreadOK
    <3>2. QED BY <1>5, <3>1 DEF PlaceOK
  <2>2. \A u \in proto.todo : u \in Thread BY DEF IInv, TypeCore
  <2>3. QED BY <1>3, <2>1, <2>2 DEF IInv, TodoOK
<1>8. PausedCounted' BY <1>3, Recount DEF IInv
<1>9. QED BY <1>2, <1>4, <1>6, <1>7, <1>8 DEF IInv

-----------------------------------------------------------------------------
(* The steps of the program's threads.                                     *)

(* A step that moves one thread and at most ends the session.              *)
Moves(t) ==
  /\ \E l \in Places : pc' = [pc EXCEPT ![t] = l]
  /\ UNCHANGED <<ts, pause_requested, via, paused_count, proto, requests>>
  /\ engine' = engine \/ engine' = Terminated(engine)
  /\ UNCHANGED wire \/ wire' = [wire EXCEPT !.disconnected = TRUE]
  /\ UNCHANGED view

LEMMA MoveStep ==
  ASSUME TypeCore, NEW t \in Thread, Moves(t)
  PROVE  /\ TypeCore' /\ Local(t) /\ Recounts(t)
         /\ ts' = ts /\ via' = via /\ pause_requested' = pause_requested
         /\ proto' = proto /\ view' = view /\ wire'.pipe = wire.pipe
         /\ engine'.stop_requested = engine.stop_requested
         /\ engine'.is_config_done = engine.is_config_done
         /\ engine'.active = engine.active
<1>1. TypeCore'
  <2>1. engine' \in [session : {"running", "terminated", "none"}, stop_requested : BOOLEAN,
                     is_config_done : BOOLEAN, suppress_exit_events : BOOLEAN,
                     main_uncaught_stop_reported : BOOLEAN, active : BOOLEAN,
                     pending : BOOLEAN, filters : SUBSET Filters]
    BY DEF TypeCore, Moves, Terminated
  <2>2. wire' \in [pipe : {"open", "broken"}, disconnected : BOOLEAN,
                   callback_invoked : BOOLEAN, send_mutex : BOOLEAN]
    BY DEF TypeCore, Moves
  <2>3. pc' \in [Thread -> Places] BY DEF TypeCore, Moves
  <2>4. QED BY <2>1, <2>2, <2>3 DEF TypeCore, Moves
<1>2. /\ wire'.pipe = wire.pipe
      /\ engine'.stop_requested = engine.stop_requested
      /\ engine'.is_config_done = engine.is_config_done
      /\ engine'.active = engine.active
  BY DEF TypeCore, Moves, Terminated
<1>3. Local(t) BY <1>2 DEF Local, Moves, TypeCore
<1>4. Recounts(t) BY DEF Recounts, Counted, Moves
<1>5. QED BY <1>1, <1>2, <1>3, <1>4 DEF Moves

(* An event that changes nothing of what the editor believes.              *)
LEMMA SendAlone ==
  ASSUME TypeCore, SendEvent(view)
  PROVE  /\ view' = view
         /\ wire' \in [pipe : {"open", "broken"}, disconnected : BOOLEAN,
                       callback_invoked : BOOLEAN, send_mutex : BOOLEAN]
         /\ wire'.pipe = wire.pipe
BY ZenonT(40) DEF SendEvent, TypeCore

(* Where the thread goes when its pause callback returns.                  *)
LEMMA AfterPausePlace ==
  ASSUME TypeCore, NEW t \in Thread, via[t] = "unhandled" => t = Main
  PROVE  /\ AfterPause(t) \in {"run", "result", "exit", "unhandled"}
         /\ AfterPause(t) \in {"result", "unhandled"} => t = Main
         /\ AfterPause(t) = "exit" => t # Main
         /\ AfterPause(t) = "run" => via[t] = "caught" \/ (via[t] = "line" /\ ~engine.stop_requested)
         /\ via[t] = "unhandled" => AfterPause(t) = "result"
BY DEF TypeCore, AfterPause, EndOf, AfterException

LEMMA WalkOK ==
  ASSUME IInv, NEW t \in Thread,
         \/ LineHook(t) \/ WaitForResume(t) \/ CheckResumed(t) \/ Finish(t)
         \/ t \in Task /\ Spawn(t)
  PROVE  IInv'
<1>1. /\ TypeCore /\ PlaceOK(t) /\ WakeOK(t) /\ ArmedOK(t) /\ InformedOK(t)
      /\ pc \in [Thread -> Places] /\ ts[t] \in ThreadStates
  BY DEF IInv, ThreadOK, TypeCore
<1>2. /\ AfterPause(t) \in {"run", "result", "exit", "unhandled"}
      /\ AfterPause(t) \in {"result", "unhandled"} => t = Main
      /\ AfterPause(t) = "exit" => t # Main
      /\ AfterPause(t) = "run" => via[t] = "caught" \/ (via[t] = "line" /\ ~engine.stop_requested)
      /\ via[t] = "unhandled" => AfterPause(t) = "result"
  BY <1>1, AfterPausePlace DEF PlaceOK
<1>. HIDE DEF AfterPause
<1>3. EndOf(t) = (IF t = Main THEN "result" ELSE "exit") BY DEF EndOf
<1>4. \E l \in Places : pc' = [pc EXCEPT ![t] = l]
  BY <1>2, <1>3 DEF LineHook, WaitForResume, CheckResumed, Finish, Spawn, Goto,
     Places, CommonPlaces, MainPlaces, TaskPlaces
<1>5. Moves(t)
  BY <1>4 DEF Moves, LineHook, WaitForResume, CheckResumed, Finish, Spawn
<1>6. /\ TypeCore' /\ Local(t) /\ Recounts(t)
      /\ ts'[t] = ts[t] /\ via'[t] = via[t] /\ pause_requested'[t] = pause_requested[t]
      /\ proto' = proto /\ view'[t] = view[t] /\ wire'.pipe = wire.pipe
      /\ engine'.stop_requested = engine.stop_requested
      /\ engine'.is_config_done = engine.is_config_done
      /\ engine'.active = engine.active
  BY <1>1, <1>5, MoveStep
<1>7. \/ pc[t] = "run" /\ pc'[t] \in {"break", "lookup"}
      \/ pc[t] = "pausing" /\ engine.stop_requested /\ pc'[t] = AfterPause(t)
      \/ pc[t] = "pausing" /\ ~engine.stop_requested /\ pc'[t] = "resolve"
      \/ /\ pc[t] = "wait" /\ (~ts[t].is_paused \/ engine.stop_requested)
         /\ pc'[t] = AfterPause(t)
      \/ /\ pc[t] = "wait" /\ ts[t].is_paused /\ ~engine.stop_requested
         /\ pc'[t] = "asleep"
      \/ pc[t] = "run" /\ pc'[t] = "result" /\ t = Main
      \/ pc[t] = "run" /\ pc'[t] = "exit" /\ t # Main
      \/ pc[t] = "none" /\ pc'[t] = "spawned" /\ t # Main /\ \E p \in Thread : pc[p] = "run"
  BY <1>1, <1>3, Threads DEF LineHook, WaitForResume, CheckResumed, Finish, Spawn, Goto
<1>8. PlaceOK(t)'
  BY <1>1, <1>2, <1>6, <1>7
  DEF PlaceOK, Unstarted, Stopped, CommonPlaces, MainPlaces, TaskPlaces
<1>9. WakeOK(t)'
  BY <1>1, <1>2, <1>6, <1>7 DEF WakeOK, ProtoAt
<1>10. ArmedOK(t)'
  BY <1>1, <1>2, <1>6, <1>7 DEF ArmedOK, GoingOn, ProtoAt
<1>11. InformedOK(t)'
  BY <1>1, <1>2, <1>6, <1>7 DEF InformedOK, Resumes
<1>12. /\ pc[t] # "done" /\ pc'[t] \notin Starting /\ pc'[t] # "gone"
       /\ \E p \in Thread : pc[p] \notin Quiet \cup Starting
  BY <1>2, <1>7 DEF Quiet, Starting
<1>13. QED
  BY <1>6, <1>8, <1>9, <1>10, <1>11, <1>12, LocalStep DEF ThreadOK

LEMMA MainWalkOK ==
  ASSUME IInv, WaitForConfiguration \/ HandleExecutionResult
  PROVE  IInv'
<1>. DEFINE t == Main
<1>0. t \in Thread BY Threads
<1>1. /\ TypeCore /\ PlaceOK(t) /\ WakeOK(t) /\ ArmedOK(t) /\ InformedOK(t)
      /\ pc \in [Thread -> Places]
  BY <1>0 DEF IInv, ThreadOK, TypeCore
<1>2. \/ /\ pc[t] = "config"
         /\ \/ engine.stop_requested /\ pc' = [pc EXCEPT ![t] = "done"]
            \/ /\ ~engine.stop_requested /\ engine.is_config_done
               /\ pc' = [pc EXCEPT ![t] = "attach"]
            \/ /\ ~engine.stop_requested /\ ~engine.is_config_done
               /\ pc' = [pc EXCEPT ![t] = "config_asleep"]
      \/ pc[t] = "result" /\ pc' = [pc EXCEPT ![t] = "done"]
      \/ pc[t] = "result" /\ pc' = [pc EXCEPT ![t] = "report"]
      \/ pc[t] = "report" /\ pc' = [pc EXCEPT ![t] = "done"]
  BY DEF WaitForConfiguration, HandleExecutionResult, Goto
<1>3. Moves(t)
  <2>1. \E l \in Places : pc' = [pc EXCEPT ![t] = l]
    BY <1>2 DEF Places, MainPlaces
  <2>2. CASE WaitForConfiguration
    BY <2>1, <2>2 DEF WaitForConfiguration, Moves
  <2>3. CASE HandleExecutionResult
    BY <2>1, <2>3 DEF HandleExecutionResult, Moves, SendEvent
  <2>4. QED BY <2>2, <2>3
<1>. HIDE DEF t
<1>4. /\ TypeCore' /\ Local(t) /\ Recounts(t)
      /\ ts'[t] = ts[t] /\ via'[t] = via[t] /\ pause_requested'[t] = pause_requested[t]
      /\ proto' = proto /\ view'[t] = view[t] /\ wire'.pipe = wire.pipe
      /\ engine'.stop_requested = engine.stop_requested
      /\ engine'.is_config_done = engine.is_config_done
      /\ engine'.active = engine.active
  BY <1>0, <1>1, <1>3, MoveStep
<1>5. \/ /\ pc[t] = "config"
         /\ \/ engine.stop_requested /\ pc'[t] = "done"
            \/ pc'[t] = "attach"
            \/ /\ ~engine.stop_requested /\ ~engine.is_config_done
               /\ pc'[t] = "config_asleep"
      \/ pc[t] \in {"result", "report"} /\ pc'[t] \in {"report", "done"}
  BY <1>0, <1>1, <1>2
<1>6. PlaceOK(t)'
  BY <1>1, <1>4, <1>5
  DEF t, PlaceOK, Unstarted, Stopped, CommonPlaces, MainPlaces, TaskPlaces
<1>7. WakeOK(t)' BY <1>1, <1>4, <1>5 DEF WakeOK, ProtoAt
<1>8. ArmedOK(t)' BY <1>4, <1>5 DEF ArmedOK, GoingOn
<1>9. InformedOK(t)' BY <1>4, <1>5 DEF InformedOK
<1>10. /\ pc[t] # "done" /\ pc'[t] # "gone"
       /\ pc'[t] \in Starting => pc[t] \in Starting
  BY <1>5 DEF Starting
<1>11. QED
  BY <1>0, <1>4, <1>6, <1>7, <1>8, <1>9, <1>10, LocalStep DEF t, ThreadOK

(* A step that rewrites the state of one thread.                           *)
LEMMA SetState ==
  ASSUME TypeCore, NEW t \in Thread, NEW n \in ThreadStates, ts' = [ts EXCEPT ![t] = n]
  PROVE  /\ ts' \in [Thread -> ThreadStates] /\ ts'[t] = n
         /\ \A u \in Thread \ {t} : ts'[u] = ts[u]
BY DEF TypeCore

LEMMA EmitOK ==
  ASSUME IInv, NEW t \in Thread, EmitStopped(t)
  PROVE  IInv'
<1>1. /\ TypeCore /\ PlaceOK(t) /\ WakeOK(t) /\ ArmedOK(t) /\ InformedOK(t)
      /\ pc \in [Thread -> Places] /\ view \in [Thread -> {"running", "stopped"}]
  BY DEF IInv, ThreadOK, TypeCore
<1>2. /\ pc[t] \in {"emit", "unhandled_emit"} /\ pc' = [pc EXCEPT ![t] = "wait"]
      /\ UNCHANGED <<ts, pause_requested, via, paused_count, engine, proto, requests>>
      /\ view' = StoppedEvent(t) \/ view' = view
      /\ UNCHANGED wire \/ wire' = [wire EXCEPT !.disconnected = TRUE]
      /\ wire.pipe = "open" => view' = StoppedEvent(t)
  BY DEF EmitStopped, Goto, SendEvent
<1>3. /\ StoppedEvent(t) \in [Thread -> {"running", "stopped"}] /\ StoppedEvent(t)[t] = "stopped"
      /\ \A u \in Thread : StoppedEvent(t)[u] \in {view[u], "stopped"}
  BY <1>1 DEF StoppedEvent
<1>4. wire' \in [pipe : {"open", "broken"}, disconnected : BOOLEAN,
                 callback_invoked : BOOLEAN, send_mutex : BOOLEAN]
      /\ wire'.pipe = wire.pipe
  BY <1>1, <1>2 DEF TypeCore
<1>5. TypeCore'
  BY <1>1, <1>2, <1>3, <1>4 DEF TypeCore, Places, CommonPlaces
<1>6. Local(t) BY <1>1, <1>2, <1>3, <1>4 DEF Local
<1>7. /\ pc'[t] = "wait" /\ ts'[t] = ts[t] /\ via'[t] = via[t] /\ engine' = engine
      /\ pause_requested'[t] = pause_requested[t] /\ proto' = proto
      /\ wire.pipe = "open" => view'[t] = "stopped"
  BY <1>1, <1>2, <1>3
<1>8. PlaceOK(t)'
  BY <1>1, <1>2, <1>7
  DEF PlaceOK, Unstarted, Stopped, CommonPlaces, MainPlaces, TaskPlaces
<1>9. WakeOK(t)' BY <1>7 DEF WakeOK
<1>10. ArmedOK(t)'
  <2>1. CASE pc[t] = "emit" BY <1>1, <1>7, <2>1 DEF ArmedOK, GoingOn, ProtoAt
  <2>2. CASE pc[t] = "unhandled_emit"
    BY <1>1, <1>7, <2>2 DEF PlaceOK, ArmedOK, GoingOn
  <2>3. QED BY <1>2, <2>1, <2>2
<1>11. InformedOK(t)' BY <1>4, <1>7 DEF InformedOK
<1>12. Recounts(t) BY <1>2 DEF Recounts, Counted
<1>13. pc[t] \notin Quiet \cup Starting /\ pc[t] # "done" BY <1>2 DEF Quiet, Starting
<1>14. QED
  BY <1>5, <1>6, <1>7, <1>8, <1>9, <1>10, <1>11, <1>12, <1>13, LocalStep
  DEF ThreadOK, Starting

LEMMA AttachOK ==
  ASSUME IInv, AttachVm
  PROVE  IInv'
<1>. DEFINE t == Main
            n == [ts[Main] EXCEPT !.vm = TRUE]
<1>0. t \in Thread BY Threads
<1>1. /\ TypeCore /\ PlaceOK(t) /\ WakeOK(t) /\ ArmedOK(t) /\ InformedOK(t)
      /\ pc \in [Thread -> Places] /\ ts \in [Thread -> ThreadStates]
  BY <1>0 DEF IInv, ThreadOK, TypeCore
<1>2. n \in ThreadStates /\ n.vm = TRUE /\ n.registered = ts[t].registered
      /\ n.is_paused = ts[t].is_paused
      /\ n.is_exception_terminated = ts[t].is_exception_terminated
  BY <1>0, <1>1 DEF ThreadStates
<1>3. /\ pc[t] = "attach"
      /\ \/ pc' = [pc EXCEPT ![t] = "arm"] /\ ts' = [ts EXCEPT ![t] = n]
         \/ pc' = [pc EXCEPT ![t] = "result"] /\ ts' = ts
      /\ UNCHANGED <<pause_requested, via, paused_count, proto, wire, view, requests>>
      /\ engine' = [engine EXCEPT !.active = engine.active \/ engine.pending]
  BY DEF AttachVm, Goto
<1>. HIDE DEF n, t
<1>4. /\ ts' \in [Thread -> ThreadStates]
      /\ \A u \in Thread \ {t} : ts'[u] = ts[u]
      /\ ts'[t] = ts[t] \/ (ts'[t] = n /\ pc'[t] = "arm")
      /\ pc' \in [Thread -> Places] /\ pc'[t] \in {"arm", "result"}
      /\ \A u \in Thread \ {t} : pc'[u] = pc[u]
  BY <1>0, <1>1, <1>2, <1>3 DEF Places, MainPlaces
<1>5. /\ engine' \in [session : {"running", "terminated", "none"}, stop_requested : BOOLEAN,
                      is_config_done : BOOLEAN, suppress_exit_events : BOOLEAN,
                      main_uncaught_stop_reported : BOOLEAN, active : BOOLEAN,
                      pending : BOOLEAN, filters : SUBSET Filters]
      /\ engine'.stop_requested = engine.stop_requested
      /\ engine'.is_config_done = engine.is_config_done
  BY <1>1, <1>3 DEF TypeCore
<1>6. TypeCore' BY <1>1, <1>3, <1>4, <1>5 DEF TypeCore
<1>7. Local(t) BY <1>3, <1>4, <1>5 DEF Local, t
<1>8. PlaceOK(t)'
  BY <1>1, <1>2, <1>3, <1>4, <1>5
  DEF t, PlaceOK, Unstarted, Stopped, CommonPlaces, MainPlaces, TaskPlaces
<1>9. WakeOK(t)' /\ ArmedOK(t)' /\ InformedOK(t)'
  BY <1>4 DEF WakeOK, ArmedOK, GoingOn, InformedOK
<1>10. Recounts(t) BY <1>2, <1>3, <1>4 DEF Recounts, Counted
<1>11. pc[t] # "done" /\ pc[t] \in Starting /\ pc'[t] # "gone"
  BY <1>3, <1>4 DEF Starting
<1>12. QED
  BY <1>0, <1>6, <1>7, <1>8, <1>9, <1>10, <1>11, LocalStep DEF t, ThreadOK

LEMMA ArmOK ==
  ASSUME IInv, ArmHooks
  PROVE  IInv'
<1>. DEFINE t == Main
            m == IF ts[Main].stop_on_entry THEN "Into" ELSE ts[Main].mode
            n == [ts[Main] EXCEPT !.mode = m]
            p == pause_requested[Main] \/ ts[Main].stop_on_entry \/ engine.active
<1>0. t \in Thread BY Threads
<1>1. /\ TypeCore /\ PlaceOK(t) /\ WakeOK(t) /\ ArmedOK(t) /\ InformedOK(t)
      /\ pc \in [Thread -> Places] /\ ts \in [Thread -> ThreadStates]
  BY <1>0 DEF IInv, ThreadOK, TypeCore
<1>2. n \in ThreadStates /\ n.vm = ts[t].vm /\ n.registered = ts[t].registered
      /\ n.is_paused = ts[t].is_paused
      /\ n.is_exception_terminated = ts[t].is_exception_terminated
  BY <1>0, <1>1 DEF ThreadStates
<1>3. /\ pc[t] = "arm" /\ pc' = [pc EXCEPT ![t] = "run"] /\ ts' = [ts EXCEPT ![t] = n]
      /\ pause_requested' = [pause_requested EXCEPT ![t] = p]
      /\ UNCHANGED <<via, paused_count, engine, proto, wire, view, requests>>
  BY DEF ArmHooks, Goto
<1>4. p \in BOOLEAN /\ (engine.active => p) BY <1>1 DEF TypeCore
<1>. HIDE DEF n, t, p
<1>5. /\ ts' \in [Thread -> ThreadStates] /\ ts'[t] = n
      /\ \A u \in Thread \ {t} : ts'[u] = ts[u]
      /\ pc' \in [Thread -> Places] /\ pc'[t] = "run"
      /\ \A u \in Thread \ {t} : pc'[u] = pc[u]
  BY <1>0, <1>1, <1>2, <1>3 DEF Places, CommonPlaces
<1>6. /\ pause_requested' \in [Thread -> BOOLEAN] /\ pause_requested'[t] = p
      /\ \A u \in Thread \ {t} : pause_requested'[u] = pause_requested[u]
  BY <1>0, <1>1, <1>3, <1>4 DEF TypeCore
<1>7. TypeCore' BY <1>1, <1>3, <1>5, <1>6 DEF TypeCore
<1>8. Local(t) BY <1>3, <1>5, <1>6 DEF Local
<1>9. PlaceOK(t)'
  BY <1>1, <1>2, <1>3, <1>5
  DEF t, PlaceOK, Unstarted, Stopped, CommonPlaces, MainPlaces, TaskPlaces
<1>10. ArmedOK(t)' BY <1>3, <1>4, <1>6 DEF ArmedOK
<1>11. WakeOK(t)' /\ InformedOK(t)' BY <1>5 DEF WakeOK, InformedOK
<1>12. Recounts(t) BY <1>2, <1>3, <1>5 DEF Recounts, Counted
<1>13. pc[t] # "done" /\ pc'[t] \notin Starting /\ pc'[t] # "gone"
  BY <1>3, <1>5 DEF Starting
<1>14. QED
  BY <1>0, <1>7, <1>8, <1>9, <1>10, <1>11, <1>12, <1>13, LocalStep DEF t, ThreadOK

LEMMA CheckBreakpointOK ==
  ASSUME IInv, NEW t \in Thread, CheckBreakpoint(t)
  PROVE  IInv'
<1>. DEFINE n == [ts[t] EXCEPT !.hit = TRUE]
            p == pause_requested[t] \/ (engine.active /\ ts[t].vm)
<1>1. /\ TypeCore /\ PlaceOK(t) /\ WakeOK(t) /\ ArmedOK(t) /\ InformedOK(t)
      /\ pc \in [Thread -> Places] /\ ts \in [Thread -> ThreadStates]
      /\ pause_requested \in [Thread -> BOOLEAN]
  BY DEF IInv, ThreadOK, TypeCore
<1>2. n \in ThreadStates /\ n.vm = ts[t].vm /\ n.registered = ts[t].registered
      /\ n.is_paused = ts[t].is_paused
      /\ n.is_exception_terminated = ts[t].is_exception_terminated
  BY <1>1 DEF ThreadStates
<1>3. /\ pc[t] = "lookup"
      /\ \/ /\ pc' = [pc EXCEPT ![t] = "break"] /\ ts' = [ts EXCEPT ![t] = n]
            /\ pause_requested' = pause_requested
         \/ /\ pc' = [pc EXCEPT ![t] = "run"] /\ ts' = ts
            /\ pause_requested' = [pause_requested EXCEPT ![t] = p]
      /\ UNCHANGED <<via, paused_count, engine, proto, wire, view, requests>>
  BY DEF CheckBreakpoint, Goto
<1>4. p \in BOOLEAN /\ (engine.active /\ ts[t].vm => p) BY <1>1 DEF TypeCore, ThreadStates
<1>. HIDE DEF n, p
<1>5. /\ ts' \in [Thread -> ThreadStates]
      /\ \A u \in Thread \ {t} : ts'[u] = ts[u]
      /\ ts'[t] = ts[t] \/ ts'[t] = n
      /\ pc' \in [Thread -> Places]
      /\ \A u \in Thread \ {t} : pc'[u] = pc[u]
      /\ \/ pc'[t] = "break"
         \/ pc'[t] = "run" /\ ts'[t] = ts[t] /\ pause_requested'[t] = p
  BY <1>1, <1>2, <1>3 DEF Places, CommonPlaces
<1>6. /\ pause_requested' \in [Thread -> BOOLEAN]
      /\ \A u \in Thread \ {t} : pause_requested'[u] = pause_requested[u]
  BY <1>1, <1>3, <1>4
<1>7. TypeCore' BY <1>1, <1>3, <1>5, <1>6 DEF TypeCore
<1>8. Local(t) BY <1>3, <1>5, <1>6 DEF Local
<1>9. PlaceOK(t)'
  BY <1>1, <1>2, <1>3, <1>5
  DEF PlaceOK, Unstarted, Stopped, CommonPlaces, MainPlaces, TaskPlaces
<1>10. ArmedOK(t)' BY <1>3, <1>4, <1>5 DEF ArmedOK, GoingOn
<1>11. WakeOK(t)' /\ InformedOK(t)' BY <1>5 DEF WakeOK, InformedOK
<1>12. Recounts(t) BY <1>2, <1>3, <1>5 DEF Recounts, Counted
<1>13. /\ pc[t] \notin Quiet \cup Starting /\ pc[t] # "done"
       /\ pc'[t] \notin Starting /\ pc'[t] # "gone"
  BY <1>3, <1>5 DEF Starting, Quiet
<1>14. QED
  BY <1>7, <1>8, <1>9, <1>10, <1>11, <1>12, <1>13, LocalStep DEF ThreadOK

LEMMA ConsumeOK ==
  ASSUME IInv, NEW t \in Thread, ConsumePauseRequest(t)
  PROVE  IInv'
<1>1. /\ TypeCore /\ PlaceOK(t) /\ WakeOK(t) /\ ArmedOK(t) /\ InformedOK(t)
      /\ pc \in [Thread -> Places] /\ ts \in [Thread -> ThreadStates]
  BY DEF IInv, ThreadOK, TypeCore
<1>2. /\ pc[t] = "break" /\ pc'[t] = "pausing" /\ via'[t] = "line"
      /\ \A u \in Thread \ {t} : /\ pc'[u] = pc[u] /\ via'[u] = via[u]
                                 /\ pause_requested'[u] = pause_requested[u]
      /\ UNCHANGED <<ts, paused_count, engine, proto, wire, view, requests>>
  BY <1>1 DEF ConsumePauseRequest, Goto, TypeCore
<1>3. TypeCore'
  BY <1>1 DEF TypeCore, ConsumePauseRequest, Goto, Places, CommonPlaces
<1>4. Local(t) BY <1>2 DEF Local
<1>5. PlaceOK(t)'
  BY <1>1, <1>2
  DEF PlaceOK, Unstarted, Stopped, CommonPlaces, MainPlaces, TaskPlaces
<1>6. WakeOK(t)' /\ InformedOK(t)' /\ ArmedOK(t)'
  BY <1>2 DEF WakeOK, InformedOK, ArmedOK, GoingOn
<1>7. Recounts(t) BY <1>2 DEF Recounts, Counted
<1>8. /\ pc[t] \notin Quiet \cup Starting /\ pc[t] # "done"
      /\ pc'[t] \notin Starting /\ pc'[t] # "gone"
  BY <1>2 DEF Starting, Quiet
<1>9. QED
  BY <1>3, <1>4, <1>5, <1>6, <1>7, <1>8, LocalStep DEF ThreadOK

LEMMA ThrowOK ==
  ASSUME IInv, NEW t \in Thread, NEW caught \in BOOLEAN, Throw(t, caught)
  PROVE  IInv'
<1>. DEFINE n == [ts[t] EXCEPT !.exception = TRUE]
            f == IF caught THEN "caught" ELSE "uncaught"
<1>1. /\ TypeCore /\ PlaceOK(t) /\ WakeOK(t) /\ ArmedOK(t) /\ InformedOK(t)
      /\ pc \in [Thread -> Places] /\ ts \in [Thread -> ThreadStates]
      /\ via \in [Thread -> {"line", "caught", "uncaught", "unhandled"}]
  BY DEF IInv, ThreadOK, TypeCore
<1>2. n \in ThreadStates /\ n.vm = ts[t].vm /\ n.registered = ts[t].registered
      /\ n.is_paused = ts[t].is_paused
      /\ n.is_exception_terminated = ts[t].is_exception_terminated
  BY ZenonT(40), <1>1 DEF ThreadStates
<1>3. /\ pc[t] = "run"
      /\ \/ /\ pc' = [pc EXCEPT ![t] = "pausing"] /\ ts' = [ts EXCEPT ![t] = n]
            /\ via' = [via EXCEPT ![t] = f]
            /\ engine' = [engine EXCEPT !.main_uncaught_stop_reported =
                             engine.main_uncaught_stop_reported \/ (~caught /\ t = Main)]
         \/ /\ pc' = [pc EXCEPT ![t] = AfterException(t, caught)]
            /\ ts' = ts /\ via' = via /\ engine' = engine
      /\ UNCHANGED <<pause_requested, paused_count, proto, wire, view, requests>>
  BY DEF Throw, Goto
<1>4. f \in {"caught", "uncaught"} OBVIOUS
<1>5. /\ AfterException(t, caught) \in {"run", "unhandled", "exit"}
      /\ AfterException(t, caught) = "unhandled" => t = Main
      /\ AfterException(t, caught) = "exit" => t # Main
  BY DEF AfterException
<1>6. /\ engine' \in [session : {"running", "terminated", "none"}, stop_requested : BOOLEAN,
                      is_config_done : BOOLEAN, suppress_exit_events : BOOLEAN,
                      main_uncaught_stop_reported : BOOLEAN, active : BOOLEAN,
                      pending : BOOLEAN, filters : SUBSET Filters]
      /\ engine'.stop_requested = engine.stop_requested
      /\ engine'.is_config_done = engine.is_config_done
      /\ engine'.active = engine.active
  BY ZenonT(40), <1>1, <1>3 DEF TypeCore
<1>. HIDE DEF n, f
<1>7. /\ ts' \in [Thread -> ThreadStates]
      /\ \A u \in Thread \ {t} : ts'[u] = ts[u]
      /\ ts'[t] = ts[t] \/ ts'[t] = n
      /\ pc' \in [Thread -> Places]
      /\ \A u \in Thread \ {t} : pc'[u] = pc[u]
      /\ \/ pc'[t] = "pausing" /\ via'[t] = f
         \/ pc'[t] = AfterException(t, caught) /\ ts'[t] = ts[t] /\ via'[t] = via[t]
  BY <1>1, <1>2, <1>3, <1>5 DEF Places, CommonPlaces, MainPlaces, TaskPlaces
<1>8. /\ via' \in [Thread -> {"line", "caught", "uncaught", "unhandled"}]
      /\ \A u \in Thread \ {t} : via'[u] = via[u]
  BY <1>1, <1>3, <1>4
<1>9. TypeCore' BY <1>1, <1>3, <1>6, <1>7, <1>8 DEF TypeCore
<1>10. Local(t) BY <1>3, <1>6, <1>7, <1>8 DEF Local
<1>11. PlaceOK(t)'
  BY <1>1, <1>2, <1>3, <1>4, <1>5, <1>6, <1>7
  DEF PlaceOK, Unstarted, Stopped, CommonPlaces, MainPlaces, TaskPlaces
<1>12. ArmedOK(t)'
  <2>1. ts'[t].vm = ts[t].vm /\ pause_requested'[t] = pause_requested[t]
    BY <1>2, <1>3, <1>7
  <2>2. GoingOn(t) BY <1>3 DEF GoingOn
  <2>3. QED BY <1>1, <1>3, <1>6, <2>1, <2>2 DEF ArmedOK, ProtoAt
<1>13. WakeOK(t)' /\ InformedOK(t)' BY <1>5, <1>7 DEF WakeOK, InformedOK
<1>14. Recounts(t) BY <1>2, <1>3, <1>7 DEF Recounts, Counted
<1>15. /\ pc[t] \notin Quiet \cup Starting /\ pc[t] # "done"
       /\ pc'[t] \notin Starting /\ pc'[t] # "gone"
  BY <1>3, <1>5, <1>7 DEF Starting, Quiet
<1>16. QED
  BY <1>9, <1>10, <1>11, <1>12, <1>13, <1>14, <1>15, LocalStep DEF ThreadOK

LEMMA ResolveOK ==
  ASSUME IInv, NEW t \in Thread, ResolveStopState(t)
  PROVE  IInv'
<1>1. /\ TypeCore /\ PlaceOK(t) /\ WakeOK(t) /\ ArmedOK(t) /\ InformedOK(t)
      /\ pc \in [Thread -> Places] /\ ts \in [Thread -> ThreadStates]
      /\ ts[t] \in ThreadStates
  BY DEF IInv, ThreadOK, TypeCore
<1>2. PICK n :
        n = [ts[t] EXCEPT !.hit = FALSE, !.exception = FALSE,
               !.stop_on_entry = ts[t].stop_on_entry /\ StopReason(ts[t]) # "entry",
               !.pause = ts[t].pause /\ StopReason(ts[t]) # "pause",
               !.mode = "None", !.is_paused = TRUE]
  OBVIOUS
<1>3. n \in ThreadStates /\ n.vm = ts[t].vm /\ n.registered = ts[t].registered
      /\ n.is_paused /\ n.is_exception_terminated = ts[t].is_exception_terminated
  <2>1. PICK e \in BOOLEAN : e = (ts[t].stop_on_entry /\ StopReason(ts[t]) # "entry")
    OBVIOUS
  <2>2. PICK p \in BOOLEAN : p = (ts[t].pause /\ StopReason(ts[t]) # "pause")
    OBVIOUS
  <2>3. n = [ts[t] EXCEPT !.hit = FALSE, !.exception = FALSE, !.stop_on_entry = e,
               !.pause = p, !.mode = "None", !.is_paused = TRUE]
    BY <1>2, <2>1, <2>2
  <2>4. QED BY ZenonT(40), <1>1, <2>3 DEF ThreadStates
<1>4. /\ pc[t] = "resolve" /\ pc' = [pc EXCEPT ![t] = "emit"]
      /\ ts' = [ts EXCEPT ![t] = n] /\ paused_count' = paused_count + 1
      /\ UNCHANGED <<pause_requested, via, engine, proto, wire, view, requests>>
  BY <1>1, <1>2 DEF ResolveStopState, Goto
<1>5. /\ ts' \in [Thread -> ThreadStates] /\ ts'[t] = n
      /\ \A u \in Thread \ {t} : ts'[u] = ts[u]
      /\ pc' \in [Thread -> Places] /\ pc'[t] = "emit"
      /\ \A u \in Thread \ {t} : pc'[u] = pc[u]
  BY <1>1, <1>3, <1>4 DEF Places, CommonPlaces
<1>6. TypeCore' BY <1>1, <1>4, <1>5 DEF TypeCore
<1>7. Local(t) BY <1>4, <1>5 DEF Local
<1>8. PlaceOK(t)'
  BY <1>1, <1>3, <1>4, <1>5
  DEF PlaceOK, Unstarted, Stopped, CommonPlaces, MainPlaces, TaskPlaces
<1>9. ArmedOK(t)' BY <1>1, <1>3, <1>4, <1>5 DEF ArmedOK, GoingOn, ProtoAt
<1>10. WakeOK(t)' /\ InformedOK(t)' BY <1>5 DEF WakeOK, InformedOK
<1>11. Recounts(t)
  BY <1>1, <1>3, <1>4, <1>5 DEF PlaceOK, Recounts, Counted, Unstarted
<1>12. /\ pc[t] \notin Quiet \cup Starting /\ pc[t] # "done"
       /\ pc'[t] \notin Starting /\ pc'[t] # "gone"
  BY <1>4, <1>5 DEF Starting, Quiet
<1>13. QED
  BY <1>6, <1>7, <1>8, <1>9, <1>10, <1>11, <1>12, LocalStep DEF ThreadOK

LEMMA UnhandledOK ==
  ASSUME IInv, HandleUnhandledException
  PROVE  IInv'
<1>. DEFINE t == Main
            n == [ts[Main] EXCEPT !.is_paused = TRUE, !.is_exception_terminated = TRUE]
<1>0. t \in Thread BY Threads
<1>1. /\ TypeCore /\ PlaceOK(t) /\ WakeOK(t) /\ ArmedOK(t) /\ InformedOK(t)
      /\ pc \in [Thread -> Places] /\ ts \in [Thread -> ThreadStates]
      /\ via \in [Thread -> {"line", "caught", "uncaught", "unhandled"}]
  BY <1>0 DEF IInv, ThreadOK, TypeCore
<1>2. n \in ThreadStates /\ n.vm = ts[t].vm /\ n.registered = ts[t].registered
      /\ n.is_paused
  BY <1>0, <1>1 DEF ThreadStates
<1>3. /\ pc[t] = "unhandled"
      /\ \/ /\ pc' = [pc EXCEPT ![t] = "result"]
            /\ ts' = ts /\ via' = via /\ paused_count' = paused_count
         \/ /\ ~engine.stop_requested
            /\ pc' = [pc EXCEPT ![t] = "unhandled_emit"] /\ ts' = [ts EXCEPT ![t] = n]
            /\ via' = [via EXCEPT ![t] = "unhandled"] /\ paused_count' = paused_count + 1
      /\ UNCHANGED <<pause_requested, engine, proto, wire, view, requests>>
  BY DEF HandleUnhandledException, Goto
<1>. HIDE DEF n, t
<1>4. /\ ts' \in [Thread -> ThreadStates]
      /\ \A u \in Thread \ {t} : ts'[u] = ts[u]
      /\ pc' \in [Thread -> Places]
      /\ \A u \in Thread \ {t} : pc'[u] = pc[u]
      /\ via' \in [Thread -> {"line", "caught", "uncaught", "unhandled"}]
      /\ \A u \in Thread \ {t} : via'[u] = via[u]
      /\ \/ /\ pc'[t] = "result" /\ ts'[t] = ts[t] /\ via'[t] = via[t]
            /\ paused_count' = paused_count
         \/ /\ pc'[t] = "unhandled_emit" /\ ts'[t] = n /\ via'[t] = "unhandled"
            /\ ~engine.stop_requested /\ paused_count' = paused_count + 1
  BY <1>0, <1>1, <1>2, <1>3 DEF Places, MainPlaces
<1>5. TypeCore' BY <1>1, <1>3, <1>4 DEF TypeCore
<1>6. Local(t) BY <1>3, <1>4 DEF Local
<1>7. PlaceOK(t)'
  BY <1>1, <1>2, <1>3, <1>4
  DEF t, PlaceOK, Unstarted, Stopped, CommonPlaces, MainPlaces, TaskPlaces
<1>8. WakeOK(t)' /\ ArmedOK(t)' /\ InformedOK(t)'
  BY <1>4 DEF WakeOK, ArmedOK, GoingOn, InformedOK
<1>9. Recounts(t)
  BY <1>1, <1>2, <1>3, <1>4 DEF PlaceOK, Recounts, Counted, Unstarted, Stopped
<1>10. /\ pc[t] # "done" /\ pc'[t] \notin Starting /\ pc'[t] # "gone"
  BY <1>3, <1>4 DEF Starting
<1>11. QED
  BY <1>0, <1>5, <1>6, <1>7, <1>8, <1>9, <1>10, LocalStep DEF t, ThreadOK

LEMMA StartTaskOK ==
  ASSUME IInv, NEW t \in Task, StartTask(t)
  PROVE  IInv'
<1>. DEFINE n == [ts[t] EXCEPT !.registered = TRUE, !.vm = TRUE]
<1>0. t \in Thread /\ t # Main BY Threads
<1>1. /\ TypeCore /\ PlaceOK(t) /\ WakeOK(t) /\ ArmedOK(t) /\ InformedOK(t)
      /\ pc \in [Thread -> Places] /\ ts \in [Thread -> ThreadStates]
      /\ pause_requested \in [Thread -> BOOLEAN]
  BY <1>0 DEF IInv, ThreadOK, TypeCore
<1>2. n \in ThreadStates /\ n.is_paused = ts[t].is_paused /\ n.vm /\ n.registered
      /\ n.is_exception_terminated = ts[t].is_exception_terminated
  BY <1>0, <1>1 DEF ThreadStates
<1>3. /\ pc[t] = "spawned" /\ SendEvent(view)
      /\ \/ /\ pc' = [pc EXCEPT ![t] = "gone"] /\ ts' = ts
            /\ pause_requested' = pause_requested
         \/ /\ pc' = [pc EXCEPT ![t] = "run"] /\ ts' = [ts EXCEPT ![t] = n]
            /\ pause_requested' = [pause_requested EXCEPT ![t] = TRUE]
      /\ UNCHANGED <<via, paused_count, engine, proto, requests>>
  BY DEF StartTask, Goto
<1>4. /\ view' = view
      /\ wire' \in [pipe : {"open", "broken"}, disconnected : BOOLEAN,
                    callback_invoked : BOOLEAN, send_mutex : BOOLEAN]
      /\ wire'.pipe = wire.pipe
  BY <1>1, <1>3, SendAlone
<1>. HIDE DEF n
<1>5. /\ ts' \in [Thread -> ThreadStates]
      /\ \A u \in Thread \ {t} : ts'[u] = ts[u]
      /\ pc' \in [Thread -> Places]
      /\ \A u \in Thread \ {t} : pc'[u] = pc[u]
      /\ pause_requested' \in [Thread -> BOOLEAN]
      /\ \A u \in Thread \ {t} : pause_requested'[u] = pause_requested[u]
      /\ \/ pc'[t] = "gone" /\ ts'[t] = ts[t]
         \/ pc'[t] = "run" /\ ts'[t] = n /\ pause_requested'[t] = TRUE
  BY <1>0, <1>1, <1>2, <1>3 DEF Places, CommonPlaces, TaskPlaces
<1>6. TypeCore' BY <1>1, <1>3, <1>4, <1>5 DEF TypeCore
<1>7. Local(t) BY <1>3, <1>4, <1>5 DEF Local
<1>8. PlaceOK(t)'
  BY <1>0, <1>1, <1>2, <1>3, <1>5
  DEF PlaceOK, Unstarted, Stopped, CommonPlaces, MainPlaces, TaskPlaces
<1>9. WakeOK(t)' /\ ArmedOK(t)' /\ InformedOK(t)'
  BY <1>5 DEF WakeOK, ArmedOK, GoingOn, InformedOK
<1>10. Recounts(t)
  BY <1>1, <1>2, <1>3, <1>5 DEF PlaceOK, Recounts, Counted, Unstarted
<1>11. /\ pc[t] \notin Quiet \cup Starting /\ pc[t] # "done"
       /\ pc'[t] \notin Starting
       /\ pc'[t] = "gone" => ~ts'[t].is_paused
  BY <1>1, <1>3, <1>5 DEF Starting, Quiet, PlaceOK, Unstarted
<1>12. QED
  BY <1>0, <1>6, <1>7, <1>8, <1>9, <1>10, <1>11, LocalStep DEF ThreadOK

LEMMA RemoveThreadOK ==
  ASSUME IInv, NEW t \in Task, RemoveThread(t)
  PROVE  IInv'
<1>. DEFINE n == [ts[t] EXCEPT !.registered = FALSE, !.vm = FALSE]
<1>0. t \in Thread /\ t # Main BY Threads
<1>1. /\ TypeCore /\ PlaceOK(t) /\ WakeOK(t) /\ ArmedOK(t) /\ InformedOK(t)
      /\ pc \in [Thread -> Places] /\ ts \in [Thread -> ThreadStates]
  BY <1>0 DEF IInv, ThreadOK, TypeCore
<1>2. n \in ThreadStates /\ n.is_paused = ts[t].is_paused /\ ~n.vm /\ ~n.registered
      /\ n.is_exception_terminated = ts[t].is_exception_terminated
  BY <1>0, <1>1 DEF ThreadStates
<1>3. /\ pc[t] = "exit" /\ SendEvent(view)
      /\ pc' = [pc EXCEPT ![t] = "gone"] /\ ts' = [ts EXCEPT ![t] = n]
      /\ paused_count' = paused_count - (IF ts[t].is_paused THEN 1 ELSE 0)
      /\ UNCHANGED <<pause_requested, via, engine, proto, requests>>
  BY DEF RemoveThread, Goto
<1>4. /\ view' = view
      /\ wire' \in [pipe : {"open", "broken"}, disconnected : BOOLEAN,
                    callback_invoked : BOOLEAN, send_mutex : BOOLEAN]
      /\ wire'.pipe = wire.pipe
  BY <1>1, <1>3, SendAlone
<1>. HIDE DEF n
<1>5. /\ ts' \in [Thread -> ThreadStates] /\ ts'[t] = n
      /\ \A u \in Thread \ {t} : ts'[u] = ts[u]
      /\ pc' \in [Thread -> Places] /\ pc'[t] = "gone"
      /\ \A u \in Thread \ {t} : pc'[u] = pc[u]
  BY <1>0, <1>1, <1>2, <1>3 DEF Places, TaskPlaces
<1>6. TypeCore' BY <1>1, <1>3, <1>4, <1>5 DEF TypeCore
<1>7. Local(t) BY <1>3, <1>4, <1>5 DEF Local
<1>8. PlaceOK(t)'
  BY <1>0, <1>1, <1>2, <1>3, <1>5
  DEF PlaceOK, Unstarted, Stopped, CommonPlaces, MainPlaces, TaskPlaces
<1>9. WakeOK(t)' /\ ArmedOK(t)' /\ InformedOK(t)'
  BY <1>5 DEF WakeOK, ArmedOK, GoingOn, InformedOK
<1>10. Recounts(t)
  <2>1. paused_count \in Nat BY PausedSet DEF IInv, PausedCounted
  <2>2. ts[t].registered BY <1>1, <1>3 DEF PlaceOK, Unstarted
  <2>3. QED BY <1>2, <1>3, <1>5, <2>1, <2>2 DEF Recounts, Counted
<1>11. /\ pc[t] \notin Quiet \cup Starting /\ pc[t] # "done"
       /\ pc'[t] \notin Starting
       /\ ts'[t].is_paused => engine.stop_requested
  BY <1>1, <1>2, <1>3, <1>5 DEF Starting, Quiet, PlaceOK, Stopped
<1>12. QED
  BY <1>0, <1>6, <1>7, <1>8, <1>9, <1>10, <1>11, LocalStep DEF ThreadOK

LEMMA ThreadsOK ==
  ASSUME IInv, NEW t \in Thread, ThreadStep(t) \/ ProgramStep(t)
  PROVE  IInv'
<1>1. CASE t = Main /\ \/ WaitForConfiguration \/ AttachVm \/ ArmHooks
                       \/ HandleUnhandledException \/ HandleExecutionResult
  BY <1>1, MainWalkOK, AttachOK, ArmOK, UnhandledOK
<1>2. CASE t \in Task /\ (StartTask(t) \/ RemoveThread(t))
  BY <1>2, StartTaskOK, RemoveThreadOK
<1>3. CASE \/ LineHook(t) \/ WaitForResume(t) \/ CheckResumed(t) \/ Cancelled(t)
           \/ Finish(t) \/ (t \in Task /\ Spawn(t))
  BY <1>3, WalkOK DEF Cancelled
<1>4. CASE CheckBreakpoint(t) \/ ConsumePauseRequest(t) \/ ResolveStopState(t) \/ EmitStopped(t)
  BY <1>4, CheckBreakpointOK, ConsumeOK, ResolveOK, EmitOK
<1>5. CASE \E caught \in BOOLEAN : Throw(t, caught)
  BY <1>5, ThrowOK
<1>6. QED BY <1>1, <1>2, <1>3, <1>4, <1>5 DEF ThreadStep, ProgramStep

-----------------------------------------------------------------------------
(* The steps of the protocol thread.                                       *)

(* Between requests, and in the steps of one that resume nothing.          *)
Calm == {"read", "continued", "respond", "responding", "signal_disconnect", "loop_exit",
         "ended", "stop", "join", "null_vms", "reset_vm"}

(* The program's threads, and what they look at, stay as they are.         *)
Still ==
  /\ UNCHANGED <<ts, pause_requested, pc, via, paused_count>>
  /\ engine'.stop_requested = engine.stop_requested
  /\ wire'.pipe = wire.pipe \/ wire'.pipe = "broken"

LEMMA StillStep ==
  ASSUME IInv, TypeCore', Still, view' = view, proto.pc \in Calm,
         engine'.is_config_done = engine.is_config_done,
         engine'.active = engine.active \/ proto'.pc = "signal",
         proto'.pc \notin {"apply", "notify"},
         proto'.pc = "continued" => proto'.op \in {"continue"} \cup StepModes,
         engine.stop_requested =>
            \/ proto'.pc \in {"stop_config", "force_unpause", "join"}
            \/ /\ pc[Main] = "done"
               /\ proto'.pc \in {"null_vms", "reset_vm"} \/ \A t \in Task : pc[t] \in {"none", "gone"}
  PROVE  IInv'
<1>1. ASSUME NEW t \in Thread PROVE ThreadOK(t)'
  <2>1. PlaceOK(t) /\ WakeOK(t) /\ ArmedOK(t) /\ InformedOK(t)
    BY DEF IInv, ThreadOK
  <2>2. PlaceOK(t)' BY <2>1 DEF PlaceOK, Still
  <2>3. WakeOK(t)' BY <2>1 DEF WakeOK, Still, ProtoAt, Calm
  <2>4. ArmedOK(t)' BY <2>1 DEF ArmedOK, GoingOn, Still, ProtoAt, Calm
  <2>5. InformedOK(t)' BY <2>1 DEF InformedOK, Resumes, Still, Calm, IInv, TypeCore
  <2>6. QED BY <2>2, <2>3, <2>4, <2>5 DEF ThreadOK
<1>2. StartOK' BY DEF IInv, StartOK, Still
<1>3. StopOK' BY DEF StopOK, Still
<1>4. TodoOK' BY DEF TodoOK
<1>5. PausedCounted' BY DEF IInv, PausedCounted, Registered, Still
<1>6. QED BY <1>1, <1>2, <1>3, <1>4, <1>5 DEF IInv

LEMMA ReadOK ==
  ASSUME IInv,
         \/ \E some \in BOOLEAN : SetBreakpoints(some)
         \/ \E filters \in SUBSET Filters : SetExceptionBreakpoints(filters)
         \/ \E targets \in {Thread} \cup {{t} : t \in Thread} :
              ThreadAction("continue", targets) \/ ThreadAction("pause", targets)
         \/ \E t \in Thread, mode \in StepModes : ThreadAction(mode, {t})
         \/ \E op \in {"terminate", "restart", "disconnect"} : EndSession(op)
  PROVE  IInv'
<1>1. TypeCore /\ proto.pc = "read" /\ Reads /\ Still /\ view' = view /\ wire' = wire
  BY DEF IInv, SetBreakpoints, SetExceptionBreakpoints, ThreadAction, EndSession, Reads,
     CanRead, ProtoAt, Still, TypeCore
<1>2. requests' \in 0 .. MaxRequests
  BY <1>1, DebugAssumption DEF Reads, TypeCore
<1>3. engine.stop_requested =>
        /\ pc[Main] = "done"
        /\ \A t \in Task : pc[t] \in {"none", "gone"}
  BY <1>1 DEF IInv, StopOK
<1>4. ASSUME NEW some \in BOOLEAN, SetBreakpoints(some)
      PROVE  TypeCore' /\ proto'.pc = "signal" /\ engine'.is_config_done = engine.is_config_done
  BY ZenonT(40), <1>1, <1>2, <1>4 DEF TypeCore, SetBreakpoints, At, Still, ProtoPlaces
<1>5. ASSUME NEW filters \in SUBSET Filters, SetExceptionBreakpoints(filters)
      PROVE  /\ TypeCore' /\ proto'.pc = "respond"
             /\ engine'.is_config_done = engine.is_config_done /\ engine'.active = engine.active
  BY <1>1, <1>2, <1>5 DEF TypeCore, SetExceptionBreakpoints, At, Still, ProtoPlaces
<1>6. ASSUME NEW op \in {"continue", "pause"} \cup StepModes, NEW targets \in SUBSET Thread,
             ThreadAction(op, targets)
      PROVE  /\ TypeCore' /\ engine' = engine
             /\ proto'.pc \in {"continued", "target", "respond"}
             /\ proto'.pc = "continued" => proto'.op \in {"continue"} \cup StepModes
  <2>1. /\ proto' \in [pc : ProtoPlaces,
                       op : {"none", "continue", "pause", "terminate", "restart",
                             "disconnect"} \cup StepModes,
                       todo : SUBSET Thread, who : Thread, after : {"respond", "read", "ended"}]
        /\ proto'.op = op /\ proto'.pc \in {"continued", "target", "respond"}
        /\ proto'.pc = "continued" => op # "pause"
    BY ZenonT(40), <1>1, <1>6 DEF TypeCore, ThreadAction, ProtoPlaces
  <2>2. UNCHANGED engine BY <1>6 DEF ThreadAction
  <2>3. QED BY <1>1, <1>2, <2>1, <2>2 DEF TypeCore, Still
<1>7. ASSUME NEW op \in {"terminate", "restart", "disconnect"}, EndSession(op)
      PROVE  TypeCore' /\ engine' = engine /\ proto'.pc = "stop"
  <2>1. /\ proto' \in [pc : ProtoPlaces,
                       op : {"none", "continue", "pause", "terminate", "restart",
                             "disconnect"} \cup StepModes,
                       todo : SUBSET Thread, who : Thread, after : {"respond", "read", "ended"}]
        /\ proto'.pc = "stop"
    BY <1>1, <1>7 DEF TypeCore, EndSession, ProtoPlaces
  <2>2. UNCHANGED engine BY <1>7 DEF EndSession
  <2>3. QED BY <1>1, <1>2, <2>1, <2>2 DEF TypeCore, Still
<1>8. /\ TypeCore' /\ engine'.is_config_done = engine.is_config_done
      /\ engine'.active = engine.active \/ proto'.pc = "signal"
      /\ proto'.pc \in {"signal", "respond", "continued", "target", "stop"}
      /\ proto'.pc = "continued" => proto'.op \in {"continue"} \cup StepModes
  <2>1. ASSUME NEW targets \in {Thread} \cup {{t} : t \in Thread} PROVE targets \in SUBSET Thread
    OBVIOUS
  <2>2. CASE \E some \in BOOLEAN : SetBreakpoints(some) BY <1>4, <2>2
  <2>3. CASE \E filters \in SUBSET Filters : SetExceptionBreakpoints(filters) BY <1>5, <2>3
  <2>4. CASE \E targets \in {Thread} \cup {{t} : t \in Thread} :
               ThreadAction("continue", targets) \/ ThreadAction("pause", targets)
    <3>1. PICK targets \in {Thread} \cup {{t} : t \in Thread} :
             ThreadAction("continue", targets) \/ ThreadAction("pause", targets)
      BY <2>4
    <3>2. targets \in SUBSET Thread BY <2>1
    <3>3. CASE ThreadAction("continue", targets) BY <1>6, <3>2, <3>3
    <3>4. CASE ThreadAction("pause", targets) BY <1>6, <3>2, <3>4
    <3>5. QED BY <3>1, <3>3, <3>4
  <2>5. CASE \E t \in Thread, mode \in StepModes : ThreadAction(mode, {t})
    <3>1. PICK t \in Thread, mode \in StepModes : ThreadAction(mode, {t}) BY <2>5
    <3>2. {t} \in SUBSET Thread BY <2>1
    <3>3. QED BY <1>6, <3>1, <3>2
  <2>6. CASE \E op \in {"terminate", "restart", "disconnect"} : EndSession(op) BY <1>7, <2>6
  <2>7. QED BY <2>2, <2>3, <2>4, <2>5, <2>6
<1>9. QED BY <1>1, <1>3, <1>8, StillStep DEF Calm

(* Answering, leaving the loop, and joining the execution thread.          *)
LEMMA AnswerOK ==
  ASSUME IInv,
         \/ JoinExecutionThread \/ WriteResponse \/ FinishResponse
         \/ SignalDisconnect \/ LoopExit \/ LeaveLoop
  PROVE  IInv'
<1>1. TypeCore BY DEF IInv
<1>2. /\ UNCHANGED <<ts, pause_requested, pc, via, paused_count, engine, view, requests>>
      /\ wire'.pipe = wire.pipe
      /\ wire' \in [pipe : {"open", "broken"}, disconnected : BOOLEAN,
                    callback_invoked : BOOLEAN, send_mutex : BOOLEAN]
  BY ZenonT(40), <1>1 DEF TypeCore, JoinExecutionThread, WriteResponse, FinishResponse, SignalDisconnect,
     LoopExit, DisconnectCallback, LeaveLoop
<1>3. /\ proto' \in [pc : ProtoPlaces,
                     op : {"none", "continue", "pause", "terminate", "restart",
                           "disconnect"} \cup StepModes,
                     todo : SUBSET Thread, who : Thread, after : {"respond", "read", "ended"}]
      /\ \/ proto.pc = "join" /\ pc[Main] = "done" /\ proto'.pc = "null_vms"
         \/ /\ proto.pc \in {"respond", "responding", "signal_disconnect", "loop_exit", "read"}
            /\ proto'.pc \in {"responding", "signal_disconnect", "read", "stop", "ended",
                              "loop_exit"}
  <2>1. CASE JoinExecutionThread
    BY <1>1, <2>1 DEF TypeCore, JoinExecutionThread, ProtoAt, At, ProtoPlaces
  <2>2. CASE WriteResponse
    BY <1>1, <2>2 DEF TypeCore, WriteResponse, ProtoAt, At, ProtoPlaces
  <2>3. CASE LeaveLoop
    BY <1>1, <2>3 DEF TypeCore, LeaveLoop, ProtoAt, At, ProtoPlaces
  <2>4. CASE FinishResponse
    BY <1>1, <2>4, Threads DEF TypeCore, FinishResponse, ProtoAt, Idle, ProtoPlaces
  <2>5. CASE SignalDisconnect
    BY ZenonT(40), <1>1, <2>5, Threads
    DEF TypeCore, SignalDisconnect, DisconnectCallback, ProtoAt, Idle, ProtoPlaces
  <2>6. CASE LoopExit
    BY ZenonT(40), <1>1, <2>6, Threads
    DEF TypeCore, LoopExit, DisconnectCallback, ProtoAt, Idle, ProtoPlaces
  <2>7. QED BY <2>1, <2>2, <2>3, <2>4, <2>5, <2>6
<1>4. TypeCore' BY <1>1, <1>2, <1>3 DEF TypeCore
<1>5. Still BY <1>2 DEF Still
<1>6. proto.pc \in Calm BY <1>3 DEF Calm
<1>7. engine.stop_requested =>
        \/ pc[Main] = "done" /\ proto'.pc = "null_vms"
        \/ pc[Main] = "done" /\ \A t \in Task : pc[t] \in {"none", "gone"}
  BY <1>3 DEF IInv, StopOK
<1>8. QED BY <1>2, <1>3, <1>4, <1>5, <1>6, <1>7, StillStep

LEMMA BreakPipeOK ==
  ASSUME IInv, BreakPipe
  PROVE  IInv'
<1>1. TypeCore BY DEF IInv
<1>2. /\ UNCHANGED <<ts, pause_requested, pc, via, paused_count, engine, proto, view, requests>>
      /\ wire'.pipe = "broken"
      /\ wire' \in [pipe : {"open", "broken"}, disconnected : BOOLEAN,
                    callback_invoked : BOOLEAN, send_mutex : BOOLEAN]
  BY <1>1 DEF TypeCore, BreakPipe
<1>3. TypeCore' BY <1>1, <1>2 DEF TypeCore
<1>4. ASSUME NEW t \in Thread PROVE ThreadOK(t)'
  <2>1. PlaceOK(t) /\ WakeOK(t) /\ ArmedOK(t) BY DEF IInv, ThreadOK
  <2>2. PlaceOK(t)' BY <1>2, <2>1 DEF PlaceOK
  <2>3. WakeOK(t)' BY <1>2, <2>1 DEF WakeOK, ProtoAt
  <2>4. ArmedOK(t)' BY <1>2, <2>1 DEF ArmedOK, GoingOn, ProtoAt
  <2>5. InformedOK(t)' BY <1>2 DEF InformedOK
  <2>6. QED BY <2>2, <2>3, <2>4, <2>5 DEF ThreadOK
<1>5. StartOK' /\ StopOK' /\ TodoOK' BY <1>2 DEF IInv, StartOK, StopOK, TodoOK
<1>6. PausedCounted' BY <1>2 DEF IInv, PausedCounted, Registered
<1>7. QED BY <1>3, <1>4, <1>5, <1>6 DEF IInv

(* The continued event, and the threads it is about.                       *)
LEMMA ContinuedOK ==
  ASSUME IInv, SendContinued \/ Targets
  PROVE  IInv'
<1>1. TypeCore BY DEF IInv
<1>2. /\ UNCHANGED <<ts, pause_requested, pc, via, paused_count, engine, requests>>
      /\ wire'.pipe = wire.pipe
      /\ wire' \in [pipe : {"open", "broken"}, disconnected : BOOLEAN,
                    callback_invoked : BOOLEAN, send_mutex : BOOLEAN]
  BY ZenonT(40), <1>1 DEF TypeCore, SendContinued, Targets, SendEvent
<1>3. /\ proto' \in [pc : ProtoPlaces,
                     op : {"none", "continue", "pause", "terminate", "restart",
                           "disconnect"} \cup StepModes,
                     todo : SUBSET Thread, who : Thread, after : {"respond", "read", "ended"}]
      /\ proto'.op = proto.op
      /\ \/ /\ proto.pc = "continued" /\ proto'.pc = "target" /\ proto'.todo = proto.todo
         \/ /\ proto.pc = "target" /\ view' = view
            /\ proto'.todo = proto.todo \cap Registered
            /\ \/ proto'.pc = "apply"
               \/ proto'.pc = "respond" /\ proto.todo \cap Registered = {}
  <2>1. CASE SendContinued
    BY <1>1, <2>1 DEF TypeCore, SendContinued, ProtoAt, At, ProtoPlaces
  <2>2. CASE Targets
    BY <1>1, <2>2 DEF TypeCore, Targets, ProtoAt, ProtoPlaces
  <2>3. QED BY <2>1, <2>2
<1>4. /\ view' \in [Thread -> {"running", "stopped"}]
      /\ \A t \in Thread : view'[t] = view[t] \/ (proto.pc = "continued" /\ t \in proto.todo)
  <2>1. CASE SendContinued BY <1>1, <2>1 DEF TypeCore, SendContinued, SendEvent, ProtoAt
  <2>2. CASE Targets BY <1>1, <2>2 DEF TypeCore, Targets
  <2>3. QED BY <2>1, <2>2
<1>5. TypeCore' BY <1>1, <1>2, <1>3, <1>4 DEF TypeCore
<1>6. proto.pc = "continued" => proto.op \in {"continue"} \cup StepModes
  BY DEF IInv, TodoOK
<1>7. ASSUME NEW t \in Thread PROVE ThreadOK(t)'
  <2>1. PlaceOK(t) /\ WakeOK(t) /\ ArmedOK(t) /\ InformedOK(t) BY DEF IInv, ThreadOK
  <2>2. PlaceOK(t)' BY <1>2, <2>1 DEF PlaceOK
  <2>3. WakeOK(t)' BY <1>2, <1>3, <2>1 DEF WakeOK, ProtoAt
  <2>4. ArmedOK(t)' BY <1>2, <1>3, <2>1 DEF ArmedOK, GoingOn, ProtoAt
  <2>5. InformedOK(t)'
    <3>1. pc[t] \in {"wait", "asleep"} => t \in Registered
      BY <2>1 DEF PlaceOK, Unstarted, Registered
    <3>2. QED BY <1>2, <1>3, <1>4, <1>6, <2>1, <3>1 DEF InformedOK, Resumes
  <2>6. QED BY <2>2, <2>3, <2>4, <2>5 DEF ThreadOK
<1>8. StartOK' /\ StopOK' BY <1>2, <1>3 DEF IInv, StartOK, StopOK
<1>9. TodoOK' BY <1>2, <1>3 DEF TodoOK, Registered
<1>10. PausedCounted' BY <1>2 DEF IInv, PausedCounted, Registered
<1>11. QED BY <1>5, <1>7, <1>8, <1>9, <1>10 DEF IInv

(* A request acts on one of its threads.                                   *)
Visits(t) ==
  /\ proto.pc \in {"apply", "notify"} /\ proto'.op = proto.op
  /\ UNCHANGED <<via, engine, wire, view, requests>>
  /\ \A u \in Thread \ {t} :
       /\ ts'[u] = ts[u] /\ pc'[u] = pc[u] /\ pause_requested'[u] = pause_requested[u]
  /\ \/ /\ proto.pc = "apply" /\ proto'.pc = "notify" /\ proto'.who = t
        /\ proto'.todo = proto.todo
     \/ /\ proto.pc = "notify" => proto.who = t
        /\ proto'.todo = proto.todo \ {t}
        /\ proto'.pc = "apply" \/ (proto'.pc = "respond" /\ proto.todo = {t})

LEMMA VisitStep ==
  ASSUME IInv, NEW t \in Thread, Visits(t), TypeCore', ThreadOK(t)', Recounts(t),
         t = Main /\ pc[Main] \notin Starting \cup {"done"} => pc'[Main] \notin Starting,
         t = Main /\ pc[Main] \in Starting \cup {"done"} => pc'[Main] = pc[Main],
         pc[t] \in {"none", "gone"} => pc'[t] = pc[t],
         ts'[t].is_paused => ts[t].is_paused,
         ts'[t].registered = ts[t].registered
  PROVE  IInv'
<1>1. TypeCore BY DEF IInv
<1>2. /\ proto.pc \in {"apply", "notify"} /\ proto'.op = proto.op
      /\ UNCHANGED <<via, engine, wire, view, requests>>
      /\ \A u \in Thread \ {t} :
           /\ ts'[u] = ts[u] /\ pc'[u] = pc[u] /\ pause_requested'[u] = pause_requested[u]
      /\ \/ /\ proto.pc = "apply" /\ proto'.pc = "notify" /\ proto'.who = t
            /\ proto'.todo = proto.todo
         \/ /\ proto.pc = "notify" => proto.who = t
            /\ proto'.todo = proto.todo \ {t}
            /\ proto'.pc = "apply" \/ (proto'.pc = "respond" /\ proto.todo = {t})
  BY DEF Visits
<1>3. ASSUME NEW u \in Thread \ {t} PROVE ThreadOK(u)'
  <2>1. PlaceOK(u) /\ WakeOK(u) /\ ArmedOK(u) /\ InformedOK(u) BY DEF IInv, ThreadOK
  <2>2. ts'[u] = ts[u] /\ pc'[u] = pc[u] /\ pause_requested'[u] = pause_requested[u]
    BY <1>2
  <2>3. PlaceOK(u)' BY <1>2, <2>1, <2>2 DEF PlaceOK
  <2>4. WakeOK(u)' BY <1>2, <2>1, <2>2 DEF WakeOK, ProtoAt
  <2>5. ArmedOK(u)' BY <1>2, <2>1, <2>2 DEF ArmedOK, GoingOn, ProtoAt
  <2>6. InformedOK(u)' BY <1>2, <2>1, <2>2 DEF InformedOK, Resumes
  <2>7. QED BY <2>3, <2>4, <2>5, <2>6 DEF ThreadOK
<1>4. \A u \in Thread : ThreadOK(u)' BY <1>3
<1>5. engine.stop_requested =>
        /\ pc[Main] = "done" /\ \A u \in Task : pc[u] \in {"none", "gone"}
  BY <1>2 DEF IInv, StopOK
<1>6. StopOK' BY <1>2, <1>5, Threads DEF StopOK
<1>7. StartOK'
  <2> SUFFICES ASSUME pc'[Main] \in Starting, NEW u \in Task PROVE pc'[u] = "none"
    BY DEF StartOK
  <2>1. pc[Main] \in Starting BY <1>2, Threads DEF Starting
  <2>2. pc[u] = "none" BY <2>1 DEF IInv, StartOK
  <2>3. QED BY <1>2, <2>2, Threads
<1>8. TodoOK'
  <2>1. \A u \in proto.todo : u \in Thread BY <1>1 DEF TypeCore
  <2>2. \A u \in proto.todo : ts[u].registered \/ ~ts[u].is_paused
    BY <1>2 DEF IInv, TodoOK
  <2>3. QED BY <1>2, <2>1, <2>2 DEF TodoOK
<1>9. PausedCounted' BY <1>2, Recount DEF IInv
<1>10. QED BY <1>4, <1>6, <1>7, <1>8, <1>9 DEF IInv

LEMMA NotifyOK ==
  ASSUME IInv, NotifyResumed
  PROVE  IInv'
<1>1. TypeCore /\ proto.who \in Thread BY DEF IInv, TypeCore
<1>2. PICK t \in Thread : t = proto.who BY <1>1
<1>3. PlaceOK(t) /\ WakeOK(t) /\ ArmedOK(t) /\ InformedOK(t) BY DEF IInv, ThreadOK
<1>4. /\ proto.pc = "notify"
      /\ UNCHANGED <<ts, pause_requested, via, paused_count, engine, wire, view, requests>>
      /\ pc' = Woken({t})
      /\ proto' = [proto EXCEPT !.todo = proto.todo \ {t},
                                !.pc = IF proto.todo = {t} THEN "respond" ELSE "apply"]
  BY <1>2 DEF NotifyResumed, ProtoAt, Visited
<1>5. /\ pc' \in [Thread -> Places]
      /\ \A u \in Thread \ {t} : pc'[u] = pc[u]
      /\ pc'[t] = (IF pc[t] = "asleep" THEN "wait" ELSE pc[t])
  BY <1>1, <1>4 DEF Woken, TypeCore, Places, CommonPlaces
<1>6. /\ proto' \in [pc : ProtoPlaces,
                     op : {"none", "continue", "pause", "terminate", "restart",
                           "disconnect"} \cup StepModes,
                     todo : SUBSET Thread, who : Thread, after : {"respond", "read", "ended"}]
      /\ proto'.op = proto.op /\ proto'.todo = proto.todo \ {t}
      /\ proto'.pc = "apply" \/ (proto'.pc = "respond" /\ proto.todo = {t})
  BY <1>1, <1>4 DEF TypeCore, ProtoPlaces
<1>7. TypeCore'
  <2>1. UNCHANGED <<ts, pause_requested, via, engine, wire, view, requests>> BY <1>4
  <2>2. QED BY <1>1, <1>5, <1>6, <2>1 DEF TypeCore
<1>8. Visits(t) BY <1>2, <1>4, <1>5, <1>6 DEF Visits
<1>9. PlaceOK(t)'
  BY <1>3, <1>4, <1>5
  DEF PlaceOK, Unstarted, Stopped, CommonPlaces, MainPlaces, TaskPlaces
<1>10. WakeOK(t)' BY <1>3, <1>4, <1>5 DEF WakeOK, ProtoAt
<1>11. ArmedOK(t)' BY <1>3, <1>4, <1>5 DEF ArmedOK, GoingOn, ProtoAt
<1>12. InformedOK(t)'
  <2>1. CASE Resumes(t)'
    BY <2>1 DEF InformedOK
  <2>2. CASE ~Resumes(t)'
    BY <1>2, <1>3, <1>4, <1>5, <1>6, <2>2 DEF InformedOK, Resumes
  <2>3. QED BY <2>1, <2>2
<1>13. Recounts(t) BY <1>4 DEF Recounts, Counted
<1>14. QED
  BY <1>4, <1>5, <1>7, <1>8, <1>9, <1>10, <1>11, <1>12, <1>13, VisitStep
  DEF ThreadOK, Starting

(* What a request arms: the flags of the attached VMs among the threads.   *)
LEMMA ArmedFlags ==
  ASSUME TypeCore, NEW who \in SUBSET Thread
  PROVE  /\ Armed(pause_requested, who) \in [Thread -> BOOLEAN]
         /\ \A t \in Thread :
              /\ t \in who /\ ts[t].vm => Armed(pause_requested, who)[t]
              /\ pause_requested[t] => Armed(pause_requested, who)[t]
              /\ t \notin who => Armed(pause_requested, who)[t] = pause_requested[t]
BY DEF TypeCore, ThreadStates, Armed

LEMMA UnpauseOK ==
  ASSUME IInv, NEW t \in Thread, UnpauseThread(t)
  PROVE  IInv'
<1>1. /\ TypeCore /\ PlaceOK(t) /\ WakeOK(t) /\ ArmedOK(t) /\ InformedOK(t)
      /\ ts \in [Thread -> ThreadStates] /\ pc \in [Thread -> Places]
      /\ pause_requested \in [Thread -> BOOLEAN]
  BY DEF IInv, ThreadOK, TypeCore
<1>2. PICK n :
        n = [ts[t] EXCEPT !.is_paused = FALSE,
               !.mode = IF ts[t].is_exception_terminated THEN ts[t].mode ELSE "None"]
  OBVIOUS
<1>3. n \in ThreadStates /\ n.vm = ts[t].vm /\ n.registered = ts[t].registered
      /\ ~n.is_paused /\ n.is_exception_terminated = ts[t].is_exception_terminated
  BY ZenonT(40), <1>1, <1>2 DEF ThreadStates
<1>4. /\ proto.pc = "apply" /\ t \in proto.todo
      /\ ts' = [ts EXCEPT ![t] = n]
      /\ paused_count' = paused_count - (IF ts[t].is_paused THEN 1 ELSE 0)
      /\ UNCHANGED <<via, engine, wire, view, requests>>
  BY <1>1, <1>2 DEF UnpauseThread, ProtoAt
<1>5. \/ /\ ts[t].is_exception_terminated /\ pc' = Woken({t})
         /\ pause_requested' = pause_requested
         /\ proto' = [proto EXCEPT !.todo = proto.todo \ {t},
                                   !.pc = IF proto.todo = {t} THEN "respond" ELSE "apply"]
      \/ /\ ~ts[t].is_exception_terminated /\ pc' = pc
         /\ pause_requested' = Armed(pause_requested, {t})
         /\ proto' = [proto EXCEPT !.pc = "notify", !.who = t]
  BY DEF UnpauseThread, Visited
<1>6. /\ ts' \in [Thread -> ThreadStates] /\ ts'[t] = n
      /\ \A u \in Thread \ {t} : ts'[u] = ts[u]
  BY <1>1, <1>3, <1>4
<1>7. /\ pc' \in [Thread -> Places]
      /\ \A u \in Thread \ {t} : pc'[u] = pc[u]
      /\ pc'[t] = pc[t] \/ (pc[t] = "asleep" /\ pc'[t] = "wait")
      /\ ~ts[t].is_exception_terminated => pc'[t] = pc[t]
  BY <1>1, <1>5 DEF Woken, Places, CommonPlaces
<1>8. /\ pause_requested' \in [Thread -> BOOLEAN]
      /\ \A u \in Thread \ {t} : pause_requested'[u] = pause_requested[u]
      /\ ~ts[t].is_exception_terminated /\ ts[t].vm => pause_requested'[t]
  <2>1. {t} \in SUBSET Thread OBVIOUS
  <2>2. QED BY <1>1, <1>5, <2>1, ArmedFlags
<1>9. /\ proto' \in [pc : ProtoPlaces,
                     op : {"none", "continue", "pause", "terminate", "restart",
                           "disconnect"} \cup StepModes,
                     todo : SUBSET Thread, who : Thread, after : {"respond", "read", "ended"}]
      /\ proto'.op = proto.op
      /\ \/ /\ ts[t].is_exception_terminated /\ proto'.todo = proto.todo \ {t}
            /\ pc'[t] # "asleep"
            /\ proto'.pc = "apply" \/ (proto'.pc = "respond" /\ proto.todo = {t})
         \/ proto'.todo = proto.todo /\ proto'.pc = "notify" /\ proto'.who = t
  <2>1. proto \in [pc : ProtoPlaces,
                   op : {"none", "continue", "pause", "terminate", "restart",
                         "disconnect"} \cup StepModes,
                   todo : SUBSET Thread, who : Thread, after : {"respond", "read", "ended"}]
    BY <1>1 DEF TypeCore
  <2>2. pc' = Woken({t}) => pc'[t] # "asleep" BY DEF Woken
  <2>3. QED BY ZenonT(40), <1>5, <2>1, <2>2 DEF ProtoPlaces
<1>10. TypeCore' BY <1>1, <1>4, <1>6, <1>7, <1>8, <1>9 DEF TypeCore
<1>11. Visits(t) BY <1>4, <1>6, <1>7, <1>8, <1>9 DEF Visits
<1>12. PlaceOK(t)'
  BY <1>1, <1>3, <1>4, <1>6, <1>7
  DEF PlaceOK, Unstarted, Stopped, CommonPlaces, MainPlaces, TaskPlaces
<1>13. WakeOK(t)' BY <1>1, <1>4, <1>7, <1>9 DEF WakeOK, ProtoAt
<1>14. ArmedOK(t)'
  <2>1. CASE ts[t].is_exception_terminated
    BY <1>1, <1>4, <1>7, <2>1 DEF PlaceOK, ArmedOK, GoingOn, Stopped
  <2>2. CASE ~ts[t].is_exception_terminated BY <1>3, <1>6, <1>8, <2>2 DEF ArmedOK
  <2>3. QED BY <2>1, <2>2
<1>15. InformedOK(t)' BY <1>3, <1>6 DEF InformedOK
<1>16. Recounts(t)
  <2>1. paused_count \in Nat BY PausedSet DEF IInv, PausedCounted
  <2>2. ts[t].registered \/ ~ts[t].is_paused BY <1>4 DEF IInv, TodoOK
  <2>3. QED BY <1>3, <1>4, <1>6, <2>1, <2>2 DEF Recounts, Counted
<1>17. QED
  BY <1>3, <1>6, <1>7, <1>10, <1>11, <1>12, <1>13, <1>14, <1>15, <1>16, VisitStep
  DEF ThreadOK, Starting

LEMMA StepThreadOK ==
  ASSUME IInv, NEW t \in Thread, StepThread(t)
  PROVE  IInv'
<1>1. /\ TypeCore /\ PlaceOK(t) /\ WakeOK(t) /\ ArmedOK(t) /\ InformedOK(t)
      /\ ts \in [Thread -> ThreadStates] /\ pc \in [Thread -> Places]
      /\ pause_requested \in [Thread -> BOOLEAN]
      /\ proto \in [pc : ProtoPlaces,
                    op : {"none", "continue", "pause", "terminate", "restart",
                          "disconnect"} \cup StepModes,
                    todo : SUBSET Thread, who : Thread, after : {"respond", "read", "ended"}]
  BY DEF IInv, ThreadOK, TypeCore
<1>2. PICK n : n = [ts[t] EXCEPT !.is_paused = FALSE, !.mode = proto.op] OBVIOUS
<1>3. /\ proto.pc = "apply" /\ t \in proto.todo /\ proto.op \in StepModes
      /\ UNCHANGED <<pc, via, engine, wire, view, requests>>
      /\ \/ /\ ~ts[t].is_paused /\ ts' = ts /\ pause_requested' = pause_requested
            /\ paused_count' = paused_count
            /\ proto' = [proto EXCEPT !.todo = proto.todo \ {t},
                                      !.pc = IF proto.todo = {t} THEN "respond" ELSE "apply"]
         \/ /\ ts[t].is_paused /\ ts' = [ts EXCEPT ![t] = n]
            /\ paused_count' = paused_count - 1
            /\ pause_requested' = Armed(pause_requested, {t})
            /\ proto' = [proto EXCEPT !.pc = "notify", !.who = t]
  BY <1>1, <1>2 DEF StepThread, ProtoAt, Visited
<1>4. n \in ThreadStates /\ n.vm = ts[t].vm /\ n.registered = ts[t].registered
      /\ ~n.is_paused /\ n.is_exception_terminated = ts[t].is_exception_terminated
  <2>1. PICK m \in {"Into", "Over"} : m = proto.op BY <1>3, DebugAssumption
  <2>2. ts[t] \in ThreadStates BY <1>1
  <2>3. n = [ts[t] EXCEPT !.is_paused = FALSE, !.mode = m] BY <1>2, <2>1
  <2>4. QED BY <2>1, <2>2, <2>3 DEF ThreadStates
<1>5. /\ ts' \in [Thread -> ThreadStates] /\ ts'[t] \in {ts[t], n} /\ ~ts'[t].is_paused
      /\ \A u \in Thread \ {t} : ts'[u] = ts[u]
  BY <1>1, <1>3, <1>4
<1>6. /\ pause_requested' \in [Thread -> BOOLEAN]
      /\ \A u \in Thread \ {t} : pause_requested'[u] = pause_requested[u]
      /\ pause_requested'[t] = pause_requested[t] \/ (ts[t].vm => pause_requested'[t])
      /\ ts[t].is_paused /\ ts[t].vm => pause_requested'[t]
  <2>1. {t} \in SUBSET Thread OBVIOUS
  <2>2. QED BY <1>1, <1>3, <2>1, ArmedFlags
<1>7. /\ proto' \in [pc : ProtoPlaces,
                     op : {"none", "continue", "pause", "terminate", "restart",
                           "disconnect"} \cup StepModes,
                     todo : SUBSET Thread, who : Thread, after : {"respond", "read", "ended"}]
      /\ proto'.op = proto.op
      /\ \/ /\ ~ts[t].is_paused /\ proto'.todo = proto.todo \ {t}
            /\ proto'.pc = "apply" \/ (proto'.pc = "respond" /\ proto.todo = {t})
         \/ proto'.todo = proto.todo /\ proto'.pc = "notify" /\ proto'.who = t
  BY <1>1, <1>3 DEF ProtoPlaces
<1>8. TypeCore' BY <1>1, <1>3, <1>5, <1>6, <1>7 DEF TypeCore
<1>9. Visits(t) BY <1>3, <1>5, <1>6, <1>7 DEF Visits
<1>10. PlaceOK(t)' BY <1>1, <1>3, <1>4, <1>5 DEF PlaceOK
<1>11. WakeOK(t)' BY <1>1, <1>3, <1>5, <1>7 DEF WakeOK, ProtoAt
<1>12. ArmedOK(t)'
  <2>1. CASE ts[t].is_paused BY <1>4, <1>5, <1>6, <2>1 DEF ArmedOK
  <2>2. CASE ~ts[t].is_paused
    BY <1>1, <1>3, <2>2 DEF ArmedOK, GoingOn, ProtoAt
  <2>3. QED BY <2>1, <2>2
<1>13. InformedOK(t)' BY <1>5 DEF InformedOK
<1>14. Recounts(t)
  <2>1. paused_count \in Nat BY PausedSet DEF IInv, PausedCounted
  <2>2. ts[t].registered \/ ~ts[t].is_paused BY <1>3 DEF IInv, TodoOK
  <2>3. QED BY <1>3, <1>4, <1>5, <2>1, <2>2 DEF Recounts, Counted
<1>15. QED
  BY <1>3, <1>4, <1>5, <1>8, <1>9, <1>10, <1>11, <1>12, <1>13, <1>14, VisitStep
  DEF ThreadOK

LEMMA PauseOK ==
  ASSUME IInv, NEW t \in Thread, PauseThread(t)
  PROVE  IInv'
<1>1. /\ TypeCore /\ PlaceOK(t) /\ WakeOK(t) /\ ArmedOK(t) /\ InformedOK(t)
      /\ ts \in [Thread -> ThreadStates] /\ pc \in [Thread -> Places]
      /\ proto \in [pc : ProtoPlaces,
                    op : {"none", "continue", "pause", "terminate", "restart",
                          "disconnect"} \cup StepModes,
                    todo : SUBSET Thread, who : Thread, after : {"respond", "read", "ended"}]
  BY DEF IInv, ThreadOK, TypeCore
<1>2. PICK n :
        n = [ts[t] EXCEPT !.pause = ts[t].pause \/ ~ts[t].is_paused,
                          !.mode = IF ts[t].is_paused THEN ts[t].mode ELSE "Into"]
  OBVIOUS
<1>3. n \in ThreadStates /\ n.vm = ts[t].vm /\ n.registered = ts[t].registered
      /\ n.is_paused = ts[t].is_paused
      /\ n.is_exception_terminated = ts[t].is_exception_terminated
  BY ZenonT(40), <1>1, <1>2 DEF ThreadStates
<1>4. /\ proto.pc = "apply" /\ t \in proto.todo /\ proto.op = "pause"
      /\ ts' = [ts EXCEPT ![t] = n] /\ pause_requested' = Armed(pause_requested, {t})
      /\ UNCHANGED <<pc, via, paused_count, engine, wire, view, requests>>
      /\ proto' = [proto EXCEPT !.todo = proto.todo \ {t},
                                !.pc = IF proto.todo = {t} THEN "respond" ELSE "apply"]
  BY <1>1, <1>2 DEF PauseThread, ProtoAt, Visited
<1>5. /\ ts' \in [Thread -> ThreadStates] /\ ts'[t] = n
      /\ \A u \in Thread \ {t} : ts'[u] = ts[u]
  BY <1>1, <1>3, <1>4
<1>6. /\ pause_requested' \in [Thread -> BOOLEAN]
      /\ \A u \in Thread \ {t} : pause_requested'[u] = pause_requested[u]
      /\ pause_requested[t] => pause_requested'[t]
  <2>1. {t} \in SUBSET Thread OBVIOUS
  <2>2. QED BY <1>1, <1>4, <2>1, ArmedFlags
<1>7. /\ proto' \in [pc : ProtoPlaces,
                     op : {"none", "continue", "pause", "terminate", "restart",
                           "disconnect"} \cup StepModes,
                     todo : SUBSET Thread, who : Thread, after : {"respond", "read", "ended"}]
      /\ proto'.op = proto.op /\ proto'.todo = proto.todo \ {t}
      /\ proto'.pc = "apply" \/ (proto'.pc = "respond" /\ proto.todo = {t})
  BY <1>1, <1>4 DEF ProtoPlaces
<1>8. TypeCore'
  <2>1. UNCHANGED <<pc, via, engine, wire, view, requests>> BY <1>4
  <2>2. QED BY <1>1, <1>5, <1>6, <1>7, <2>1 DEF TypeCore
<1>9. Visits(t) BY <1>4, <1>5, <1>6, <1>7 DEF Visits
<1>10. PlaceOK(t)' BY <1>1, <1>3, <1>4, <1>5 DEF PlaceOK
<1>11. WakeOK(t)' BY <1>1, <1>3, <1>4, <1>5 DEF WakeOK, ProtoAt
<1>12. ArmedOK(t)' BY <1>1, <1>3, <1>4, <1>5, <1>6 DEF ArmedOK, GoingOn, ProtoAt
<1>13. InformedOK(t)'
  <2>1. ~Resumes(t) BY <1>4, DebugAssumption DEF Resumes
  <2>2. QED BY <1>1, <1>3, <1>4, <1>5, <2>1 DEF InformedOK
<1>14. Recounts(t) BY <1>3, <1>4, <1>5 DEF Recounts, Counted
<1>15. QED
  BY <1>3, <1>4, <1>5, <1>8, <1>9, <1>10, <1>11, <1>12, <1>13, <1>14, VisitStep
  DEF ThreadOK

LEMMA SignalOK ==
  ASSUME IInv, SignalAllVms
  PROVE  IInv'
<1>1. TypeCore BY DEF IInv
<1>2. /\ proto.pc = "signal" /\ proto' = [proto EXCEPT !.pc = "respond"]
      /\ pause_requested' = Armed(pause_requested, Registered)
      /\ UNCHANGED <<ts, pc, via, paused_count, engine, wire, view, requests>>
  BY DEF SignalAllVms, ProtoAt, At
<1>3. /\ pause_requested' \in [Thread -> BOOLEAN]
      /\ \A t \in Thread : ts[t].registered /\ ts[t].vm => pause_requested'[t]
  <2>1. Registered \in SUBSET Thread BY DEF Registered
  <2>2. QED BY <1>1, <1>2, <2>1, ArmedFlags DEF Registered
<1>4. TypeCore' /\ proto'.pc = "respond"
  <2>1. /\ proto' \in [pc : ProtoPlaces,
                       op : {"none", "continue", "pause", "terminate", "restart",
                             "disconnect"} \cup StepModes,
                       todo : SUBSET Thread, who : Thread, after : {"respond", "read", "ended"}]
        /\ proto'.pc = "respond"
    BY <1>1, <1>2 DEF TypeCore, ProtoPlaces
  <2>2. UNCHANGED <<ts, pc, via, paused_count, engine, wire, view, requests>> BY <1>2
  <2>3. QED BY <1>1, <1>3, <2>1, <2>2 DEF TypeCore
<1>5. ASSUME NEW t \in Thread PROVE ThreadOK(t)'
  <2>1. PlaceOK(t) /\ WakeOK(t) /\ ArmedOK(t) /\ InformedOK(t) BY DEF IInv, ThreadOK
  <2>2. PlaceOK(t)' BY <1>2, <2>1 DEF PlaceOK
  <2>3. WakeOK(t)' BY <1>2, <2>1 DEF WakeOK, ProtoAt
  <2>4. ArmedOK(t)' BY <1>2, <1>3, <2>1 DEF ArmedOK, PlaceOK
  <2>5. InformedOK(t)' BY <1>2, <2>1 DEF InformedOK, Resumes
  <2>6. QED BY <2>2, <2>3, <2>4, <2>5 DEF ThreadOK
<1>6. StartOK' /\ StopOK' /\ TodoOK' BY <1>2, <1>4 DEF IInv, StartOK, StopOK, TodoOK
<1>7. PausedCounted' BY <1>2 DEF IInv, PausedCounted, Registered
<1>8. QED BY <1>4, <1>5, <1>6, <1>7 DEF IInv

(* configurationDone, and the configuration that a termination completes.  *)
LEMMA ConfigureOK ==
  ASSUME IInv, ConfigurationDone \/ StopConfiguration
  PROVE  IInv'
<1>1. TypeCore /\ Main \in Thread BY Threads DEF IInv
<1>2. /\ UNCHANGED <<ts, pause_requested, via, paused_count, wire, view, requests>>
      /\ engine' = [engine EXCEPT !.is_config_done = TRUE]
      /\ pc' = ConfigWoken
      /\ \/ proto.pc = "read" /\ proto' = [proto EXCEPT !.pc = "respond"]
         \/ proto.pc = "stop_config" /\ proto' = [proto EXCEPT !.pc = "force_unpause"]
  BY DEF ConfigurationDone, StopConfiguration, CanRead, ProtoAt, At
<1>3. /\ engine' \in [session : {"running", "terminated", "none"}, stop_requested : BOOLEAN,
                      is_config_done : BOOLEAN, suppress_exit_events : BOOLEAN,
                      main_uncaught_stop_reported : BOOLEAN, active : BOOLEAN,
                      pending : BOOLEAN, filters : SUBSET Filters]
      /\ engine'.stop_requested = engine.stop_requested /\ engine'.active = engine.active
  BY <1>1, <1>2 DEF TypeCore
<1>4. /\ pc' \in [Thread -> Places]
      /\ \A t \in Thread \ {Main} : pc'[t] = pc[t]
      /\ pc'[Main] = (IF pc[Main] = "config_asleep" THEN "config" ELSE pc[Main])
  BY <1>1, <1>2 DEF TypeCore, ConfigWoken, Places, MainPlaces
<1>5. /\ proto' \in [pc : ProtoPlaces,
                     op : {"none", "continue", "pause", "terminate", "restart",
                           "disconnect"} \cup StepModes,
                     todo : SUBSET Thread, who : Thread, after : {"respond", "read", "ended"}]
      /\ \/ proto.pc = "read" /\ proto'.pc = "respond"
         \/ proto.pc = "stop_config" /\ proto'.pc = "force_unpause"
  BY <1>1, <1>2 DEF TypeCore, ProtoPlaces
<1>6. TypeCore'
  <2>1. UNCHANGED <<ts, pause_requested, via, wire, view, requests>> BY <1>2
  <2>2. QED BY <1>1, <1>3, <1>4, <1>5, <2>1 DEF TypeCore
<1>7. ASSUME NEW t \in Thread PROVE ThreadOK(t)'
  <2>1. PlaceOK(t) /\ WakeOK(t) /\ ArmedOK(t) /\ InformedOK(t) BY DEF IInv, ThreadOK
  <2>2. UNCHANGED <<ts, pause_requested, via, wire, view>> BY <1>2
  <2>3. /\ pc'[t] # "config_asleep"
        /\ pc'[t] = pc[t] \/ (t = Main /\ pc[t] = "config_asleep" /\ pc'[t] = "config")
    BY <1>4, <2>1 DEF PlaceOK, CommonPlaces, TaskPlaces
  <2>4. PlaceOK(t)'
    BY <1>3, <2>1, <2>2, <2>3
    DEF PlaceOK, Unstarted, Stopped, CommonPlaces, MainPlaces, TaskPlaces
  <2>5. WakeOK(t)' BY <1>3, <1>5, <2>1, <2>2, <2>3 DEF WakeOK, ProtoAt
  <2>6. ArmedOK(t)' BY <1>3, <1>5, <2>1, <2>2, <2>3 DEF ArmedOK, GoingOn, ProtoAt
  <2>7. InformedOK(t)' BY <1>3, <1>5, <2>1, <2>2, <2>3 DEF InformedOK, Resumes
  <2>8. QED BY <2>4, <2>5, <2>6, <2>7 DEF ThreadOK
<1>8. StartOK' BY <1>4, Threads DEF IInv, StartOK, Starting
<1>9. StopOK' BY <1>3, <1>4, <1>5, Threads DEF IInv, StopOK
<1>10. TodoOK' BY <1>5 DEF TodoOK
<1>11. PausedCounted' BY <1>2 DEF IInv, PausedCounted, Registered
<1>12. QED BY <1>6, <1>7, <1>8, <1>9, <1>10, <1>11 DEF IInv

LEMMA RequestStopOK ==
  ASSUME IInv, RequestStop
  PROVE  IInv'
<1>1. TypeCore BY DEF IInv
<1>2. /\ UNCHANGED <<ts, pause_requested, pc, via, paused_count, wire, view, requests>>
      /\ proto.pc = "stop" /\ proto' = [proto EXCEPT !.pc = "stop_config"]
      /\ engine' = [engine EXCEPT !.suppress_exit_events = (proto.op = "restart"),
                                  !.stop_requested = TRUE]
  BY DEF RequestStop, ProtoAt, At
<1>3. /\ engine' \in [session : {"running", "terminated", "none"}, stop_requested : BOOLEAN,
                      is_config_done : BOOLEAN, suppress_exit_events : BOOLEAN,
                      main_uncaught_stop_reported : BOOLEAN, active : BOOLEAN,
                      pending : BOOLEAN, filters : SUBSET Filters]
      /\ engine'.stop_requested /\ engine'.active = engine.active
  BY <1>1, <1>2 DEF TypeCore
<1>4. /\ proto' \in [pc : ProtoPlaces,
                     op : {"none", "continue", "pause", "terminate", "restart",
                           "disconnect"} \cup StepModes,
                     todo : SUBSET Thread, who : Thread, after : {"respond", "read", "ended"}]
      /\ proto'.pc = "stop_config"
  BY <1>1, <1>2 DEF TypeCore, ProtoPlaces
<1>5. UNCHANGED <<ts, pause_requested, pc, via, wire, view, requests>> BY <1>2
<1>6. TypeCore' BY <1>1, <1>3, <1>4, <1>5 DEF TypeCore
<1>7. ASSUME NEW t \in Thread PROVE ThreadOK(t)'
  <2>1. PlaceOK(t) /\ WakeOK(t) /\ ArmedOK(t) /\ InformedOK(t) BY DEF IInv, ThreadOK
  <2>2. PlaceOK(t)' BY <1>3, <1>5, <2>1 DEF PlaceOK
  <2>3. WakeOK(t)' BY <1>4, <1>5, <2>1 DEF WakeOK, ProtoAt, PlaceOK, Unstarted
  <2>4. ArmedOK(t)' BY <1>2, <1>3, <1>5, <2>1 DEF ArmedOK, GoingOn, ProtoAt
  <2>5. InformedOK(t)' BY <1>3 DEF InformedOK
  <2>6. QED BY <2>2, <2>3, <2>4, <2>5 DEF ThreadOK
<1>8. StartOK' BY <1>5 DEF IInv, StartOK
<1>9. StopOK' /\ TodoOK' BY <1>4 DEF StopOK, TodoOK
<1>10. PausedCounted' BY <1>2 DEF IInv, PausedCounted, Registered
<1>11. QED BY <1>6, <1>7, <1>8, <1>9, <1>10 DEF IInv

(* Every registered thread is unpaused, woken and armed.                   *)
LEMMA ForceUnpauseOK ==
  ASSUME IInv, ForceUnpauseAll
  PROVE  IInv'
<1>1. TypeCore /\ Registered \in SUBSET Thread BY DEF IInv, Registered
<1>2. /\ UNCHANGED <<via, engine, wire, view, requests>>
      /\ proto.pc = "force_unpause" /\ proto' = [proto EXCEPT !.pc = "join"]
      /\ ts' = [t \in Thread |-> IF t \in Registered THEN [ts[t] EXCEPT !.is_paused = FALSE]
                                 ELSE ts[t]]
      /\ paused_count' = paused_count - Cardinality({t \in Registered : ts[t].is_paused})
      /\ pc' = Woken(Registered) /\ pause_requested' = Armed(pause_requested, Registered)
  BY DEF ForceUnpauseAll, ProtoAt, At
<1>3. ts' \in [Thread -> ThreadStates]
  <2>1. ASSUME NEW t \in Thread PROVE [ts[t] EXCEPT !.is_paused = FALSE] \in ThreadStates
    <3>1. ts[t] \in ThreadStates BY <1>1 DEF TypeCore
    <3>2. QED BY <3>1 DEF ThreadStates
  <2>2. QED BY <1>1, <1>2, <2>1 DEF TypeCore
<1>4. ASSUME NEW t \in Thread
      PROVE  /\ ts'[t].registered = ts[t].registered /\ ts'[t].vm = ts[t].vm
             /\ ts'[t].is_exception_terminated = ts[t].is_exception_terminated
             /\ ts'[t].is_paused <=> ts[t].is_paused /\ ~ts[t].registered
  <2>1. ts[t] \in ThreadStates BY <1>1 DEF TypeCore
  <2>2. ts'[t] = (IF ts[t].registered THEN [ts[t] EXCEPT !.is_paused = FALSE] ELSE ts[t])
    BY <1>2 DEF Registered
  <2>3. QED BY <2>1, <2>2 DEF ThreadStates
<1>5. /\ pc' \in [Thread -> Places]
      /\ \A t \in Thread :
           pc'[t] = (IF ts[t].registered /\ pc[t] = "asleep" THEN "wait" ELSE pc[t])
  BY <1>1, <1>2 DEF TypeCore, Woken, Registered, Places, CommonPlaces
<1>6. /\ pause_requested' \in [Thread -> BOOLEAN]
      /\ \A t \in Thread : ts[t].registered /\ ts[t].vm => pause_requested'[t]
  BY <1>1, <1>2, ArmedFlags DEF Registered
<1>7. /\ proto' \in [pc : ProtoPlaces,
                     op : {"none", "continue", "pause", "terminate", "restart",
                           "disconnect"} \cup StepModes,
                     todo : SUBSET Thread, who : Thread, after : {"respond", "read", "ended"}]
      /\ proto'.pc = "join"
  BY <1>1, <1>2 DEF TypeCore, ProtoPlaces
<1>8. UNCHANGED <<via, engine, wire, view, requests>> BY <1>2
<1>9. TypeCore' BY <1>1, <1>3, <1>5, <1>6, <1>7, <1>8 DEF TypeCore
<1>10. ASSUME NEW t \in Thread PROVE ThreadOK(t)'
  <2>1. PlaceOK(t) /\ WakeOK(t) /\ ArmedOK(t) /\ InformedOK(t) BY DEF IInv, ThreadOK
  <2>2. PlaceOK(t)'
    BY <1>4, <1>5, <1>8, <2>1
    DEF PlaceOK, Unstarted, Stopped, CommonPlaces, MainPlaces, TaskPlaces
  <2>3. WakeOK(t)' BY <1>2, <1>5, <1>8, <2>1 DEF WakeOK, ProtoAt, PlaceOK, Unstarted
  <2>4. ArmedOK(t)' BY <1>4, <1>6, <2>1 DEF ArmedOK, PlaceOK
  <2>5. InformedOK(t)' BY <1>4, <1>5, <2>1 DEF InformedOK, PlaceOK, Unstarted
  <2>6. QED BY <2>2, <2>3, <2>4, <2>5 DEF ThreadOK
<1>11. StartOK' BY <1>5, Threads DEF IInv, StartOK, Starting
<1>12. StopOK' /\ TodoOK' BY <1>7 DEF StopOK, TodoOK
<1>13. PausedCounted'
  <2>1. paused_count' = 0
    <3>1. PICK c \in Nat : c = Cardinality({t \in Registered : ts[t].is_paused})
      BY PausedSet
    <3>2. paused_count = c BY <3>1 DEF IInv, PausedCounted
    <3>3. paused_count' = c - c BY <1>2, <3>1, <3>2
    <3>4. QED BY <3>3
  <2>2. {t \in Registered : ts[t].is_paused}' = {} BY <1>4 DEF Registered
  <2>3. QED BY <2>1, <2>2, FS_EmptySet DEF PausedCounted
<1>14. QED BY <1>9, <1>10, <1>11, <1>12, <1>13 DEF IInv

LEMMA NullVmsOK ==
  ASSUME IInv, NullAllVms
  PROVE  IInv'
<1>1. TypeCore BY DEF IInv
<1>2. /\ UNCHANGED <<pause_requested, pc, via, paused_count, engine, wire, view, requests>>
      /\ proto.pc = "null_vms" /\ proto' = [proto EXCEPT !.pc = "reset_vm"]
      /\ ts' = [t \in Thread |-> IF t \in Registered THEN [ts[t] EXCEPT !.vm = FALSE]
                                 ELSE ts[t]]
  BY DEF NullAllVms, ProtoAt, At
<1>3. ts' \in [Thread -> ThreadStates]
  <2>1. ASSUME NEW t \in Thread PROVE [ts[t] EXCEPT !.vm = FALSE] \in ThreadStates
    <3>1. ts[t] \in ThreadStates BY <1>1 DEF TypeCore
    <3>2. QED BY <3>1 DEF ThreadStates
  <2>2. QED BY <1>1, <1>2, <2>1 DEF TypeCore
<1>4. ASSUME NEW t \in Thread
      PROVE  /\ ts'[t].registered = ts[t].registered /\ ~ts'[t].vm
             /\ ts'[t].is_exception_terminated = ts[t].is_exception_terminated
             /\ ts'[t].is_paused = ts[t].is_paused
  <2>1. ts[t] \in ThreadStates BY <1>1 DEF TypeCore
  <2>2. ts'[t] = (IF ts[t].registered THEN [ts[t] EXCEPT !.vm = FALSE] ELSE ts[t])
    BY <1>2 DEF Registered
  <2>3. ts[t].vm => ts[t].registered BY DEF IInv, ThreadOK, PlaceOK
  <2>4. QED BY <2>1, <2>2, <2>3 DEF ThreadStates
<1>5. /\ proto' \in [pc : ProtoPlaces,
                     op : {"none", "continue", "pause", "terminate", "restart",
                           "disconnect"} \cup StepModes,
                     todo : SUBSET Thread, who : Thread, after : {"respond", "read", "ended"}]
      /\ proto'.pc = "reset_vm"
  BY <1>1, <1>2 DEF TypeCore, ProtoPlaces
<1>6. UNCHANGED <<pause_requested, pc, via, engine, wire, view, requests>> BY <1>2
<1>7. TypeCore' BY <1>1, <1>3, <1>5, <1>6 DEF TypeCore
<1>8. ASSUME NEW t \in Thread PROVE ThreadOK(t)'
  <2>1. PlaceOK(t) /\ WakeOK(t) /\ InformedOK(t) BY DEF IInv, ThreadOK
  <2>2. PlaceOK(t)' BY <1>4, <1>6, <2>1 DEF PlaceOK
  <2>3. WakeOK(t)' BY <1>2, <1>4, <1>6, <2>1 DEF WakeOK, ProtoAt
  <2>4. ArmedOK(t)' BY <1>4 DEF ArmedOK
  <2>5. InformedOK(t)' BY <1>2, <1>4, <1>6, <2>1 DEF InformedOK, Resumes
  <2>6. QED BY <2>2, <2>3, <2>4, <2>5 DEF ThreadOK
<1>9. StartOK' BY <1>6 DEF IInv, StartOK
<1>10. StopOK' /\ TodoOK' BY <1>2, <1>5, <1>6 DEF IInv, StopOK, TodoOK
<1>11. PausedCounted'
  <2>1. {t \in Registered : ts[t].is_paused}' = {t \in Registered : ts[t].is_paused}
    BY <1>4 DEF Registered
  <2>2. QED BY <1>2, <2>1 DEF IInv, PausedCounted
<1>12. QED BY <1>7, <1>8, <1>9, <1>10, <1>11 DEF IInv

(* A session just launched, by the first launch or by a restart.           *)
Fresh ==
  /\ \E entry \in BOOLEAN : ts = Launched(entry)
  /\ pause_requested = [t \in Thread |-> FALSE]
  /\ pc = FirstPlace
  /\ via = [t \in Thread |-> "line"]
  /\ paused_count = 0
  /\ view = [t \in Thread |-> "running"]
  /\ ~engine.stop_requested /\ ~engine.is_config_done
  /\ proto.pc \in {"respond", "read", "ended"}
  /\ TypeCore

LEMMA LaunchedStates ==
  ASSUME NEW entry \in BOOLEAN
  PROVE  /\ Launched(entry) \in [Thread -> ThreadStates]
         /\ \A t \in Thread :
              /\ Launched(entry)[t].registered <=> t = Main
              /\ ~Launched(entry)[t].vm /\ ~Launched(entry)[t].is_paused
              /\ ~Launched(entry)[t].is_exception_terminated
<1>1. PICK n : n = [NewThreadState(entry) EXCEPT !.registered = TRUE] OBVIOUS
<1>2. n \in ThreadStates /\ NewThreadState(FALSE) \in ThreadStates
  BY <1>1 DEF NewThreadState, ThreadStates
<1>3. /\ n.registered /\ ~n.vm /\ ~n.is_paused /\ ~n.is_exception_terminated
      /\ LET m == NewThreadState(FALSE)
         IN  ~m.registered /\ ~m.vm /\ ~m.is_paused /\ ~m.is_exception_terminated
  BY <1>1 DEF NewThreadState
<1>4. Launched(entry) = [t \in Thread |-> IF t = Main THEN n ELSE NewThreadState(FALSE)]
  BY <1>1 DEF Launched
<1>5. QED BY <1>2, <1>3, <1>4

LEMMA FreshOK == Fresh => IInv
<1> SUFFICES ASSUME Fresh PROVE IInv OBVIOUS
<1>1. TypeCore BY DEF Fresh
<1>2. \A t \in Thread : /\ ts[t].registered <=> t = Main
                        /\ ~ts[t].vm /\ ~ts[t].is_paused /\ ~ts[t].is_exception_terminated
  BY LaunchedStates DEF Fresh
<1>3. \A t \in Thread : /\ pc[t] = (IF t = Main THEN "config" ELSE "none")
                        /\ via[t] = "line"
  BY DEF Fresh, FirstPlace
<1>4. /\ paused_count = 0 /\ ~engine.stop_requested /\ ~engine.is_config_done
      /\ proto.pc \in {"respond", "read", "ended"}
  BY DEF Fresh
<1>5. ASSUME NEW t \in Thread PROVE ThreadOK(t)
  <2>1. PlaceOK(t)
    BY <1>2, <1>3 DEF PlaceOK, Unstarted, Stopped, CommonPlaces, MainPlaces, TaskPlaces
  <2>2. WakeOK(t) BY <1>3, <1>4 DEF WakeOK
  <2>3. ArmedOK(t) /\ InformedOK(t) BY <1>2 DEF ArmedOK, InformedOK
  <2>4. QED BY <2>1, <2>2, <2>3 DEF ThreadOK
<1>6. StartOK /\ StopOK /\ TodoOK BY <1>3, <1>4, Threads DEF StartOK, StopOK, TodoOK
<1>7. PausedCounted
  <2>1. {t \in Registered : ts[t].is_paused} = {} BY <1>2 DEF Registered
  <2>2. QED BY <1>4, <2>1, FS_EmptySet DEF PausedCounted
<1>8. QED BY <1>1, <1>5, <1>6, <1>7 DEF IInv

(* vm_.reset(): a restart launches a new run, any other end leaves what    *)
(* the last one was.                                                       *)
LEMMA ResetOK ==
  ASSUME IInv, ResetVm
  PROVE  IInv'
<1>1. TypeCore BY DEF IInv
<1>2. /\ proto.pc = "reset_vm" /\ proto' = [proto EXCEPT !.pc = proto.after]
      /\ \A t \in Task : pc[t] \in {"none", "gone"}
      /\ UNCHANGED <<wire, requests>>
  BY DEF ResetVm, ProtoAt, At
<1>3. /\ proto' \in [pc : ProtoPlaces,
                     op : {"none", "continue", "pause", "terminate", "restart",
                           "disconnect"} \cup StepModes,
                     todo : SUBSET Thread, who : Thread, after : {"respond", "read", "ended"}]
      /\ proto'.pc \in {"respond", "read", "ended"}
  BY <1>1, <1>2 DEF TypeCore, ProtoPlaces
<1>4. CASE proto.op = "restart"
  <2>1. PICK entry \in EntryStops : ts' = Launched(entry) BY <1>4 DEF ResetVm
  <2>2. /\ pause_requested' = [t \in Thread |-> FALSE] /\ pc' = FirstPlace
        /\ via' = [t \in Thread |-> "line"] /\ paused_count' = 0
        /\ view' = [t \in Thread |-> "running"]
        /\ engine' = NewEngine(engine.pending, engine.filters)
    BY <1>4 DEF ResetVm
  <2>3. entry \in BOOLEAN BY DebugAssumption
  <2>4. ts' \in [Thread -> ThreadStates] BY <2>1, <2>3, LaunchedStates
  <2>5. FirstPlace \in [Thread -> Places]
    BY DEF FirstPlace, Places, MainPlaces, TaskPlaces
  <2>6. /\ engine' \in [session : {"running", "terminated", "none"}, stop_requested : BOOLEAN,
                        is_config_done : BOOLEAN, suppress_exit_events : BOOLEAN,
                        main_uncaught_stop_reported : BOOLEAN, active : BOOLEAN,
                        pending : BOOLEAN, filters : SUBSET Filters]
        /\ ~engine'.stop_requested /\ ~engine'.is_config_done
    <3>1. engine.pending \in BOOLEAN /\ engine.filters \in SUBSET Filters
      BY <1>1 DEF TypeCore
    <3>2. QED BY <2>2, <3>1 DEF NewEngine
  <2>7. wire' = wire /\ requests' = requests BY <1>2
  <2>8. TypeCore' BY <1>1, <1>3, <2>2, <2>4, <2>5, <2>6, <2>7 DEF TypeCore
  <2>9. Fresh' BY <1>3, <2>1, <2>2, <2>3, <2>6, <2>8 DEF Fresh, Launched, FirstPlace
  <2>10. Fresh' => IInv' BY FreshOK, PTL
  <2>11. QED BY <2>9, <2>10
<1>5. CASE proto.op # "restart"
  <2>1. UNCHANGED <<ts, pc, pause_requested, via, paused_count, view, wire, requests>>
    BY <1>5 DEF ResetVm
  <2>2. /\ engine' \in [session : {"running", "terminated", "none"}, stop_requested : BOOLEAN,
                        is_config_done : BOOLEAN, suppress_exit_events : BOOLEAN,
                        main_uncaught_stop_reported : BOOLEAN, active : BOOLEAN,
                        pending : BOOLEAN, filters : SUBSET Filters]
        /\ engine'.stop_requested = engine.stop_requested
        /\ engine'.is_config_done = engine.is_config_done /\ engine'.active = engine.active
    BY <1>1, <1>5 DEF TypeCore, ResetVm, Terminated
  <2>3. TypeCore' BY <1>1, <1>3, <2>1, <2>2 DEF TypeCore
  <2>4. ASSUME NEW t \in Thread PROVE ThreadOK(t)'
    <3>1. PlaceOK(t) /\ WakeOK(t) /\ ArmedOK(t) /\ InformedOK(t) BY DEF IInv, ThreadOK
    <3>2. PlaceOK(t)' BY <2>1, <2>2, <3>1 DEF PlaceOK
    <3>3. WakeOK(t)' BY <1>2, <2>1, <2>2, <3>1 DEF WakeOK, ProtoAt
    <3>4. ArmedOK(t)' BY <1>2, <2>1, <2>2, <3>1 DEF ArmedOK, GoingOn, ProtoAt
    <3>5. InformedOK(t)' BY <1>2, <2>1, <2>2, <3>1 DEF InformedOK, Resumes
    <3>6. QED BY <3>2, <3>3, <3>4, <3>5 DEF ThreadOK
  <2>5. StartOK' BY <2>1 DEF IInv, StartOK
  <2>6. StopOK' BY <1>2, <1>3, <2>1, <2>2 DEF IInv, StopOK
  <2>7. TodoOK' BY <1>3 DEF TodoOK
  <2>8. PausedCounted' BY <2>1 DEF IInv, PausedCounted, Registered
  <2>9. QED BY <2>3, <2>4, <2>5, <2>6, <2>7, <2>8 DEF IInv
<1>6. QED BY <1>4, <1>5

-----------------------------------------------------------------------------
LEMMA InitOK == Init => IInv
<1> SUFFICES ASSUME Init PROVE IInv OBVIOUS
<1>1. PICK entry \in BOOLEAN : ts = Launched(entry) BY DebugAssumption DEF Init
<1>2. /\ pause_requested = [t \in Thread |-> FALSE] /\ pc = FirstPlace
      /\ via = [t \in Thread |-> "line"] /\ paused_count = 0 /\ proto = Idle
      /\ wire = [pipe |-> "open", disconnected |-> FALSE, callback_invoked |-> FALSE,
                 send_mutex |-> FALSE]
      /\ view = [t \in Thread |-> "running"] /\ requests = 0
  BY DEF Init
<1>3. PICK armed \in BOOLEAN : engine = NewEngine(armed, {}) BY DEF Init
<1>4. TypeCore
  <2>1. ts \in [Thread -> ThreadStates] BY <1>1, LaunchedStates
  <2>2. pc \in [Thread -> Places]
    BY <1>2 DEF FirstPlace, Places, MainPlaces, TaskPlaces
  <2>3. engine \in [session : {"running", "terminated", "none"}, stop_requested : BOOLEAN,
                    is_config_done : BOOLEAN, suppress_exit_events : BOOLEAN,
                    main_uncaught_stop_reported : BOOLEAN, active : BOOLEAN,
                    pending : BOOLEAN, filters : SUBSET Filters]
    BY <1>3 DEF NewEngine
  <2>4. proto \in [pc : ProtoPlaces,
                   op : {"none", "continue", "pause", "terminate", "restart",
                         "disconnect"} \cup StepModes,
                   todo : SUBSET Thread, who : Thread, after : {"respond", "read", "ended"}]
    BY <1>2, Threads DEF Idle, ProtoPlaces
  <2>5. requests \in 0 .. MaxRequests BY <1>2, DebugAssumption
  <2>6. QED BY <1>2, <2>1, <2>2, <2>3, <2>4, <2>5 DEF TypeCore
<1>5. Fresh BY <1>1, <1>2, <1>3, <1>4 DEF Fresh, NewEngine, Idle
<1>6. QED BY <1>5, FreshOK

LEMMA StepOK == IInv /\ [Next]_vars => IInv'
<1> SUFFICES ASSUME IInv, [Next]_vars PROVE IInv' OBVIOUS
<1>1. CASE UNCHANGED vars
  <2>1. UNCHANGED <<ts, pause_requested, pc, via, paused_count, engine, proto, wire, view,
                    requests>>
    BY <1>1 DEF vars
  <2>2. ASSUME NEW t \in Thread PROVE ThreadOK(t)'
    BY <2>1 DEF IInv, ThreadOK, PlaceOK, WakeOK, ArmedOK, GoingOn, InformedOK, Resumes, ProtoAt
  <2>3. TypeCore' /\ StartOK' /\ StopOK' /\ TodoOK'
    BY <2>1 DEF IInv, TypeCore, StartOK, StopOK, TodoOK
  <2>4. PausedCounted' BY <2>1 DEF IInv, PausedCounted, Registered
  <2>5. QED BY <2>2, <2>3, <2>4 DEF IInv
<1>2. CASE Requests BY <1>2, ReadOK, ConfigureOK DEF Requests
<1>3. CASE BreakPipe BY <1>3, BreakPipeOK
<1>4. CASE ProtoStep
  BY <1>4, SignalOK, ContinuedOK, NotifyOK, UnpauseOK, StepThreadOK, PauseOK, RequestStopOK,
     ConfigureOK, ForceUnpauseOK, AnswerOK, NullVmsOK, ResetOK
  DEF ProtoStep
<1>5. ASSUME NEW t \in Thread, ThreadStep(t) \/ ProgramStep(t) PROVE IInv'
  BY <1>5, ThreadsOK
<1>6. QED BY <1>1, <1>2, <1>3, <1>4, <1>5 DEF Next

LEMMA Invariance == Spec => []IInv
BY InitOK, StepOK, PTL DEF Spec

-----------------------------------------------------------------------------
(* The counter behind allThreadsStopped (ThreadStateManager::paused_count_) *)
(* is the number of registered paused threads through every race of a stop *)
(* with a resume, a termination or the exit of a task, and so never leaves *)
(* 0 .. the number of threads; every other variable keeps its type.        *)
THEOREM PausesCounted == Spec => []StopsCounted
<1>1. IInv => StopsCounted
  <2> SUFFICES ASSUME IInv PROVE StopsCounted OBVIOUS
  <2>1. paused_count \in 0 .. Cardinality(Thread)
    <3> DEFINE S == {t \in Thread : Counted(t)}
    <3>1. paused_count = Cardinality(S) BY PausedSet DEF IInv, PausedCounted
    <3>2. Cardinality(S) <= Cardinality(Thread) /\ Cardinality(Thread) \in Nat
      BY Threads, FS_Subset, FS_CardinalityType
    <3>3. Cardinality(S) \in Nat BY PausedSet
    <3>4. QED BY <3>1, <3>2, <3>3
  <2>2. QED BY <2>1 DEF IInv, TypeCore, TypeOK, StopsCounted
<1>2. QED BY <1>1, Invariance, PTL

(* No lost wakeup: a program thread asleep in wait_for_resume or           *)
(* wait_for_configuration although it was resumed, configured or told to   *)
(* stop is one the protocol thread has yet to notify, whichever of the     *)
(* resume, the stop and the termination came first.                        *)
THEOREM ResumesKept == Spec => []NoLostResume
<1>1. IInv => NoLostResume BY DEF IInv, ThreadOK, WakeOK, NoLostResume
<1>2. QED BY <1>1, Invariance, PTL

(* While breakpoints are active every running thread's next line calls the *)
(* hook: none of the six places that set VM::pause_requested and the one   *)
(* that clears it leaves a running thread unarmed.                         *)
THEOREM BreakpointsKept == Spec => []BreakpointsArmed
<1>1. IInv => BreakpointsArmed
  BY DEF IInv, ThreadOK, ArmedOK, GoingOn, BreakpointsArmed
<1>2. QED BY <1>1, Invariance, PTL

(* With no request in progress a thread asleep at a stop is one the editor *)
(* was told is stopped: the continued event that execute_thread_action     *)
(* sends before it resumes anything never overtakes a later stop.          *)
THEOREM EditorInformed == Spec => []ClientInformed
<1>1. IInv => ClientInformed
  <2> SUFFICES ASSUME IInv, wire.pipe = "open", proto.pc = "read",
                      NEW t \in Thread, pc[t] = "asleep"
               PROVE  view[t] = "stopped"
    BY DEF ClientInformed, ProtoAt
  <2>1. WakeOK(t) /\ InformedOK(t) BY DEF IInv, ThreadOK
  <2>2. ts[t].is_paused /\ ~engine.stop_requested BY <2>1 DEF WakeOK, ProtoAt
  <2>3. QED BY <2>1, <2>2 DEF InformedOK, Resumes
<1>2. QED BY <1>1, Invariance, PTL

(***************************************************************************)
(* The breakpoints.  Counting, loops, and the elements of sequences.       *)
(***************************************************************************)
(* A set of numbers that contains 0 and each successor contains them all.  *)
LEMMA CountUp ==
  ASSUME NEW n \in Nat, NEW T, 0 \in T, \A i \in 1 .. n : i - 1 \in T => i \in T
  PROVE  \A i \in 0 .. n : i \in T
<1> DEFINE B == {i \in 0 .. n : i \notin T}
<1> SUFFICES ASSUME B # {} PROVE FALSE
  OBVIOUS
<1>1. IsWellFoundedOn(OpToRel(<, Nat), Nat)
  BY NatLessThanWellFounded
<1>2. B \subseteq Nat
  OBVIOUS
<1>3. PICK d \in B : \A y \in B : ~(<<y, d>> \in OpToRel(<, Nat))
  BY <1>1, <1>2, WFMin
<1>4. \A y \in B : ~(y < d)
  BY <1>2, <1>3 DEF OpToRel
<1>5. d # 0 /\ d \in 1 .. n
  <2>1. d \in 0 .. n /\ d \notin T
    BY <1>3
  <2> QED
    BY <2>1
<1>6. d - 1 \in 0 .. n /\ d - 1 < d
  BY <1>5
<1>7. d - 1 \in T
  BY <1>4, <1>6
<1> QED
  BY <1>3, <1>5, <1>7

(* A run of a loop of n steps, from a, each step by G.                     *)
IsRun(f, S, n, a, G) ==
  /\ f \in [0 .. n -> S] /\ f[0] = a
  /\ \A i \in 1 .. n : f[i] = G[<<f[i - 1], i>>]

(* A loop of n steps has a run: the function that a recursive definition   *)
(* over 0 .. n names exists.                                               *)
LEMMA LoopRuns ==
  ASSUME NEW S, NEW n \in Nat, NEW a \in S, NEW G,
         \A x \in S, i \in 1 .. n : G[<<x, i>>] \in S
  PROVE  \E f : IsRun(f, S, n, a, G)
<1> DEFINE Run(k, f) == /\ f \in [0 .. k -> S] /\ f[0] = a
                        /\ \A i \in 1 .. k : f[i] = G[<<f[i - 1], i>>]
           T == {k \in 0 .. n : \E f : Run(k, f)}
<1>1. 0 \in T
  <2> DEFINE f == [i \in 0 .. 0 |-> a]
  <2>1. f \in [0 .. 0 -> S] /\ f[0] = a /\ 1 .. 0 = {}
    OBVIOUS
  <2>2. Run(0, f)
    BY <2>1
  <2>3. 0 \in 0 .. n
    OBVIOUS
  <2> QED
    BY <2>2, <2>3
<1>2. ASSUME NEW k \in 1 .. n, k - 1 \in T
      PROVE  k \in T
  <2>1. PICK f : Run(k - 1, f)
    BY <1>2
  <2> DEFINE g == [i \in 0 .. k |-> IF i = k THEN G[<<f[k - 1], k>>] ELSE f[i]]
  <2>2. f[k - 1] \in S
    BY <2>1
  <2>3. G[<<f[k - 1], k>>] \in S
    BY <2>2
  <2>4. g \in [0 .. k -> S] /\ g[0] = a
    BY <2>1, <2>3
  <2>5. ASSUME NEW i \in 1 .. k
        PROVE  g[i] = G[<<g[i - 1], i>>]
    <3>1. i - 1 \in 0 .. k /\ i - 1 # k /\ g[i - 1] = f[i - 1]
      OBVIOUS
    <3>2. CASE i = k
      BY <3>1, <3>2
    <3>3. CASE i # k
      <4>1. i \in 1 .. (k - 1)
        BY <3>3
      <4> QED
        BY <2>1, <3>1, <3>3, <4>1
    <3> QED
      BY <3>2, <3>3
  <2>6. Run(k, g)
    BY <2>4, <2>5
  <2> HIDE DEF g, Run
  <2> QED
    BY <2>6
<1>3. n \in T
  <2> HIDE DEF T
  <2> QED
    BY <1>1, <1>2, CountUp
<1>4. PICK f : Run(n, f)
  BY <1>3
<1> QED
  BY <1>4 DEF IsRun

(***************************************************************************)
(* Sequences and numbers.                                                  *)
(***************************************************************************)
LEMMA ElementIs ==
  ASSUME NEW S, NEW s \in Seq(S), NEW i \in DOMAIN s
  PROVE  s[i] \in S /\ i \in 1 .. Len(s) /\ i \in Nat /\ Len(s) \in Nat
OBVIOUS

(* Removing an element leaves the others, each once.                       *)
LEMMA Removed ==
  ASSUME NEW S, NEW s \in Seq(S), NEW i \in DOMAIN s
  PROVE  /\ RemoveAt(s, i) \in Seq(S)
         /\ \A k \in DOMAIN RemoveAt(s, i) : \E m \in DOMAIN s :
              /\ RemoveAt(s, i)[k] = s[m]
              /\ m = IF k < i THEN k ELSE k + 1
<1> DEFINE a == SubSeq(s, 1, i - 1)
           b == SubSeq(s, i + 1, Len(s))
<1>1. i \in 1 .. Len(s) /\ Len(s) \in Nat
  BY ElementIs
<1>2. a \in Seq(S) /\ Len(a) = i - 1 /\ \A k \in 1 .. (i - 1) : a[k] = s[k]
  BY <1>1, SubSeqProperties
<1>3. b \in Seq(S) /\ Len(b) = Len(s) - i /\ \A k \in 1 .. (Len(s) - i) : b[k] = s[k + i]
  <2>1. Len(b) = IF i + 1 <= Len(s) THEN Len(s) - (i + 1) + 1 ELSE 0
    BY <1>1, SubSeqProperties
  <2> QED
    BY <1>1, <2>1, SubSeqProperties
<1> HIDE DEF a, b
<1>4. RemoveAt(s, i) = a \o b
  BY DEF RemoveAt, a, b
<1>5. a \o b \in Seq(S) /\ Len(a \o b) = Len(s) - 1
  BY <1>1, <1>2, <1>3, ConcatProperties
<1>6. ASSUME NEW k \in DOMAIN (a \o b)
      PROVE  \E m \in DOMAIN s : (a \o b)[k] = s[m] /\ m = IF k < i THEN k ELSE k + 1
  <2>1. k \in 1 .. (Len(s) - 1)
    BY <1>5
  <2>2. CASE k < i
    BY <1>1, <1>2, <1>3, <2>1, <2>2, ConcatProperties
  <2>3. CASE ~(k < i)
    <3>1. (a \o b)[k] = b[k - (i - 1)]
      BY <1>1, <1>2, <1>3, <2>1, <2>3, ConcatProperties
    <3>2. PICK j \in 1 .. (Len(s) - i) : j = k - (i - 1)
      BY <1>1, <2>1, <2>3
    <3>3. b[j] = s[j + i]
      BY <1>3
    <3>4. j + i = k + 1
      BY <1>1, <2>1, <3>2
    <3>5. k + 1 \in 1 .. Len(s)
      BY <1>1, <2>1
    <3> QED
      BY <2>1, <2>3, <3>1, <3>2, <3>3, <3>4, <3>5
  <2> QED
    BY <2>2, <2>3
<1> QED
  BY <1>4, <1>5, <1>6

(* The least element of a set of numbers.                                  *)
LEMMA LeastExists ==
  ASSUME NEW S \in SUBSET Nat, S # {}
  PROVE  \E x \in S : \A y \in S : x <= y
<1>1. IsWellFoundedOn(OpToRel(<, Nat), Nat)
  BY NatLessThanWellFounded
<1>2. PICK d \in S : \A y \in S : ~(<<y, d>> \in OpToRel(<, Nat))
  BY <1>1, WFMin
<1>3. \A y \in S : ~(y < d)
  BY <1>2 DEF OpToRel
<1> QED
  BY <1>3

\* The first of the positions that match is one of them.
LEMMA FirstIs ==
  ASSUME NEW S \in SUBSET Nat, S # {}
  PROVE  First(S) \in S
<1>1. \E x \in S : \A y \in S : x <= y
  BY LeastExists
<1> QED
  BY <1>1 DEF First

(* A finite set of numbers has a greatest one.                             *)
LEMMA GreatestExists ==
  ASSUME NEW S \in SUBSET Nat, S # {}, IsFiniteSet(S)
  PROVE  \E x \in S : \A y \in S : y <= x
<1> DEFINE Size == {Cardinality({y \in S : y > x}) : x \in S}
<1>1. \A x \in S : IsFiniteSet({y \in S : y > x}) /\ Cardinality({y \in S : y > x}) \in Nat
  <2> SUFFICES ASSUME NEW x \in S
               PROVE  IsFiniteSet({y \in S : y > x}) /\ Cardinality({y \in S : y > x}) \in Nat
    OBVIOUS
  <2>1. {y \in S : y > x} \subseteq S
    OBVIOUS
  <2>2. IsFiniteSet({y \in S : y > x})
    BY <2>1, FS_Subset
  <2> QED
    BY <2>2, FS_CardinalityType
<1>2. Size \subseteq Nat /\ Size # {}
  <2>1. PICK x \in S : TRUE
    OBVIOUS
  <2>2. Cardinality({y \in S : y > x}) \in Size
    BY <2>1
  <2>3. \A n \in Size : \E z \in S : n = Cardinality({y \in S : y > z})
    OBVIOUS
  <2>4. \A n \in Size : n \in Nat
    BY <1>1, <2>3
  <2> QED
    BY <2>2, <2>4
<1>3. PICK d \in Size : \A e \in Size : d <= e
  BY <1>2, LeastExists
<1>4. PICK x \in S : d = Cardinality({y \in S : y > x})
  OBVIOUS
<1>5. ASSUME NEW y \in S
      PROVE  y <= x
  <2> SUFFICES ASSUME y > x PROVE FALSE
    BY <1>4
  <2> DEFINE A == {z \in S : z > x}
             B == {z \in S : z > y}
  <2>0. \A z \in S : z > y => z > x /\ z # y
    BY <1>4
  <2>1. IsFiniteSet(A) /\ B \subseteq A \ {y} /\ y \in A
    <3>1. IsFiniteSet(A)
      BY <1>1
    <3> QED
      BY <2>0, <3>1
  <2>2. IsFiniteSet(A \ {y}) /\ Cardinality(A \ {y}) = Cardinality(A) - 1
    BY <2>1, FS_RemoveElement
  <2>3. Cardinality(B) <= Cardinality(A \ {y})
    BY <2>1, <2>2, FS_Subset
  <2>4. d <= Cardinality(B)
    BY <1>3
  <2>5. Cardinality(A) \in Nat /\ Cardinality(B) \in Nat
    BY <1>1
  <2> QED
    BY <1>4, <2>2, <2>3, <2>4, <2>5
<1> QED
  BY <1>5

(* Where there is code a breakpoint is on a line with code.                *)
LEMMA SnapExecutable ==
  ASSUME NEW l \in Nat, Executable # {}
  PROVE  snap_line(l) \in Executable
<1> DEFINE after == {e \in Executable : e > l}
<1>1. after \subseteq Nat /\ Executable \subseteq Nat /\ IsFiniteSet(Executable)
  BY BreakpointAssumption
<1>2. CASE l \in Executable
  BY <1>2 DEF snap_line
<1>3. CASE l \notin Executable /\ after # {}
  <2>1. \E e \in after : \A f \in after : e <= f
    BY <1>1, <1>3, LeastExists
  <2>2. (CHOOSE e \in after : \A f \in after : e <= f) \in after
    BY <2>1
  <2> QED
    BY <1>3, <2>2 DEF snap_line
<1>4. CASE l \notin Executable /\ after = {}
  <2>1. \E e \in Executable : \A f \in Executable : f <= e
    BY <1>1, GreatestExists
  <2>2. (CHOOSE e \in Executable : \A f \in Executable : f <= e) \in Executable
    BY <2>1
  <2> QED
    BY <1>4, <2>2 DEF snap_line
<1> QED
  BY <1>2, <1>3, <1>4

\* A line, with code or not, becomes a line.
LEMMA SnapType ==
  ASSUME NEW l \in Line
  PROVE  snap_line(l) \in Nat
<1>1. CASE Executable = {}
  BY <1>1, BreakpointAssumption DEF snap_line
<1>2. CASE Executable # {}
  BY <1>2, SnapExecutable, BreakpointAssumption
<1> QED
  BY <1>1, <1>2

(***************************************************************************)
(* The breakpoints of a request on a compiled file.                        *)
(***************************************************************************)
\* Breakpoints as the manager keeps them, bound and unbound.
Info  == [id : Int, line : Nat, kind : Kinds, times_hit : 0 .. MaxHits]
Named == [line : Line, kind : Kinds, id : Int]
Accs  == [old : Seq(Info), new : Seq(Info), next : Nat]

Distinct(s) == \A i, j \in DOMAIN s : s[i].id = s[j].id => i = j

\* The loop over the requests: what is left of the breakpoints from before, and
\* the new ones, each with the id and the hits of one from before, or fresh.
Taken(b, old)    == \E m \in DOMAIN old : b.id = old[m].id /\ b.times_hit = old[m].times_hit
Made(b, acc, n)  == b.id \in n .. (acc.next - 1) /\ b.times_hit = 0
LoopOK(acc, i, old, reqs, n) ==
  /\ acc \in Accs /\ n <= acc.next
  /\ \A k \in DOMAIN acc.old : \E m \in DOMAIN old : acc.old[k] = old[m]
  /\ Distinct(acc.old)
  /\ Len(acc.new) = i
  /\ \A k \in DOMAIN acc.new :
       acc.new[k].line = snap_line(reqs[k].line) /\ acc.new[k].kind = reqs[k].kind
  /\ \A k \in DOMAIN acc.new : Taken(acc.new[k], old) \/ Made(acc.new[k], acc, n)
  /\ \A k \in DOMAIN acc.new, m \in DOMAIN acc.old : acc.new[k].id # acc.old[m].id
  /\ Distinct(acc.new)

\* The numbers of a breakpoint.
LEMMA InfoTypes ==
  ASSUME NEW x \in Info
  PROVE  x.id \in Int /\ x.times_hit \in Int
BY BreakpointAssumption DEF Info

\* create_info keeps what it is given.
LEMMA CreateType ==
  ASSUME NEW r \in Named, NEW id \in Int, NEW n \in 0 .. MaxHits
  PROVE  /\ create_info(r, id, n) \in Info
         /\ create_info(r, id, n).id = id /\ create_info(r, id, n).times_hit = n
         /\ create_info(r, id, n).line = snap_line(r.line) /\ create_info(r, id, n).kind = r.kind
<1>1. snap_line(r.line) \in Nat /\ r.kind \in Kinds
  BY SnapType DEF Named
<1> QED
  BY <1>1 DEF create_info, Info

\* Append puts one element after the others.
LEMMA AppendIs ==
  ASSUME NEW S, NEW s \in Seq(S), NEW e \in S
  PROVE  /\ Append(s, e) \in Seq(S) /\ Len(Append(s, e)) = Len(s) + 1
         /\ \A k \in 1 .. Len(s) : Append(s, e)[k] = s[k]
         /\ Append(s, e)[Len(s) + 1] = e
         /\ \A k \in DOMAIN Append(s, e) : k \in DOMAIN s \/ k = Len(s) + 1
BY AppendProperties

\* The two ways of a request: it takes the first old breakpoint that matches, or
\* it makes one.
LEMMA BindCases ==
  ASSUME NEW acc \in Accs, NEW r \in Named
  PROVE  \/ \E i \in DOMAIN acc.old :
              bind(acc, r) = [old  |-> RemoveAt(acc.old, i),
                              new  |-> Append(acc.new, create_info(r, acc.old[i].id,
                                                                   acc.old[i].times_hit)),
                              next |-> acc.next]
         \/ bind(acc, r) = [old  |-> acc.old,
                            new  |-> Append(acc.new,
                                            create_info(r, id_for_request(r, acc.next), 0)),
                            next |-> IF r.id # 0 THEN acc.next ELSE acc.next + 1]
<1> DEFINE m == Matches(acc.old, r)
<1>1. acc = [old |-> acc.old, new |-> acc.new, next |-> acc.next]
  BY DEF Accs
<1>2. CASE m # {}
  <2>1. acc.old \in Seq(Info) /\ m \subseteq DOMAIN acc.old /\ m \subseteq Nat
    BY DEF Accs, Matches
  <2>2. First(m) \in m
    <3> HIDE DEF m
    <3> QED
      BY <1>2, <2>1, FirstIs
  <2>3. bind(acc, r) = [acc EXCEPT !.old = consume(@, First(m)),
                                   !.new = Append(@, adopt(acc.old, First(m), r))]
    BY <1>2 DEF bind
  <2> QED
    BY <1>1, <2>1, <2>2, <2>3 DEF consume, adopt
<1>3. CASE m = {}
  <2>1. bind(acc, r) = [acc EXCEPT
                          !.new = Append(@, create_info(r, id_for_request(r, acc.next), 0)),
                   !.next = IF r.id # 0 THEN @ ELSE @ + 1]
    BY <1>3 DEF bind
  <2> QED
    BY <1>1, <2>1
<1> QED
  BY <1>2, <1>3

\* A request leaves the loop with breakpoints.
LEMMA BindType ==
  ASSUME NEW acc \in Accs, NEW r \in Named
  PROVE  bind(acc, r) \in Accs
<1>1. acc.old \in Seq(Info) /\ acc.new \in Seq(Info) /\ acc.next \in Nat
  BY DEF Accs
<1>2. ASSUME NEW i \in DOMAIN acc.old
      PROVE  [old  |-> RemoveAt(acc.old, i),
              new  |-> Append(acc.new, create_info(r, acc.old[i].id, acc.old[i].times_hit)),
              next |-> acc.next] \in Accs
  <2>1. acc.old[i] \in Info
    BY <1>1, ElementIs
  <2>2. acc.old[i].id \in Int /\ acc.old[i].times_hit \in 0 .. MaxHits
    BY <2>1 DEF Info
  <2>3. create_info(r, acc.old[i].id, acc.old[i].times_hit) \in Info
    BY <2>2, CreateType
  <2> QED
    BY <1>1, <2>3, Removed, AppendIs DEF Accs
<1>3. [old  |-> acc.old, new  |-> Append(acc.new, create_info(r, id_for_request(r, acc.next), 0)),
       next |-> IF r.id # 0 THEN acc.next ELSE acc.next + 1] \in Accs
  <2>1. id_for_request(r, acc.next) \in Int
    BY <1>1 DEF id_for_request, Named
  <2>2. 0 \in 0 .. MaxHits
    BY BreakpointAssumption
  <2>3. create_info(r, id_for_request(r, acc.next), 0) \in Info
    BY <2>1, <2>2, CreateType
  <2> QED
    BY <1>1, <2>3, AppendIs DEF Accs
<1> QED
  BY <1>2, <1>3, BindCases

\* One request more: it takes one of the breakpoints left over.
LEMMA LoopTakes ==
  ASSUME NEW old \in Seq(Info), NEW reqs \in Seq(Named), NEW n \in Nat \ {0},
         \A k \in DOMAIN old : old[k].id < n,
         NEW i \in DOMAIN reqs, NEW acc, LoopOK(acc, i - 1, old, reqs, n),
         NEW b, b = bind(acc, reqs[i]), NEW x \in DOMAIN acc.old,
         b = [old  |-> RemoveAt(acc.old, x),
              new  |-> Append(acc.new, create_info(reqs[i], acc.old[x].id, acc.old[x].times_hit)),
              next |-> acc.next]
  PROVE  LoopOK(b, i, old, reqs, n)
<1> DEFINE e == create_info(reqs[i], acc.old[x].id, acc.old[x].times_hit)
<1>1. /\ acc \in Accs /\ acc.old \in Seq(Info) /\ acc.new \in Seq(Info) /\ acc.next \in Nat
      /\ reqs[i] \in Named /\ i \in Nat \ {0} /\ Len(acc.new) = i - 1
  BY ElementIs DEF LoopOK, Accs
<1>2. acc.old[x] \in Info /\ acc.old[x].id \in Int /\ acc.old[x].times_hit \in 0 .. MaxHits
  <2>1. acc.old[x] \in Info
    BY <1>1, ElementIs
  <2> QED
    BY <2>1 DEF Info
<1>3. /\ e \in Info /\ e.id = acc.old[x].id /\ e.times_hit = acc.old[x].times_hit
      /\ e.line = snap_line(reqs[i].line) /\ e.kind = reqs[i].kind
  <2>1. PICK r, d, h : r = reqs[i] /\ d = acc.old[x].id /\ h = acc.old[x].times_hit
    OBVIOUS
  <2>2. r \in Named /\ d \in Int /\ h \in 0 .. MaxHits
    BY <1>1, <1>2, <2>1
  <2>3. /\ create_info(r, d, h) \in Info
        /\ create_info(r, d, h).id = d /\ create_info(r, d, h).times_hit = h
        /\ create_info(r, d, h).line = snap_line(r.line) /\ create_info(r, d, h).kind = r.kind
    BY <2>2, CreateType
  <2> QED
    BY <2>1, <2>3
<1> HIDE DEF e
<1>4. b.old = RemoveAt(acc.old, x) /\ b.new = Append(acc.new, e) /\ b.next = acc.next
  BY DEF e
<1>5. /\ b.new \in Seq(Info) /\ Len(b.new) = i
      /\ \A k \in DOMAIN acc.new : b.new[k] = acc.new[k]
      /\ b.new[i] = e /\ \A k \in DOMAIN b.new : k \in DOMAIN acc.new \/ k = i
  BY <1>1, <1>3, <1>4, AppendIs
<1>6. /\ b.old \in Seq(Info)
      /\ \A k \in DOMAIN b.old : \E m \in DOMAIN acc.old :
           b.old[k] = acc.old[m] /\ m = IF k < x THEN k ELSE k + 1
  <2>1. PICK s : s = acc.old
    OBVIOUS
  <2>2. s \in Seq(Info) /\ x \in DOMAIN s /\ b.old = RemoveAt(s, x)
    BY <1>1, <1>4, <2>1
  <2>3. /\ RemoveAt(s, x) \in Seq(Info)
        /\ \A k \in DOMAIN RemoveAt(s, x) : \E m \in DOMAIN s :
             RemoveAt(s, x)[k] = s[m] /\ m = IF k < x THEN k ELSE k + 1
    BY <2>2, Removed
  <2> QED
    BY <2>1, <2>2, <2>3
<1>7. b \in Accs
  BY <1>1, BindType
<1>8. \A k \in DOMAIN b.old : \E m \in DOMAIN acc.old : m # x /\ b.old[k] = acc.old[m]
  <2> SUFFICES ASSUME NEW k \in DOMAIN b.old
               PROVE  \E m \in DOMAIN acc.old : m # x /\ b.old[k] = acc.old[m]
    OBVIOUS
  <2>1. k \in Nat /\ x \in Nat
    BY <1>1, <1>6, ElementIs
  <2>2. PICK m \in DOMAIN acc.old : b.old[k] = acc.old[m] /\ m = IF k < x THEN k ELSE k + 1
    BY <1>6
  <2>3. m # x
    BY <2>1, <2>2
  <2> QED
    BY <2>2, <2>3
<1>9. Distinct(b.old)
  <2> SUFFICES ASSUME NEW k \in DOMAIN b.old, NEW m \in DOMAIN b.old, b.old[k].id = b.old[m].id
               PROVE  k = m
    BY DEF Distinct
  <2>1. PICK kk \in DOMAIN acc.old : b.old[k] = acc.old[kk] /\ kk = IF k < x THEN k ELSE k + 1
    BY <1>6
  <2>2. PICK mm \in DOMAIN acc.old : b.old[m] = acc.old[mm] /\ mm = IF m < x THEN m ELSE m + 1
    BY <1>6
  <2>3. kk = mm
    BY <2>1, <2>2 DEF LoopOK, Distinct
  <2>4. k \in Nat /\ m \in Nat /\ x \in Nat
    BY <1>1, <1>6, ElementIs
  <2> QED
    BY <2>1, <2>2, <2>3, <2>4
<1>10. \A k \in DOMAIN b.old : \E m \in DOMAIN old : b.old[k] = old[m]
  BY <1>8 DEF LoopOK
<1>11. \A k \in DOMAIN b.new :
          b.new[k].line = snap_line(reqs[k].line) /\ b.new[k].kind = reqs[k].kind
  BY <1>3, <1>5 DEF LoopOK
<1>12. \A k \in DOMAIN b.new : Taken(b.new[k], old) \/ Made(b.new[k], b, n)
  <2>1. Taken(e, old)
    BY <1>3 DEF LoopOK, Taken
  <2> QED
    BY <1>4, <1>5, <2>1 DEF LoopOK, Made
<1>13. \A k \in DOMAIN b.new, m \in DOMAIN b.old : b.new[k].id # b.old[m].id
  <2> SUFFICES ASSUME NEW k \in DOMAIN b.new, NEW m \in DOMAIN b.old
               PROVE  b.new[k].id # b.old[m].id
    OBVIOUS
  <2>1. PICK mm \in DOMAIN acc.old : mm # x /\ b.old[m] = acc.old[mm]
    BY <1>8
  <2>2. CASE k = i
    BY <1>3, <1>5, <2>1, <2>2 DEF LoopOK, Distinct
  <2>3. CASE k \in DOMAIN acc.new
    BY <1>5, <2>1, <2>3 DEF LoopOK
  <2> QED
    BY <1>5, <2>2, <2>3
<1>14. Distinct(b.new)
  <2>1. \A k \in DOMAIN acc.new : acc.new[k].id # e.id
    BY <1>3 DEF LoopOK
  <2>2. i \notin DOMAIN acc.new
    BY <1>1
  <2>3. Distinct(acc.new)
    BY DEF LoopOK
  <2> QED
    BY <1>5, <2>1, <2>2, <2>3 DEF Distinct
<1> QED
  BY <1>4, <1>5, <1>7, <1>9, <1>10, <1>11, <1>12, <1>13, <1>14 DEF LoopOK

\* One request more: it makes a breakpoint.
LEMMA LoopMakes ==
  ASSUME NEW old \in Seq(Info), NEW reqs \in Seq(Named), NEW n \in Nat \ {0},
         \A k \in DOMAIN old : old[k].id < n,
         NEW i \in DOMAIN reqs, reqs[i].id = 0, NEW acc, LoopOK(acc, i - 1, old, reqs, n),
         NEW b, b = bind(acc, reqs[i]),
         b = [old  |-> acc.old,
              new  |-> Append(acc.new, create_info(reqs[i], acc.next, 0)),
              next |-> acc.next + 1]
  PROVE  LoopOK(b, i, old, reqs, n)
<1> DEFINE e == create_info(reqs[i], acc.next, 0)
<1>1. /\ acc \in Accs /\ acc.old \in Seq(Info) /\ acc.new \in Seq(Info) /\ acc.next \in Nat
      /\ reqs[i] \in Named /\ i \in Nat \ {0} /\ Len(acc.new) = i - 1 /\ n <= acc.next
  BY ElementIs DEF LoopOK, Accs
<1>2. 0 \in 0 .. MaxHits
  BY BreakpointAssumption
<1>3. /\ e \in Info /\ e.id = acc.next /\ e.times_hit = 0
      /\ e.line = snap_line(reqs[i].line) /\ e.kind = reqs[i].kind
  BY <1>1, <1>2, CreateType
<1> HIDE DEF e
<1>4. b.old = acc.old /\ b.new = Append(acc.new, e) /\ b.next = acc.next + 1
  BY DEF e
<1>5. /\ b.new \in Seq(Info) /\ Len(b.new) = i
      /\ \A k \in DOMAIN acc.new : b.new[k] = acc.new[k]
      /\ b.new[i] = e /\ \A k \in DOMAIN b.new : k \in DOMAIN acc.new \/ k = i
  BY <1>1, <1>3, <1>4, AppendIs
<1>6. b \in Accs
  BY <1>1, BindType
<1>7. \A k \in DOMAIN old : old[k].id \in Int
  <2>1. \A k \in DOMAIN old : old[k] \in Info
    BY ElementIs
  <2> QED
    BY <2>1 DEF Info
<1>8. \A k \in DOMAIN acc.old : acc.old[k].id # e.id
  <2> SUFFICES ASSUME NEW k \in DOMAIN acc.old PROVE acc.old[k].id # e.id
    OBVIOUS
  <2>1. PICK m \in DOMAIN old : acc.old[k] = old[m]
    BY DEF LoopOK
  <2> QED
    BY <1>1, <1>3, <1>7, <2>1
<1>9. \A k \in DOMAIN acc.new : acc.new[k].id # e.id
  <2> SUFFICES ASSUME NEW k \in DOMAIN acc.new PROVE acc.new[k].id # e.id
    OBVIOUS
  <2>1. CASE Taken(acc.new[k], old)
    BY <1>1, <1>3, <1>7, <2>1 DEF Taken
  <2>2. CASE Made(acc.new[k], acc, n)
    BY <1>1, <1>3, <2>2 DEF Made
  <2> QED
    BY <2>1, <2>2 DEF LoopOK
<1>10. \A k \in DOMAIN b.new :
          b.new[k].line = snap_line(reqs[k].line) /\ b.new[k].kind = reqs[k].kind
  BY <1>3, <1>5 DEF LoopOK
<1>11. \A k \in DOMAIN b.new : Taken(b.new[k], old) \/ Made(b.new[k], b, n)
  <2>1. Made(e, b, n)
    BY <1>1, <1>3, <1>4 DEF Made
  <2>2. \A k \in DOMAIN acc.new : Made(acc.new[k], acc, n) => Made(acc.new[k], b, n)
    BY <1>1, <1>4 DEF Made
  <2> QED
    BY <1>5, <2>1, <2>2 DEF LoopOK
<1>12. \A k \in DOMAIN b.new, m \in DOMAIN b.old : b.new[k].id # b.old[m].id
  <2> SUFFICES ASSUME NEW k \in DOMAIN b.new, NEW m \in DOMAIN acc.old
               PROVE  b.new[k].id # acc.old[m].id
    BY <1>4
  <2>1. CASE k \in DOMAIN acc.new
    <3>1. b.new[k] = acc.new[k]
      BY <1>5, <2>1
    <3> QED
      BY <2>1, <3>1 DEF LoopOK
  <2>2. CASE k = i
    BY <1>5, <1>8, <2>2
  <2> QED
    BY <1>5, <2>1, <2>2
<1>13. Distinct(b.new)
  <2>1. i \notin DOMAIN acc.new
    BY <1>1
  <2>2. Distinct(acc.new)
    BY DEF LoopOK
  <2> QED
    BY <1>5, <1>9, <2>1, <2>2 DEF Distinct
<1>14. /\ \A k \in DOMAIN b.old : \E m \in DOMAIN old : b.old[k] = old[m]
       /\ Distinct(b.old) /\ n <= b.next
  BY <1>1, <1>4 DEF LoopOK
<1> QED
  BY <1>5, <1>6, <1>10, <1>11, <1>12, <1>13, <1>14 DEF LoopOK

\* One more request.
LEMMA LoopStep ==
  ASSUME NEW old \in Seq(Info), NEW reqs \in Seq(Named), NEW n \in Nat \ {0},
         \A k \in DOMAIN old : old[k].id < n,
         NEW i \in DOMAIN reqs, reqs[i].id = 0, NEW acc, LoopOK(acc, i - 1, old, reqs, n)
  PROVE  LoopOK(bind(acc, reqs[i]), i, old, reqs, n)
<1>1. acc \in Accs /\ reqs[i] \in Named
  BY ElementIs DEF LoopOK
<1>2. id_for_request(reqs[i], acc.next) = acc.next
  BY DEF id_for_request
<1>3. PICK b : b = bind(acc, reqs[i])
  OBVIOUS
<1>4. CASE \E x \in DOMAIN acc.old :
              b = [old  |-> RemoveAt(acc.old, x),
                   new  |-> Append(acc.new, create_info(reqs[i], acc.old[x].id,
                                                        acc.old[x].times_hit)),
                   next |-> acc.next]
  BY <1>3, <1>4, LoopTakes
<1>5. CASE b = [old  |-> acc.old,
                new  |-> Append(acc.new,
                                create_info(reqs[i], id_for_request(reqs[i], acc.next), 0)),
                next |-> IF reqs[i].id # 0 THEN acc.next ELSE acc.next + 1]
  <2>1. b = [old |-> acc.old, new |-> Append(acc.new, create_info(reqs[i], acc.next, 0)),
             next |-> acc.next + 1]
    BY <1>2, <1>5
  <2> QED
    BY <1>3, <2>1, LoopMakes
<1> QED
  BY <1>1, <1>3, <1>4, <1>5, BindCases

\* Every request of a file gets one breakpoint, in order.
LEMMA BindAll ==
  ASSUME NEW old \in Seq(Info), NEW reqs \in Seq(Named), NEW n \in Nat \ {0},
         \A k \in DOMAIN old : old[k].id < n, Distinct(old),
         \A k \in DOMAIN reqs : reqs[k].id = 0
  PROVE  LoopOK(bind_all(old, reqs, n), Len(reqs), old, reqs, n)
<1> DEFINE start == [old |-> old, new |-> <<>>, next |-> n]
           len == Len(reqs)
           G == [x \in Accs \X (1 .. len) |-> bind(x[1], reqs[x[2]])]
           Runs(f) == f = [i \in 0 .. len |-> IF i = 0 THEN start ELSE bind(f[i - 1], reqs[i])]
<1>1. len \in Nat /\ \A i \in 1 .. len : reqs[i] \in Named /\ i \in DOMAIN reqs
  BY ElementIs
<1>2. start \in Accs
  BY DEF Accs
<1>3. \A x \in Accs, i \in 1 .. len : G[<<x, i>>] = bind(x, reqs[i]) /\ G[<<x, i>>] \in Accs
  BY <1>1, BindType
<1>4. \E f : Runs(f)
  <2>1. PICK f \in [0 .. len -> Accs] :
           f[0] = start /\ \A i \in 1 .. len : f[i] = G[<<f[i - 1], i>>]
    <3> HIDE DEF G, start, len
    <3>1. len \in Nat /\ \A x \in Accs, i \in 1 .. len : G[<<x, i>>] \in Accs
      BY <1>1, <1>3
    <3>2. PICK f : IsRun(f, Accs, len, start, G)
      BY <1>2, <3>1, LoopRuns
    <3> QED
      BY <3>2 DEF IsRun
  <2>2. ASSUME NEW i \in 0 .. len
        PROVE  f[i] = IF i = 0 THEN start ELSE bind(f[i - 1], reqs[i])
    <3>1. CASE i = 0
      BY <2>1, <3>1
    <3>2. CASE i # 0
      <4>1. i \in 1 .. len /\ i - 1 \in 0 .. len
        BY <1>1, <3>2
      <4>2. f[i - 1] \in Accs /\ f[i] = G[<<f[i - 1], i>>]
        BY <2>1, <4>1
      <4> HIDE DEF start, G
      <4> QED
        BY <1>3, <3>2, <4>1, <4>2
    <3> QED
      BY <3>1, <3>2
  <2>3. Runs(f)
    BY <2>1, <2>2
  <2> QED
    BY <2>3
<1>5. PICK f : Runs(f) /\ bind_all(old, reqs, n) = f[len]
  <2>1. bind_all(old, reqs, n) = (CHOOSE f : Runs(f))[len]
    BY DEF bind_all
  <2> HIDE DEF Runs
  <2> QED
    BY <1>4, <2>1
<1>6. f[0] = start /\ \A i \in 1 .. len : f[i] = bind(f[i - 1], reqs[i])
  <2>1. 0 \in 0 .. len /\ \A i \in 1 .. len : i \in 0 .. len /\ i # 0
    BY <1>1
  <2> QED
    BY <1>5, <2>1
<1> DEFINE T == {i \in 0 .. len : LoopOK(f[i], i, old, reqs, n)}
<1>7. 0 \in T
  <2>1. start.old = old /\ start.new = <<>> /\ start.next = n
    OBVIOUS
  <2>2. LoopOK(start, 0, old, reqs, n)
    <3> HIDE DEF start
    <3> QED
      BY <1>2, <2>1 DEF LoopOK, Distinct
  <2> QED
    BY <1>1, <1>6, <2>2
<1>8. ASSUME NEW i \in 1 .. len, i - 1 \in T
      PROVE  i \in T
  <2>1. LoopOK(bind(f[i - 1], reqs[i]), i, old, reqs, n)
    BY <1>1, <1>8, LoopStep
  <2> QED
    BY <1>1, <1>6, <2>1
<1>9. len \in T
  <2> HIDE DEF T, len
  <2>1. len \in Nat /\ len \in 0 .. len
    BY <1>1
  <2>2. \A i \in 0 .. len : i \in T
    BY <1>7, <1>8, <2>1, CountUp
  <2> QED
    BY <2>1, <2>2
<1> QED
  BY <1>5, <1>9

(***************************************************************************)
(* The breakpoints of a file that is not compiled take the next ids.       *)
(***************************************************************************)
\* A set with one more element counts at least one more.
LEMMA CountsMore ==
  ASSUME NEW S, NEW R, NEW x, IsFiniteSet(R), S \subseteq R, x \in R, x \notin S
  PROVE  /\ IsFiniteSet(S) /\ Cardinality(S) \in Nat /\ Cardinality(R) \in Nat
         /\ Cardinality(S) < Cardinality(R)
<1>1. IsFiniteSet(R \ {x}) /\ Cardinality(R \ {x}) = Cardinality(R) - 1
  BY FS_RemoveElement
<1>2. S \subseteq R \ {x}
  OBVIOUS
<1>3. IsFiniteSet(S) /\ Cardinality(S) <= Cardinality(R \ {x})
  BY <1>1, <1>2, FS_Subset
<1>4. Cardinality(S) \in Nat /\ Cardinality(R) \in Nat
  BY <1>3, FS_CardinalityType
<1> QED
  BY <1>1, <1>3, <1>4

\* Some of finitely many requests.
LEMMA UnnumberedFinite ==
  ASSUME NEW reqs, NEW n \in Int
  PROVE  IsFiniteSet(Unnumbered(reqs, n)) /\ Cardinality(Unnumbered(reqs, n)) \in Nat
<1>1. IsFiniteSet(1 .. n)
  BY FS_Interval
<1>2. Unnumbered(reqs, n) \subseteq 1 .. n
  BY DEF Unnumbered
<1>3. IsFiniteSet(Unnumbered(reqs, n))
  BY <1>1, <1>2, FS_Subset
<1> QED
  BY <1>3, FS_CardinalityType

\* number gives an id to each request without one, and changes no other.
LEMMA Numbered ==
  ASSUME NEW reqs \in Seq(Named), NEW next \in Nat \ {0}
  PROVE  /\ number(reqs, next) \in Seq(Named) /\ Len(number(reqs, next)) = Len(reqs)
         /\ DOMAIN number(reqs, next) = DOMAIN reqs
         /\ \A i \in DOMAIN reqs :
              /\ number(reqs, next)[i].line = reqs[i].line
              /\ number(reqs, next)[i].kind = reqs[i].kind
              /\ reqs[i].id # 0 => number(reqs, next)[i] = reqs[i]
              /\ reqs[i].id = 0 =>
                   number(reqs, next)[i].id = next + Cardinality(Unnumbered(reqs, i - 1))
<1> DEFINE id(i) == id_for_request(reqs[i], next + Cardinality(Unnumbered(reqs, i - 1)))
           one(i) == [reqs[i] EXCEPT !.id = id(i)]
<1>1. number(reqs, next) = [i \in DOMAIN reqs |-> one(i)]
  BY DEF number
<1>2. ASSUME NEW i \in DOMAIN reqs
      PROVE  /\ one(i) \in Named /\ one(i).line = reqs[i].line /\ one(i).kind = reqs[i].kind
             /\ reqs[i].id # 0 => one(i) = reqs[i]
             /\ reqs[i].id = 0 => one(i).id = next + Cardinality(Unnumbered(reqs, i - 1))
  <2>1. reqs[i] \in Named /\ i \in Nat
    BY ElementIs
  <2>2. Cardinality(Unnumbered(reqs, i - 1)) \in Nat
    BY <2>1, UnnumberedFinite
  <2>3. id(i) \in Int
    BY <2>1, <2>2 DEF id_for_request, Named
  <2>4. reqs[i].id # 0 => id(i) = reqs[i].id
    BY DEF id_for_request
  <2>5. reqs[i].id = 0 => id(i) = next + Cardinality(Unnumbered(reqs, i - 1))
    BY DEF id_for_request
  <2> HIDE DEF id
  <2> QED
    BY <2>1, <2>3, <2>4, <2>5 DEF Named
<1> HIDE DEF one
<1>3. DOMAIN reqs = 1 .. Len(reqs) /\ Len(reqs) \in Nat
  OBVIOUS
<1>4. number(reqs, next) \in Seq(Named) /\ Len(number(reqs, next)) = Len(reqs)
  BY <1>1, <1>2, <1>3
<1> QED
  BY <1>1, <1>2, <1>4

(***************************************************************************)
(* A selection of all, or of no, elements.                                 *)
(***************************************************************************)
LEMMA SelectAll ==
  ASSUME NEW S, NEW s \in Seq(S)
  PROVE  Select(s, DOMAIN s) = s
<1>1. DOMAIN s = 1 .. Len(s) /\ Len(s) \in Nat /\ s = [i \in DOMAIN s |-> s[i]]
  OBVIOUS
<1>2. Cardinality(DOMAIN s) = Len(s)
  BY <1>1, FS_Interval
<1>3. ASSUME NEW i \in DOMAIN s
      PROVE  Cardinality({j \in DOMAIN s : j <= i}) = i
  <2>1. {j \in DOMAIN s : j <= i} = 1 .. i
    BY <1>1
  <2>2. i \in Nat /\ ~(1 > i)
    BY <1>1
  <2>3. Cardinality(1 .. i) = i
    BY <2>2, FS_Interval
  <2> QED
    BY <2>1, <2>3
<1>4. ASSUME NEW n \in DOMAIN s
      PROVE  Nth(DOMAIN s, n) = n
  BY <1>3 DEF Nth
<1> QED
  BY <1>1, <1>2, <1>4 DEF Select

\* A selection at no position is empty.
LEMMA SelectNone ==
  ASSUME NEW s
  PROVE  DOMAIN Select(s, {}) = {}
<1>1. Cardinality({}) = 0
  BY FS_EmptySet
<1> QED
  BY <1>1 DEF Select

(***************************************************************************)
(* A new session: every file's breakpoints take the next ids in turn.      *)
(***************************************************************************)
BPLists ==
  pending \in [Path -> Seq(Named)] /\ \A p \in Path : Len(pending[p]) <= MaxBreakpoints

\* The requests that took an id before the i-th one of p did.
Before(rank, p, i) ==
  UnnumberedIn({q \in Path : rank[q] < rank[p]}) \cup ({p} \X Unnumbered(pending[p], i - 1))

\* What UnnumberedIn is made of.
LEMMA InUnnumbered ==
  ASSUME NEW P, NEW p, NEW i
  PROVE  <<p, i>> \in UnnumberedIn(P) <=> p \in P /\ i \in Unnumbered(pending[p], Len(pending[p]))
<1> DEFINE U(q) == Unnumbered(pending[q], Len(pending[q]))
<1>1. UnnumberedIn(P) = UNION {{q} \X U(q) : q \in P}
  BY DEF UnnumberedIn
<1>2. \A q : <<p, i>> \in {q} \X U(q) <=> p = q /\ i \in U(q)
  BY Zenon
<1> HIDE DEF U
<1>3. <<p, i>> \in UnnumberedIn(P) <=> \E q \in P : <<p, i>> \in {q} \X U(q)
  BY <1>1
<1> QED
  BY <1>2, <1>3 DEF U

\* It holds pairs only.
LEMMA UnnumberedPairs ==
  ASSUME NEW P
  PROVE  \A x \in UnnumberedIn(P) : \E p, i : x = <<p, i>>
<1> DEFINE U(q) == Unnumbered(pending[q], Len(pending[q]))
<1>1. UnnumberedIn(P) = UNION {{q} \X U(q) : q \in P}
  BY DEF UnnumberedIn
<1>2. \A q : \A x \in {q} \X U(q) : \E p, i : x = <<p, i>>
  OBVIOUS
<1> QED
  BY <1>1, <1>2

\* The requests of a file that take an id.
LEMMA IsUnnumbered ==
  ASSUME BPLists, NEW p \in Path, NEW i
  PROVE  i \in Unnumbered(pending[p], Len(pending[p]))
         <=> i \in DOMAIN pending[p] /\ pending[p][i].id = 0
<1>1. pending[p] \in Seq(Named)
  BY DEF BPLists
<1>2. DOMAIN pending[p] = 1 .. Len(pending[p])
  BY <1>1
<1> QED
  BY <1>2 DEF Unnumbered

\* Finitely many in all.
LEMMA AllFinite ==
  ASSUME BPLists, NEW P \in SUBSET Path
  PROVE  IsFiniteSet(UnnumberedIn(P)) /\ Cardinality(UnnumberedIn(P)) \in Nat
<1>1. IsFiniteSet(Path) /\ IsFiniteSet(1 .. MaxBreakpoints)
  BY BreakpointAssumption, FS_Interval
<1>2. IsFiniteSet(Path \X (1 .. MaxBreakpoints))
  BY <1>1, FS_Product
<1>3. ASSUME NEW x \in UnnumberedIn(P)
      PROVE  x \in Path \X (1 .. MaxBreakpoints)
  <2>1. PICK p, i : x = <<p, i>>
    BY UnnumberedPairs
  <2>2. p \in P /\ i \in Unnumbered(pending[p], Len(pending[p]))
    BY <2>1, InUnnumbered
  <2>3. p \in Path /\ pending[p] \in Seq(Named) /\ Len(pending[p]) <= MaxBreakpoints
    BY <2>2 DEF BPLists
  <2>4. i \in 1 .. MaxBreakpoints
    <3>1. i \in 1 .. Len(pending[p]) /\ Len(pending[p]) \in Nat /\ MaxBreakpoints \in Nat
      BY <2>2, <2>3, BreakpointAssumption DEF Unnumbered
    <3> QED
      BY <2>3, <3>1
  <2> QED
    BY <2>1, <2>3, <2>4
<1>4. UnnumberedIn(P) \subseteq Path \X (1 .. MaxBreakpoints)
  BY <1>3
<1>5. IsFiniteSet(UnnumberedIn(P))
  BY <1>2, <1>4, FS_Subset
<1> QED
  BY <1>5, FS_CardinalityType

\* The number of requests before one decides its id.
LEMMA BeforeCount ==
  ASSUME BPLists, NEW rank \in Orders, NEW p \in Path, NEW i \in DOMAIN pending[p]
  PROVE  Cardinality(Before(rank, p, i))
         = Cardinality(UnnumberedIn({q \in Path : rank[q] < rank[p]}))
           + Cardinality(Unnumbered(pending[p], i - 1))
<1> DEFINE A == UnnumberedIn({q \in Path : rank[q] < rank[p]})
           U == Unnumbered(pending[p], i - 1)
           B == {p} \X U
<1>1. pending[p] \in Seq(Named) /\ i \in Nat
  BY ElementIs DEF BPLists
<1>2. IsFiniteSet(A) /\ Cardinality(A) \in Nat
  BY AllFinite
<1>3. IsFiniteSet(U) /\ Cardinality(U) \in Nat
  BY <1>1, UnnumberedFinite
<1>4. IsFiniteSet({p}) /\ Cardinality({p}) = 1
  BY FS_Singleton
<1>5. IsFiniteSet(B) /\ Cardinality(B) = Cardinality(U)
  <2> HIDE DEF U
  <2>1. IsFiniteSet(B) /\ Cardinality(B) = 1 * Cardinality(U)
    BY <1>3, <1>4, FS_Product
  <2> QED
    BY <1>3, <2>1
<1>6. rank[p] \in Nat
  BY DEF Orders
<1>7. A \cap B = {}
  <2> SUFFICES ASSUME NEW x \in A, x \in B PROVE FALSE
    OBVIOUS
  <2>1. PICK j : x = <<p, j>>
    OBVIOUS
  <2>2. p \in {q \in Path : rank[q] < rank[p]}
    BY <2>1, InUnnumbered
  <2> QED
    BY <1>6, <2>2
<1>8. Cardinality(A \cap B) = 0
  BY <1>7, FS_EmptySet
<1> HIDE DEF A, U, B
<1>9. Cardinality(A \cup B) = Cardinality(A) + Cardinality(B) - Cardinality(A \cap B)
  BY <1>2, <1>5, FS_Union
<1>10. Cardinality(A \cup B) = Cardinality(A) + Cardinality(U)
  BY <1>2, <1>3, <1>5, <1>8, <1>9
<1> QED
  BY <1>10 DEF Before, A, B, U

\* Of two requests that take an id one is before the other.
LEMMA BeforeOrder ==
  ASSUME BPLists, NEW rank \in Orders,
         NEW p \in Path, NEW i \in DOMAIN pending[p], pending[p][i].id = 0,
         NEW q \in Path, NEW j \in DOMAIN pending[q], pending[q][j].id = 0,
         rank[p] < rank[q] \/ (p = q /\ i < j)
  PROVE  Cardinality(Before(rank, p, i)) < Cardinality(Before(rank, q, j))
<1> DEFINE x == <<p, i>>
           R == Before(rank, q, j)
           A(s) == UnnumberedIn({r \in Path : rank[r] < rank[s]})
           B(s, n) == {s} \X Unnumbered(pending[s], n - 1)
<1>1. i \in Nat /\ j \in Nat
  BY ElementIs DEF BPLists
<1>2. \A r \in Path : rank[r] \in Nat
  BY DEF Orders
<1>3. i \in Unnumbered(pending[p], Len(pending[p]))
  BY IsUnnumbered
<1>4. IsFiniteSet(R)
  <2>1. IsFiniteSet(A(q))
    BY AllFinite
  <2>2. IsFiniteSet(Unnumbered(pending[q], j - 1)) /\ IsFiniteSet({q})
    <3>1. j - 1 \in Int
      BY <1>1
    <3>2. IsFiniteSet(Unnumbered(pending[q], j - 1))
      BY <3>1, UnnumberedFinite
    <3> QED
      BY <3>2, FS_Singleton
  <2>3. IsFiniteSet(B(q, j))
    <3> DEFINE U == Unnumbered(pending[q], j - 1)
    <3> HIDE DEF U
    <3>1. IsFiniteSet({q} \X U)
      BY <2>2, FS_Product DEF U
    <3> QED
      BY <3>1 DEF U
  <2> HIDE DEF A, B
  <2>4. IsFiniteSet(A(q) \cup B(q, j))
    BY <2>1, <2>3, FS_Union
  <2> QED
    BY <2>4 DEF Before, A, B
<1>5. \A n : n \in Unnumbered(pending[p], i - 1)
             => n \in Unnumbered(pending[p], Len(pending[p])) /\ n \in Nat /\ n < i
  <2>1. pending[p] \in Seq(Named) /\ i \in 1 .. Len(pending[p]) /\ Len(pending[p]) \in Nat
    BY ElementIs DEF BPLists
  <2> QED
    BY <2>1 DEF Unnumbered
<1>6. x \notin Before(rank, p, i)
  <2>1. ASSUME x \in A(p)
        PROVE  FALSE
    <3>1. p \in {r \in Path : rank[r] < rank[p]}
      BY <2>1, InUnnumbered
    <3> QED
      BY <1>2, <3>1
  <2>2. ASSUME x \in B(p, i)
        PROVE  FALSE
    <3>1. i \in Unnumbered(pending[p], i - 1)
      BY <2>2
    <3> QED
      BY <1>1, <1>5, <3>1
  <2> QED
    BY <2>1, <2>2 DEF Before
<1>7. CASE rank[p] < rank[q]
  <2>1. \A n : n \in Unnumbered(pending[p], Len(pending[p])) => <<p, n>> \in A(q)
    BY <1>7, InUnnumbered
  <2>2. x \in R
    BY <1>3, <2>1 DEF Before
  <2>3. A(p) \subseteq A(q)
    <3> SUFFICES ASSUME NEW y \in A(p) PROVE y \in A(q)
      OBVIOUS
    <3>1. PICK r, n : y = <<r, n>>
      BY UnnumberedPairs
    <3>2. r \in {s \in Path : rank[s] < rank[p]} /\ n \in Unnumbered(pending[r], Len(pending[r]))
      BY <3>1, InUnnumbered
    <3>3. rank[r] < rank[q]
      BY <1>2, <1>7, <3>2
    <3>4. r \in {s \in Path : rank[s] < rank[q]}
      BY <3>2, <3>3
    <3> QED
      BY <3>1, <3>2, <3>4, InUnnumbered
  <2>4. B(p, i) \subseteq A(q)
    BY <1>5, <2>1
  <2>5. Before(rank, p, i) \subseteq R
    BY <2>3, <2>4 DEF Before
  <2> QED
    BY <1>4, <1>6, <2>2, <2>5, CountsMore
<1>8. CASE p = q /\ i < j
  <2>1. \A n : n \in Unnumbered(pending[p], i - 1) => n \in Unnumbered(pending[p], j - 1)
    BY <1>1, <1>8 DEF Unnumbered
  <2>2. i \in Unnumbered(pending[p], j - 1)
    <3>1. i \in 1 .. (j - 1)
      <4>1. i >= 1
        BY <1>3 DEF Unnumbered
      <4> QED
        BY <1>1, <1>8, <4>1
    <3> QED
      BY <3>1 DEF Unnumbered
  <2>3. x \in R
    BY <1>8, <2>2 DEF Before
  <2>4. B(p, i) \subseteq B(q, j)
    BY <1>8, <2>1
  <2>5. Before(rank, p, i) \subseteq R
    BY <1>8, <2>4 DEF Before
  <2> QED
    BY <1>4, <1>6, <2>3, <2>5, CountsMore
<1> QED
  BY <1>7, <1>8

\* A request takes an id below the next one of the session.
LEMMA BeforeAll ==
  ASSUME BPLists, NEW rank \in Orders,
         NEW p \in Path, NEW i \in DOMAIN pending[p], pending[p][i].id = 0
  PROVE  /\ Cardinality(Before(rank, p, i)) \in Nat
         /\ Cardinality(Before(rank, p, i)) < Cardinality(UnnumberedIn(Path))
<1> DEFINE x == <<p, i>>
           A == UnnumberedIn({r \in Path : rank[r] < rank[p]})
           B == {p} \X Unnumbered(pending[p], i - 1)
<1>1. i \in Nat /\ \A r \in Path : rank[r] \in Nat
  BY ElementIs DEF BPLists, Orders
<1>2. i \in Unnumbered(pending[p], Len(pending[p]))
  BY IsUnnumbered
<1>3. \A n : n \in Unnumbered(pending[p], i - 1)
             => n \in Unnumbered(pending[p], Len(pending[p])) /\ n \in Nat /\ n < i
  <2>1. pending[p] \in Seq(Named) /\ i \in 1 .. Len(pending[p]) /\ Len(pending[p]) \in Nat
    BY ElementIs DEF BPLists
  <2> QED
    BY <2>1 DEF Unnumbered
<1>4. \A n : n \in Unnumbered(pending[p], Len(pending[p])) => <<p, n>> \in UnnumberedIn(Path)
  BY InUnnumbered
<1>5. x \in UnnumberedIn(Path) /\ B \subseteq UnnumberedIn(Path)
  BY <1>2, <1>3, <1>4
<1>6. A \subseteq UnnumberedIn(Path)
  <2> SUFFICES ASSUME NEW y \in A PROVE y \in UnnumberedIn(Path)
    OBVIOUS
  <2>1. PICK r, n : y = <<r, n>>
    BY UnnumberedPairs
  <2>2. r \in {s \in Path : rank[s] < rank[p]} /\ n \in Unnumbered(pending[r], Len(pending[r]))
    BY <2>1, InUnnumbered
  <2> QED
    BY <2>1, <2>2, InUnnumbered
<1>7. x \notin A
  <2>1. ASSUME x \in A
        PROVE  FALSE
    <3>1. p \in {r \in Path : rank[r] < rank[p]}
      BY <2>1, InUnnumbered
    <3> QED
      BY <1>1, <3>1
  <2> QED
    BY <2>1
<1>8. x \notin B
  <2>1. ASSUME x \in B
        PROVE  FALSE
    <3>1. i \in Unnumbered(pending[p], i - 1)
      BY <2>1
    <3> QED
      BY <1>1, <1>3, <3>1
  <2> QED
    BY <2>1
<1>9. IsFiniteSet(UnnumberedIn(Path))
  BY AllFinite
<1>10. Before(rank, p, i) = A \cup B
  BY DEF Before
<1>11. Before(rank, p, i) \subseteq UnnumberedIn(Path) /\ x \notin Before(rank, p, i)
  BY <1>5, <1>6, <1>7, <1>8, <1>10
<1> QED
  BY <1>5, <1>9, <1>11, CountsMore

(***************************************************************************)
(* The inductive invariant.                                                *)
(***************************************************************************)
IsCheck(c) == c = [path |-> c.path, line |-> c.line, left |-> c.left, hit |-> c.hit]

BPTypes ==
  /\ session \in {"none", "failed", "live"}
  /\ pending \in [Path -> Seq(Named)] /\ path_bps \in [Path -> Seq(Named)]
  /\ bound \in [Path -> Seq(Info)]
  /\ \A p \in Path : Len(pending[p]) <= MaxBreakpoints /\ Len(path_bps[p]) <= MaxBreakpoints
  /\ shown \in [Path -> SUBSET Named]
  /\ next_id \in Nat \ {0} /\ next_pending_id \in Int /\ next_pending_id < 0
  /\ active \in BOOLEAN
  /\ late \in SUBSET Path /\ reapplied \in SUBSET late
  /\ setter \in {"idle", "flag"} /\ exec \in {"off", "config", "flag", "run"}
  /\ chk = [t \in Debuggee |-> chk[t]] /\ \A t \in Debuggee : IsCheck(chk[t])
  /\ sets \in 0 .. MaxSets

\* No two breakpoints of all files share an id.
AllDistinct(bps) ==
  \A p, q \in Path : \A i \in DOMAIN bps[p], j \in DOMAIN bps[q] :
    bps[p][i].id = bps[q][j].id => p = q /\ i = j

\* Ids of the session come before next_id; requests that wait have an id from
\* before the session, below it, or none.
BPIdsOK ==
  /\ \A p \in Path : \A i \in DOMAIN path_bps[p] :
       path_bps[p][i].id # 0 /\ path_bps[p][i].id < next_id
  /\ AllDistinct(path_bps)
  /\ \A p \in Path : \A i \in DOMAIN pending[p] :
       pending[p][i].id = 0 \/ (next_pending_id < pending[p][i].id /\ pending[p][i].id < 0)
  /\ \A p, q \in Path : \A i \in DOMAIN pending[p], j \in DOMAIN pending[q] :
       pending[p][i].id = pending[q][j].id /\ pending[p][i].id # 0 => p = q /\ i = j

\* What is bound is what was asked for, one for one; nothing is before the
\* program is compiled or in files that are not part of it.
Agrees(b, reqs) ==
  /\ Len(b) = Len(reqs)
  /\ \A i \in DOMAIN b :
       b[i].id = reqs[i].id /\ b[i].kind = reqs[i].kind /\ b[i].line = snap_line(reqs[i].line)

BPBoundOK ==
  /\ \A p \in Path : bound[p] # <<>> => Agrees(bound[p], path_bps[p])
  /\ \A p \in Path : session # "live" \/ p \notin Known => bound[p] = <<>>
  /\ exec # "off" => session = "live"
  /\ session = "none" => \A p \in Path : path_bps[p] = <<>>

\* The client was told of what it will be told that it is bound; of what waits
\* for the session, unless it was set again since, under the id it waits with.
BPShownOK ==
  /\ \A p \in Path \ reapplied : \A i \in DOMAIN path_bps[p] : path_bps[p][i] \in shown[p]
  /\ \A p \in Path \ late : \A i \in DOMAIN pending[p] :
       pending[p][i].id # 0 /\ pending[p][i] \in shown[p]

BPInv == BPTypes /\ BPIdsOK /\ BPBoundOK /\ BPShownOK /\ FlagIsTrue

\* The client is told of the requests with their ids.
LEMMA ToldIs ==
  ASSUME NEW reqs \in Seq(Named)
  PROVE  Told(reqs) = {reqs[i] : i \in DOMAIN reqs} /\ Told(reqs) \in SUBSET Named
<1>1. ASSUME NEW i \in DOMAIN reqs
      PROVE  [id |-> reqs[i].id, line |-> reqs[i].line, kind |-> reqs[i].kind] = reqs[i]
             /\ reqs[i] \in Named
  <2>1. PICK r \in Named : r = reqs[i]
    BY ElementIs
  <2>2. [id |-> r.id, line |-> r.line, kind |-> r.kind] = r
    BY DEF Named
  <2> QED
    BY <2>1, <2>2
<1> QED
  BY <1>1 DEF Told

\* What a client sends: no more than a list of requests without ids.
LEMMA RequestsAre ==
  ASSUME NEW reqs \in RequestLists
  PROVE  /\ reqs \in Seq(Named) /\ Len(reqs) <= MaxBreakpoints
         /\ \A i \in DOMAIN reqs : reqs[i].id = 0
<1>1. PICK n \in 0 .. MaxBreakpoints : reqs \in [1 .. n -> Request]
  BY DEF RequestLists
<1>2. Request \subseteq Named
  BY DEF Request, Named
<1>3. n \in Nat /\ n <= MaxBreakpoints
  BY <1>1, BreakpointAssumption
<1>4. reqs \in Seq(Named) /\ Len(reqs) = n
  BY <1>1, <1>2, <1>3
<1>5. \A i \in DOMAIN reqs : reqs[i].id = 0
  BY <1>1 DEF Request
<1> QED
  BY <1>3, <1>4, <1>5

\* What is bound has the ids of what was asked for.
LEMMA BoundDistinct ==
  ASSUME BPInv, NEW p \in Path
  PROVE  /\ Distinct(bound[p]) /\ bound[p] \in Seq(Info) /\ path_bps[p] \in Seq(Named)
         /\ \A i \in DOMAIN bound[p] : /\ i \in DOMAIN path_bps[p]
                                       /\ bound[p][i].id = path_bps[p][i].id
                                       /\ bound[p][i].id < next_id
<1>1. bound[p] \in Seq(Info) /\ path_bps[p] \in Seq(Named)
  BY DEF BPInv, BPTypes
<1>2. CASE bound[p] = <<>>
  BY <1>1, <1>2 DEF Distinct
<1>3. CASE bound[p] # <<>>
  <2>1. Agrees(bound[p], path_bps[p])
    BY <1>3 DEF BPInv, BPBoundOK
  <2>2. DOMAIN bound[p] = DOMAIN path_bps[p]
    BY <1>1, <2>1 DEF Agrees
  <2>3. \A i \in DOMAIN bound[p] : bound[p][i].id = path_bps[p][i].id
    BY <2>1 DEF Agrees
  <2>4. \A i \in DOMAIN path_bps[p] : path_bps[p][i].id < next_id
    BY DEF BPInv, BPIdsOK
  <2>5. \A i, j \in DOMAIN path_bps[p] : path_bps[p][i].id = path_bps[p][j].id => i = j
    BY DEF BPInv, BPIdsOK, AllDistinct
  <2> QED
    BY <1>1, <2>2, <2>3, <2>4, <2>5 DEF Distinct
<1> QED
  BY <1>2, <1>3

\* No breakpoint is set when the adapter starts.
LEMMA BPInitially == ASSUME BreakpointsInit PROVE BPInv
<1>1. \A p \in Path : pending[p] = <<>> /\ path_bps[p] = <<>> /\ bound[p] = <<>> /\ shown[p] = {}
  BY DEF BreakpointsInit
<1>2. BPTypes
  <2>1. /\ pending \in [Path -> Seq(Named)] /\ path_bps \in [Path -> Seq(Named)]
        /\ bound \in [Path -> Seq(Info)] /\ shown \in [Path -> SUBSET Named]
    BY DEF BreakpointsInit
  <2>2. \A p \in Path : Len(pending[p]) <= MaxBreakpoints /\ Len(path_bps[p]) <= MaxBreakpoints
    BY <1>1, BreakpointAssumption
  <2>3. chk = [t \in Debuggee |-> chk[t]] /\ \A t \in Debuggee : IsCheck(chk[t])
    BY DEF BreakpointsInit, NoCheck, IsCheck
  <2>4. sets \in 0 .. MaxSets
    BY BreakpointAssumption DEF BreakpointsInit
  <2>5. /\ next_id \in Nat \ {0} /\ next_pending_id \in Int /\ next_pending_id < 0
        /\ active \in BOOLEAN /\ late \in SUBSET Path /\ reapplied \in SUBSET late
        /\ session = "none" /\ setter = "idle" /\ exec = "off"
    <3>1. next_id = 1 /\ next_pending_id = -1
      BY Zenon DEF BreakpointsInit
    <3>2. active = FALSE /\ late = {} /\ reapplied = {}
      BY Zenon DEF BreakpointsInit
    <3>3. session = "none" /\ setter = "idle" /\ exec = "off"
      BY Zenon DEF BreakpointsInit
    <3>4. 1 \in Nat \ {0} /\ -1 \in Int /\ -1 < 0
      OBVIOUS
    <3> QED
      BY <3>1, <3>2, <3>3, <3>4
  <2> QED
    BY <2>1, <2>2, <2>3, <2>4, <2>5 DEF BPTypes
<1>3. \A p \in Path : DOMAIN pending[p] = {} /\ DOMAIN path_bps[p] = {}
  BY <1>1
<1>4. BPIdsOK
  BY <1>3 DEF BPIdsOK, AllDistinct
<1>5. BPBoundOK
  BY <1>1 DEF BPBoundOK, BreakpointsInit
<1>6. BPShownOK
  BY <1>3 DEF BPShownOK
<1>7. FlagIsTrue
  BY <1>1 DEF FlagIsTrue, HasAny, BreakpointsInit
<1> QED
  BY <1>2, <1>4, <1>5, <1>6, <1>7 DEF BPInv

\* A step that changes no breakpoint.
BreakpointsStay ==
  UNCHANGED <<session, pending, path_bps, bound, next_id, next_pending_id, shown, late, reapplied,
              sets>>

\* Such a step keeps the invariant when the flag is true after it.
LEMMA StayOK ==
  ASSUME BPInv, BreakpointsStay, active' \in BOOLEAN,
         setter' \in {"idle", "flag"}, exec' \in {"off", "config", "flag", "run"},
         exec' # "off" => session = "live", FlagIsTrue',
         chk' = [t \in Debuggee |-> chk'[t]], \A t \in Debuggee : IsCheck(chk'[t])
  PROVE  BPInv'
<1>1. BPTypes'
  BY DEF BPInv, BPTypes, BreakpointsStay
<1>2. BPIdsOK'
  BY DEF BPInv, BPIdsOK, AllDistinct, BreakpointsStay
<1>3. BPBoundOK'
  BY DEF BPInv, BPBoundOK, BreakpointsStay
<1>4. BPShownOK'
  BY DEF BPInv, BPShownOK, BreakpointsStay
<1> QED
  BY <1>1, <1>2, <1>3, <1>4 DEF BPInv

\* A breakpoint that is not touched keeps its hits, and a check that is not
\* stops nobody.
LEMMA HitsStay ==
  ASSUME BPInv, bound' = bound
  PROVE  KeepsHits
<1>1. \A p \in Path : Distinct(bound[p]) /\ \A i \in DOMAIN bound[p] : bound[p][i] \in Info
  <2> SUFFICES ASSUME NEW p \in Path
               PROVE  Distinct(bound[p]) /\ \A i \in DOMAIN bound[p] : bound[p][i] \in Info
    OBVIOUS
  <2>1. Distinct(bound[p]) /\ bound[p] \in Seq(Info)
    BY BoundDistinct
  <2> QED
    BY <2>1, ElementIs
<1>2. \A p \in Path : \A i \in DOMAIN bound[p] : bound[p][i].times_hit \in Int
  BY <1>1, BreakpointAssumption DEF Info
<1> QED
  BY <1>1, <1>2 DEF KeepsHits, Distinct

\* The protocol thread brings the flag up to date.
LEMMA FlagUpdated ==
  ASSUME BPInv, update_flag
  PROVE  BPInv' /\ StopsForBound /\ KeepsHits
<1>1. BreakpointsStay /\ exec' = exec /\ chk' = chk /\ active' \in BOOLEAN /\ setter' = "idle"
  BY DEF update_flag, BreakpointsStay, HasAny
<1>2. FlagIsTrue'
  BY DEF update_flag, FlagIsTrue, HasAny
<1>3. BPInv'
  BY <1>1, <1>2, StayOK DEF BPInv, BPTypes, BPBoundOK
<1> QED
  BY <1>1, <1>3, HitsStay DEF StopsForBound, BreakpointsStay

\* So does the execution thread.
LEMMA FlagResolved ==
  ASSUME BPInv, resolve_flag
  PROVE  BPInv' /\ StopsForBound /\ KeepsHits
<1>1. BreakpointsStay /\ exec' = "run" /\ chk' = chk /\ active' \in BOOLEAN /\ setter' = setter
  BY DEF resolve_flag, BreakpointsStay, HasAny
<1>2. FlagIsTrue'
  BY DEF resolve_flag, FlagIsTrue, HasAny
<1>3. session = "live"
  BY DEF BPInv, BPBoundOK, resolve_flag
<1>4. BPInv'
  BY <1>1, <1>2, <1>3, StayOK DEF BPInv, BPTypes
<1> QED
  BY <1>1, <1>4, HitsStay DEF StopsForBound, BreakpointsStay

\* A step of a check that touches no breakpoint.
LEMMA CheckStep ==
  ASSUME BPInv, BreakpointsStay, UNCHANGED <<active, setter, exec>>, NEW t \in Debuggee, NEW c,
         chk' = [chk EXCEPT ![t] = c], IsCheck(c), c.hit = 0 \/ c.hit = chk[t].hit
  PROVE  BPInv' /\ StopsForBound /\ KeepsHits
<1>1. chk = [s \in Debuggee |-> chk[s]] /\ \A s \in Debuggee : IsCheck(chk[s])
  BY DEF BPInv, BPTypes
<1>2. \A s \in Debuggee : chk'[s] = IF s = t THEN c ELSE chk[s]
  BY <1>1
<1>3. chk' = [s \in Debuggee |-> chk'[s]] /\ \A s \in Debuggee : IsCheck(chk'[s])
  BY <1>1, <1>2
<1>4. FlagIsTrue'
  BY DEF BPInv, FlagIsTrue, HasAny, BreakpointsStay
<1>5. BPInv'
  BY <1>3, <1>4, StayOK DEF BPInv, BPTypes, BPBoundOK
<1>6. StopsForBound
  BY <1>2 DEF StopsForBound
<1> QED
  BY <1>5, <1>6, HitsStay DEF BreakpointsStay

\* A check takes its snapshot.
LEMMA Found ==
  ASSUME BPInv, NEW t \in Debuggee, find_matching_breakpoints(t)
  PROVE  BPInv' /\ StopsForBound /\ KeepsHits
<1>1. PICK p \in Known, l \in Executable :
        chk' = [chk EXCEPT ![t] =
            [path |-> p, line |-> l, hit |-> 0,
             left |-> Select(bound[p], {i \in DOMAIN bound[p] : bound[p][i].line = l})]]
  BY DEF find_matching_breakpoints
<1>2. PICK c : c = [path |-> p, line |-> l, hit |-> 0,
                    left |-> Select(bound[p], {i \in DOMAIN bound[p] : bound[p][i].line = l})]
  OBVIOUS
<1>3. IsCheck(c) /\ c.hit = 0
  BY <1>2 DEF IsCheck
<1>4. BreakpointsStay /\ UNCHANGED <<active, setter, exec>>
  BY DEF find_matching_breakpoints, BreakpointsStay
<1> QED
  BY <1>1, <1>2, <1>3, <1>4, CheckStep

\* A check ends.
LEMMA Finished ==
  ASSUME BPInv, NEW t \in Debuggee, finish_check(t)
  PROVE  BPInv' /\ StopsForBound /\ KeepsHits
<1>1. PICK c : c = NoCheck
  OBVIOUS
<1>2. IsCheck(c) /\ c.hit = 0
  BY <1>1 DEF IsCheck, NoCheck
<1>3. BreakpointsStay /\ UNCHANGED <<active, setter, exec>> /\ chk' = [chk EXCEPT ![t] = c]
  BY <1>1 DEF finish_check, BreakpointsStay
<1> QED
  BY <1>2, <1>3, CheckStep

\* The check goes on with the next breakpoint of its snapshot.
LEMMA Advanced ==
  ASSUME BPInv, NEW t \in Debuggee, NEW hit, Advance(t, hit)
  PROVE  \E c : /\ chk' = [chk EXCEPT ![t] = c] /\ IsCheck(c) /\ c.path = chk[t].path
                /\ c.hit = IF chk[t].hit = 0 THEN hit ELSE chk[t].hit
<1>1. chk = [s \in Debuggee |-> chk[s]] /\ IsCheck(chk[t])
  BY DEF BPInv, BPTypes
<1>2. PICK p, l, s, n : chk[t] = [path |-> p, line |-> l, left |-> s, hit |-> n]
  BY <1>1 DEF IsCheck
<1>3. PICK c : c = [path |-> p, line |-> l, left |-> Tail(s), hit |-> IF n = 0 THEN hit ELSE n]
  OBVIOUS
<1>4. [chk[t] EXCEPT !.left = Tail(@), !.hit = IF @ = 0 THEN hit ELSE @] = c
  <2>1. PICK rest : rest = Tail(s)
    OBVIOUS
  <2>2. PICK m : m = IF n = 0 THEN hit ELSE n
    OBVIOUS
  <2>3. c = [path |-> p, line |-> l, left |-> rest, hit |-> m]
    BY <1>3, <2>1, <2>2
  <2>4. PICK r : r = [path |-> p, line |-> l, left |-> s, hit |-> n]
    OBVIOUS
  <2>5. [r EXCEPT !.left = rest, !.hit = m] = c
    <3>1. DOMAIN r = {"path", "line", "left", "hit"}
      BY <2>4
    <3>2. [r EXCEPT !.left = rest, !.hit = m]
          = [f \in {"path", "line", "left", "hit"} |->
               IF f = "hit" THEN m ELSE IF f = "left" THEN rest ELSE r[f]]
      BY <3>1
    <3> QED
      BY <2>3, <2>4, <3>2
  <2>6. r.left = s /\ r.hit = n
    BY <2>4
  <2>7. [r EXCEPT !.left = Tail(@), !.hit = IF @ = 0 THEN hit ELSE @]
        = [r EXCEPT !.left = rest, !.hit = m]
    BY <2>1, <2>2, <2>6
  <2> QED
    BY <1>2, <2>4, <2>5, <2>7
<1>5. chk' = [chk EXCEPT ![t] = c]
  <2>1. chk' = [chk EXCEPT ![t] =
                  [chk[t] EXCEPT !.left = Tail(@), !.hit = IF @ = 0 THEN hit ELSE @]]
    BY DEF Advance
  <2> QED
    BY <1>4, <2>1
<1>6. IsCheck(c) /\ c.path = chk[t].path /\ c.hit = IF chk[t].hit = 0 THEN hit ELSE chk[t].hit
  BY <1>2, <1>3 DEF IsCheck
<1> QED
  BY <1>5, <1>6

\* A condition that is false is not a hit.
LEMMA ConditionFalse ==
  ASSUME BPInv, NEW t \in Debuggee, condition_false(t)
  PROVE  BPInv' /\ StopsForBound /\ KeepsHits
<1>1. PICK c : /\ chk' = [chk EXCEPT ![t] = c] /\ IsCheck(c) /\ c.path = chk[t].path
               /\ c.hit = IF chk[t].hit = 0 THEN 0 ELSE chk[t].hit
  BY Advanced DEF condition_false
<1>2. BreakpointsStay /\ UNCHANGED <<active, setter, exec>>
  BY DEF condition_false, BreakpointsStay
<1> QED
  BY <1>1, <1>2, CheckStep

\* A list without positions is empty.
LEMMA EmptyIs ==
  ASSUME NEW S, NEW s \in Seq(S)
  PROVE  s = <<>> <=> Len(s) = 0
BY EmptySeq

\* The same breakpoints are bound, each hit as often or more often.
OnlyHits ==
  /\ bound' \in [Path -> Seq(Info)]
  /\ \A p \in Path : /\ Len(bound'[p]) = Len(bound[p])
                     /\ \A i \in DOMAIN bound[p] :
                          /\ bound'[p][i].id = bound[p][i].id
                          /\ bound'[p][i].kind = bound[p][i].kind
                          /\ bound'[p][i].line = bound[p][i].line
                          /\ bound'[p][i].times_hit >= bound[p][i].times_hit

\* A step that changes no more than hit counts keeps the invariant.
LEMMA OnlyHitsOK ==
  ASSUME BPInv, OnlyHits,
         UNCHANGED <<session, pending, path_bps, next_id, next_pending_id, active, shown, late,
                     reapplied, setter, exec, sets>>,
         chk' = [t \in Debuggee |-> chk'[t]], \A t \in Debuggee : IsCheck(chk'[t])
  PROVE  BPInv' /\ KeepsHits
<1>1. BPTypes'
  BY DEF BPInv, BPTypes, OnlyHits
<1>2. BPIdsOK' /\ BPShownOK'
  BY DEF BPInv, BPIdsOK, BPShownOK, AllDistinct
<1>3. \A p \in Path : /\ bound[p] \in Seq(Info) /\ bound'[p] \in Seq(Info)
                      /\ DOMAIN bound[p] = DOMAIN bound'[p]
                      /\ bound[p] = <<>> <=> bound'[p] = <<>>
  <2> SUFFICES ASSUME NEW p \in Path
               PROVE  /\ bound[p] \in Seq(Info) /\ bound'[p] \in Seq(Info)
                      /\ DOMAIN bound[p] = DOMAIN bound'[p]
                      /\ bound[p] = <<>> <=> bound'[p] = <<>>
    OBVIOUS
  <2>1. bound[p] \in Seq(Info) /\ bound'[p] \in Seq(Info) /\ Len(bound'[p]) = Len(bound[p])
    BY DEF BPInv, BPTypes, OnlyHits
  <2> QED
    BY <2>1, EmptyIs
<1>4. BPBoundOK'
  <2>1. \A p \in Path : bound'[p] # <<>> => Agrees(bound[p], path_bps[p])
    BY <1>3 DEF BPInv, BPBoundOK
  <2>2. \A p \in Path : bound'[p] # <<>> => Agrees(bound'[p], path_bps'[p])
    BY <1>3, <2>1 DEF Agrees, OnlyHits
  <2> QED
    BY <1>3, <2>2 DEF BPInv, BPBoundOK
<1>5. FlagIsTrue'
  BY <1>3 DEF BPInv, FlagIsTrue, HasAny
<1>6. \A p \in Path : Distinct(bound[p])
  BY BoundDistinct
<1>7. KeepsHits
  <2> SUFFICES ASSUME NEW p \in Path, NEW i \in DOMAIN bound[p], NEW j \in DOMAIN bound'[p],
                      bound[p][i].id = bound'[p][j].id
               PROVE  bound'[p][j].times_hit >= bound[p][i].times_hit
    BY DEF KeepsHits
  <2>1. j \in DOMAIN bound[p]
    BY <1>3
  <2>2. bound'[p][j].id = bound[p][j].id /\ bound'[p][j].times_hit >= bound[p][j].times_hit
    BY <2>1 DEF OnlyHits
  <2>3. i = j
    BY <1>6, <2>1, <2>2 DEF Distinct
  <2> QED
    BY <2>2, <2>3
<1> QED
  BY <1>1, <1>2, <1>4, <1>5, <1>7 DEF BPInv

\* A hit is counted where the breakpoint still is.
LEMMA HitRecorded ==
  ASSUME BPInv, NEW t \in Debuggee, record_breakpoint_hit(t)
  PROVE  BPInv' /\ StopsForBound /\ KeepsHits
<1> DEFINE m == Head(chk[t].left)
           p == chk[t].path
           at == {i \in DOMAIN bound[p] : bound[p][i].id = m.id /\ bound[p][i].line = chk[t].line}
           i == First(at)
           n == Saturate(bound[p][i].times_hit)
<1>1. UNCHANGED <<session, pending, path_bps, next_id, next_pending_id, active, shown, late,
                  reapplied, setter, exec, sets>>
  BY DEF record_breakpoint_hit
<1>2. CASE at = {}
  <2>1. Advance(t, 0) /\ bound' = bound
    BY <1>2 DEF record_breakpoint_hit, SkipRemoved
  <2>2. PICK c : /\ chk' = [chk EXCEPT ![t] = c] /\ IsCheck(c) /\ c.path = chk[t].path
                 /\ c.hit = IF chk[t].hit = 0 THEN 0 ELSE chk[t].hit
    BY <2>1, Advanced
  <2>3. BreakpointsStay /\ UNCHANGED <<active, setter, exec>>
    BY <1>1, <2>1 DEF BreakpointsStay
  <2> QED
    BY <2>2, <2>3, CheckStep
<1>3. CASE at # {}
  <2>1. bound' = [bound EXCEPT ![p][i].times_hit = n] /\ Advance(t, Outcome(m, n))
    BY <1>3 DEF record_breakpoint_hit
  <2>2. PICK c : /\ chk' = [chk EXCEPT ![t] = c] /\ IsCheck(c) /\ c.path = chk[t].path
                 /\ c.hit = IF chk[t].hit = 0 THEN Outcome(m, n) ELSE chk[t].hit
    <3> HIDE DEF m, n
    <3> QED
      BY <2>1, Advanced
  <2>3. chk = [s \in Debuggee |-> chk[s]] /\ \A s \in Debuggee : IsCheck(chk[s])
    BY DEF BPInv, BPTypes
  <2>4. \A s \in Debuggee : chk'[s] = IF s = t THEN c ELSE chk[s]
    BY <2>2, <2>3
  <2>5. chk' = [s \in Debuggee |-> chk'[s]] /\ \A s \in Debuggee : IsCheck(chk'[s])
    BY <2>2, <2>3, <2>4
  <2>6. m.id \in Ids(bound[p])
    BY <1>3 DEF Ids
  <2>7. Outcome(m, n) = 0 \/ Outcome(m, n) = m.id
    BY DEF Outcome
  <2>8. StopsForBound
    <3> HIDE DEF m, n, p, at, i
    <3>1. p = chk[t].path
      BY DEF p
    <3> QED
      BY <2>2, <2>4, <2>6, <2>7, <3>1 DEF StopsForBound
  <2>9. OnlyHits
    <3>1. bound \in [Path -> Seq(Info)]
      BY DEF BPInv, BPTypes
    <3>2. \A q \in Path : \A j \in DOMAIN bound[q] : bound[q][j] \in Info
      BY <3>1, ElementIs
    <3>3. \A q \in Path : \A j \in DOMAIN bound[q] : bound[q][j].times_hit \in Int
      BY <3>2, BreakpointAssumption DEF Info
    <3>4. CASE p \notin Path
      <4>1. bound' = bound
        BY <2>1, <3>1, <3>4
      <4> QED
        BY <3>1, <3>3, <4>1 DEF OnlyHits
    <3>5. CASE p \in Path
      <4>1. bound[p] \in Seq(Info)
        BY <3>1, <3>5
      <4>2. i \in DOMAIN bound[p]
        <5>1. at \subseteq DOMAIN bound[p] /\ at \subseteq Nat
          BY <4>1
        <5> HIDE DEF at
        <5> QED
          BY <1>3, <5>1, FirstIs
      <4>3. bound[p][i] \in Info
        BY <3>2, <3>5, <4>2
      <4>4. n \in 0 .. MaxHits /\ n >= bound[p][i].times_hit
        <5>1. bound[p][i].times_hit \in 0 .. MaxHits
          BY <4>3 DEF Info
        <5> HIDE DEF i, p
        <5> QED
          BY <5>1, BreakpointAssumption DEF Saturate
      <4>5. PICK x : x = [bound[p][i] EXCEPT !.times_hit = n]
        OBVIOUS
      <4>6. /\ x \in Info /\ x.id = bound[p][i].id /\ x.kind = bound[p][i].kind
            /\ x.line = bound[p][i].line /\ x.times_hit = n
        <5> HIDE DEF i, p, n
        <5> QED
          BY <4>3, <4>4, <4>5 DEF Info
      <4>7. PICK s : s = [bound[p] EXCEPT ![i] = x]
        OBVIOUS
      <4>8. /\ s \in Seq(Info) /\ Len(s) = Len(bound[p]) /\ s[i] = x
            /\ \A j \in DOMAIN bound[p] : j # i => s[j] = bound[p][j]
        <5> HIDE DEF i, p, n
        <5> QED
          BY <4>1, <4>2, <4>6, <4>7
      <4>9. bound' = [bound EXCEPT ![p] = s]
        <5> HIDE DEF i, p, n
        <5> QED
          BY <2>1, <4>5, <4>7
      <4> HIDE DEF i, p, n
      <4>10. \A q \in Path : bound'[q] = IF q = p THEN s ELSE bound[q]
        BY <3>1, <4>9
      <4>11. bound' \in [Path -> Seq(Info)]
        BY <3>1, <4>8, <4>9
      <4>12. \A q \in Path : Len(bound'[q]) = Len(bound[q])
        BY <4>8, <4>10
      <4>13. \A q \in Path : \A j \in DOMAIN bound[q] :
               /\ bound'[q][j].id = bound[q][j].id /\ bound'[q][j].kind = bound[q][j].kind
               /\ bound'[q][j].line = bound[q][j].line
               /\ bound'[q][j].times_hit >= bound[q][j].times_hit
        <5> SUFFICES ASSUME NEW q \in Path, NEW j \in DOMAIN bound[q]
                     PROVE  /\ bound'[q][j].id = bound[q][j].id
                            /\ bound'[q][j].kind = bound[q][j].kind
                            /\ bound'[q][j].line = bound[q][j].line
                            /\ bound'[q][j].times_hit >= bound[q][j].times_hit
          OBVIOUS
        <5>1. CASE q = p /\ j = i
          BY <4>4, <4>6, <4>8, <4>10, <5>1
        <5>2. CASE ~(q = p /\ j = i)
          <6>1. bound'[q][j] = bound[q][j]
            BY <4>8, <4>10, <5>2
          <6> QED
            BY <3>3, <6>1
        <5> QED
          BY <5>1, <5>2
      <4> QED
        BY <4>11, <4>12, <4>13 DEF OnlyHits
    <3> QED
      BY <3>4, <3>5
  <2> QED
    BY <1>1, <2>5, <2>8, <2>9, OnlyHitsOK
<1> QED
  BY <1>2, <1>3

\* A file without bound breakpoints gets one for each request, any other none.
LEMMA PendingResolved ==
  ASSUME BPInv, resolve_pending_breakpoints
  PROVE  BPInv' /\ StopsForBound /\ KeepsHits
<1> DEFINE made(p) == [i \in DOMAIN Unbound(p) |-> create_info(Unbound(p)[i], Unbound(p)[i].id, 0)]
<1>1. /\ UNCHANGED <<session, pending, path_bps, next_id, next_pending_id, active, shown, late,
                     reapplied, setter, chk, sets>>
      /\ exec = "config" /\ exec' = "flag"
      /\ bound' = [p \in Path |-> IF p \notin Known THEN bound[p] ELSE bound[p] \o made(p)]
  BY DEF resolve_pending_breakpoints
<1>2. session = "live"
  BY <1>1 DEF BPInv, BPBoundOK
<1>3. 0 \in 0 .. MaxHits
  BY BreakpointAssumption
<1>4. ASSUME NEW p \in Path
      PROVE  /\ bound'[p] \in Seq(Info)
             /\ bound[p] # <<>> \/ p \notin Known => bound'[p] = bound[p]
             /\ bound'[p] # <<>> => Agrees(bound'[p], path_bps[p])
  <2>1. bound[p] \in Seq(Info) /\ path_bps[p] \in Seq(Named)
    BY DEF BPInv, BPTypes
  <2>2. CASE p \notin Known
    <3>1. bound'[p] = bound[p]
      BY <1>1, <2>2
    <3> QED
      BY <2>1, <3>1 DEF BPInv, BPBoundOK
  <2>3. CASE p \in Known /\ bound[p] # <<>>
    <3>1. Agrees(bound[p], path_bps[p])
      BY <2>3 DEF BPInv, BPBoundOK
    <3>2. \A i \in DOMAIN path_bps[p] : path_bps[p][i].id \in Ids(bound[p])
      <4>1. DOMAIN bound[p] = DOMAIN path_bps[p]
        BY <2>1, <3>1 DEF Agrees
      <4> QED
        BY <3>1, <4>1 DEF Agrees, Ids
    <3>3. {i \in DOMAIN path_bps[p] : path_bps[p][i].id \notin Ids(bound[p])} = {}
      BY <3>2
    <3>4. DOMAIN Unbound(p) = {}
      BY <3>3, SelectNone DEF Unbound
    <3>5. made(p) = <<>>
      BY <3>4
    <3>6. bound'[p] = bound[p] \o <<>>
      <4> HIDE DEF made
      <4> QED
        BY <1>1, <2>3, <3>5
    <3>7. bound'[p] = bound[p]
      BY <2>1, <3>6, ConcatEmptySeq
    <3> QED
      BY <2>1, <3>1, <3>7
  <2>4. CASE p \in Known /\ bound[p] = <<>>
    <3>1. {i \in DOMAIN path_bps[p] : path_bps[p][i].id \notin Ids(bound[p])} = DOMAIN path_bps[p]
      BY <2>4 DEF Ids
    <3>2. Unbound(p) = path_bps[p]
      BY <2>1, <3>1, SelectAll DEF Unbound
    <3>3. made(p) = [i \in DOMAIN path_bps[p] |-> create_info(path_bps[p][i], path_bps[p][i].id, 0)]
      BY <3>2
    <3>4. ASSUME NEW i \in DOMAIN path_bps[p]
          PROVE  /\ made(p)[i] \in Info /\ made(p)[i].id = path_bps[p][i].id
                 /\ made(p)[i].kind = path_bps[p][i].kind
                 /\ made(p)[i].line = snap_line(path_bps[p][i].line)
      <4>1. path_bps[p][i] \in Named
        BY <2>1, ElementIs
      <4>2. path_bps[p][i].id \in Int
        BY <4>1 DEF Named
      <4>3. made(p)[i] = create_info(path_bps[p][i], path_bps[p][i].id, 0)
        BY <3>3
      <4> QED
        BY <1>3, <4>1, <4>2, <4>3, CreateType
    <3> HIDE DEF made
    <3>5. DOMAIN path_bps[p] = 1 .. Len(path_bps[p]) /\ Len(path_bps[p]) \in Nat
      BY <2>1
    <3>6. made(p) \in Seq(Info) /\ Len(made(p)) = Len(path_bps[p])
      <4>1. PICK s : s = made(p)
        OBVIOUS
      <4>2. PICK n \in Nat : n = Len(path_bps[p]) /\ DOMAIN path_bps[p] = 1 .. n
        BY <3>5
      <4>3. DOMAIN s = 1 .. n /\ s = [i \in 1 .. n |-> s[i]]
        BY <3>3, <4>1, <4>2
      <4>4. \A i \in 1 .. n : s[i] \in Info
        BY <3>4, <4>1, <4>2
      <4>5. s \in Seq(Info) /\ Len(s) = n
        BY <4>3, <4>4
      <4> QED
        BY <4>1, <4>2, <4>5
    <3>7. bound'[p] = <<>> \o made(p)
      BY <1>1, <2>4
    <3>8. bound'[p] = made(p)
      BY <3>6, <3>7, ConcatEmptySeq
    <3>9. Agrees(bound'[p], path_bps[p])
      BY <3>4, <3>5, <3>6, <3>8 DEF Agrees
    <3> QED
      BY <2>4, <3>6, <3>8, <3>9
  <2> QED
    BY <2>2, <2>3, <2>4
<1>5. bound' = [p \in Path |-> bound'[p]]
  BY <1>1
<1> HIDE DEF made
<1>6. BPTypes'
  <2>1. bound' \in [Path -> Seq(Info)]
    BY <1>4, <1>5
  <2> QED
    BY <1>1, <2>1 DEF BPInv, BPTypes
<1>7. BPIdsOK' /\ BPShownOK'
  BY <1>1 DEF BPInv, BPIdsOK, BPShownOK, AllDistinct
<1>8. BPBoundOK'
  BY <1>1, <1>2, <1>4 DEF BPInv, BPBoundOK
<1>9. FlagIsTrue'
  BY <1>1 DEF FlagIsTrue
<1>10. KeepsHits
  <2>1. \A p \in Path : \A i \in DOMAIN bound[p] : bound[p] # <<>>
    OBVIOUS
  <2>2. \A p \in Path : \A i \in DOMAIN bound[p] : bound'[p] = bound[p]
    BY <1>4, <2>1
  <2>3. \A p \in Path : Distinct(bound[p]) /\ bound[p] \in Seq(Info)
    BY BoundDistinct
  <2>4. \A p \in Path : \A i \in DOMAIN bound[p] : bound[p][i] \in Info
    BY <2>3, ElementIs
  <2>5. \A p \in Path : \A i \in DOMAIN bound[p] : bound[p][i].times_hit \in Int
    BY <2>4, BreakpointAssumption DEF Info
  <2> QED
    BY <2>2, <2>3, <2>5 DEF KeepsHits, Distinct
<1> QED
  BY <1>1, <1>6, <1>7, <1>8, <1>9, <1>10 DEF BPInv, StopsForBound

(***************************************************************************)
(* setBreakpoints.                                                         *)
(***************************************************************************)
\* The requests that wait for a session have ids of their own.
LEMMA NamedRequests ==
  ASSUME NEW reqs \in RequestLists, next_pending_id \in Int
  PROVE  /\ name_requests(reqs) \in Seq(Named) /\ Len(name_requests(reqs)) = Len(reqs)
         /\ DOMAIN name_requests(reqs) = 1 .. Len(reqs)
         /\ \A i \in 1 .. Len(reqs) : name_requests(reqs)[i].id = next_pending_id - (i - 1)
<1> DEFINE one(i) == [reqs[i] EXCEPT !.id = pending_id(i)]
<1>1. reqs \in Seq(Named) /\ DOMAIN reqs = 1 .. Len(reqs) /\ Len(reqs) \in Nat
  BY RequestsAre
<1>2. name_requests(reqs) = [i \in 1 .. Len(reqs) |-> one(i)]
  BY <1>1 DEF name_requests
<1>3. ASSUME NEW i \in 1 .. Len(reqs)
      PROVE  one(i) \in Named /\ one(i).id = next_pending_id - (i - 1)
  <2>1. reqs[i] \in Named
    BY <1>1, ElementIs
  <2>2. pending_id(i) \in Int /\ pending_id(i) = next_pending_id - (i - 1)
    BY DEF pending_id
  <2> QED
    BY <2>1, <2>2 DEF Named
<1> HIDE DEF one
<1>4. name_requests(reqs) \in Seq(Named) /\ Len(name_requests(reqs)) = Len(reqs)
  <2>1. PICK s : s = name_requests(reqs)
    OBVIOUS
  <2>2. PICK n \in Nat : n = Len(reqs)
    BY <1>1, Zenon
  <2>3. DOMAIN s = 1 .. n /\ s = [i \in 1 .. n |-> s[i]] /\ \A i \in 1 .. n : s[i] \in Named
    BY <1>2, <1>3, <2>1, <2>2
  <2>4. s \in Seq(Named) /\ Len(s) = n
    BY <2>3
  <2> QED
    BY <2>1, <2>2, <2>4
<1> QED
  BY <1>2, <1>3, <1>4

\* A setBreakpoints without a session.
LEMMA SetEarly ==
  ASSUME BPInv, NEW p \in Path, NEW reqs \in RequestLists, handle_set_breakpoints_early(p, reqs)
  PROVE  BPInv' /\ StopsForBound /\ KeepsHits
<1> DEFINE new == name_requests(reqs)
<1>1. /\ session = "none" /\ sets < MaxSets /\ sets' = sets + 1
      /\ pending' = [pending EXCEPT ![p] = new]
      /\ shown' = [shown EXCEPT ![p] = Told(new)]
      /\ next_pending_id' = next_pending_id - Len(reqs)
      /\ UNCHANGED <<session, path_bps, bound, next_id, active, late, reapplied, setter, exec, chk>>
  BY DEF handle_set_breakpoints_early, Count, name_requests
<1>2. next_pending_id \in Int /\ next_pending_id < 0
  BY DEF BPInv, BPTypes
<1>3. /\ new \in Seq(Named) /\ Len(new) = Len(reqs) /\ DOMAIN new = 1 .. Len(reqs)
      /\ \A i \in 1 .. Len(reqs) : new[i].id = next_pending_id - (i - 1)
  BY <1>2, NamedRequests
<1>4. Len(reqs) \in Nat /\ Len(reqs) <= MaxBreakpoints
  BY RequestsAre
<1>5. Told(new) = {new[i] : i \in DOMAIN new} /\ Told(new) \in SUBSET Named
  BY <1>3, ToldIs
<1> HIDE DEF new
<1>6. BPTypes'
  <2>1. pending' \in [Path -> Seq(Named)] /\ shown' \in [Path -> SUBSET Named]
    BY <1>1, <1>3, <1>5 DEF BPInv, BPTypes
  <2>2. \A q \in Path : Len(pending'[q]) <= MaxBreakpoints
    BY <1>1, <1>3, <1>4 DEF BPInv, BPTypes
  <2>3. next_pending_id' \in Int /\ next_pending_id' < 0
    BY <1>1, <1>2, <1>4
  <2>4. sets' \in 0 .. MaxSets
    BY <1>1, BreakpointAssumption DEF BPInv, BPTypes
  <2> QED
    BY <1>1, <2>1, <2>2, <2>3, <2>4 DEF BPInv, BPTypes
<1>7. \A q \in Path : pending'[q] = IF q = p THEN new ELSE pending[q]
  BY <1>1 DEF BPInv, BPTypes
<1>8. \A i \in DOMAIN new : /\ new[i].id \in Int /\ new[i].id < 0 /\ new[i].id <= next_pending_id
                            /\ next_pending_id' < new[i].id
                            /\ \A j \in DOMAIN new : new[i].id = new[j].id => i = j
  BY <1>1, <1>2, <1>3, <1>4
<1>9. \A q \in Path : \A i \in DOMAIN pending[q] :
         /\ pending[q][i].id \in Int
         /\ pending[q][i].id = 0 \/ (next_pending_id < pending[q][i].id /\ pending[q][i].id < 0)
  <2> SUFFICES ASSUME NEW q \in Path, NEW i \in DOMAIN pending[q]
               PROVE  /\ pending[q][i].id \in Int
                      /\ \/ pending[q][i].id = 0
                         \/ next_pending_id < pending[q][i].id /\ pending[q][i].id < 0
    OBVIOUS
  <2>1. pending[q] \in Seq(Named)
    BY DEF BPInv, BPTypes
  <2>2. pending[q][i] \in Named
    BY <2>1, ElementIs
  <2> QED
    BY <2>2 DEF BPInv, BPIdsOK, Named
<1>10. BPIdsOK'
  <2>1. \A q \in Path : \A i \in DOMAIN path_bps'[q] :
          path_bps'[q][i].id # 0 /\ path_bps'[q][i].id < next_id'
    BY <1>1 DEF BPInv, BPIdsOK
  <2>2. AllDistinct(path_bps)'
    BY <1>1 DEF BPInv, BPIdsOK, AllDistinct
  <2>3. next_pending_id' \in Int /\ next_pending_id' <= next_pending_id
    BY <1>1, <1>2, <1>4
  <2>4. \A q \in Path : \A i \in DOMAIN pending'[q] :
          pending'[q][i].id = 0 \/ (next_pending_id' < pending'[q][i].id /\ pending'[q][i].id < 0)
    <3> SUFFICES ASSUME NEW q \in Path, NEW i \in DOMAIN pending'[q]
                 PROVE  \/ pending'[q][i].id = 0
                        \/ next_pending_id' < pending'[q][i].id /\ pending'[q][i].id < 0
      OBVIOUS
    <3>1. CASE q = p
      BY <1>7, <1>8, <3>1
    <3>2. CASE q # p
      BY <1>2, <1>7, <1>9, <2>3, <3>2
    <3> QED
      BY <3>1, <3>2
  <2>5. ASSUME NEW q \in Path, NEW r \in Path, NEW i \in DOMAIN pending'[q],
               NEW j \in DOMAIN pending'[r],
               pending'[q][i].id = pending'[r][j].id, pending'[q][i].id # 0
        PROVE  q = r /\ i = j
    <3>1. CASE q = p /\ r = p
      BY <1>7, <1>8, <2>5, <3>1
    <3>2. CASE q = p /\ r # p
      BY <1>2, <1>7, <1>8, <1>9, <2>5, <3>2
    <3>3. CASE q # p /\ r = p
      BY <1>2, <1>7, <1>8, <1>9, <2>5, <3>3
    <3>4. CASE q # p /\ r # p
      BY <1>7, <2>5, <3>4 DEF BPInv, BPIdsOK
    <3> QED
      BY <3>1, <3>2, <3>3, <3>4
  <2> QED
    BY <2>1, <2>2, <2>4, <2>5 DEF BPIdsOK
<1>11. BPBoundOK'
  BY <1>1 DEF BPInv, BPBoundOK
<1>12. BPShownOK'
  <2>1. \A q \in Path : shown'[q] = IF q = p THEN Told(new) ELSE shown[q]
    BY <1>1 DEF BPInv, BPTypes
  <2>2. \A q \in Path : DOMAIN path_bps'[q] = {}
    <3>1. \A q \in Path : path_bps'[q] = <<>>
      BY <1>1 DEF BPInv, BPBoundOK
    <3> QED
      BY <3>1
  <2>3. ASSUME NEW q \in Path \ late, NEW i \in DOMAIN pending'[q]
        PROVE  pending'[q][i].id # 0 /\ pending'[q][i] \in shown'[q]
    <3>1. CASE q = p
      <4>1. i \in DOMAIN new /\ pending'[q][i] = new[i]
        BY <1>7, <3>1
      <4>2. new[i] \in Told(new) /\ new[i].id # 0
        BY <1>5, <1>8, <4>1
      <4> QED
        BY <2>1, <3>1, <4>1, <4>2
    <3>2. CASE q # p
      BY <1>7, <2>1, <2>3, <3>2 DEF BPInv, BPShownOK
    <3> QED
      BY <3>1, <3>2
  <2> QED
    BY <1>1, <2>2, <2>3 DEF BPShownOK
<1>13. FlagIsTrue'
  BY <1>1 DEF BPInv, FlagIsTrue, HasAny
<1>14. KeepsHits
  BY <1>1, HitsStay
<1>15. StopsForBound
  BY <1>1 DEF StopsForBound
<1> QED
  BY <1>6, <1>10, <1>11, <1>12, <1>13, <1>14, <1>15 DEF BPInv

\* The step, whatever the manager made of the requests: each has an id of its
\* own, one its file had or a new one, and so have the breakpoints bound now.
LEMMA SetStep ==
  ASSUME BPInv, NEW p \in Path, NEW reqs \in RequestLists,
         NEW b \in Seq(Info), NEW s \in Seq(Named), NEW n \in Nat,
         session # "none", sets < MaxSets, sets' = sets + 1,
         pending' = [pending EXCEPT ![p] = reqs],
         bound' = [bound EXCEPT ![p] = b], path_bps' = [path_bps EXCEPT ![p] = s], next_id' = n,
         shown' = [shown EXCEPT ![p] = Told(s)],
         late' = late \cup {p}, reapplied' = reapplied \ {p}, setter' = "flag",
         UNCHANGED <<session, next_pending_id, active, exec, chk>>,
         Len(s) = Len(reqs), next_id <= n, b # <<>> => Agrees(b, s),
         session # "live" \/ p \notin Known => b = <<>>, Distinct(s),
         \A i \in DOMAIN s :
           /\ s[i].id # 0 /\ s[i].id < n
           /\ s[i].id >= next_id \/ \E m \in DOMAIN path_bps[p] : s[i].id = path_bps[p][m].id,
         \A k \in DOMAIN b : Taken(b[k], bound[p]) \/ b[k].id >= next_id
  PROVE  BPInv' /\ StopsForBound /\ KeepsHits
<1>1. /\ reqs \in Seq(Named) /\ Len(reqs) <= MaxBreakpoints
      /\ \A i \in DOMAIN reqs : reqs[i].id = 0
  BY RequestsAre
<1>2. Told(s) = {s[i] : i \in DOMAIN s} /\ Told(s) \in SUBSET Named
  BY ToldIs
<1>3. \A q \in Path : /\ pending'[q] = IF q = p THEN reqs ELSE pending[q]
                      /\ bound'[q] = IF q = p THEN b ELSE bound[q]
                      /\ path_bps'[q] = IF q = p THEN s ELSE path_bps[q]
                      /\ shown'[q] = IF q = p THEN Told(s) ELSE shown[q]
  BY DEF BPInv, BPTypes
<1>4. BPTypes'
  <2>1. /\ pending' \in [Path -> Seq(Named)] /\ path_bps' \in [Path -> Seq(Named)]
        /\ bound' \in [Path -> Seq(Info)] /\ shown' \in [Path -> SUBSET Named]
    BY <1>1, <1>2 DEF BPInv, BPTypes
  <2>2. \A q \in Path : Len(pending'[q]) <= MaxBreakpoints /\ Len(path_bps'[q]) <= MaxBreakpoints
    BY <1>1, <1>3 DEF BPInv, BPTypes
  <2>3. next_id' \in Nat \ {0}
    BY DEF BPInv, BPTypes
  <2>4. sets' \in 0 .. MaxSets
    BY BreakpointAssumption DEF BPInv, BPTypes
  <2>5. late' \in SUBSET Path /\ reapplied' \in SUBSET late'
    BY DEF BPInv, BPTypes
  <2> QED
    BY <2>1, <2>2, <2>3, <2>4, <2>5 DEF BPInv, BPTypes
<1>5. next_id \in Nat /\ \A q \in Path : \A i \in DOMAIN path_bps[q] : path_bps[q][i].id \in Int
  <2>1. next_id \in Nat
    BY DEF BPInv, BPTypes
  <2>2. ASSUME NEW q \in Path, NEW i \in DOMAIN path_bps[q]
        PROVE  path_bps[q][i].id \in Int
    <3>1. path_bps[q] \in Seq(Named)
      BY DEF BPInv, BPTypes
    <3>2. path_bps[q][i] \in Named
      BY <3>1, ElementIs
    <3> QED
      BY <3>2 DEF Named
  <2> QED
    BY <2>1, <2>2
<1>6. \A i \in DOMAIN s : s[i].id \in Int
  <2>1. \A i \in DOMAIN s : s[i] \in Named
    BY ElementIs
  <2> QED
    BY <2>1 DEF Named
<1>7. \A q \in Path : \A i \in DOMAIN path_bps[q] :
        path_bps[q][i].id # 0 /\ path_bps[q][i].id < next_id
  BY DEF BPInv, BPIdsOK
<1>8. AllDistinct(path_bps)
  BY DEF BPInv, BPIdsOK
<1>9. \A i \in DOMAIN s, r \in Path : r # p =>
        \A j \in DOMAIN path_bps[r] : s[i].id # path_bps[r][j].id
  <2> SUFFICES ASSUME NEW i \in DOMAIN s, NEW r \in Path, r # p, NEW j \in DOMAIN path_bps[r],
                      s[i].id = path_bps[r][j].id
               PROVE  FALSE
    OBVIOUS
  <2>1. CASE s[i].id >= next_id
    BY <1>5, <1>7, <2>1
  <2>2. CASE \E m \in DOMAIN path_bps[p] : s[i].id = path_bps[p][m].id
    <3>1. PICK m \in DOMAIN path_bps[p] : s[i].id = path_bps[p][m].id
      BY <2>2
    <3>2. path_bps[p][m].id = path_bps[r][j].id
      BY <3>1
    <3>3. p = r
      BY <1>8, <3>2 DEF AllDistinct
    <3> QED
      BY <3>3
  <2> QED
    BY <2>1, <2>2
<1>10. BPIdsOK'
  <2>1. \A q \in Path : \A i \in DOMAIN path_bps'[q] :
          path_bps'[q][i].id # 0 /\ path_bps'[q][i].id < next_id'
    BY <1>3, <1>5, <1>7
  <2>2. ASSUME NEW q \in Path, NEW r \in Path, NEW i \in DOMAIN path_bps'[q],
               NEW j \in DOMAIN path_bps'[r], path_bps'[q][i].id = path_bps'[r][j].id
        PROVE  q = r /\ i = j
    <3>1. CASE q = p /\ r = p
      BY <1>3, <2>2, <3>1 DEF Distinct
    <3>2. CASE q = p /\ r # p
      BY <1>3, <1>9, <2>2, <3>2
    <3>3. CASE q # p /\ r = p
      BY <1>3, <1>9, <2>2, <3>3
    <3>4. CASE q # p /\ r # p
      BY <1>3, <1>8, <2>2, <3>4 DEF AllDistinct
    <3> QED
      BY <3>1, <3>2, <3>3, <3>4
  <2>3. AllDistinct(path_bps)'
    BY <2>2 DEF AllDistinct
  <2>4. \A q \in Path : \A i \in DOMAIN pending'[q] :
          \/ pending'[q][i].id = 0
          \/ next_pending_id' < pending'[q][i].id /\ pending'[q][i].id < 0
    BY <1>1, <1>3 DEF BPInv, BPIdsOK
  <2>5. ASSUME NEW q \in Path, NEW r \in Path, NEW i \in DOMAIN pending'[q],
               NEW j \in DOMAIN pending'[r],
               pending'[q][i].id = pending'[r][j].id, pending'[q][i].id # 0
        PROVE  q = r /\ i = j
    <3>1. q # p /\ r # p
      BY <1>1, <1>3, <2>5
    <3> QED
      BY <1>3, <2>5, <3>1 DEF BPInv, BPIdsOK
  <2> QED
    BY <2>1, <2>3, <2>4, <2>5 DEF BPIdsOK
<1>11. BPBoundOK'
  <2>1. \A q \in Path : bound'[q] # <<>> => Agrees(bound'[q], path_bps'[q])
    BY <1>3 DEF BPInv, BPBoundOK
  <2>2. \A q \in Path : session' # "live" \/ q \notin Known => bound'[q] = <<>>
    BY <1>3 DEF BPInv, BPBoundOK
  <2> QED
    BY <2>1, <2>2 DEF BPInv, BPBoundOK
<1>12. BPShownOK'
  <2>1. ASSUME NEW q \in Path \ reapplied', NEW i \in DOMAIN path_bps'[q]
        PROVE  path_bps'[q][i] \in shown'[q]
    <3>1. CASE q = p
      <4>1. path_bps'[q] = s /\ shown'[q] = Told(s)
        BY <1>3, <3>1
      <4>2. i \in DOMAIN s
        BY <4>1
      <4> QED
        BY <1>2, <4>1, <4>2
    <3>2. CASE q # p
      <4>1. q \in Path \ reapplied /\ path_bps'[q] = path_bps[q] /\ shown'[q] = shown[q]
        BY <1>3, <3>2
      <4>2. \A k \in DOMAIN path_bps[q] : path_bps[q][k] \in shown[q]
        BY <4>1 DEF BPInv, BPShownOK
      <4> QED
        BY <4>1, <4>2
    <3> QED
      BY <3>1, <3>2
  <2>2. \A q \in Path \ late' : \A i \in DOMAIN pending'[q] :
          pending'[q][i].id # 0 /\ pending'[q][i] \in shown'[q]
    BY <1>3 DEF BPInv, BPShownOK
  <2> QED
    BY <2>1, <2>2 DEF BPShownOK
<1>13. FlagIsTrue'
  BY DEF FlagIsTrue
<1>14. ASSUME NEW q \in Path, NEW i \in DOMAIN bound[q], NEW j \in DOMAIN bound'[q],
              bound[q][i].id = bound'[q][j].id
       PROVE  bound'[q][j].times_hit >= bound[q][i].times_hit
  <2>1. /\ Distinct(bound[q]) /\ bound[q] \in Seq(Info)
        /\ bound[q][i].id < next_id
    BY BoundDistinct
  <2>2. bound[q][i] \in Info
    BY <2>1, ElementIs
  <2>3. bound[q][i].times_hit \in Int /\ bound[q][i].id \in Int
    BY <2>2, InfoTypes
  <2>4. CASE q # p
    <3>1. bound'[q] = bound[q]
      BY <1>3, <2>4
    <3>2. i = j
      BY <1>14, <2>1, <3>1 DEF Distinct
    <3> QED
      BY <2>3, <3>1, <3>2
  <2>5. CASE q = p
    <3>1. bound'[q] = b
      BY <1>3, <2>5
    <3>2. ~(b[j].id >= next_id)
      BY <1>5, <1>14, <2>1, <2>3, <3>1
    <3>3. PICK m \in DOMAIN bound[q] : /\ b[j].id = bound[q][m].id
                                       /\ b[j].times_hit = bound[q][m].times_hit
      BY <2>5, <3>1, <3>2 DEF Taken
    <3>4. m = i
      BY <1>14, <2>1, <3>1, <3>3 DEF Distinct
    <3> QED
      BY <2>3, <3>1, <3>3, <3>4
  <2> QED
    BY <2>4, <2>5
<1>15. KeepsHits
  BY <1>14 DEF KeepsHits
<1>16. StopsForBound
  BY DEF StopsForBound
<1> QED
  BY <1>4, <1>10, <1>11, <1>12, <1>13, <1>15, <1>16 DEF BPInv

\* A file of a program that is compiled.
LEMMA SetCompiled ==
  ASSUME BPInv, NEW p \in Path, NEW reqs \in RequestLists, handle_set_breakpoints(p, reqs),
         session = "live", p \in Known
  PROVE  BPInv' /\ StopsForBound /\ KeepsHits
<1>1. PICK acc : acc = bind_all(bound[p], reqs, next_id)
  OBVIOUS
<1> DEFINE one(i) == [reqs[i] EXCEPT !.id = acc.new[i].id]
           ids == [i \in DOMAIN reqs |-> one(i)]
           st == Set(Manager, p, reqs, session = "live")
<1>2. st = [bound |-> [bound EXCEPT ![p] = acc.new],
            path_bps |-> [path_bps EXCEPT ![p] = ids], next |-> acc.next]
  BY <1>1 DEF Set, Manager
<1>3. /\ sets < MaxSets /\ sets' = sets + 1 /\ pending' = [pending EXCEPT ![p] = reqs]
      /\ bound' = st.bound /\ path_bps' = st.path_bps /\ next_id' = st.next
      /\ shown' = [shown EXCEPT ![p] = Told(st.path_bps[p])]
      /\ late' = late \cup {p} /\ reapplied' = reapplied \ {p} /\ setter' = "flag"
      /\ UNCHANGED <<session, next_pending_id, active, exec, chk>>
  BY DEF handle_set_breakpoints, Count
<1> HIDE DEF st
<1>4. PICK s : s = ids
  OBVIOUS
<1>5. path_bps \in [Path -> Seq(Named)] /\ next_id \in Nat \ {0} /\ bound[p] \in Seq(Info)
  BY DEF BPInv, BPTypes
<1>6. /\ bound' = [bound EXCEPT ![p] = acc.new] /\ path_bps' = [path_bps EXCEPT ![p] = s]
      /\ next_id' = acc.next /\ shown' = [shown EXCEPT ![p] = Told(s)]
  BY <1>2, <1>3, <1>4, <1>5
<1>7. /\ reqs \in Seq(Named) /\ Len(reqs) <= MaxBreakpoints
      /\ \A i \in DOMAIN reqs : reqs[i].id = 0
  BY RequestsAre
<1>8. LoopOK(acc, Len(reqs), bound[p], reqs, next_id)
  BY <1>1, <1>5, <1>7, BindAll, BoundDistinct
<1>9. acc.new \in Seq(Info) /\ acc.next \in Nat /\ next_id <= acc.next /\ Len(acc.new) = Len(reqs)
  BY <1>8 DEF LoopOK, Accs
<1>10. /\ DOMAIN acc.new = 1 .. Len(reqs) /\ DOMAIN reqs = 1 .. Len(reqs) /\ Len(reqs) \in Nat
  BY <1>7, <1>9
<1>11. ASSUME NEW i \in 1 .. Len(reqs)
       PROVE  /\ one(i) \in Named /\ one(i).id = acc.new[i].id /\ acc.new[i].id \in Int
              /\ one(i).line = reqs[i].line /\ one(i).kind = reqs[i].kind
  <2>1. reqs[i] \in Named /\ acc.new[i] \in Info
    BY <1>7, <1>9, <1>10, ElementIs
  <2>2. acc.new[i].id \in Int
    BY <2>1 DEF Info
  <2> QED
    BY <2>1, <2>2 DEF Named
<1> HIDE DEF one
<1>12. DOMAIN s = 1 .. Len(reqs) /\ \A i \in 1 .. Len(reqs) : s[i] = one(i)
  BY <1>4, <1>10
<1>13. s \in Seq(Named) /\ Len(s) = Len(reqs)
  <2>1. PICK n \in Nat : n = Len(reqs)
    BY <1>10, Zenon
  <2>2. DOMAIN s = 1 .. n /\ s = [i \in 1 .. n |-> s[i]] /\ \A i \in 1 .. n : s[i] \in Named
    BY <1>4, <1>11, <1>12, <2>1
  <2>3. s \in Seq(Named) /\ Len(s) = n
    BY <2>2
  <2> QED
    BY <2>1, <2>3
<1>14. Agrees(acc.new, s)
  <2>1. \A i \in DOMAIN acc.new :
           acc.new[i].line = snap_line(reqs[i].line) /\ acc.new[i].kind = reqs[i].kind
    BY <1>8 DEF LoopOK
  <2> QED
    BY <1>9, <1>10, <1>11, <1>12, <1>13, <2>1 DEF Agrees
<1>15. Distinct(s)
  <2>1. Distinct(acc.new)
    BY <1>8 DEF LoopOK
  <2> QED
    BY <1>10, <1>11, <1>12, <2>1 DEF Distinct
<1>16. ASSUME NEW i \in 1 .. Len(reqs)
       PROVE  /\ s[i].id # 0 /\ s[i].id < acc.next
              /\ s[i].id >= next_id \/ \E m \in DOMAIN path_bps[p] : s[i].id = path_bps[p][m].id
              /\ Taken(acc.new[i], bound[p]) \/ acc.new[i].id >= next_id
  <2>1. Taken(acc.new[i], bound[p]) \/ Made(acc.new[i], acc, next_id)
    BY <1>8, <1>10 DEF LoopOK
  <2>2. s[i].id = acc.new[i].id /\ acc.new[i].id \in Int
    BY <1>11, <1>12
  <2>3. CASE Made(acc.new[i], acc, next_id)
    BY <1>5, <1>9, <2>2, <2>3 DEF Made
  <2>4. CASE Taken(acc.new[i], bound[p])
    <3>1. PICK m \in DOMAIN bound[p] : acc.new[i].id = bound[p][m].id
      BY <2>4 DEF Taken
    <3>2. m \in DOMAIN path_bps[p] /\ bound[p][m].id = path_bps[p][m].id /\ bound[p][m].id < next_id
      BY BoundDistinct
    <3>3. path_bps[p][m].id # 0
      BY <3>2 DEF BPInv, BPIdsOK
    <3> QED
      BY <1>5, <1>9, <2>2, <2>4, <3>1, <3>2, <3>3
  <2> QED
    BY <2>1, <2>3, <2>4
<1>17. PICK b, n : b = acc.new /\ n = acc.next
  OBVIOUS
<1>18. /\ b \in Seq(Info) /\ n \in Nat /\ next_id <= n /\ Agrees(b, s)
       /\ bound' = [bound EXCEPT ![p] = b] /\ next_id' = n
       /\ \A i \in DOMAIN s :
            /\ s[i].id # 0 /\ s[i].id < n
            /\ s[i].id >= next_id \/ \E m \in DOMAIN path_bps[p] : s[i].id = path_bps[p][m].id
       /\ \A k \in DOMAIN b : Taken(b[k], bound[p]) \/ b[k].id >= next_id
  BY <1>6, <1>9, <1>10, <1>12, <1>14, <1>16, <1>17
<1> HIDE DEF ids
<1> QED
  BY <1>3, <1>6, <1>13, <1>15, <1>18, SetStep

\* A file that is not: its requests take the next ids.
LEMMA SetUncompiled ==
  ASSUME BPInv, NEW p \in Path, NEW reqs \in RequestLists, handle_set_breakpoints(p, reqs),
         session # "live" \/ p \notin Known
  PROVE  BPInv' /\ StopsForBound /\ KeepsHits
<1> DEFINE st == Set(Manager, p, reqs, session = "live")
           U(i) == Unnumbered(reqs, i)
           len == Len(reqs)
<1>1. st = [bound |-> bound, path_bps |-> [path_bps EXCEPT ![p] = number(reqs, next_id)],
            next |-> next_id + Cardinality(U(len))]
  BY DEF Set, Manager
<1>2. /\ session # "none" /\ sets < MaxSets /\ sets' = sets + 1
      /\ pending' = [pending EXCEPT ![p] = reqs]
      /\ bound' = st.bound /\ path_bps' = st.path_bps /\ next_id' = st.next
      /\ shown' = [shown EXCEPT ![p] = Told(st.path_bps[p])]
      /\ late' = late \cup {p} /\ reapplied' = reapplied \ {p} /\ setter' = "flag"
      /\ UNCHANGED <<session, next_pending_id, active, exec, chk>>
  BY DEF handle_set_breakpoints, Count
<1> HIDE DEF st, U
<1>3. PICK s, n : s = number(reqs, next_id) /\ n = next_id + Cardinality(U(len))
  OBVIOUS
<1>4. /\ path_bps \in [Path -> Seq(Named)] /\ bound \in [Path -> Seq(Info)]
      /\ next_id \in Nat \ {0}
  BY DEF BPInv, BPTypes
<1>5. bound[p] = <<>>
  BY DEF BPInv, BPBoundOK
<1>6. PICK b : b = <<>>
  OBVIOUS
<1> b \in Seq(Info) /\ DOMAIN b = {}
  BY <1>6
<1>7. /\ bound' = [bound EXCEPT ![p] = b] /\ path_bps' = [path_bps EXCEPT ![p] = s]
      /\ next_id' = n /\ shown' = [shown EXCEPT ![p] = Told(s)]
  BY <1>1, <1>2, <1>3, <1>4, <1>5, <1>6
<1>8. /\ reqs \in Seq(Named) /\ \A i \in DOMAIN reqs : reqs[i].id = 0
      /\ DOMAIN reqs = 1 .. len /\ len \in Nat
  BY RequestsAre
<1>9. /\ s \in Seq(Named) /\ Len(s) = len /\ DOMAIN s = 1 .. len
      /\ \A i \in 1 .. len : s[i].id = next_id + Cardinality(U(i - 1))
  BY <1>3, <1>4, <1>8, Numbered DEF U
<1>10. \A i \in 0 .. len : /\ Cardinality(U(i)) \in Nat /\ IsFiniteSet(U(i))
                           /\ U(i) = 1 .. i
  <2> SUFFICES ASSUME NEW i \in 0 .. len
               PROVE  Cardinality(U(i)) \in Nat /\ IsFiniteSet(U(i)) /\ U(i) = 1 .. i
    OBVIOUS
  <2>1. i \in Int /\ 1 .. i \subseteq 1 .. len
    BY <1>8
  <2>2. \A j \in 1 .. i : reqs[j].id = 0
    BY <1>8, <2>1
  <2>3. U(i) = 1 .. i
    BY <2>2 DEF U, Unnumbered
  <2>4. Cardinality(U(i)) \in Nat /\ IsFiniteSet(U(i))
    BY <2>1, UnnumberedFinite DEF U
  <2> QED
    BY <2>3, <2>4
<1>11. \A i \in 0 .. len : Cardinality(U(i)) = i
  BY <1>10, FS_Interval
<1>12. \A i \in 1 .. len : s[i].id = next_id + (i - 1)
  BY <1>8, <1>9, <1>11
<1>13. n = next_id + len
  BY <1>3, <1>8, <1>11
<1>14. n \in Nat /\ next_id <= n /\ Distinct(s)
  BY <1>4, <1>8, <1>9, <1>12, <1>13 DEF Distinct
<1>15. \A i \in DOMAIN s : s[i].id # 0 /\ s[i].id < n /\ s[i].id >= next_id
  BY <1>4, <1>8, <1>9, <1>12, <1>13
<1> QED
  BY <1>2, <1>6, <1>7, <1>9, <1>14, <1>15, SetStep

(***************************************************************************)
(* A new session.                                                          *)
(***************************************************************************)
\* The first id of a file of a new session.
FirstOf(rank, p) == 1 + Cardinality(UnnumberedIn({q \in Path : rank[q] < rank[p]}))

\* The requests that waited keep their ids, all others get one of their own.
LEMMA PendingNumbered ==
  ASSUME BPInv, NEW rank \in Orders, NEW p \in Path,
         NEW s, s = number(pending[p], FirstOf(rank, p))
  PROVE  /\ s \in Seq(Named) /\ Len(s) = Len(pending[p]) /\ DOMAIN s = DOMAIN pending[p]
         /\ \A i \in DOMAIN pending[p] :
              /\ pending[p][i].id # 0 => s[i] = pending[p][i]
              /\ pending[p][i].id = 0 => s[i].id = 1 + Cardinality(Before(rank, p, i))
<1> DEFINE A == UnnumberedIn({q \in Path : rank[q] < rank[p]})
           N == FirstOf(rank, p)
<1>1. BPLists /\ pending[p] \in Seq(Named)
  BY DEF BPLists, BPInv, BPTypes
<1>2. Cardinality(A) \in Nat
  BY <1>1, AllFinite
<1>3. N = 1 + Cardinality(A) /\ N \in Nat \ {0}
  BY <1>2 DEF FirstOf
<1> HIDE DEF N
<1>4. /\ s \in Seq(Named) /\ Len(s) = Len(pending[p]) /\ DOMAIN s = DOMAIN pending[p]
      /\ \A i \in DOMAIN pending[p] : pending[p][i].id # 0 => s[i] = pending[p][i]
      /\ \A i \in DOMAIN pending[p] : pending[p][i].id = 0 =>
                   s[i].id = N + Cardinality(Unnumbered(pending[p], i - 1))
  BY <1>1, <1>3, Numbered DEF N
<1>5. ASSUME NEW i \in DOMAIN pending[p], pending[p][i].id = 0
      PROVE  s[i].id = 1 + Cardinality(Before(rank, p, i))
  <2>1. Cardinality(Before(rank, p, i))
        = Cardinality(A) + Cardinality(Unnumbered(pending[p], i - 1))
    BY <1>1, BeforeCount
  <2>2. i \in Nat
    BY <1>1, ElementIs
  <2>3. Cardinality(Unnumbered(pending[p], i - 1)) \in Nat
    BY <2>2, UnnumberedFinite
  <2>4. s[i].id = N + Cardinality(Unnumbered(pending[p], i - 1))
    BY <1>4, <1>5
  <2> QED
    BY <1>2, <1>3, <2>1, <2>3, <2>4
<1> QED
  BY <1>4, <1>5

\* launch and restart: nothing is bound, and every id is new.
LEMMA SessionStarted ==
  ASSUME BPInv, NewSession
  PROVE  BPInv' /\ StopsForBound /\ KeepsHits
<1>1. PICK rank \in Orders :
        LET st == apply_pending(rank) IN
        bound' = st.bound /\ path_bps' = st.path_bps /\ next_id' = st.next
  BY DEF NewSession
<1> DEFINE before(p, i) == Cardinality(Before(rank, p, i))
<1>2. /\ bound' = [p \in Path |-> <<>>]
      /\ path_bps' = [p \in Path |-> number(pending[p], FirstOf(rank, p))]
      /\ next_id' = 1 + Cardinality(UnnumberedIn(Path))
  BY <1>1 DEF apply_pending, FirstOf
<1>3. /\ sets < MaxSets /\ sets' = sets + 1 /\ reapplied' = late
      /\ \/ session' = "live" /\ exec' = "config"
         \/ session' = "failed" /\ exec' = "off"
      /\ active' = FALSE /\ setter' = "idle" /\ chk' = [t \in Debuggee |-> NoCheck]
      /\ UNCHANGED <<pending, next_pending_id, shown, late>>
  BY DEF NewSession, Count
<1>4. BPLists
  BY DEF BPLists, BPInv, BPTypes
<1>5. ASSUME NEW p \in Path
      PROVE  /\ path_bps'[p] \in Seq(Named) /\ Len(path_bps'[p]) = Len(pending[p])
             /\ DOMAIN path_bps'[p] = DOMAIN pending[p]
             /\ \A i \in DOMAIN pending[p] :
                  /\ pending[p][i].id # 0 => path_bps'[p][i] = pending[p][i]
                  /\ pending[p][i].id = 0 => path_bps'[p][i].id = 1 + before(p, i)
  <2>1. path_bps'[p] = number(pending[p], FirstOf(rank, p))
    BY <1>2
  <2> QED
    BY <2>1, PendingNumbered
<1>6. ASSUME NEW p \in Path, NEW i \in DOMAIN pending[p]
      PROVE  /\ path_bps'[p][i].id \in Int /\ path_bps'[p][i].id # 0
             /\ pending[p][i].id = 0 => before(p, i) \in Nat
             /\ path_bps'[p][i].id > 0 <=> pending[p][i].id = 0
             /\ path_bps'[p][i].id < next_id'
  <2>1. Cardinality(UnnumberedIn(Path)) \in Nat
    BY <1>4, AllFinite
  <2>2. CASE pending[p][i].id = 0
    <3>1. before(p, i) \in Nat /\ before(p, i) < Cardinality(UnnumberedIn(Path))
      BY <1>4, <2>2, BeforeAll
    <3>2. path_bps'[p][i].id = 1 + before(p, i)
      BY <1>5, <2>2
    <3> HIDE DEF before
    <3> QED
      BY <1>2, <2>1, <2>2, <3>1, <3>2
  <2>3. CASE pending[p][i].id # 0
    <3>1. path_bps'[p][i] = pending[p][i]
      BY <1>5, <2>3
    <3>2. pending[p] \in Seq(Named)
      BY <1>4 DEF BPLists
    <3>3. pending[p][i] \in Named
      BY <3>2, ElementIs
    <3>4. pending[p][i].id \in Int /\ next_pending_id \in Int
      BY <3>3 DEF Named, BPInv, BPTypes
    <3>5. pending[p][i].id < 0
      BY <2>3 DEF BPInv, BPIdsOK
    <3> QED
      BY <1>2, <2>1, <2>3, <3>1, <3>4, <3>5
  <2> QED
    BY <2>2, <2>3
<1>7. BPTypes'
  <2>1. /\ path_bps' \in [Path -> Seq(Named)] /\ bound' \in [Path -> Seq(Info)]
    <3>1. path_bps' = [p \in Path |-> path_bps'[p]]
      BY <1>2
    <3>2. <<>> \in Seq(Info)
      OBVIOUS
    <3>3. bound' \in [Path -> Seq(Info)]
      BY <1>2, <3>2
    <3> QED
      BY <1>5, <3>1, <3>3
  <2>2. \A p \in Path : Len(pending'[p]) <= MaxBreakpoints /\ Len(path_bps'[p]) <= MaxBreakpoints
    BY <1>3, <1>5 DEF BPInv, BPTypes
  <2>3. next_id' \in Nat \ {0}
    <3>1. Cardinality(UnnumberedIn(Path)) \in Nat
      BY <1>4, AllFinite
    <3> QED
      BY <1>2, <3>1
  <2>4. sets' \in 0 .. MaxSets
    BY <1>3, BreakpointAssumption DEF BPInv, BPTypes
  <2>5. chk' = [t \in Debuggee |-> chk'[t]] /\ \A t \in Debuggee : IsCheck(chk'[t])
    BY <1>3 DEF NoCheck, IsCheck
  <2>6. /\ session' \in {"none", "failed", "live"} /\ setter' \in {"idle", "flag"}
        /\ exec' \in {"off", "config", "flag", "run"} /\ active' \in BOOLEAN
    BY <1>3
  <2>7. /\ pending' \in [Path -> Seq(Named)] /\ shown' \in [Path -> SUBSET Named]
        /\ next_pending_id' \in Int /\ next_pending_id' < 0
        /\ late' \in SUBSET Path /\ reapplied' \in SUBSET late'
    BY <1>3 DEF BPInv, BPTypes
  <2> QED
    BY <2>1, <2>2, <2>3, <2>4, <2>5, <2>6, <2>7 DEF BPTypes
<1>8. ASSUME NEW p \in Path, NEW q \in Path,
             NEW i \in DOMAIN pending[p], NEW j \in DOMAIN pending[q],
             path_bps'[p][i].id = path_bps'[q][j].id
      PROVE  p = q /\ i = j
  <2>1. CASE pending[p][i].id # 0
    <3>1. pending[q][j].id # 0
      BY <1>6, <1>8, <2>1
    <3>2. pending[p][i].id = pending[q][j].id
      BY <1>5, <1>8, <2>1, <3>1
    <3> QED
      BY <2>1, <3>2 DEF BPInv, BPIdsOK
  <2>2. CASE pending[p][i].id = 0
    <3>1. pending[q][j].id = 0
      BY <1>6, <1>8, <2>2
    <3>2. before(p, i) = before(q, j)
      <4>1. path_bps'[p][i].id = 1 + before(p, i) /\ before(p, i) \in Nat
        BY <1>5, <1>6, <2>2
      <4>2. path_bps'[q][j].id = 1 + before(q, j) /\ before(q, j) \in Nat
        BY <1>5, <1>6, <3>1
      <4>3. PICK b, c : b = before(p, i) /\ c = before(q, j)
        OBVIOUS
      <4>4. b \in Nat /\ c \in Nat /\ 1 + b = 1 + c
        BY <1>8, <4>1, <4>2, <4>3
      <4>5. b = c
        BY <4>4
      <4> QED
        BY <4>3, <4>5
    <3>3. before(p, i) \in Nat
      BY <1>6, <2>2
    <3>4. ~(rank[p] < rank[q] \/ (p = q /\ i < j))
      <4>1. SUFFICES ASSUME rank[p] < rank[q] \/ (p = q /\ i < j)
                     PROVE  before(p, i) < before(q, j)
        <5> HIDE DEF before
        <5> QED
          BY <3>2, <3>3
      <4> QED
        BY <1>4, <2>2, <3>1, <4>1, BeforeOrder
    <3>5. ~(rank[q] < rank[p] \/ (q = p /\ j < i))
      <4>1. SUFFICES ASSUME rank[q] < rank[p] \/ (q = p /\ j < i)
                     PROVE  before(q, j) < before(p, i)
        <5> HIDE DEF before
        <5> QED
          BY <3>2, <3>3
      <4> QED
        BY <1>4, <2>2, <3>1, <4>1, BeforeOrder
    <3>6. rank[p] \in Int /\ rank[q] \in Int /\ (rank[p] = rank[q] => p = q)
      BY DEF Orders
    <3>7. i \in Int /\ j \in Int
      BY <1>4, ElementIs DEF BPLists
    <3> HIDE DEF before
    <3> QED
      BY <3>4, <3>5, <3>6, <3>7
  <2> QED
    BY <2>1, <2>2
<1>9. BPIdsOK'
  <2>1. \A p \in Path : \A i \in DOMAIN path_bps'[p] :
          path_bps'[p][i].id # 0 /\ path_bps'[p][i].id < next_id'
    BY <1>5, <1>6
  <2>2. AllDistinct(path_bps)'
    BY <1>5, <1>8 DEF AllDistinct
  <2>3. \A p \in Path : \A i \in DOMAIN pending'[p] :
          \/ pending'[p][i].id = 0
          \/ next_pending_id' < pending'[p][i].id /\ pending'[p][i].id < 0
    BY <1>3 DEF BPInv, BPIdsOK
  <2>4. \A p, q \in Path : \A i \in DOMAIN pending'[p], j \in DOMAIN pending'[q] :
          pending'[p][i].id = pending'[q][j].id /\ pending'[p][i].id # 0 => p = q /\ i = j
    BY <1>3 DEF BPInv, BPIdsOK
  <2> QED
    BY <2>1, <2>2, <2>3, <2>4 DEF BPIdsOK
<1>10. \A p \in Path : bound'[p] = <<>>
  BY <1>2
<1>11. BPBoundOK'
  BY <1>3, <1>10 DEF BPBoundOK
<1>12. BPShownOK'
  <2>1. ASSUME NEW p \in Path \ late, NEW i \in DOMAIN path_bps'[p]
        PROVE  path_bps'[p][i] \in shown'[p]
    <3>1. i \in DOMAIN pending[p]
      BY <1>5
    <3>2. pending[p][i].id # 0 /\ pending[p][i] \in shown[p]
      BY <3>1 DEF BPInv, BPShownOK
    <3>3. path_bps'[p][i] = pending[p][i]
      BY <1>5, <3>1, <3>2
    <3> QED
      BY <1>3, <3>2, <3>3
  <2>2. \A p \in Path \ late' : \A i \in DOMAIN pending'[p] :
          pending'[p][i].id # 0 /\ pending'[p][i] \in shown'[p]
    BY <1>3 DEF BPInv, BPShownOK
  <2> QED
    BY <1>3, <2>1, <2>2 DEF BPShownOK
<1>13. FlagIsTrue'
  BY <1>3, <1>10 DEF FlagIsTrue, HasAny
<1>14. \A p \in Path : DOMAIN bound'[p] = {}
  BY <1>10
<1>15. KeepsHits
  BY <1>14 DEF KeepsHits
<1>16. StopsForBound
  BY <1>3 DEF StopsForBound, NoCheck
<1> QED
  BY <1>7, <1>9, <1>11, <1>12, <1>13, <1>15, <1>16 DEF BPInv

(***************************************************************************)
(* The theorems.                                                           *)
(***************************************************************************)
LEMMA BreakpointsStep ==
  ASSUME BPInv, [BreakpointsNext]_breakpoint_vars
  PROVE  BPInv' /\ (BreakpointsNext => StopsForBound /\ KeepsHits)
<1>1. ASSUME NEW p \in Path, NEW reqs \in RequestLists, handle_set_breakpoints(p, reqs)
      PROVE  BPInv' /\ StopsForBound /\ KeepsHits
  BY <1>1, SetCompiled, SetUncompiled
<1>2. CASE Protocol
  BY <1>1, <1>2, SetEarly, FlagUpdated, SessionStarted DEF Protocol, launch, restart
<1>3. CASE Program
  BY <1>3, PendingResolved, FlagResolved, Found, ConditionFalse, HitRecorded, Finished DEF Program
<1>4. CASE UNCHANGED breakpoint_vars
  <2>1. BreakpointsStay /\ UNCHANGED <<active, setter, exec, chk>>
    BY <1>4 DEF breakpoint_vars, BreakpointsStay
  <2>2. FlagIsTrue'
    BY <2>1 DEF BPInv, FlagIsTrue, HasAny, BreakpointsStay
  <2>3. BPInv'
    BY <2>1, <2>2, StayOK DEF BPInv, BPTypes, BPBoundOK
  <2>4. StopsForBound
    BY <2>1 DEF StopsForBound
  <2> QED
    BY <2>1, <2>3, <2>4, HitsStay DEF BreakpointsStay
<1> QED
  BY <1>2, <1>3, <1>4 DEF BreakpointsNext

\* The inductive invariant of the breakpoints.
THEOREM BPInvariance == BreakpointsSpec => []BPInv
<1>1. BreakpointsInit => BPInv
  BY BPInitially
<1>2. BPInv /\ [BreakpointsNext]_breakpoint_vars => BPInv'
  BY BreakpointsStep
<1> QED
  BY <1>1, <1>2, PTL DEF BreakpointsSpec

\* However setBreakpoints, the launch and the resolution of what is pending
\* interleave, the flag the debug hook looks at first is the truth about all files.
THEOREM FlagIsAlwaysTrue == BreakpointsSpec => []FlagIsTrue
<1>1. BPInv => FlagIsTrue
  BY DEF BPInv
<1> QED
  BY <1>1, BPInvariance, PTL

\* The invariant contains the type invariant.
LEMMA InvTypes ==
  ASSUME BPInv
  PROVE  BreakpointsTypeOK
<1>1. ASSUME NEW p \in Path
      PROVE  /\ \A i \in DOMAIN bound[p] : Executable # {} => bound[p][i].line \in Executable
             /\ \A i \in DOMAIN bound[p] : bound[p][i].times_hit \in 0 .. MaxHits
             /\ \A i \in DOMAIN path_bps[p] : path_bps[p][i].id # 0
             /\ Len(bound[p]) <= MaxBreakpoints
  <2>1. bound[p] \in Seq(Info) /\ path_bps[p] \in Seq(Named) /\ Len(path_bps[p]) <= MaxBreakpoints
    BY DEF BPInv, BPTypes
  <2>2. Len(bound[p]) <= MaxBreakpoints
    <3>1. CASE bound[p] = <<>>
      BY <3>1, BreakpointAssumption
    <3>2. CASE bound[p] # <<>>
      BY <2>1, <3>2 DEF BPInv, BPBoundOK, Agrees
    <3> QED
      BY <3>1, <3>2
  <2>3. ASSUME NEW i \in DOMAIN bound[p]
        PROVE  /\ Executable # {} => bound[p][i].line \in Executable
               /\ bound[p][i].times_hit \in 0 .. MaxHits
    <3>1. bound[p][i] \in Info
      BY <2>1, ElementIs
    <3>2. bound[p][i].times_hit \in 0 .. MaxHits
      BY <3>1 DEF Info
    <3>3. bound[p] # <<>>
      BY <2>3
    <3>4. Agrees(bound[p], path_bps[p])
      BY <3>3 DEF BPInv, BPBoundOK
    <3>5. i \in DOMAIN path_bps[p] /\ bound[p][i].line = snap_line(path_bps[p][i].line)
      BY <2>1, <3>4 DEF Agrees
    <3>6. path_bps[p][i] \in Named
      BY <2>1, <3>5, ElementIs
    <3>7. path_bps[p][i].line \in Nat
      BY <3>6, BreakpointAssumption DEF Named
    <3>8. ASSUME Executable # {}
          PROVE  bound[p][i].line \in Executable
      BY <3>5, <3>7, <3>8, SnapExecutable
    <3> QED
      BY <3>2, <3>8
  <2>4. \A i \in DOMAIN path_bps[p] : path_bps[p][i].id # 0
    BY DEF BPInv, BPIdsOK
  <2> QED
    BY <2>2, <2>3, <2>4
<1>2. DOMAIN chk = Debuggee
  BY DEF BPInv, BPTypes
<1>3. /\ session \in {"none", "failed", "live"} /\ next_id > 0 /\ next_pending_id < 0
      /\ active \in BOOLEAN /\ reapplied \subseteq late /\ late \subseteq Path
      /\ setter \in {"idle", "flag"} /\ exec \in {"off", "config", "flag", "run"}
      /\ sets \in 0 .. MaxSets
  BY DEF BPInv, BPTypes
<1> QED
  BY <1>1, <1>2, <1>3 DEF BreakpointsTypeOK

\* What is bound is what was asked for, and the client was told of it.
LEMMA InvShown ==
  ASSUME BPInv
  PROVE  IdsUnique /\ BoundIsShown
<1>1. \A p, q \in Path : \A i \in DOMAIN path_bps[p], j \in DOMAIN path_bps[q] :
        path_bps[p][i].id = path_bps[q][j].id => p = q /\ i = j
  BY DEF BPInv, BPIdsOK, AllDistinct
<1>2. \A p \in Path : Distinct(bound[p])
  BY BoundDistinct
<1>3. \A p \in Path : Ids(bound[p]) \subseteq Ids(path_bps[p])
  BY BoundDistinct DEF Ids
<1>4. IdsUnique
  BY <1>1, <1>2, <1>3 DEF IdsUnique, Distinct
<1>5. ASSUME NEW p \in Path \ reapplied, NEW i \in DOMAIN bound[p]
      PROVE  \E s \in shown[p] : /\ s.id = bound[p][i].id /\ s.kind = bound[p][i].kind
                                 /\ snap_line(s.line) = bound[p][i].line
  <2>1. i \in DOMAIN path_bps[p] /\ bound[p] \in Seq(Info)
    BY BoundDistinct
  <2>2. bound[p] # <<>>
    BY <1>5
  <2>3. Agrees(bound[p], path_bps[p])
    BY <2>2 DEF BPInv, BPBoundOK
  <2>4. path_bps[p][i] \in shown[p]
    BY <2>1 DEF BPInv, BPShownOK
  <2> QED
    BY <2>3, <2>4 DEF Agrees
<1> QED
  BY <1>4, <1>5 DEF BoundIsShown

\* Ids identify breakpoints, and what can stop the program is what the client
\* shows, under the same id and with the same conditions, whenever it was set:
\* before the session, before the program is compiled, or while it runs.
THEOREM EditorAlwaysKnows == BreakpointsSpec => []EditorKnowsBreakpoints
<1>1. BPInv => EditorKnowsBreakpoints
  BY InvTypes, InvShown DEF EditorKnowsBreakpoints
<1> QED
  BY <1>1, BPInvariance, PTL

\* No thread stops for a breakpoint that was removed while it looked at it, and
\* no breakpoint that lives on loses its hits.
THEOREM HitsAlwaysFollow == BreakpointsSpec => HitsFollowBreakpoints
<1>1. BPInv /\ [BreakpointsNext]_breakpoint_vars => [StopsForBound /\ KeepsHits]_breakpoint_vars
  BY BreakpointsStep
<1> QED
  BY <1>1, BPInvariance, PTL DEF BreakpointsSpec, HitsFollowBreakpoints
================================================================================
