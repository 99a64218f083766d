------------------------------ MODULE MCLiveness ------------------------------
(* Three components for TLC that share no variable, for what they must do    *)
(* eventually: the debug engine, the analysis pipeline and a channel.        *)
(* A behaviour is one of a single component, as part says; the others stay   *)
(* in their initial state.                                                   *)
EXTENDS DebugEngine

CONSTANTS
  Uri, Content, NoText, Error, Faulty, Workspace, OnSave, MaxCache, MaxMessages,
  Caller, HasToken, Value, Nil, Capacity, max_channel_queue_size

VARIABLES
  part,
  docs, cache, included, dependents, pending, force, cancel_flag, running, mutex, todo, wpc, batch,
  rest, cur, to_publish, disk, published, failed, messages,
  buffer, closed, cancelled, ch_pc, call, outcome

AP == INSTANCE AnalysisPipeline WITH None <- NoText, Includes <- [u \in Uri |-> {}]
Ch == INSTANCE Channel WITH Thread <- Caller, pc <- ch_pc

ap_vars == <<docs, cache, included, dependents, pending, force, cancel_flag, running, mutex, todo,
             wpc, batch, rest, cur, to_publish, disk, published, failed, messages>>
ch_vars == <<buffer, closed, cancelled, ch_pc, call, outcome>>
mc_vars == <<part, vars, ap_vars, ch_vars>>

MCInit ==
  /\ Init /\ AP!Init /\ Ch!Init
  /\ part \in {"engine", "pipeline", "channel"}
  /\ ~engine.pending                  \* the editor sets breakpoints by a request
  /\ part # "engine" => ~ts[Main].stop_on_entry
  /\ part # "pipeline" => disk = [u \in Uri |-> CHOOSE c \in Content : TRUE]

Engine(A) == part = "engine" /\ A /\ UNCHANGED <<part, ap_vars, ch_vars>>
Pipeline(A) == part = "pipeline" /\ A /\ UNCHANGED <<part, vars, ch_vars>>
Chan(A) == part = "channel" /\ A /\ UNCHANGED <<part, vars, ap_vars>>

MCNext == Engine(Next) \/ Pipeline(AP!Next) \/ Chan(Ch!Next)

(* The fairness of each module's FairSpec.  As part never changes, fairness  *)
(* of a disjunction of steps of different components is that of each.        *)
MCFairness ==
  /\ WF_mc_vars(Engine(ProtoStep) \/ Pipeline(AP!WorkerStep))
  /\ \A t \in Thread : WF_mc_vars(Engine(ThreadStep(t)))
  /\ SF_mc_vars(Pipeline(AP!MainStep))
  /\ \A c \in Caller :
       /\ WF_mc_vars(Chan(Ch!Notify(c)))
       /\ WF_mc_vars(Chan(Ch!Recheck(c)))
       /\ SF_mc_vars(Chan(Ch!Poll(c)))
       /\ WF_mc_vars(Chan(Ch!DeadlinePasses(c)))

MCSpec == MCInit /\ [][MCNext]_mc_vars /\ MCFairness

(* DebugEngine: terminate() returns whatever the program is doing.           *)
SessionTerminates == part = "engine" => TerminateReturns

(* DebugEngine: an editor that vanishes leaves no session behind.            *)
SessionDisconnects == part = "engine" => DisconnectEndsSession

(* DebugEngine: a program that is asked to pause stops, ends or goes on at   *)
(* the request of the editor.                                                *)
SessionPauses == part = "engine" => PauseHonoured

(* AnalysisPipeline: once the client is quiet the worker has analysed the    *)
(* current text of every document, and the client has the diagnostics of     *)
(* every open one.                                                           *)
AnalysisCatchesUp == part = "pipeline" => AP!CatchesUp /\ AP!DiagnosticsCatchUp

(* Channel: timed calls, calls of cancelled tasks and calls on a closed      *)
(* channel return.                                                           *)
CallsReturn == part = "channel" => Ch!BlockedCallReturns
===============================================================================
