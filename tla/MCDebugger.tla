------------------------------ MODULE MCDebugger ------------------------------
(* The debugger's engine and its breakpoints for TLC.  The two share no      *)
(* variable (DebugEngine abstracts a breakpoint to whether it is hit), so a  *)
(* behaviour is one of the engine or one of the breakpoints, as part says.   *)
EXTENDS DebugEngine, Breakpoints

CONSTANTS main, t1

VARIABLE part

mc_vars == <<part, vars, breakpoint_vars>>

MCInit ==
  /\ Init /\ BreakpointsInit
  /\ ~engine.pending                  \* the editor sets breakpoints by a request
  /\ \/ part = "engine"
     \/ part = "breakpoints" /\ ~ts[Main].stop_on_entry

MCNext ==
  \/ part = "engine" /\ Next /\ UNCHANGED <<part, breakpoint_vars>>
  \/ part = "breakpoints" /\ BreakpointsNext /\ UNCHANGED <<part, vars>>

MCSpec == MCInit /\ [][MCNext]_mc_vars
===============================================================================
