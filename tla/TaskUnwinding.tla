---------------------------- MODULE TaskUnwinding -----------------------------
(***************************************************************************)
(* How a task leaves the blocks it is in: try/catch/finally as the         *)
(* compiler lowers it, the handler stack and the cancellation shields of   *)
(* the VM, task_scope blocks, and callbacks that built-in functions make   *)
(* into the VM.  The program is any nesting of blocks; an error may be     *)
(* raised at every step and the task may be cancelled at any time.         *)
(*                                                                         *)
(* stack is the program's own nesting, which the VM does not keep; the VM  *)
(* keeps handlers, shields and scopes, and these must agree with it.       *)
(***************************************************************************)
EXTENDS Naturals, FiniteSets, Sequences, SequencesExt, FiniteSetsExt

CONSTANTS
  MaxBlocks,      \* bound: blocks the task is in at a time
  ScopeExits,     \* do programs leave a task_scope by return, break or continue?
  FinallyExits    \* ... a finally by break or continue, or by an exit on every path?

VARIABLES
  stack,      \* the blocks the task is in, the innermost last
  handlers,   \* VMExceptionManager::handlers_
  shields,    \* VMExceptionManager::shields_
  scopes,     \* task_manager_.task_scopes.size()
  cancelled,  \* is the task's token cancelled?
  thrown,     \* the C++ exception that is unwinding the VM, or "none"
  outcome     \* how the task ended, or "running"

unwinding_vars == <<stack, handlers, shields, scopes, cancelled, thrown, outcome>>

(* Blocks.  A finally body is compiled twice: as "cleanup", which a handler *)
(* enters with the error on the operand stack, and inlined as "finally"     *)
(* before the exit it delays.  fin tells whether a try has a finally        *)
(* ("none" if not) and whether some path through it reaches its end.        *)
Try(fin) == [kind |-> "try", fin |-> fin]
Catch == [kind |-> "catch"]
Cleanup(fin, error, shielded) ==
  [kind |-> "cleanup", fin |-> fin, error |-> error, shielded |-> shielded]
\* The values of the blocks left on the way stay on the operand stack, held.
Finally(fin, exit, held) == [kind |-> "finally", fin |-> fin, exit |-> exit, held |-> held]
Loop == [kind |-> "loop"]
TaskScopeBlock == [kind |-> "scope"]
Function == [kind |-> "call"]
\* An activation of run() that native made; pending: what it rethrows afterwards.
Callback(native, pending, n) ==
  [kind |-> "callback", native |-> native, pending |-> pending, scopes |-> n]

Errors == {"error", "cancel", "exit"}
Fin == {"falls"} \cup (IF FinallyExits THEN {"exits"} ELSE {})

Positions(s, kinds) == {i \in DOMAIN s : s[i].kind \in kinds}
Activation == {"call", "callback"}
Frames(s) == Cardinality(Positions(s, Activation))
Held(b) == CASE b.kind \in {"catch", "cleanup"} -> 1
             [] b.kind = "finally" -> b.held
             [] OTHER -> 0
\* The slots of the operand stack that the blocks hold; stack_size().
Slots(s) == UNION {{i} \X (1 .. Held(s[i])) : i \in DOMAIN s}
Depth(s) == Cardinality(Slots(s))

UnwindingInit ==
  /\ stack = <<Callback("task", "none", 0)>>
  /\ handlers = <<>> /\ shields = <<>> /\ scopes = 0
  /\ cancelled = FALSE /\ thrown = "none" /\ outcome = "running"

Running == outcome = "running" /\ thrown = "none"
Top == Last(stack)
Room == Len(stack) < MaxBlocks

(* The top of a LIFO stack goes as long as it is over.                       *)
PopWhile(s, Over(_)) == SubSeq(s, 1, Max({0} \cup {i \in DOMAIN s : ~Over(s[i])}))

(* Everything that belongs to frame n or a later one.                        *)
discard_frames_from(s, n) == PopWhile(s, LAMBDA x : x.frame >= n)

\* Seeded fault: a shield at exactly that depth is kept.
end_cancel_shields_above(frame, depth) ==
  PopWhile(shields, LAMBDA x : x.frame > frame \/ (x.frame = frame /\ x.depth > depth))

end_cancel_shields_from(frame, depth) ==
  PopWhile(shields,
    LAMBDA x : x.frame > frame \/ (x.frame = frame /\ x.depth >= depth))

\* Cancel, join and pop every scope above the first n.
unwind_task_scopes_to(n) == Min({n, scopes})

StopsHere(sh) == cancelled /\ sh = <<>>

(* check_cancellation() before A.                                            *)
check_cancellation(A) ==
  IF StopsHere(shields)
  THEN thrown' = "cancel" /\ UNCHANGED <<stack, handlers, shields, scopes, outcome>>
  ELSE A /\ UNCHANGED <<thrown, outcome>>

-------------------------------------------------------------------------------
(* Blocks that are entered, and left at their end.                           *)

handle_try_catch(fin) ==
  /\ Room
  /\ stack' = Append(stack, Try(fin))
  /\ handlers' = Append(handlers,
       [fin |-> fin, at |-> Len(stack) + 1,        \* catch_ip
        frame |-> Frames(stack) - 1, depth |-> Depth(stack), scopes |-> scopes])
  /\ UNCHANGED <<shields, scopes, thrown, outcome>>

(* n times Op::TryEnd.                                                       *)
TryEnd(n) == SubSeq(handlers, 1, Len(handlers) - n)

compile_try_end ==
  /\ Top.kind = "try"
  /\ handlers' = TryEnd(1)
  /\ stack' = IF Top.fin = "none" THEN Front(stack)
              ELSE Append(Front(stack), Finally(Top.fin, "none", 0))
  /\ UNCHANGED <<shields, scopes, thrown, outcome>>

EnterLoop ==
  /\ Room /\ stack' = Append(stack, Loop)
  /\ UNCHANGED <<handlers, shields, scopes, thrown, outcome>>

handle_loop ==
  /\ Top.kind = "loop"
  /\ check_cancellation(UNCHANGED <<stack, handlers, shields, scopes>>)

(* The end of a catch, of a finally that delayed nothing, or of a loop.      *)
EndBlock ==
  /\ Top \in {Catch, Loop, Finally("falls", "none", 0)}
  /\ stack' = Front(stack)
  /\ UNCHANGED <<handlers, shields, scopes, thrown, outcome>>

handle_task_scope_begin ==
  /\ Room /\ stack' = Append(stack, TaskScopeBlock) /\ scopes' = scopes + 1
  /\ UNCHANGED <<handlers, shields, thrown, outcome>>

(* Joins the innermost scope; a child's failure is thrown once the scope is  *)
(* retired.                                                                  *)
handle_task_scope_end ==
  /\ Top = TaskScopeBlock
  /\ \/ scopes' = scopes - 1 /\ stack' = Front(stack) /\ UNCHANGED thrown
     \/ scopes' = scopes - 1 /\ thrown' = "error" /\ UNCHANGED stack
  /\ UNCHANGED <<handlers, shields, outcome>>

op_rethrow ==
  /\ Top.kind = "cleanup" /\ Top.fin = "falls"
  /\ stack' = Front(stack)
  /\ shields' = end_cancel_shields_from(Frames(stack) - 1, Depth(stack) - 1)
  /\ thrown' = Top.error
  /\ UNCHANGED <<handlers, scopes, outcome>>

-------------------------------------------------------------------------------
(* Calls.                                                                    *)

call_function ==
  /\ Room
  /\ check_cancellation(stack' = Append(stack, Function) /\ UNCHANGED <<handlers, shields, scopes>>)

(* What a built-in does when the callback b it made ended with error e       *)
(* ("none": it returned), the shields being sh: the blocks it enters and     *)
(* what it throws.  Resource.with and Resource.using call the release        *)
(* function, a call like any other; the map functions turn an error into a   *)
(* failure value.                                                            *)
After(b, e, sh) ==
  CASE b.native = "with" /\ ~StopsHere(sh) ->
         [next |-> <<Callback("release", e, b.scopes)>>, thrown |-> "none"]
    [] b.native = "with" /\ StopsHere(sh) ->
         [next |-> <<>>, thrown |-> IF e = "none" THEN "cancel" ELSE e]
    [] b.native = "release" /\ b.pending # "none" -> [next |-> <<>>, thrown |-> b.pending]
    [] b.native = "map" /\ e # "exit" -> [next |-> <<>>, thrown |-> "none"]
    [] OTHER -> [next |-> <<>>, thrown |-> e]

vm_native_callable(native) ==
  LET b == Callback(native, "none", scopes)
  IN /\ Room
     /\ IF StopsHere(shields)
        THEN thrown' = After(b, "cancel", shields).thrown /\ UNCHANGED stack
        ELSE stack' = Append(stack, b) /\ UNCHANGED thrown
     /\ UNCHANGED <<handlers, shields, scopes, outcome>>

(* The current frame of s, the blocks s[1..n] that a callback left, and what *)
(* its native does next.                                                     *)
Frame(s) == Max(Positions(s, Activation))

LeaveCallback(s, n, e) ==
  /\ shields' = discard_frames_from(shields, Frames(SubSeq(s, 1, n)))
  /\ LET r == After(s[n + 1], e, shields')
     IN stack' = SubSeq(s, 1, n) \o r.next /\ thrown' = r.thrown

complete_return(s, hs) ==
  LET n == Frame(s) - 1
  IN /\ handlers' = discard_frames_from(hs, Frames(SubSeq(s, 1, n)))
     /\ UNCHANGED scopes
     /\ CASE n = 0 ->
               stack' = <<>> /\ shields' = <<>> /\ outcome' = "value" /\ UNCHANGED thrown
          [] n > 0 /\ s[n + 1].kind = "call" ->
               /\ stack' = SubSeq(s, 1, n)
               /\ shields' = discard_frames_from(shields, Frames(stack'))
               /\ UNCHANGED <<thrown, outcome>>
          [] OTHER -> LeaveCallback(s, n, "none") /\ UNCHANGED outcome

-------------------------------------------------------------------------------
(* return, break and continue, as the compiler lowers them: Op::TryEnd for   *)
(* every try on the way, and the finally bodies inlined.                     *)

Loops(s) == {i \in Positions(s, {"loop"}) : i > Frame(s)}
Target(s, exit) == IF exit = "return" THEN Frame(s) ELSE Max(Loops(s))

(* What the modelled programs leave this way.  A break that leaves a finally *)
(* inlined for a return is not among them.                                   *)
MayLeave(exit) ==
  /\ exit # "return" => Loops(stack) # {}
  /\ \A i \in Target(stack, exit) + 1 .. Len(stack) :
       /\ stack[i].kind = "scope" => ScopeExits
       /\ stack[i].kind = "cleanup" /\ exit # "return" => FinallyExits
       /\ stack[i].kind = "finally" /\ exit # "return" =>
            FinallyExits /\ stack[i].exit # "return"

(* depth: the operand stack's, which nothing is popped from on the way.      *)
Exit(s, exit, depth) ==
  LET target == Target(s, exit)
      tries == {i \in Positions(s, {"try"}) : i > target}
      finals == {i \in tries : s[i].fin # "none"}
      stop == Max({target} \cup finals)
      hs == TryEnd(Cardinality({i \in tries : i >= stop}))
  IN CASE finals # {} ->
            /\ stack' = Append(SubSeq(s, 1, stop - 1),
                          Finally(s[stop].fin, exit, depth - Depth(SubSeq(s, 1, stop - 1))))
            /\ handlers' = hs
            /\ UNCHANGED <<shields, scopes, thrown, outcome>>
       [] finals = {} /\ exit = "return" -> complete_return(s, hs)
       [] finals = {} /\ exit = "break" ->
            /\ stack' = SubSeq(s, 1, target - 1) /\ handlers' = hs
            /\ UNCHANGED <<shields, scopes, thrown, outcome>>
       [] finals = {} /\ exit = "continue" ->
            /\ stack' = SubSeq(s, 1, target) /\ handlers' = hs
            /\ thrown' = IF StopsHere(shields) THEN "cancel" ELSE "none"
            /\ UNCHANGED <<shields, scopes, outcome>>

compile_exit(exit) ==
  MayLeave(exit) /\ Exit(stack, exit, Depth(stack) + IF exit = "return" THEN 1 ELSE 0)

(* The end of a finally that delayed an exit.                                *)
resume_exit ==
  /\ Top.kind = "finally" /\ Top.fin = "falls" /\ Top.exit # "none"
  /\ Exit(Front(stack), Top.exit, Depth(stack))

(* return f(), outside of every try of the frame.                            *)
handle_tail_call ==
  /\ MayLeave("return")
  /\ \A i \in Positions(stack, {"try"}) : i < Frame(stack)
  /\ check_cancellation(
       /\ stack' = SubSeq(stack, 1, Frame(stack))
       /\ handlers' = discard_frames_from(handlers, Frames(stack) - 1)
       /\ shields' = discard_frames_from(shields, Frames(stack) - 1)
       /\ UNCHANGED scopes)

-------------------------------------------------------------------------------
(* Exceptions.                                                               *)

(* Raised by any instruction: a RuntimeError, the cancellation of a task     *)
(* that was awaited or of this one in a channel wait, or an ExitSignal.      *)
Throw ==
  /\ thrown' \in Errors
  /\ UNCHANGED <<stack, handlers, shields, scopes, outcome>>

RunBase == Max(Positions(stack, {"callback"}))
has_handler_for ==
  {i \in DOMAIN handlers : handlers[i].frame >= Frames(SubSeq(stack, 1, RunBase)) - 1}

is_cleanup(h) == h.fin = "falls"

is_valid_handler(h) ==
  h.frame < Frames(stack) /\ h.depth <= Depth(stack) /\ h.scopes <= scopes

\* Seeded fault: a cancellation skips every handler.
UsableByErrors ==
  IF thrown = "error" \/ (thrown = "cancel" /\ ~cancelled) THEN has_handler_for ELSE {}

(* The handlers an exception may resume at: a task that is being cancelled   *)
(* skips its catch blocks.                                                   *)
Usable ==
  CASE thrown = "error" -> has_handler_for
    [] thrown = "cancel" -> {i \in has_handler_for : cancelled => is_cleanup(handlers[i])}
    [] OTHER -> {}

Handler == Max({0} \cup Usable)
Caught == Handler # 0 /\ is_valid_handler(handlers[Handler])

(* handle_exception and handle_cancellation with resume_at_handler.          *)
handle_exception ==
  LET h == handlers[Handler]
      shielded == cancelled /\ is_cleanup(h)
      kept == end_cancel_shields_from(h.frame, h.depth)
  IN /\ Caught
     /\ handlers' = SubSeq(handlers, 1, Handler - 1)
     /\ scopes' = unwind_task_scopes_to(h.scopes)
     /\ stack' = Append(SubSeq(stack, 1, h.at - 1),
                   IF h.fin = "none" THEN Catch ELSE Cleanup(h.fin, thrown, shielded))
     /\ shields' = IF shielded THEN Append(kept, [frame |-> h.frame, depth |-> h.depth]) ELSE kept
     /\ thrown' = "none"
     /\ UNCHANGED outcome

(* The exception leaves run(): to the native that called it, or to the end   *)
(* of the task, which build_spawn_future classifies.                         *)
LeaveRun ==
  LET n == RunBase - 1
  IN /\ ~Caught
     /\ scopes' = unwind_task_scopes_to(stack[RunBase].scopes)
     /\ handlers' = discard_frames_from(handlers, Frames(SubSeq(stack, 1, n)))
     /\ IF n = 0
        THEN /\ stack' = <<>> /\ shields' = <<>> /\ thrown' = "none"
             /\ outcome' = IF thrown = "cancel" \/ (thrown = "error" /\ cancelled)
                           THEN "cancelled" ELSE "failed"
        ELSE LeaveCallback(stack, n, thrown) /\ UNCHANGED outcome

Cancel ==
  /\ outcome = "running" /\ ~cancelled /\ cancelled' = TRUE
  /\ UNCHANGED <<stack, handlers, shields, scopes, thrown, outcome>>

-------------------------------------------------------------------------------
Step ==
  \/ \E fin \in {"none"} \cup Fin : handle_try_catch(fin)
  \/ compile_try_end
  \/ EnterLoop
  \/ handle_loop
  \/ EndBlock
  \/ handle_task_scope_begin
  \/ handle_task_scope_end
  \/ op_rethrow
  \/ call_function
  \/ \E native \in {"each", "map", "with"} : vm_native_callable(native)
  \/ \E exit \in {"return", "break", "continue"} : compile_exit(exit)
  \/ resume_exit
  \/ handle_tail_call
  \/ Throw

Unwind == handle_exception \/ LeaveRun

UnwindingNext ==
  \/ Running /\ Step /\ UNCHANGED cancelled
  \/ thrown # "none" /\ Unwind /\ UNCHANGED cancelled
  \/ Cancel

UnwindingSpec == UnwindingInit /\ [][UnwindingNext]_unwinding_vars

-------------------------------------------------------------------------------
(* The types: no scope is popped twice, and an ended task holds nothing.     *)
UnwindingTypeOK ==
  /\ Len(stack) <= MaxBlocks + 1 /\ \A i \in DOMAIN stack : stack[i].kind \in
       {"try", "catch", "cleanup", "finally", "loop", "scope", "call", "callback"}
  /\ scopes \in Nat
  /\ cancelled \in BOOLEAN /\ thrown \in Errors \cup {"none"}
  /\ outcome \in {"running", "value", "failed", "cancelled"}
  /\ outcome # "running" => stack = <<>> /\ handlers = <<>> /\ shields = <<>>

Before(i) == SubSeq(stack, 1, i - 1)

(* The VM's handlers are exactly those of the try blocks the task is in, in  *)
(* order, each with the frame, the stack depth and the number of task scopes *)
(* of its block: whatever exits, errors, callbacks and cancellations led     *)
(* there, Op::TryEnd never took another block's handler and none outlived    *)
(* its block.                                                                *)
HandlersMatch ==
  /\ {handlers[j].at : j \in DOMAIN handlers} = Positions(stack, {"try"})
  /\ \A j, k \in DOMAIN handlers : j < k => handlers[j].at < handlers[k].at
  /\ \A j \in DOMAIN handlers :
       LET i == handlers[j].at
       IN handlers[j] =
            [fin |-> stack[i].fin, at |-> i, frame |-> Frames(Before(i)) - 1,
             depth |-> Depth(Before(i)), scopes |-> Cardinality(Positions(Before(i), {"scope"}))]

(* The VM ignores cancellation from when a cancelled task enters a finally   *)
(* until it leaves it; one left by return, until its frame has returned.     *)
ShieldsMatch ==
  LET InCleanup(x) == \E i \in Positions(stack, {"cleanup"}) :
        stack[i].shielded /\ x = [frame |-> Frames(Before(i)) - 1, depth |-> Depth(Before(i))]
      Returning(x) == \E i \in Positions(stack, {"finally"}) :
        stack[i].exit = "return" /\ x.frame = Frames(Before(i)) - 1
  IN /\ \A i \in Positions(stack, {"cleanup"}) : stack[i].shielded =>
          [frame |-> Frames(Before(i)) - 1, depth |-> Depth(Before(i))] \in Range(shields)
     /\ \A x \in Range(shields) : InCleanup(x) \/ Returning(x)

(* The open task scopes are those of the task_scope blocks the task is in:   *)
(* every other one was joined, so its children have ended.                   *)
ScopesMatch == thrown = "none" => scopes = Cardinality(Positions(stack, {"scope"}))

(* What the VM keeps is what the program's nesting says.                     *)
VmMatchesProgram == UnwindingTypeOK /\ HandlersMatch /\ ShieldsMatch /\ ScopesMatch

Stays(i) == i \in DOMAIN stack' /\ stack'[i] = stack[i]

(* A try block with a finally is left only into that finally, whatever       *)
(* leaves it, ExitSignal aside.                                              *)
RunsFinally ==
  \A i \in Positions(stack, {"try"}) :
    \/ stack[i].fin = "none" \/ thrown = "exit"
    \/ Stays(i)
    \/ i \in DOMAIN stack' /\ stack'[i].kind \in {"cleanup", "finally"}

(* Resource.with calls the release function when its body has ended.         *)
CallsRelease(i) ==
  \/ Stays(i)
  \/ i \in DOMAIN stack' /\ stack'[i].kind = "callback" /\ stack'[i].native = "release"
WithBodies == {i \in Positions(stack, {"callback"}) : stack[i].native = "with"}

RunsCleanup == RunsFinally /\ \A i \in WithBodies : CallsRelease(i) \/ cancelled

(* Neither clean-up of the language is skipped, by no exit, error, callback  *)
(* or cancellation; the release function may be when the task is cancelled.  *)
CleanupRuns == [][RunsCleanup]_unwinding_vars

(* Resource.with always calls the release function.  TLC refutes it: the     *)
(* call is one that a cancelled task stops at.                               *)
ReleaseGuaranteed == [][\A i \in WithBodies : CallsRelease(i)]_unwinding_vars
===============================================================================
