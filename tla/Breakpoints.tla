----------------------------- MODULE Breakpoints -----------------------------
(***************************************************************************)
(* The breakpoints of the debugger: the protocol thread sets them, before  *)
(* a session exists, before the program is compiled or while it runs; the  *)
(* execution thread binds the pending ones once the client is configured;  *)
(* every thread of the program looks them up and counts their hits.        *)
(* ctx_.mutex makes each step below atomic; a condition is evaluated       *)
(* outside it, between two steps.                                          *)
(***************************************************************************)
EXTENDS Integers, Sequences, FiniteSets, SequencesExt

CONSTANTS
  Path, Known,     \* source files, and those that are part of the program
  Line, Executable,\* line numbers, and those with code
  Kinds,           \* "plain", "conditional", "log", "hit2": the condition fields
  Debuggee,        \* the threads of the program
  MaxBreakpoints,  \* bound: breakpoints in one setBreakpoints
  MaxSets,         \* bound: setBreakpoints, launch and restart requests
  MaxHits          \* numeric_limits<int>::max()

ASSUME BreakpointAssumption ==
  /\ IsFiniteSet(Path) /\ Known \subseteq Path
  /\ Line \subseteq Nat /\ Executable \subseteq Nat /\ IsFiniteSet(Executable)
  /\ MaxBreakpoints \in Nat /\ MaxSets \in Nat /\ MaxHits \in Nat

VARIABLES
  session,    \* "none", "failed" (it did not compile) or "live"
  pending,    \* ctx_.pending_breakpoints: path -> requests
  path_bps,   \* path_breakpoints_: path -> requests with their ids
  bound,      \* line_breakpoints_: path -> bound breakpoints
  next_id, next_pending_id,
  active,     \* breakpoints_active_
  shown,      \* path -> the breakpoints the client was told of
  late,       \* the paths last set while there was a session
  reapplied,  \* the paths a restart set again without telling the client
  setter,     \* the protocol thread: "idle", or "flag": before update_breakpoints_active_flag
  exec,       \* the execution thread: "off", "config", "flag" or "run"
  chk,        \* chk[t]: a check in progress: snapshots left, line, result
  sets

breakpoint_vars ==
  <<session, pending, path_bps, bound, next_id, next_pending_id, active, shown, late, reapplied,
    setter, exec, chk, sets>>

Request == [line : Line, kind : Kinds, id : {0}]
RequestLists == UNION {[1 .. n -> Request] : n \in 0 .. MaxBreakpoints}
NoCheck == [path |-> "", line |-> 0, left |-> <<>>, hit |-> 0]
Ids(s) == {s[i].id : i \in DOMAIN s}

\* The elements of a sequence at the positions in S, in their order.
Nth(S, n) == CHOOSE i \in S : Cardinality({j \in S : j <= i}) = n
Select(s, S) == [n \in 1 .. Cardinality(S) |-> s[Nth(S, n)]]

HasAny == \E p \in Path : bound[p] # <<>>

BreakpointsTypeOK ==
  /\ session \in {"none", "failed", "live"}
  /\ \A p \in Path :
       /\ \A i \in DOMAIN bound[p] : Executable # {} => bound[p][i].line \in Executable
       /\ \A i \in DOMAIN bound[p] : bound[p][i].times_hit \in 0 .. MaxHits
       /\ \A i \in DOMAIN path_bps[p] : path_bps[p][i].id # 0
       /\ Len(bound[p]) <= MaxBreakpoints
  /\ next_id > 0 /\ next_pending_id < 0
  /\ active \in BOOLEAN
  /\ reapplied \subseteq late /\ late \subseteq Path
  /\ setter \in {"idle", "flag"} /\ exec \in {"off", "config", "flag", "run"}
  /\ DOMAIN chk = Debuggee
  /\ sets \in 0 .. MaxSets

BreakpointsInit ==
  /\ session = "none"
  /\ pending = [p \in Path |-> <<>>] /\ path_bps = pending /\ bound = pending
  /\ next_id = 1 /\ next_pending_id = -1
  /\ active = FALSE
  /\ shown = [p \in Path |-> {}] /\ late = {} /\ reapplied = {}
  /\ setter = "idle" /\ exec = "off"
  /\ chk = [t \in Debuggee |-> NoCheck]
  /\ sets = 0

(***************************************************************************)
(* LineBreakpointManager                                                   *)
(***************************************************************************)
\* The next line with code, or the last one.
snap_line(l) ==
  IF Executable = {} \/ l \in Executable THEN l
  ELSE LET after == {e \in Executable : e > l} IN
       IF after # {} THEN CHOOSE e \in after : \A f \in after : e <= f
       ELSE CHOOSE e \in Executable : \A f \in Executable : f <= e

create_info(r, id, n) == [id |-> id, line |-> snap_line(r.line), kind |-> r.kind, times_hit |-> n]

\* A request that carries an id keeps it.
id_for_request(r, next) == IF r.id # 0 THEN r.id ELSE next

Matches(old, r) == {i \in DOMAIN old : old[i].line = snap_line(r.line) /\ old[i].kind = r.kind}
First(S) == CHOOSE i \in S : \A j \in S : i <= j

adopt(old, i, r) == create_info(r, old[i].id, old[i].times_hit)

consume(old, i) == RemoveAt(old, i)

\* One request of set_breakpoints on a compiled file: preserve_hit_counts, or a
\* new breakpoint.  acc: the old breakpoints left, the new ones, the next id.
bind(acc, r) ==
  LET m == Matches(acc.old, r) IN
  IF m # {}
  THEN [acc EXCEPT !.old = consume(@, First(m)), !.new = Append(@, adopt(acc.old, First(m), r))]
  ELSE [acc EXCEPT !.new = Append(@, create_info(r, id_for_request(r, acc.next), 0)),
                   !.next = IF r.id # 0 THEN @ ELSE @ + 1]

\* The requests of a compiled file in turn.
bind_all(old, reqs, next) ==
  LET acc[i \in 0 .. Len(reqs)] ==
        IF i = 0 THEN [old |-> old, new |-> <<>>, next |-> next] ELSE bind(acc[i - 1], reqs[i])
  IN acc[Len(reqs)]

\* A file that is not compiled: of the first n requests those that take an id.
Unnumbered(reqs, n) == {j \in 1 .. n : reqs[j].id = 0}

number(reqs, next) ==
  [i \in DOMAIN reqs |->
     [reqs[i] EXCEPT !.id = id_for_request(reqs[i], next + Cardinality(Unnumbered(reqs, i - 1)))]]

\* set_breakpoints(p, reqs): the new state of the manager and the answer.
Set(st, p, reqs, compiled) ==
  IF compiled /\ p \in Known
  THEN LET acc == bind_all(st.bound[p], reqs, st.next)
           ids == [i \in DOMAIN reqs |-> [reqs[i] EXCEPT !.id = acc.new[i].id]]
       IN [bound |-> [st.bound EXCEPT ![p] = acc.new],
           path_bps |-> [st.path_bps EXCEPT ![p] = ids], next |-> acc.next]
  ELSE [bound |-> st.bound,
        path_bps |-> [st.path_bps EXCEPT ![p] = number(reqs, st.next)],
        next |-> st.next + Cardinality(Unnumbered(reqs, Len(reqs)))]

Manager == [bound |-> bound, path_bps |-> path_bps, next |-> next_id]

Told(reqs) ==
  {[id |-> reqs[i].id, line |-> reqs[i].line, kind |-> reqs[i].kind] : i \in DOMAIN reqs}

Count == sets < MaxSets /\ sets' = sets + 1

(***************************************************************************)
(* The protocol thread                                                     *)
(***************************************************************************)
\* The id of a request that waits for the session.
pending_id(i) == next_pending_id - (i - 1)

\* The request is kept as the client sent it.
name_nothing(reqs) == reqs

name_requests(reqs) == [i \in DOMAIN reqs |-> [reqs[i] EXCEPT !.id = pending_id(i)]]

\* setBreakpoints without a session: negative ids, carried by the requests.
handle_set_breakpoints_early(p, reqs) ==
  /\ session = "none" /\ Count
  /\ pending' = [pending EXCEPT ![p] = name_requests(reqs)]
  /\ shown' = [shown EXCEPT ![p] =
       Told([i \in DOMAIN reqs |-> [reqs[i] EXCEPT !.id = pending_id(i)]])]
  /\ next_pending_id' = next_pending_id - Len(reqs)
  /\ UNCHANGED <<session, path_bps, bound, next_id, active, late, reapplied, setter, exec, chk>>

\* setBreakpoints with a session; the requests are kept for a restart.
handle_set_breakpoints(p, reqs) ==
  /\ session # "none" /\ setter = "idle" /\ Count
  /\ pending' = [pending EXCEPT ![p] = reqs]
  /\ LET st == Set(Manager, p, reqs, session = "live") IN
     /\ bound' = st.bound /\ path_bps' = st.path_bps /\ next_id' = st.next
     /\ shown' = [shown EXCEPT ![p] = Told(st.path_bps[p])]
  /\ late' = late \cup {p} /\ reapplied' = reapplied \ {p}
  /\ setter' = "flag"
  /\ UNCHANGED <<session, next_pending_id, active, exec, chk>>

\* update_breakpoints_active_flag, in a lock of its own, then the response.
update_flag ==
  /\ setter = "flag"
  /\ active' = HasAny
  /\ setter' = "idle"
  /\ UNCHANGED <<session, pending, path_bps, bound, next_id, next_pending_id, shown, late,
                 reapplied, exec, chk, sets>>

\* A new session: every file's requests are set again, before the program is
\* compiled (no file is known), in the order of the map, here the ranks of the
\* paths; the client is not told.  Then the program is compiled, or not.
Orders == {f \in [Path -> 1 .. Cardinality(Path)] : \A p, q \in Path : f[p] = f[q] => p = q}

\* The requests that take an id in the files of a set.
UnnumberedIn(paths) ==
  UNION {{p} \X Unnumbered(pending[p], Len(pending[p])) : p \in paths}

apply_pending(rank) ==
  [bound |-> [p \in Path |-> <<>>],
   path_bps |-> [p \in Path |->
     number(pending[p], 1 + Cardinality(UnnumberedIn({q \in Path : rank[q] < rank[p]})))],
   next |-> 1 + Cardinality(UnnumberedIn(Path))]

NewSession ==
  /\ Count
  /\ \E rank \in Orders :
       LET st == apply_pending(rank) IN
       /\ bound' = st.bound /\ path_bps' = st.path_bps /\ next_id' = st.next
  /\ reapplied' = late
  /\ \/ session' = "live" /\ exec' = "config"
     \/ session' = "failed" /\ exec' = "off"
  /\ active' = FALSE
  /\ setter' = "idle"
  /\ chk' = [t \in Debuggee |-> NoCheck]
  /\ UNCHANGED <<pending, next_pending_id, shown, late>>

launch == session = "none" /\ NewSession

\* The old run has been terminated and joined.
restart ==
  /\ session # "none" /\ setter = "idle"
  /\ \A t \in Debuggee : chk[t] = NoCheck
  /\ exec # "flag"
  /\ NewSession

(***************************************************************************)
(* The threads of the program                                              *)
(***************************************************************************)
Unbound(p) ==
  Select(path_bps[p], {i \in DOMAIN path_bps[p] : path_bps[p][i].id \notin Ids(bound[p])})

\* After configurationDone: bind what is not bound and tell the client.
resolve_pending_breakpoints ==
  /\ exec = "config"
  /\ bound' = [p \in Path |-> IF p \notin Known THEN bound[p]
                 ELSE bound[p] \o [i \in DOMAIN Unbound(p) |->
                                     create_info(Unbound(p)[i], Unbound(p)[i].id, 0)]]
  /\ exec' = "flag"
  /\ UNCHANGED <<session, pending, path_bps, next_id, next_pending_id, active, shown, late,
                 reapplied, setter, chk, sets>>

\* The flag is left as the last setBreakpoints left it.
resolve_flag_stale ==
  /\ exec = "flag"
  /\ exec' = "run"
  /\ UNCHANGED <<session, pending, path_bps, bound, next_id, next_pending_id, active, shown, late,
                 reapplied, setter, chk, sets>>

resolve_flag ==
  /\ exec = "flag"
  /\ active' = HasAny
  /\ exec' = "run"
  /\ UNCHANGED <<session, pending, path_bps, bound, next_id, next_pending_id, shown, late,
                 reapplied, setter, chk, sets>>

\* check_breakpoint, phase 1: a snapshot of the breakpoints of this line.  A
\* thread that steps or pauses gets here whatever the flag says.
find_matching_breakpoints(t) ==
  /\ exec = "run" /\ chk[t] = NoCheck
  /\ \E p \in Known, l \in Executable :
       /\ \E i \in DOMAIN bound[p] : bound[p][i].line = l
       /\ chk' = [chk EXCEPT ![t] =
            [path |-> p, line |-> l, hit |-> 0,
             left |-> Select(bound[p], {i \in DOMAIN bound[p] : bound[p][i].line = l})]]
  /\ UNCHANGED <<session, pending, path_bps, bound, next_id, next_pending_id, active, shown,
                 late, reapplied, setter, exec, sets>>

Advance(t, hit) == chk' = [chk EXCEPT ![t].left = Tail(@), ![t].hit = IF @ = 0 THEN hit ELSE @]

\* Phase 2: the condition is false; not a hit.
condition_false(t) ==
  /\ chk[t].left # <<>>
  /\ Head(chk[t].left).kind = "conditional"
  /\ Advance(t, 0)
  /\ UNCHANGED <<session, pending, path_bps, bound, next_id, next_pending_id, active, shown,
                 late, reapplied, setter, exec, sets>>

\* Phases 3 and 4: what a hit does once it is counted n times.
Outcome(m, n) == IF m.kind = "log" \/ (m.kind = "hit2" /\ n # 2) THEN 0 ELSE m.id

\* A breakpoint that is gone is hit all the same.
SkipRemoved_Not(m) == Outcome(m, 1)

\* It may have been removed since the snapshot was taken.
SkipRemoved(m) == 0

Saturate(n) == IF n < MaxHits THEN n + 1 ELSE n

\* record_breakpoint_hit: the count saturates.
record_breakpoint_hit(t) ==
  /\ chk[t].left # <<>>
  /\ LET m == Head(chk[t].left)
         p == chk[t].path
         at == {i \in DOMAIN bound[p] : bound[p][i].id = m.id /\ bound[p][i].line = chk[t].line}
     IN IF at = {}
        THEN Advance(t, SkipRemoved(m)) /\ UNCHANGED bound
        ELSE LET i == First(at)
                 n == Saturate(bound[p][i].times_hit)
             IN bound' = [bound EXCEPT ![p][i].times_hit = n] /\ Advance(t, Outcome(m, n))
  /\ UNCHANGED <<session, pending, path_bps, next_id, next_pending_id, active, shown, late,
                 reapplied, setter, exec, sets>>

\* The check is over: the thread stops (see DebugEngine) or goes on.
finish_check(t) ==
  /\ chk[t] # NoCheck /\ chk[t].left = <<>>
  /\ chk' = [chk EXCEPT ![t] = NoCheck]
  /\ UNCHANGED <<session, pending, path_bps, bound, next_id, next_pending_id, active, shown,
                 late, reapplied, setter, exec, sets>>

Protocol ==
  \/ \E p \in Path, reqs \in RequestLists :
       handle_set_breakpoints_early(p, reqs) \/ handle_set_breakpoints(p, reqs)
  \/ update_flag \/ launch \/ restart

Program ==
  \/ resolve_pending_breakpoints \/ resolve_flag
  \/ \E t \in Debuggee :
       \/ find_matching_breakpoints(t) \/ condition_false(t) \/ record_breakpoint_hit(t)
       \/ finish_check(t)

BreakpointsNext == Protocol \/ Program

BreakpointsSpec == BreakpointsInit /\ [][BreakpointsNext]_breakpoint_vars

(***************************************************************************)
(* Properties                                                              *)
(***************************************************************************)
\* Ids identify breakpoints: negative ones from before the session, positive
\* ones of the session, adopted ones and those of identical requests on one
\* line never coincide, and a line has as many breakpoints as ids.
IdsUnique ==
  /\ \A p, q \in Path : \A i \in DOMAIN path_bps[p], j \in DOMAIN path_bps[q] :
       path_bps[p][i].id = path_bps[q][j].id => p = q /\ i = j
  /\ \A p \in Path : \A i, j \in DOMAIN bound[p] : bound[p][i].id = bound[p][j].id => i = j
  /\ \A p \in Path : Ids(bound[p]) \subseteq Ids(path_bps[p])

\* A breakpoint that can stop the program is one the client shows, under the
\* same id and with the same conditions, whenever it was set: "the later
\* `breakpoint` event updates the very breakpoint the editor is showing".
BoundIsShown ==
  \A p \in Path \ reapplied : \A i \in DOMAIN bound[p] :
    \E s \in shown[p] :
      s.id = bound[p][i].id /\ s.kind = bound[p][i].kind /\ snap_line(s.line) = bound[p][i].line

\* No two breakpoints share an id, and each one that can stop the program is
\* one the editor was told of under its id (those that a restart has applied
\* again aside).
EditorKnowsBreakpoints == BreakpointsTypeOK /\ IdsUnique /\ BoundIsShown

\* The flag the debug hook looks at first is the truth about all files, however
\* setBreakpoints and the resolution of the pending breakpoints interleave: no
\* breakpoint is bound and never looked for.
FlagIsTrue == setter = "idle" /\ exec # "flag" => (active <=> HasAny)

\* A breakpoint that a setBreakpoints removed between the snapshot and the hit
\* does not stop the thread any more, even with the check under way.
StopsForBound ==
  \A t \in Debuggee :
    chk'[t].hit # chk[t].hit /\ chk'[t].hit # 0 => chk'[t].hit \in Ids(bound[chk[t].path])

\* Setting the same breakpoint again does not forget its hits: as long as an id
\* lives in a session its count never goes back.
KeepsHits ==
  \A p \in Path : \A i \in DOMAIN bound[p], j \in DOMAIN bound'[p] :
    bound[p][i].id = bound'[p][j].id => bound'[p][j].times_hit >= bound[p][i].times_hit

\* A thread that is checking a breakpoint while it is removed does not stop
\* for it, and one that setBreakpoints sends again keeps its hit count.
HitsFollowBreakpoints == [][StopsForBound /\ KeepsHits]_breakpoint_vars
=============================================================================
