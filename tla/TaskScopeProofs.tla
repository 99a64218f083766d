--------------------------- MODULE TaskScopeProofs ---------------------------
(***************************************************************************)
(* Structured concurrency for any tasks, scopes, nesting and number of     *)
(* workers: no task outlives its scope, of the worker that starts a task   *)
(* and the scope that abandons it one resolves it, no joiner sleeps        *)
(* through the completion of a child, and every outcome has its cause.     *)
(***************************************************************************)
EXTENDS TaskScope, SequenceTheorems, FiniteSetTheorems, WellFoundedInduction, TLAPS

-----------------------------------------------------------------------------
(* The inductive invariant.                                                *)

(* The task is not running, or not any more: only such a task has a        *)
(* promise that is set, and a task that is started runs code or claims it. *)
Resting == {"queued", "dequeued", "destroy", "finish", "done"}
BodyPcs == {"run", "add", "unwind", "await"} \cup JoinPcs \cup RacePcs
Joining == JoinPcs \ {"join"}

(* The children of one scope: recorded, just spawned or being joined.      *)
Held(v) ==
  IF pc[v] = "add" THEN {spawning[v]}
  ELSE IF pc[v] \in Joining THEN {join[v].snapshot[i] : i \in Uncollected(v)}
  ELSE {}
Kid(t, s) ==
  \/ \E i \in DOMAIN children[s] : children[s][i] = t
  \/ \E v \in VM : stack[v] # <<>> /\ current_scope(v) = s /\ t \in Held(v)

(* A VM has scopes while its code runs, and the scope it joins has handed  *)
(* its children over.                                                      *)
ShapeOK(v) ==
  /\ stack[v] # <<>> => pc[v] \in BodyPcs
  /\ pc[v] \in {"add"} \cup JoinPcs => stack[v] # <<>>
  /\ pc[v] = "add" => spawning[v] \in Task /\ pc[spawning[v]] # "new"
  /\ unwind[v].outcome # "run" => unwind[v].to = 0
  /\ join[v].todo \subseteq DOMAIN join[v].snapshot
  /\ \A i \in DOMAIN join[v].snapshot : pc[join[v].snapshot[i]] # "new"
  /\ pc[v] = "join" => join[v].collected = {}
  /\ pc[v] \in Joining => children[current_scope(v)] = <<>>
  /\ pc[v] \in {"handler", "notify"} => join[v].todo # {}
  /\ pc[v] = "await" => join[v].snapshot # <<>>

(* claim_start against abandon_if_not_started.                             *)
PromiseOK(t) ==
  /\ promise[t] # "unset" => pc[t] \in Resting /\ started[t]
  /\ pc[t] \in {"claimed"} \cup BodyPcs => started[t]
HandlerOK(v) ==
  pc[v] \in {"handler", "notify"} => started[Turn(v)] /\ pc[Turn(v)] \in Resting

(* The open scopes are those on the stacks, each once and below the token  *)
(* of its VM.                                                              *)
StacksOK ==
  /\ \A v \in VM : \A i \in DOMAIN stack[v] :
       /\ scopes[stack[v][i]] = "open"
       /\ chain[stack[v][i]] = {stack[v][i]} \cup OwnChain(v)
       /\ stack[v][i] \notin OwnChain(v)
  /\ \A v, w \in VM : \A i \in DOMAIN stack[v], j \in DOMAIN stack[w] :
       stack[v][i] = stack[w][j] => v = w /\ i = j

(* What does not exist yet hangs below nothing.                            *)
FreshOK ==
  /\ \A x \in Token : x \in chain[x]
  /\ \A t \in Task : pc[t] = "new" =>
       chain[t] = {t} /\ \A x \in Token \ {t} : t \notin chain[x]
  /\ \A s \in Scope : scopes[s] = "free" => \A x \in Token \ {s} : s \notin chain[x]
  /\ \A s \in Scope : scopes[s] = "free" => children[s] = <<>>
  /\ \A s \in Scope : \A i \in DOMAIN children[s] : pc[children[s][i]] # "new"

(* The lineage of a task that is not resolved, as far as no code returned  *)
(* from a scope on the way: each scope above it is open and has an         *)
(* unresolved child above it, or itself, that it still knows of, and each  *)
(* task above it is still in such a scope.                                 *)
Unresolved(t) == pc[t] # "new" /\ promise[t] = "unset"
KidAbove(t, s) ==
  \E u \in chain[t] \cap Task : Unresolved(u) /\ Kid(u, s) /\ chain[s] \subseteq chain[u]
LineageOK(t) ==
  Unresolved(t) =>
    /\ \A s \in chain[t] \cap Scope : Intact(t, s) => scopes[s] = "open" /\ KidAbove(t, s)
    /\ \A u \in (chain[t] \cap Task) \ {t} : Intact(t, u) =>
         \E i \in DOMAIN stack[u] : stack[u][i] \in chain[t]

(* TypeOK, with the record sets named.                                     *)
Unwinds == [to : Nat, outcome : {"run", "error", "cancelled"}]
Types ==
  /\ pc \in [VM -> Pcs]
  /\ started \in [Task -> BOOLEAN]
  /\ promise \in [Task -> {"unset", "value", "error", "cancelled"}]
  /\ complete \in [Task -> BOOLEAN]
  /\ subs \in [Task -> SUBSET VM]
  /\ notified \in [VM -> BOOLEAN]
  /\ scopes \in [Scope -> {"free", "open", "joined", "failed", "left"}]
  /\ children \in [Scope -> Seq(Task)]
  /\ chain \in [Token -> SUBSET Token]
  /\ cancelled \subseteq Token
  /\ stack \in [VM -> Seq(Scope)]
  /\ spawning \in [VM -> Task \cup {NoTask}]
  /\ join \in [VM -> Locals]
  /\ unwind \in [VM -> Unwinds]

IInv ==
  /\ Types /\ StacksOK /\ FreshOK
  /\ \A v \in VM : ShapeOK(v) /\ HandlerOK(v)
  /\ \A t \in Task : PromiseOK(t) /\ LineageOK(t)

-----------------------------------------------------------------------------
(* Positions and records.                                                  *)
LEMMA LeastPosition ==
  ASSUME NEW S \in SUBSET Nat, S # {}
  PROVE  Min(S) \in S
<1>1. IsWellFoundedOn(OpToRel(<, Nat), Nat) BY NatLessThanWellFounded
<1>2. PICK x \in S : \A y \in S : ~(<<y, x>> \in OpToRel(<, Nat)) BY <1>1, WFMin
<1>3. \A y \in S : ~(y < x) BY <1>2 DEF OpToRel
<1>4. \A y \in S : x <= y BY <1>3
<1>5. QED BY <1>4 DEF Min

LEMMA TypesAre == Types <=> TypeOK
BY DEF Types, TypeOK, Unwinds

LEMMA Sets ==
  /\ Task \subseteq VM /\ Main \in VM /\ Main \notin Task /\ NoTask = NoTask
  /\ Task \subseteq Token /\ Scope \subseteq Token /\ Task \cap Scope = {}
  /\ Resting \subseteq Pcs /\ BodyPcs \subseteq Pcs /\ Joining \subseteq JoinPcs
  /\ JoinPcs \subseteq BodyPcs /\ RacePcs \subseteq BodyPcs
  /\ Resting \cap BodyPcs = {} /\ "new" \notin Resting \cup BodyPcs
  /\ "claimed" \notin Resting \cup BodyPcs
BY ScopeAssumption DEF VM, Token, Resting, BodyPcs, Pcs, JoinPcs, RacePcs, Joining

LEMMA LocalFields ==
  /\ NoLocals \in Locals /\ NoLocals.todo = {} /\ NoLocals.collected = {}
  /\ NoLocals.snapshot = <<>> /\ NoLocals.region = "none" /\ NoLocals.teardown = FALSE
  /\ \A n \in Locals :
       /\ n.snapshot \in Seq(Task) /\ n.todo \in SUBSET Nat /\ n.collected \in SUBSET Nat
       /\ n.teardown \in BOOLEAN /\ n.first_error \in Task \cup {NoTask}
BY EmptySeq DEF Locals, NoLocals

LEMMA Positions ==
  ASSUME Types, NEW v \in VM, ShapeOK(v)
  PROVE  /\ join[v] \in Locals /\ join[v].snapshot \in Seq(Task)
         /\ DOMAIN join[v].snapshot \subseteq Nat
         /\ \A i \in DOMAIN join[v].snapshot : join[v].snapshot[i] \in Task
         /\ AfterTurn(v) \subseteq DOMAIN join[v].snapshot
         /\ join[v].todo # {} =>
              /\ Min(join[v].todo) \in join[v].todo
              /\ Min(join[v].todo) \in DOMAIN join[v].snapshot
              /\ Turn(v) \in Task /\ pc[Turn(v)] # "new"
<1>1. join[v] \in Locals /\ join[v].snapshot \in Seq(Task) /\ join[v].todo \in SUBSET Nat
  BY LocalFields DEF Types
<1>2. /\ DOMAIN join[v].snapshot \subseteq Nat
      /\ \A i \in DOMAIN join[v].snapshot : join[v].snapshot[i] \in Task
  BY <1>1, LenProperties, ElementOfSeq
<1>3. join[v].todo \subseteq DOMAIN join[v].snapshot
      /\ \A i \in DOMAIN join[v].snapshot : pc[join[v].snapshot[i]] # "new"
  BY DEF ShapeOK
<1>4. join[v].todo # {} => Min(join[v].todo) \in join[v].todo BY <1>1, LeastPosition
<1>5. QED BY <1>1, <1>2, <1>3, <1>4 DEF AfterTurn, Turn

LEMMA CurrentScope ==
  ASSUME Types, NEW v \in VM, stack[v] # <<>>
  PROVE  /\ stack[v] \in Seq(Scope) /\ Len(stack[v]) \in Nat \ {0}
         /\ DOMAIN stack[v] = 1 .. Len(stack[v])
         /\ Len(stack[v]) \in DOMAIN stack[v]
         /\ current_scope(v) = stack[v][Len(stack[v])] /\ current_scope(v) \in Scope
<1>1. stack[v] \in Seq(Scope) BY DEF Types
<1>2. Len(stack[v]) \in Nat \ {0} /\ DOMAIN stack[v] = 1 .. Len(stack[v])
  BY <1>1, LenProperties, EmptySeq
<1>3. current_scope(v) = stack[v][Len(stack[v])] BY DEF current_scope, Last
<1>4. QED BY <1>1, <1>2, <1>3, ElementOfSeq

-----------------------------------------------------------------------------
(* Steps that leave the scopes, the tokens and the stacks alone.           *)

(* A promise is set of a task without scopes, so no unresolved task is     *)
(* below it.                                                               *)
LEMMA IntactAbove ==
  ASSUME NEW t \in Task, NEW s \in Scope, NEW u \in Task,
         Intact(t, s), chain[s] \subseteq chain[u]
  PROVE  Intact(t, u)
<1>1. \A r \in Scope : r # u BY Sets
<1>2. QED BY <1>1 DEF Intact

LEMMA LineageKept ==
  ASSUME IInv, scopes' = scopes, chain' = chain, stack' = stack,
         \A t \in Task : Unresolved(t)' => Unresolved(t),
         \A t \in Task : Unresolved(t) /\ ~Unresolved(t)' => stack[t] = <<>>,
         \A u \in Task, s \in Scope : Kid(u, s) /\ Unresolved(u)' => Kid(u, s)'
  PROVE  \A t \in Task : LineageOK(t)'
<1> SUFFICES ASSUME NEW t \in Task, Unresolved(t)' PROVE LineageOK(t)'
  BY DEF LineageOK
<1>1. /\ \A s \in chain[t] \cap Scope : Intact(t, s) => scopes[s] = "open" /\ KidAbove(t, s)
      /\ \A u \in (chain[t] \cap Task) \ {t} : Intact(t, u) =>
           \E i \in DOMAIN stack[u] : stack[u][i] \in chain[t]
  BY DEF IInv, LineageOK
<1>2. ASSUME NEW u \in chain[t] \cap Task, Unresolved(u), Intact(t, u) PROVE Unresolved(u)'
  <2>1. CASE u = t BY <2>1
  <2>2. CASE u # t
    <3>1. PICK i \in DOMAIN stack[u] : TRUE BY <1>1, <1>2, <2>2
    <3>2. stack[u] # <<>> BY <3>1, EmptySeq
    <3>3. QED BY <3>2, <1>2
  <2>3. QED BY <2>1, <2>2
<1>3. ASSUME NEW s \in chain[t] \cap Scope, Intact(t, s)
      PROVE  scopes'[s] = "open" /\ KidAbove(t, s)'
  <2>1. scopes[s] = "open" /\ KidAbove(t, s) BY <1>1, <1>3
  <2>2. PICK u \in chain[t] \cap Task : Unresolved(u) /\ Kid(u, s) /\ chain[s] \subseteq chain[u]
    BY <2>1 DEF KidAbove
  <2>3. Unresolved(u)' BY <1>2, <1>3, <2>2, IntactAbove
  <2>4. Kid(u, s)' BY <2>2, <2>3
  <2>5. QED BY <2>1, <2>2, <2>3, <2>4 DEF KidAbove
<1>4. \A x \in Token : Intact(t, x)' <=> Intact(t, x) BY DEF Intact
<1>5. QED BY <1>1, <1>3, <1>4, Sets DEF LineageOK

(* Only v takes part, and it changes the record of the children of its     *)
(* innermost scope at most: unresolved ones stay its children.             *)
LEMMA Acts ==
  ASSUME IInv, Types', NEW v \in VM,
         scopes' = scopes, chain' = chain, stack' = stack,
         \A s \in Scope : s # current_scope(v) \/ stack[v] = <<>> => children'[s] = children[s],
         \A s \in Scope : \A i \in DOMAIN children'[s] : pc[children'[s][i]] # "new",
         \A w \in VM \ {v} : /\ pc'[w] = pc[w] /\ join'[w] = join[w]
                             /\ spawning'[w] = spawning[w] /\ unwind'[w] = unwind[w],
         pc[v] = "new" <=> pc'[v] = "new",
         v \in Task /\ started[v] /\ pc[v] \in Resting => pc'[v] \in Resting,
         v \in Task /\ pc'[v] \in {"claimed"} \cup BodyPcs => started'[v],
         \A t \in Task : started[t] => started'[t],
         \A t \in Task : \/ promise'[t] = promise[t]
                         \/ /\ promise'[t] # "unset" /\ stack[t] = <<>>
                            /\ pc'[t] \in Resting /\ started'[t],
         ShapeOK(v)', HandlerOK(v)',
         \A u \in Task : \/ u \in Held(v)
                         \/ \E i \in DOMAIN children[current_scope(v)] :
                              children[current_scope(v)][i] = u
                         => \/ stack[v] = <<>>
                            \/ ~Unresolved(u)'
                            \/ u \in Held(v)'
                            \/ \E i \in DOMAIN children'[current_scope(v)] :
                                 children'[current_scope(v)][i] = u
  PROVE  IInv'
<1>1. \A t \in Task : pc[t] = "new" <=> pc'[t] = "new" BY Sets
<1>2. StacksOK'
  <2>1. StacksOK BY DEF IInv
  <2>2. QED BY <2>1 DEF StacksOK, OwnChain
<1>3. FreshOK'
  <2>1. FreshOK /\ StacksOK /\ Types BY DEF IInv
  <2>2. \A s \in Scope : \A i \in DOMAIN children'[s] : children'[s][i] \in Task
    <3>1. \A s \in Scope : children'[s] \in Seq(Task) BY DEF Types
    <3>2. QED BY <3>1, ElementOfSeq, LenProperties
  <2>3. stack[v] # <<>> => scopes[current_scope(v)] = "open"
    BY <2>1, CurrentScope DEF StacksOK
  <2>4. \A s \in Scope : scopes[s] = "free" => children'[s] = <<>>
    BY <2>1, <2>3 DEF FreshOK
  <2>5. QED BY <1>1, <2>1, <2>2, <2>4 DEF FreshOK
<1>4. \A w \in VM : ShapeOK(w)'
  <2> SUFFICES ASSUME NEW w \in VM, w # v PROVE ShapeOK(w)' OBVIOUS
  <2>1. ShapeOK(w) /\ Types /\ StacksOK BY DEF IInv
  <2>2. /\ pc'[w] = pc[w] /\ join'[w] = join[w] /\ stack'[w] = stack[w]
        /\ spawning'[w] = spawning[w] /\ unwind'[w] = unwind[w]
        /\ (current_scope(w))' = current_scope(w)
    BY DEF current_scope
  <2>3. \A i \in DOMAIN join[w].snapshot : pc'[join[w].snapshot[i]] # "new"
    BY <1>1, <2>1, Positions DEF ShapeOK
  <2>4. pc[w] = "add" => pc'[spawning[w]] # "new" BY <1>1, <2>1 DEF ShapeOK
  <2>5. pc[w] \in Joining => children'[current_scope(w)] = <<>>
    <3> SUFFICES ASSUME pc[w] \in Joining PROVE children'[current_scope(w)] = <<>> OBVIOUS
    <3>1. stack[w] # <<>> /\ children[current_scope(w)] = <<>> BY <2>1, Sets DEF ShapeOK
    <3>2. current_scope(w) \in Scope BY <2>1, <3>1, CurrentScope
    <3>3. stack[v] # <<>> => current_scope(w) # current_scope(v)
      BY <2>1, <3>1, CurrentScope DEF StacksOK
    <3>4. QED BY <3>1, <3>2, <3>3
  <2>6. QED BY <2>1, <2>2, <2>3, <2>4, <2>5 DEF ShapeOK
<1>5. \A t \in Task : pc[t] \in Resting /\ started[t] => pc'[t] \in Resting /\ started'[t]
  BY Sets
<1>6. \A w \in VM : HandlerOK(w)'
  <2> SUFFICES ASSUME NEW w \in VM, w # v PROVE HandlerOK(w)' OBVIOUS
  <2>1. HandlerOK(w) /\ ShapeOK(w) /\ Types BY DEF IInv
  <2>2. pc'[w] = pc[w] /\ Turn(w)' = Turn(w) BY DEF Turn
  <2>3. pc[w] \in {"handler", "notify"} => Turn(w) \in Task BY <2>1, Positions DEF ShapeOK
  <2>4. QED BY <2>1, <2>2, <2>3, <1>5 DEF HandlerOK
<1>7. \A t \in Task : PromiseOK(t)'
  <2> SUFFICES ASSUME NEW t \in Task PROVE PromiseOK(t)' OBVIOUS
  <2>1. PromiseOK(t) BY DEF IInv
  <2>2. promise'[t] # "unset" => pc'[t] \in Resting /\ started'[t]
    BY <2>1, <1>5 DEF PromiseOK
  <2>3. pc'[t] \in {"claimed"} \cup BodyPcs => started'[t] BY <2>1, Sets DEF PromiseOK
  <2>4. QED BY <2>2, <2>3 DEF PromiseOK
<1>8. \A t \in Task : LineageOK(t)'
  <2>1. \A t \in Task : Unresolved(t)' => Unresolved(t) BY <1>1 DEF Unresolved
  <2>2. \A t \in Task : Unresolved(t) /\ ~Unresolved(t)' => stack[t] = <<>>
    BY <1>1 DEF Unresolved
  <2>3. ASSUME NEW u \in Task, NEW s \in Scope, Kid(u, s), Unresolved(u)'
        PROVE  Kid(u, s)'
    <3>1. CASE /\ stack[v] # <<>> /\ current_scope(v) = s
               /\ \/ u \in Held(v)
                  \/ \E i \in DOMAIN children[s] : children[s][i] = u
      <4>1. \/ u \in Held(v)'
            \/ \E i \in DOMAIN children'[s] : children'[s][i] = u
        BY <2>3, <3>1
      <4>2. stack'[v] # <<>> /\ (current_scope(v))' = s BY <3>1 DEF current_scope
      <4>3. QED BY <4>1, <4>2 DEF Kid
    <3>2. CASE /\ stack[v] = <<>> \/ current_scope(v) # s
               /\ \E i \in DOMAIN children[s] : children[s][i] = u
      BY <3>2 DEF Kid
    <3>3. CASE \E w \in VM \ {v} : stack[w] # <<>> /\ current_scope(w) = s /\ u \in Held(w)
      <4>1. PICK w \in VM \ {v} : stack[w] # <<>> /\ current_scope(w) = s /\ u \in Held(w)
        BY <3>3
      <4>2. (current_scope(w))' = s BY <4>1 DEF current_scope
      <4>3. pc'[w] = pc[w] /\ join'[w] = join[w] /\ spawning'[w] = spawning[w] BY <4>1
      <4>4. Held(w)' = Held(w) BY <4>3 DEF Held, Uncollected
      <4>5. QED BY <4>1, <4>2, <4>4 DEF Kid
    <3>4. QED BY <2>3, <3>1, <3>2, <3>3 DEF Kid
  <2>4. QED BY <2>1, <2>2, <2>3, LineageKept
<1>9. QED BY <1>2, <1>3, <1>4, <1>6, <1>7, <1>8 DEF IInv

LEMMA Quiet ==
  ASSUME IInv, Types', NEW v \in VM,
         scopes' = scopes, chain' = chain, stack' = stack, children' = children,
         \A w \in VM \ {v} : /\ pc'[w] = pc[w] /\ join'[w] = join[w]
                             /\ spawning'[w] = spawning[w] /\ unwind'[w] = unwind[w],
         pc[v] = "new" <=> pc'[v] = "new",
         v \in Task /\ started[v] /\ pc[v] \in Resting => pc'[v] \in Resting,
         v \in Task /\ pc'[v] \in {"claimed"} \cup BodyPcs => started'[v],
         \A t \in Task : started[t] => started'[t],
         \A t \in Task : \/ promise'[t] = promise[t]
                         \/ /\ promise'[t] # "unset" /\ stack[t] = <<>>
                            /\ pc'[t] \in Resting /\ started'[t],
         ShapeOK(v)', HandlerOK(v)',
         \A u \in Held(v) : Unresolved(u)' => u \in Held(v)'
  PROVE  IInv'
<1>1. \A s \in Scope : \A i \in DOMAIN children'[s] : pc[children'[s][i]] # "new"
  BY DEF IInv, FreshOK
<1>2. QED BY <1>1, Acts

(* A step of the join loop: the children stay, collected ones are resolved.*)
LEMMA JoinLoop ==
  ASSUME IInv, NEW v \in VM, pc[v] \in Joining,
         complete' \in [Task -> BOOLEAN], subs' \in [Task -> SUBSET VM],
         notified' \in [VM -> BOOLEAN], cancelled' \subseteq Token,
         started' \in [Task -> BOOLEAN],
         promise' \in [Task -> {"unset", "value", "error", "cancelled"}],
         NEW l \in Joining, pc' = [pc EXCEPT ![v] = l],
         NEW n \in Locals, join' = [join EXCEPT ![v] = n],
         scopes' = scopes, chain' = chain, stack' = stack, children' = children,
         spawning' = spawning, unwind' = unwind,
         n.snapshot = join[v].snapshot, n.todo \subseteq DOMAIN n.snapshot,
         \A i \in Uncollected(v) :
           i \in n.collected => promise[join[v].snapshot[i]] # "unset",
         \A t \in Task : started[t] => started'[t],
         \A t \in Task : \/ promise'[t] = promise[t]
                         \/ promise'[t] # "unset" /\ pc[t] \in Resting /\ started[t],
         l \in {"handler", "notify"} =>
           /\ n.todo # {}
           /\ started'[n.snapshot[Min(n.todo)]] /\ pc[n.snapshot[Min(n.todo)]] \in Resting
  PROVE  IInv'
<1>1. Types /\ ShapeOK(v) BY DEF IInv
<1>2. pc \in [VM -> Pcs] /\ join \in [VM -> Locals] BY <1>1 DEF Types
<1>3. pc'[v] = l /\ join'[v] = n BY <1>2
<1>4. \A w \in VM \ {v} : /\ pc'[w] = pc[w] /\ join'[w] = join[w]
                          /\ spawning'[w] = spawning[w] /\ unwind'[w] = unwind[w]
  BY <1>2
<1>5. l \in BodyPcs /\ pc[v] \in BodyPcs /\ l \in JoinPcs /\ l # "join" /\ pc[v] \in JoinPcs
  BY Sets DEF Joining
<1>6. /\ l # "new" /\ pc[v] # "new" /\ pc[v] \notin Resting /\ l # "add"
      /\ pc[v] # "add" /\ l # "await"
  BY <1>5, Sets DEF JoinPcs
<1>7. \A t \in Task : PromiseOK(t) BY DEF IInv
<1>8. v \in Task => started'[v] BY <1>5, <1>7 DEF PromiseOK
<1>9. \A t \in Task : pc[t] \in Resting => stack[t] = <<>>
  BY Sets DEF IInv, ShapeOK
<1>10. \A t \in Task : \/ promise'[t] = promise[t]
                       \/ /\ promise'[t] # "unset" /\ stack[t] = <<>>
                          /\ pc'[t] \in Resting /\ started'[t]
  BY <1>4, <1>6, <1>9, Sets
<1>11. \A i \in DOMAIN n.snapshot : pc'[n.snapshot[i]] # "new"
  <2>1. \A i \in DOMAIN n.snapshot : n.snapshot[i] \in Task /\ pc[n.snapshot[i]] # "new"
    BY <1>1, Positions DEF ShapeOK
  <2>2. QED BY <2>1, <1>3, <1>4, <1>6, Sets
<1>12. ShapeOK(v)'
  <2>1. (current_scope(v))' = current_scope(v) BY DEF current_scope
  <2>2. QED BY <1>1, <1>3, <1>5, <1>6, <1>11, <2>1 DEF ShapeOK
<1>13. HandlerOK(v)'
  <2> SUFFICES ASSUME l \in {"handler", "notify"} PROVE HandlerOK(v)'
    BY <1>3 DEF HandlerOK
  <2>1. Turn(v)' = n.snapshot[Min(n.todo)] BY <1>3 DEF Turn
  <2>2. n.todo \in SUBSET Nat BY LocalFields
  <2>3. Min(n.todo) \in n.todo BY <2>2, LeastPosition
  <2>4. n.snapshot[Min(n.todo)] \in Task BY <1>1, <2>3, Positions
  <2>5. n.snapshot[Min(n.todo)] # v BY <1>6
  <2>6. QED BY <2>1, <2>4, <2>5, <1>4, Sets DEF HandlerOK
<1>14. \A u \in Held(v) : Unresolved(u)' => u \in Held(v)'
  <2>1. Held(v) = {join[v].snapshot[i] : i \in Uncollected(v)} BY <1>6 DEF Held
  <2>2. Held(v)' = {n.snapshot[i] : i \in DOMAIN n.snapshot \ n.collected}
    BY <1>3, <1>6 DEF Held, Uncollected
  <2>3. SUFFICES ASSUME NEW i \in Uncollected(v), Unresolved(join[v].snapshot[i])'
                 PROVE  i \in DOMAIN n.snapshot \ n.collected
    BY <2>1, <2>2
  <2>4. join[v].snapshot[i] \in Task BY <1>1, Positions DEF Uncollected
  <2>5. promise[join[v].snapshot[i]] = "unset" BY <2>3, <2>4 DEF Unresolved
  <2>6. QED BY <2>5 DEF Uncollected
<1>15. Types' BY <1>1, <1>5, Sets DEF Types
<1>16. QED BY <1>3, <1>4, <1>5, <1>6, <1>8, <1>10, <1>12, <1>13, <1>14, <1>15, Quiet

(* A step of a body, into a join or a race or out of one, that leaves no   *)
(* unresolved child behind.                                                *)
LEMMA BodyMoves ==
  ASSUME IInv, NEW v \in VM, pc[v] \in BodyPcs,
         complete' \in [Task -> BOOLEAN], subs' \in [Task -> SUBSET VM],
         notified' \in [VM -> BOOLEAN], cancelled' \subseteq Token,
         NEW l \in (BodyPcs \ (Joining \cup {"add"})), pc' = [pc EXCEPT ![v] = l],
         NEW n \in Locals, join' = [join EXCEPT ![v] = n],
         NEW u \in Unwinds, unwind' = [unwind EXCEPT ![v] = u],
         scopes' = scopes, chain' = chain, stack' = stack, children' = children,
         spawning' = spawning, started' = started, promise' = promise,
         l = "join" => stack[v] # <<>> /\ n.collected = {},
         l = "await" => n.snapshot # <<>>,
         u.outcome # "run" => u.to = 0,
         n.todo \subseteq DOMAIN n.snapshot,
         \A i \in DOMAIN n.snapshot : n.snapshot[i] \in Task /\ pc[n.snapshot[i]] # "new",
         \A t \in Held(v) : ~Unresolved(t)'
  PROVE  IInv'
<1>1. Types /\ ShapeOK(v) BY DEF IInv
<1>2. pc \in [VM -> Pcs] /\ join \in [VM -> Locals] /\ unwind \in [VM -> Unwinds]
  BY <1>1 DEF Types
<1>3. pc'[v] = l /\ join'[v] = n /\ unwind'[v] = u BY <1>2
<1>4. \A w \in VM \ {v} : /\ pc'[w] = pc[w] /\ join'[w] = join[w]
                          /\ spawning'[w] = spawning[w] /\ unwind'[w] = unwind[w]
  BY <1>2
<1>5. l \in BodyPcs /\ l # "new" /\ pc[v] # "new" /\ pc[v] \notin Resting /\ l # "add"
  BY Sets
<1>6. /\ l \in JoinPcs => l = "join"
      /\ l \notin Joining /\ l \notin {"handler", "notify"}
  BY DEF Joining, JoinPcs
<1>7. v \in Task => started'[v]
  BY DEF IInv, PromiseOK
<1>8. \A i \in DOMAIN n.snapshot : pc'[n.snapshot[i]] # "new"
  BY <1>3, <1>4, <1>5, Sets
<1>9. ShapeOK(v)'
  <2>1. stack[v] # <<>> => l \in BodyPcs BY <1>5
  <2>2. l \in {"add"} \cup JoinPcs => stack[v] # <<>> BY <1>5, <1>6
  <2>3. QED BY <1>3, <1>5, <1>6, <1>8, <2>1, <2>2 DEF ShapeOK
<1>10. HandlerOK(v)'
  BY <1>3, <1>6 DEF HandlerOK
<1>11. Types' BY <1>1, <1>5, Sets DEF Types
<1>12. QED BY <1>3, <1>4, <1>5, <1>7, <1>9, <1>10, <1>11, Quiet

-----------------------------------------------------------------------------
(* The completion protocol.                                                *)
LEMMA SignalTypes ==
  ASSUME Types, NEW v \in VM, NEW t \in Task, mark_complete(t) \/ subscribe(v, t) \/ unsubscribe(v)
  PROVE  /\ subs' \in [Task -> SUBSET VM] /\ notified' \in [VM -> BOOLEAN]
         /\ mark_complete(t) => complete' \in [Task -> BOOLEAN]
<1>1. /\ subs \in [Task -> SUBSET VM] /\ notified \in [VM -> BOOLEAN]
      /\ complete \in [Task -> BOOLEAN]
  BY DEF Types
<1>2. ASSUME mark_complete(t)
      PROVE  /\ subs' \in [Task -> SUBSET VM] /\ notified' \in [VM -> BOOLEAN]
             /\ complete' \in [Task -> BOOLEAN]
  <2>1. subs' \in [Task -> SUBSET VM] BY <1>1, <1>2 DEF mark_complete
  <2>2. notified' \in [VM -> BOOLEAN] BY <1>1, <1>2, ZenonT(40) DEF mark_complete
  <2>3. complete' \in [Task -> BOOLEAN] BY <1>1, <1>2 DEF mark_complete
  <2>4. QED BY <2>1, <2>2, <2>3
<1>3. CASE subscribe(v, t)
  <2>1. subs' \in [Task -> SUBSET VM] BY <1>1, <1>3 DEF subscribe
  <2>2. notified' \in [VM -> BOOLEAN] BY <1>1, <1>3 DEF subscribe
  <2>3. QED BY <2>1, <2>2, <1>2
<1>4. CASE unsubscribe(v)
  <2>1. subs' \in [Task -> SUBSET VM] BY <1>1, <1>4 DEF unsubscribe
  <2>2. notified' \in [VM -> BOOLEAN] BY <1>1, <1>4 DEF unsubscribe
  <2>3. QED BY <2>1, <2>2, <1>2
<1>5. QED BY <1>2, <1>3, <1>4

LEMMA PromiseSet ==
  ASSUME Types, NEW t \in Task, NEW o \in {"value", "error", "cancelled"}, Resolve(t, o)
  PROVE  /\ promise' \in [Task -> {"unset", "value", "error", "cancelled"}]
         /\ promise'[t] = o /\ \A u \in Task \ {t} : promise'[u] = promise[u]
BY DEF Types, Resolve

(* A worker takes its task, claims it and resolves or runs it.             *)
LEMMA WorkerKeeps ==
  ASSUME IInv, NEW t \in Task, WorkerStep(t)
  PROVE  IInv'
<1>2. t \in VM BY Sets
<1>1. Types /\ ShapeOK(t) /\ HandlerOK(t) /\ PromiseOK(t) BY <1>2 DEF IInv
<1>3. pc[t] \in {"queued", "dequeued", "claimed", "finish"}
  BY DEF WorkerStep, fetch, claim_start, start_task, notify_completion
<1>4. pc[t] \notin BodyPcs \cup {"new"} /\ stack[t] = <<>>
  BY <1>1, <1>2, <1>3, Sets DEF ShapeOK, Resting
<1>5. /\ children' = children /\ spawning' = spawning /\ join' = join /\ unwind' = unwind
      /\ scopes' = scopes /\ chain' = chain /\ stack' = stack /\ cancelled' = cancelled
  BY DEF WorkerStep, fetch, claim_start, start_task, notify_completion, tree
<1>16. PICK l \in {"dequeued", "claimed", "finish", "run", "done"} : pc' = [pc EXCEPT ![t] = l]
  BY DEF WorkerStep, fetch, claim_start, start_task, notify_completion, Goto
<1>17. /\ pc' = [pc EXCEPT ![t] = pc'[t]]
       /\ pc'[t] \in {"dequeued", "claimed", "finish", "run", "done"}
  BY <1>1, <1>2, <1>16 DEF Types
<1>18. pc' \in [VM -> Pcs] BY <1>1, <1>2, <1>16 DEF Types, Pcs
<1>6. /\ Types' /\ (\A u \in Task : started[u] => started'[u])
      /\ (started[t] /\ pc[t] \in Resting => pc'[t] \in Resting)
      /\ (pc'[t] \in {"claimed"} \cup BodyPcs => started'[t])
      /\ \A u \in Task : \/ promise'[u] = promise[u]
                         \/ u = t /\ promise'[u] # "unset" /\ pc'[u] = "finish" /\ started'[u]
  <2>1. CASE fetch(t)
    <3>1. pc'[t] = "dequeued" /\ UNCHANGED <<started, promise, complete, subs, notified>>
      BY <1>1, <1>2, <2>1 DEF fetch, Goto, Types, task_state
    <3>2. Types' BY <1>1, <1>5, <1>18, <3>1 DEF Types
    <3>3. "dequeued" \in Resting BY DEF Resting
    <3>4. QED BY <3>1, <3>2, <3>3, Sets
  <2>2. CASE claim_start(t)
    <3>1. /\ pc[t] = "dequeued" /\ started' = [started EXCEPT ![t] = TRUE]
          /\ pc'[t] = IF started[t] THEN "finish" ELSE "claimed"
          /\ UNCHANGED <<promise, complete, subs, notified>>
      BY <1>1, <1>2, <2>2 DEF claim_start, Goto, Types
    <3>2. started' \in [Task -> BOOLEAN] /\ started'[t]
          /\ \A u \in Task : started[u] => started'[u]
      BY <1>1, <3>1 DEF Types
    <3>3. Types' BY <1>1, <1>5, <1>18, <3>1, <3>2 DEF Types
    <3>4. "finish" \in Resting BY DEF Resting
    <3>5. QED BY <3>1, <3>2, <3>3, <3>4
  <2>3. CASE start_task(t)
    <3>1. /\ pc[t] = "claimed" /\ started[t]
          /\ UNCHANGED <<started, complete, subs, notified>>
          /\ \/ pc'[t] = "finish" /\ Resolve(t, "cancelled")
             \/ pc'[t] = "run" /\ promise' = promise
      BY <1>1, <1>2, <2>3 DEF start_task, Goto, Types, PromiseOK
    <3>2. /\ promise' \in [Task -> {"unset", "value", "error", "cancelled"}]
          /\ \A u \in Task : \/ promise'[u] = promise[u]
                             \/ u = t /\ promise'[u] # "unset" /\ pc'[u] = "finish"
      <4>1. CASE promise' = promise BY <1>1, <4>1 DEF Types
      <4>2. CASE pc'[t] = "finish" /\ Resolve(t, "cancelled")
        BY <1>1, <4>2, PromiseSet
      <4>3. QED BY <3>1, <4>1, <4>2
    <3>3. Types' BY <1>1, <1>5, <1>18, <3>1, <3>2 DEF Types
    <3>4. "claimed" \notin Resting BY Sets
    <3>5. QED BY <3>1, <3>2, <3>3, <3>4
  <2>4. CASE notify_completion(t)
    <3>1. /\ pc'[t] = "done" /\ mark_complete(t) /\ UNCHANGED <<started, promise>>
      BY <1>1, <1>2, <2>4 DEF notify_completion, Goto, Types
    <3>2. /\ subs' \in [Task -> SUBSET VM] /\ notified' \in [VM -> BOOLEAN]
          /\ complete' \in [Task -> BOOLEAN]
      BY <1>1, <1>2, <3>1, SignalTypes
    <3>3. Types' BY <1>1, <1>5, <1>18, <3>1, <3>2 DEF Types
    <3>4. "done" \in Resting BY DEF Resting
    <3>5. QED BY <3>1, <3>3, <3>4, Sets
  <2>5. QED BY <2>1, <2>2, <2>3, <2>4 DEF WorkerStep
<1>7. \A w \in VM \ {t} : pc'[w] = pc[w]
  BY <1>1, <1>2, <1>16 DEF Types
<1>8. pc'[t] \notin JoinPcs \cup {"new", "add"}
  BY <1>17 DEF JoinPcs
<1>9. \A i \in DOMAIN join[t].snapshot : pc'[join[t].snapshot[i]] # "new"
  <2>1. \A i \in DOMAIN join[t].snapshot : join[t].snapshot[i] \in VM /\ pc[join[t].snapshot[i]] # "new"
    BY <1>1, <1>2, Positions, Sets DEF ShapeOK
  <2>2. QED BY <2>1, <1>7, <1>8
<1>10. pc'[t] \notin Joining \cup {"handler", "notify", "join"}
  BY <1>8 DEF JoinPcs, Joining
<1>11. ShapeOK(t)'
  BY <1>1, <1>4, <1>5, <1>17, <1>8, <1>9, <1>10 DEF ShapeOK
<1>12. HandlerOK(t)' BY <1>10 DEF HandlerOK
<1>13. Held(t) = {} BY <1>4, Sets DEF Held, BodyPcs
<1>14. "finish" \in Resting BY DEF Resting
<1>15. QED BY <1>2, <1>4, <1>5, <1>17, <1>6, <1>7, <1>8, <1>11, <1>12, <1>13, <1>14, Quiet

-----------------------------------------------------------------------------
(* The join loop.                                                          *)
LoopAction(v) ==
  \/ subscribe_child(v) \/ subscribed(v) \/ abandon_unstarted_if_cancelled(v)
  \/ abandon_exchange(v) \/ abandon_handler(v) \/ abandon_notify(v) \/ abandon_done(v)
  \/ poll_child(v) \/ poll_again(v) \/ wait_for_children(v) \/ wake(v)

(* What every step of the loop does to the control and the locals.         *)
LEMMA LoopShape ==
  ASSUME IInv, NEW v \in VM, LoopAction(v)
  PROVE  /\ pc[v] \in Joining /\ UNCHANGED <<scopes, chain, stack, children, spawning, unwind>>
         /\ \E l \in Joining : pc' = [pc EXCEPT ![v] = l]
         /\ \E n \in Locals :
              /\ join' = [join EXCEPT ![v] = n]
              /\ n.snapshot = join[v].snapshot /\ n.todo \subseteq DOMAIN n.snapshot
              /\ \/ n.collected = join[v].collected
                 \/ /\ n.collected = join[v].collected \cup {Min(join[v].todo)}
                    /\ join[v].todo # {} /\ promise[Turn(v)] # "unset"
<1>1. Types /\ ShapeOK(v) BY DEF IInv
<1>2. pc \in [VM -> Pcs] /\ join \in [VM -> Locals] /\ join[v] \in Locals
  BY <1>1 DEF Types
<1>3. pc[v] \in Joining /\ UNCHANGED <<scopes, chain, stack, children, spawning, unwind>>
  BY DEF LoopAction, subscribe_child, subscribed, abandon_unstarted_if_cancelled,
         abandon_exchange, abandon_handler, abandon_notify, abandon_done, poll_child,
         poll_again, wait_for_children, wake, Joining, JoinPcs, tree
<1>4. \E l \in Joining : pc' = [pc EXCEPT ![v] = l]
  <2>1. CASE UNCHANGED pc
    <3>1. pc' = [pc EXCEPT ![v] = pc[v]] BY <1>2, <2>1
    <3>2. QED BY <1>3, <3>1
  <2>2. CASE \E l \in {"check", "exchange", "poll", "handler", "notify", "sleep"} : Goto(v, l)
    BY <2>2 DEF Goto, Joining, JoinPcs
  <2>3. UNCHANGED pc \/ \E l \in {"check", "exchange", "poll", "handler", "notify", "sleep"} : Goto(v, l)
    BY DEF LoopAction, subscribe_child, subscribed, abandon_unstarted_if_cancelled,
         abandon_exchange, abandon_handler, abandon_notify, abandon_done, poll_child,
         poll_again, wait_for_children, wake
  <2>4. QED BY <2>1, <2>2, <2>3
<1>5. /\ join[v].todo \subseteq DOMAIN join[v].snapshot
      /\ AfterTurn(v) \in SUBSET Nat /\ AfterTurn(v) \subseteq DOMAIN join[v].snapshot
      /\ Uncollected(v) \in SUBSET Nat /\ Uncollected(v) \subseteq DOMAIN join[v].snapshot
      /\ join[v].todo # {} => Min(join[v].todo) \in Nat /\ Turn(v) \in Task
  BY <1>1, Positions DEF ShapeOK, Uncollected
<1>6. \/ UNCHANGED join
      \/ join' = [join EXCEPT ![v].todo = AfterTurn(v)]
      \/ join' = [join EXCEPT ![v].todo = Uncollected(v)]
      \/ join' = [join EXCEPT ![v].todo = Uncollected(v),
                              ![v].abandoned = @ \/ MustAbandon(v), ![v].progressed = FALSE]
      \/ EnterRegion(v)
      \/ /\ join[v].todo # {} /\ promise[Turn(v)] # "unset"
         /\ \E f \in Task \cup {NoTask} :
              join' = [join EXCEPT ![v].todo = AfterTurn(v),
                                   ![v].collected = @ \cup {Min(join[v].todo)},
                                   ![v].progressed = TRUE, ![v].first_error = f]
  <2>1. CASE poll_child(v)
    <3>1. CASE promise[Turn(v)] = "unset" BY <2>1, <3>1 DEF poll_child
    <3>2. CASE promise[Turn(v)] # "unset"
      <4>1. join[v].first_error \in Task \cup {NoTask} /\ join[v].todo # {}
        BY <1>2, <2>1, LocalFields DEF poll_child
      <4>2. PICK c \in BOOLEAN :
              join' = [join EXCEPT ![v].todo = AfterTurn(v),
                                   ![v].collected = @ \cup {Min(join[v].todo)},
                                   ![v].progressed = TRUE,
                                   ![v].first_error = IF c THEN Turn(v) ELSE @]
        BY <2>1, <3>2, ZenonT(40) DEF poll_child
      <4>3. QED BY <3>2, <4>1, <4>2, <1>5
    <3>3. QED BY <3>1, <3>2
  <2>2. QED BY <2>1 DEF LoopAction, subscribe_child, subscribed, abandon_unstarted_if_cancelled,
         abandon_exchange, abandon_handler, abandon_notify, abandon_done,
         poll_again, wait_for_children, wake
<1>7. \E n \in Locals :
        /\ join' = [join EXCEPT ![v] = n]
        /\ n.snapshot = join[v].snapshot /\ n.todo \subseteq DOMAIN n.snapshot
        /\ \/ n.collected = join[v].collected
           \/ /\ n.collected = join[v].collected \cup {Min(join[v].todo)}
              /\ join[v].todo # {} /\ promise[Turn(v)] # "unset"
  <2>1. CASE UNCHANGED join
    <3>1. join' = [join EXCEPT ![v] = join[v]] BY <1>2, <2>1
    <3>2. QED BY <1>2, <1>5, <3>1
  <2>2. CASE \E X \in {AfterTurn(v), Uncollected(v)} : join' = [join EXCEPT ![v].todo = X]
    <3>1. PICK X \in {AfterTurn(v), Uncollected(v)} : join' = [join EXCEPT ![v].todo = X]
      BY <2>2
    <3>2. PICK n : n = [join[v] EXCEPT !.todo = X] OBVIOUS
    <3>3. /\ n \in Locals /\ n.snapshot = join[v].snapshot /\ n.todo = X
          /\ n.collected = join[v].collected
      <4>1. join[v] \in Locals /\ X \in SUBSET Nat BY <1>2, <1>5
      <4>2. QED BY <4>1, <3>2, ZenonT(40) DEF Locals
    <3>4. join' = [join EXCEPT ![v] = n] BY <3>1, <3>2
    <3>5. QED BY <1>5, <3>3, <3>4
  <2>3. CASE join' = [join EXCEPT ![v].todo = Uncollected(v),
                                  ![v].abandoned = @ \/ MustAbandon(v), ![v].progressed = FALSE]
    <3>1. PICK a \in BOOLEAN : a = (join[v].abandoned \/ MustAbandon(v)) OBVIOUS
    <3>2. PICK n : n = [join[v] EXCEPT !.todo = Uncollected(v), !.abandoned = a,
                                       !.progressed = FALSE] OBVIOUS
    <3>3. /\ n \in Locals /\ n.snapshot = join[v].snapshot /\ n.todo = Uncollected(v)
          /\ n.collected = join[v].collected
      <4>1. /\ join[v] \in Locals /\ Uncollected(v) \in SUBSET Nat BY <1>2, <1>5
      <4>2. QED BY <4>1, <3>2, ZenonT(40) DEF Locals
    <3>4. join' = [join EXCEPT ![v] = n] BY <2>3, <3>1, <3>2
    <3>5. QED BY <1>5, <3>3, <3>4
  <2>4. CASE EnterRegion(v)
    <3>1. PICK g : g = IF join[v].region # "none" THEN join[v].region
                       ELSE IF join[v].abandoned THEN "External" ELSE "OnPoolTasks" OBVIOUS
    <3>2. g \in {"none", "OnPoolTasks", "External"} BY <1>2, <3>1 DEF Locals
    <3>3. PICK n : n = [join[v] EXCEPT !.region = g] OBVIOUS
    <3>4. /\ n \in Locals /\ n.snapshot = join[v].snapshot /\ n.todo = join[v].todo
          /\ n.collected = join[v].collected
      BY <1>2, <3>2, <3>3, ZenonT(40) DEF Locals
    <3>5. join' = [join EXCEPT ![v] = n] BY <2>4, <3>1, <3>3 DEF EnterRegion
    <3>6. QED BY <1>5, <3>4, <3>5
  <2>5. CASE /\ join[v].todo # {} /\ promise[Turn(v)] # "unset"
             /\ \E f \in Task \cup {NoTask} :
                  join' = [join EXCEPT ![v].todo = AfterTurn(v),
                                       ![v].collected = @ \cup {Min(join[v].todo)},
                                       ![v].progressed = TRUE, ![v].first_error = f]
    <3>1. PICK f \in Task \cup {NoTask} :
            join' = [join EXCEPT ![v].todo = AfterTurn(v),
                                 ![v].collected = @ \cup {Min(join[v].todo)},
                                 ![v].progressed = TRUE, ![v].first_error = f]
      BY <2>5
    <3>2. PICK C : C = join[v].collected \cup {Min(join[v].todo)} OBVIOUS
    <3>3. C \in SUBSET Nat BY <1>2, <1>5, <2>5, <3>2, LocalFields
    <3>4. PICK n : n = [join[v] EXCEPT !.todo = AfterTurn(v), !.collected = C,
                                       !.progressed = TRUE, !.first_error = f] OBVIOUS
    <3>5. /\ n \in Locals /\ n.snapshot = join[v].snapshot /\ n.todo = AfterTurn(v)
          /\ n.collected = C
      <4>1. join[v] \in Locals /\ AfterTurn(v) \in SUBSET Nat BY <1>2, <1>5
      <4>2. QED BY <4>1, <3>3, <3>4, ZenonT(40) DEF Locals
    <3>6. join' = [join EXCEPT ![v] = n] BY <3>1, <3>2, <3>4
    <3>7. QED BY <1>5, <2>5, <3>2, <3>5, <3>6
  <2>6. QED BY <1>6, <2>1, <2>2, <2>3, <2>4, <2>5
<1>8. QED BY <1>3, <1>4, <1>7

LEMMA LoopKeeps ==
  ASSUME IInv, NEW v \in VM, LoopAction(v)
  PROVE  IInv'
<1>1. Types /\ ShapeOK(v) /\ HandlerOK(v) BY DEF IInv
<1>2. pc \in [VM -> Pcs] /\ join \in [VM -> Locals] BY <1>1 DEF Types
<1>3. pc[v] \in Joining /\ UNCHANGED <<scopes, chain, stack, children, spawning, unwind>>
  BY LoopShape
<1>4. PICK l \in Joining : pc' = [pc EXCEPT ![v] = l] BY LoopShape
<1>5. PICK n \in Locals :
        /\ join' = [join EXCEPT ![v] = n]
        /\ n.snapshot = join[v].snapshot /\ n.todo \subseteq DOMAIN n.snapshot
        /\ \/ n.collected = join[v].collected
           \/ /\ n.collected = join[v].collected \cup {Min(join[v].todo)}
              /\ join[v].todo # {} /\ promise[Turn(v)] # "unset"
  BY LoopShape
<1>6. pc'[v] = l /\ join'[v] = n BY <1>2, <1>4, <1>5
<1>7. \A i \in Uncollected(v) : i \in n.collected => promise[join[v].snapshot[i]] # "unset"
  BY <1>5 DEF Uncollected, Turn
<1>8. join[v].todo # {} => Turn(v) \in Task /\ pc[Turn(v)] # "new" BY <1>1, Positions
<1>9. /\ started' \in [Task -> BOOLEAN] /\ complete' \in [Task -> BOOLEAN]
      /\ \A t \in Task : started[t] => started'[t]
      /\ promise' \in [Task -> {"unset", "value", "error", "cancelled"}]
      /\ \A t \in Task : \/ promise'[t] = promise[t]
                         \/ promise'[t] # "unset" /\ pc[t] \in Resting /\ started[t]
      /\ subs' \in [Task -> SUBSET VM] /\ notified' \in [VM -> BOOLEAN]
      /\ cancelled' \subseteq Token
      /\ l \in {"handler", "notify"} =>
           /\ n.todo # {}
           /\ started'[n.snapshot[Min(n.todo)]] /\ pc[n.snapshot[Min(n.todo)]] \in Resting
  <2>1. CASE subscribe_child(v)
    <3>1. /\ join[v].todo # {} /\ subscribe(v, Turn(v)) /\ l = "subscribe"
          /\ UNCHANGED <<started, promise, complete, cancelled>>
      BY <1>6, <2>1 DEF subscribe_child, task_state
    <3>2. subs' \in [Task -> SUBSET VM] /\ notified' \in [VM -> BOOLEAN]
      BY <1>1, <1>8, <3>1, SignalTypes
    <3>3. QED BY <1>1, <3>1, <3>2 DEF Types
  <2>2. CASE \/ subscribed(v) \/ abandon_done(v) \/ poll_again(v) \/ wait_for_children(v)
    <3>1. /\ l \notin {"handler", "notify"}
          /\ UNCHANGED <<started, promise, complete, cancelled, subs, notified>>
      BY <1>2, <1>6, <2>2 DEF subscribed, abandon_done, poll_again, wait_for_children,
                              task_state, Goto
    <3>2. QED BY <1>1, <3>1 DEF Types
  <2>3. CASE abandon_unstarted_if_cancelled(v)
    <3>1. /\ l \notin {"handler", "notify"}
          /\ UNCHANGED <<started, promise, complete, cancelled, subs, notified>>
      BY <1>2, <1>6, <2>3 DEF abandon_unstarted_if_cancelled, task_state, Goto
    <3>2. QED BY <1>1, <3>1 DEF Types
  <2>4. CASE wake(v)
    <3>1. /\ l \notin {"handler", "notify"} /\ notified' = [notified EXCEPT ![v] = FALSE]
          /\ UNCHANGED <<started, promise, complete, cancelled, subs>>
      BY <1>2, <1>6, <2>4 DEF wake, task_state, Goto
    <3>2. QED BY <1>1, <3>1 DEF Types
  <2>5. CASE poll_child(v)
    <3>1. /\ l = "poll" /\ pc[v] = "poll"
          /\ UNCHANGED <<started, promise, complete, subs, notified>>
          /\ cancelled' \in {cancelled, cancelled \cup {current_scope(v)}}
      BY <1>6, <2>5 DEF poll_child, task_state
    <3>2. current_scope(v) \in Token
      BY <1>1, <3>1, CurrentScope, Sets DEF ShapeOK, JoinPcs
    <3>3. QED BY <1>1, <3>1, <3>2 DEF Types
  <2>6. CASE abandon_exchange(v)
    <3>1. /\ join[v].todo # {} /\ started' = [started EXCEPT ![Turn(v)] = TRUE]
          /\ UNCHANGED <<promise, complete, cancelled, subs, notified>>
      BY <2>6 DEF abandon_exchange
    <3>2. /\ started' \in [Task -> BOOLEAN] /\ started'[Turn(v)]
          /\ \A t \in Task : started[t] => started'[t]
      BY <1>1, <1>8, <3>1 DEF Types
    <3>3. CASE started[Turn(v)]
      <4>1. l = "exchange" BY <1>6, <2>6, <3>3 DEF abandon_exchange
      <4>2. QED BY <1>1, <3>1, <3>2, <4>1 DEF Types
    <3>4. CASE ~started[Turn(v)]
      <4>1. join' = join BY <2>6, <3>4 DEF abandon_exchange
      <4>2. n = join[v] BY <1>6, <4>1
      <4>3. PromiseOK(Turn(v)) BY <1>8, <3>1 DEF IInv
      <4>4. pc[Turn(v)] \in Resting
        <5>1. pc[Turn(v)] \in Pcs \ (BodyPcs \cup {"new", "claimed"})
          BY <1>2, <1>8, <3>1, <3>4, <4>3, Sets DEF PromiseOK
        <5>2. QED BY <5>1 DEF Pcs, Resting, BodyPcs
      <4>5. QED BY <1>1, <3>1, <3>2, <4>2, <4>4 DEF Types, Turn
    <3>5. QED BY <3>3, <3>4
  <2>7. CASE abandon_handler(v)
    <3>1. /\ pc[v] = "handler" /\ Resolve(Turn(v), "cancelled") /\ join' = join
          /\ UNCHANGED <<started, complete, cancelled, subs, notified>>
      BY <2>7 DEF abandon_handler
    <3>2. join[v].todo # {} /\ started[Turn(v)] /\ pc[Turn(v)] \in Resting /\ n = join[v]
      BY <1>1, <1>6, <3>1 DEF ShapeOK, HandlerOK
    <3>3. /\ promise' \in [Task -> {"unset", "value", "error", "cancelled"}]
          /\ \A t \in Task : \/ promise'[t] = promise[t]
                             \/ promise'[t] # "unset" /\ pc[t] \in Resting /\ started[t]
      BY <1>1, <1>8, <3>1, <3>2, PromiseSet
    <3>4. QED BY <1>1, <3>1, <3>2, <3>3 DEF Types, Turn
  <2>8. CASE abandon_notify(v)
    <3>1. /\ pc[v] = "notify" /\ mark_complete(Turn(v)) /\ l = "exchange"
          /\ UNCHANGED <<started, promise, cancelled>>
      BY <1>2, <1>6, <2>8 DEF abandon_notify, Goto
    <3>2. join[v].todo # {} BY <1>1, <3>1 DEF ShapeOK
    <3>3. /\ subs' \in [Task -> SUBSET VM] /\ notified' \in [VM -> BOOLEAN]
          /\ complete' \in [Task -> BOOLEAN]
      BY <1>1, <1>8, <3>1, <3>2, SignalTypes
    <3>4. QED BY <1>1, <3>1, <3>3 DEF Types
  <2>9. QED BY <2>1, <2>2, <2>3, <2>4, <2>5, <2>6, <2>7, <2>8 DEF LoopAction
<1>10. /\ scopes' = scopes /\ chain' = chain /\ stack' = stack
       /\ children' = children /\ spawning' = spawning /\ unwind' = unwind
  BY <1>3
<1>11. join' = [join EXCEPT ![v] = n] /\ n.snapshot = join[v].snapshot
       /\ n.todo \subseteq DOMAIN n.snapshot
  BY <1>5
<1>12. QED BY <1>3, <1>4, <1>7, <1>9, <1>10, <1>11, JoinLoop, ZenonT(60)

-----------------------------------------------------------------------------
(* The bodies: exceptions, cancellation, races and the ends of joins.      *)
LEMMA ThrowEffect ==
  ASSUME NEW v \in VM, NEW depth \in Int, NEW o \in {"error", "cancelled"},
         ThrowFrom(v, depth, o)
  PROVE  /\ pc' = [pc EXCEPT ![v] = "unwind"]
         /\ \E u \in Unwinds : /\ unwind' = [unwind EXCEPT ![v] = u]
                               /\ u.outcome # "run" => u.to = 0
<1>1. pc' = [pc EXCEPT ![v] = "unwind"] BY DEF ThrowFrom, Goto
<1>2. CASE \E d \in 0 .. depth : unwind' = [unwind EXCEPT ![v] = [to |-> d, outcome |-> "run"]]
  <2>1. PICK d \in 0 .. depth : unwind' = [unwind EXCEPT ![v] = [to |-> d, outcome |-> "run"]]
    BY <1>2
  <2>2. [to |-> d, outcome |-> "run"] \in Unwinds BY DEF Unwinds
  <2>3. QED BY <1>1, <2>1, <2>2
<1>3. CASE unwind' = [unwind EXCEPT ![v] = [to |-> 0, outcome |-> o]]
  <2>1. [to |-> 0, outcome |-> o] \in Unwinds BY DEF Unwinds
  <2>2. QED BY <1>1, <1>3, <2>1
<1>4. QED BY <1>2, <1>3 DEF ThrowFrom

LEMMA SequenceOfSet ==
  ASSUME NEW R \in SUBSET Task
  PROVE  /\ SetToSeq(R) \in Seq(Task) /\ DOMAIN SetToSeq(R) = 1 .. Cardinality(R)
         /\ Cardinality(R) \in Nat
         /\ \A i \in DOMAIN SetToSeq(R) : SetToSeq(R)[i] \in R
<1>1. IsFiniteSet(R) BY ScopeAssumption, FS_Subset
<1>2. Cardinality(R) \in Nat /\ ExistsBijection(1 .. Cardinality(R), R)
  BY <1>1, FS_CardinalityType
<1>3. PICK f \in [1 .. Cardinality(R) -> R] : IsInjective(f)
  BY <1>2 DEF ExistsBijection, Bijection, Injection, IsInjective
<1>4. SetToSeq(R) \in [1 .. Cardinality(R) -> R] BY <1>3 DEF SetToSeq
<1>5. SetToSeq(R) \in Seq(Task) BY <1>2, <1>4, SeqDef
<1>6. QED BY <1>2, <1>4, <1>5

(* The steps of a body that keep its scopes and their children.            *)
BodyAction(v) ==
  \/ \E t \in Task : cancel_task(v, t)
  \/ throw_error(v) \/ check_cancellation(v) \/ handle_task_scope_end(v)
  \/ retire_task_scope(v) \/ join_throws(v)
  \/ \E R \in SUBSET Task : race(v, R)
  \/ race_subscribe(v) \/ race_poll(v) \/ race_throws(v) \/ race_wait(v) \/ race_wake(v)
  \/ \E t \in Task : handle_await(v, t)
  \/ await_returns(v) \/ await_throws(v)

LEMMA EmptyHands ==
  ASSUME IInv, NEW v \in VM,
         \/ pc[v] \notin Joining \cup {"add"}
         \/ pc[v] # "add" /\ Uncollected(v) = {}
  PROVE  Held(v) = {}
BY DEF Held

LEMMA BodyKeeps ==
  ASSUME IInv, NEW v \in VM, BodyAction(v)
  PROVE  IInv'
<1>1. Types /\ ShapeOK(v) BY DEF IInv
<1>2. /\ pc \in [VM -> Pcs] /\ join \in [VM -> Locals] /\ join[v] \in Locals
      /\ unwind \in [VM -> Unwinds] /\ unwind[v] \in Unwinds
      /\ stack[v] \in Seq(Scope) /\ Len(stack[v]) \in Nat
  BY <1>1, LenProperties DEF Types
<1>3. /\ scopes' = scopes /\ chain' = chain /\ stack' = stack /\ children' = children
      /\ spawning' = spawning /\ started' = started /\ promise' = promise
      /\ complete' = complete
  BY DEF BodyAction, cancel_task, throw_error, check_cancellation, handle_task_scope_end,
         retire_task_scope, join_throws, race, race_subscribe, race_poll, race_throws,
         race_wait, race_wake, handle_await, await_returns, await_throws, tree, task_state
<1>4. /\ pc[v] \in BodyPcs /\ Held(v) = {}
  <2>1. /\ pc[v] \in {"run", "unwind", "race_subscribe", "race_poll", "race_sleep", "check", "await"}
        /\ pc[v] = "check" => Uncollected(v) = {}
    BY DEF BodyAction, cancel_task, throw_error, check_cancellation, handle_task_scope_end,
           retire_task_scope, join_throws, race, race_subscribe, race_poll, race_throws,
           race_wait, race_wake, handle_await, await_returns, await_throws
  <2>2. pc[v] \in BodyPcs /\ pc[v] # "add" BY <2>1 DEF BodyPcs, JoinPcs, RacePcs
  <2>3. pc[v] # "check" => pc[v] \notin Joining BY <2>1 DEF Joining, JoinPcs
  <2>4. QED BY <2>1, <2>2, <2>3, EmptyHands
<1>5. /\ join[v].todo \subseteq DOMAIN join[v].snapshot /\ DOMAIN join[v].snapshot \in SUBSET Nat
      /\ AfterTurn(v) \in SUBSET Nat /\ AfterTurn(v) \subseteq DOMAIN join[v].snapshot
      /\ join[v].todo # {} => Turn(v) \in Task
      /\ \A i \in DOMAIN join[v].snapshot :
           join[v].snapshot[i] \in Task /\ pc[join[v].snapshot[i]] # "new"
  BY <1>1, Positions DEF ShapeOK
<1>6. /\ subs' \in [Task -> SUBSET VM] /\ notified' \in [VM -> BOOLEAN]
      /\ cancelled' \subseteq Token
  <2>1. /\ subs \in [Task -> SUBSET VM] /\ notified \in [VM -> BOOLEAN]
        /\ cancelled \subseteq Token
    BY <1>1 DEF Types
  <2>2. \/ subs' = subs /\ notified' = notified
        \/ unsubscribe(v)
        \/ join[v].todo # {} /\ subscribe(v, Turn(v))
        \/ subs' = subs /\ notified' = [notified EXCEPT ![v] = FALSE]
    BY DEF BodyAction, cancel_task, throw_error, check_cancellation, handle_task_scope_end,
           retire_task_scope, join_throws, race, race_subscribe, race_poll, race_throws,
           race_wait, race_wake, handle_await, await_returns, await_throws, EndRace
  <2>3. subs' \in [Task -> SUBSET VM] /\ notified' \in [VM -> BOOLEAN]
    <3>1. CASE unsubscribe(v)
      <4>1. subs' \in [Task -> SUBSET VM] /\ notified' \in [VM -> BOOLEAN]
        BY <2>1, <3>1 DEF unsubscribe
      <4>2. QED BY <4>1
    <3>2. CASE join[v].todo # {} /\ subscribe(v, Turn(v))
      BY <1>1, <1>5, <3>2, SignalTypes
    <3>3. QED BY <2>1, <2>2, <3>1, <3>2
  <2>4. \/ cancelled' = cancelled
        \/ \E t \in Task : cancelled' = cancelled \cup {t}
        \/ cancelled' = cancelled \cup {current_scope(v)} /\ stack[v] # <<>>
        \/ \E t : cancelled' = cancelled \cup (ToSet(join[v].snapshot) \ {t})
    <3>1. CASE retire_task_scope(v)
      <4>1. Len(stack[v]) > 0 BY <1>2, <3>1 DEF retire_task_scope, Unwinds
      <4>2. stack[v] # <<>> BY <4>1, <1>2, EmptySeq
      <4>3. QED BY <3>1, <4>2 DEF retire_task_scope
    <3>2. CASE ~retire_task_scope(v)
      BY <3>2 DEF BodyAction, cancel_task, throw_error, check_cancellation, handle_task_scope_end,
           join_throws, race, race_subscribe, race_poll, race_throws, race_wait, race_wake,
           handle_await, await_returns, await_throws
    <3>3. QED BY <3>1, <3>2
  <2>5. ToSet(join[v].snapshot) \subseteq Task BY <1>5 DEF ToSet
  <2>6. cancelled' \subseteq Token
    BY <1>1, <2>1, <2>4, <2>5, CurrentScope, Sets
  <2>7. QED BY <2>3, <2>6
<1>7. \E l \in BodyPcs \ (Joining \cup {"add"}), n \in Locals, u \in Unwinds :
        /\ pc' = [pc EXCEPT ![v] = l] /\ join' = [join EXCEPT ![v] = n]
        /\ unwind' = [unwind EXCEPT ![v] = u]
        /\ l = "join" => stack[v] # <<>> /\ n.collected = {}
        /\ l = "await" => n.snapshot # <<>>
        /\ u.outcome # "run" => u.to = 0
        /\ n.todo \subseteq DOMAIN n.snapshot
        /\ \A i \in DOMAIN n.snapshot : n.snapshot[i] \in Task /\ pc[n.snapshot[i]] # "new"
  <2>1. /\ {"run", "unwind", "join", "await"} \cup RacePcs \subseteq BodyPcs \ (Joining \cup {"add"})
        /\ "race_poll" \in RacePcs /\ "race_sleep" \in RacePcs /\ "race_subscribe" \in RacePcs
        /\ "join" \notin {"run", "unwind", "await"} \cup RacePcs
        /\ "await" \notin {"run", "unwind", "join"} \cup RacePcs
    BY DEF BodyPcs, RacePcs, Joining, JoinPcs
  <2>2. unwind' = unwind => unwind' = [unwind EXCEPT ![v] = unwind[v]] BY <1>2
  <2>3. unwind[v].outcome # "run" => unwind[v].to = 0 BY <1>1 DEF ShapeOK
  <2>4. NoLocals.todo \subseteq DOMAIN NoLocals.snapshot /\ NoLocals \in Locals
        /\ DOMAIN NoLocals.snapshot = {} /\ NoLocals.collected = {}
    BY LocalFields, EmptySeq
  <2>5. CASE \E t \in Task : cancel_task(v, t)
    <3>1. /\ pc' = [pc EXCEPT ![v] = "run"] /\ join' = [join EXCEPT ![v] = join[v]]
          /\ unwind' = unwind
      BY <1>2, <2>5 DEF cancel_task
    <3>2. QED BY <1>2, <1>5, <2>1, <2>2, <2>3, <3>1
  <2>6. CASE throw_error(v) \/ check_cancellation(v)
    <3>1. /\ \E o \in {"error", "cancelled"} : ThrowFrom(v, Len(stack[v]), o)
          /\ join' = [join EXCEPT ![v] = join[v]]
      BY <1>2, <2>6 DEF throw_error, check_cancellation
    <3>2. /\ pc' = [pc EXCEPT ![v] = "unwind"]
          /\ \E u \in Unwinds : /\ unwind' = [unwind EXCEPT ![v] = u]
                                /\ u.outcome # "run" => u.to = 0
      BY <1>2, <3>1, ThrowEffect
    <3>3. QED BY <1>2, <1>5, <2>1, <3>1, <3>2
  <2>7. CASE join_throws(v) \/ race_throws(v) \/ await_throws(v)
    <3>1. /\ \E o \in {"error", "cancelled"}, d \in Int : ThrowFrom(v, d, o)
          /\ join' = [join EXCEPT ![v] = NoLocals]
      BY <1>2, <2>7 DEF join_throws, race_throws, await_throws, EndRace
    <3>2. /\ pc' = [pc EXCEPT ![v] = "unwind"]
          /\ \E u \in Unwinds : /\ unwind' = [unwind EXCEPT ![v] = u]
                                /\ u.outcome # "run" => u.to = 0
      BY <3>1, ThrowEffect
    <3>3. QED BY <2>1, <2>4, <3>1, <3>2
  <2>8. CASE handle_task_scope_end(v)
    <3>1. /\ pc' = [pc EXCEPT ![v] = "join"] /\ join' = [join EXCEPT ![v] = NoLocals]
          /\ unwind' = unwind /\ stack[v] # <<>>
      BY <2>8 DEF handle_task_scope_end, Goto
    <3>2. QED BY <1>2, <2>1, <2>2, <2>3, <2>4, <3>1
  <2>9. CASE retire_task_scope(v)
    <3>1. PICK n : n = [NoLocals EXCEPT !.teardown = TRUE] OBVIOUS
    <3>2. /\ n \in Locals /\ n.todo \subseteq DOMAIN n.snapshot /\ DOMAIN n.snapshot = {}
          /\ n.collected = {}
      <4>1. /\ n \in Locals /\ n.todo = NoLocals.todo /\ n.snapshot = NoLocals.snapshot
            /\ n.collected = NoLocals.collected
        BY <2>4, <3>1, ZenonT(40) DEF Locals
      <4>2. QED BY <2>4, <4>1
    <3>3. /\ pc' = [pc EXCEPT ![v] = "join"] /\ join' = [join EXCEPT ![v] = n]
          /\ unwind' = unwind
      BY <2>9, <3>1 DEF retire_task_scope, Goto
    <3>4. stack[v] # <<>>
      <4>1. Len(stack[v]) > 0 BY <1>2, <2>9 DEF retire_task_scope, Unwinds
      <4>2. QED BY <4>1, <1>2, EmptySeq
    <3>5. QED BY <1>2, <2>1, <2>2, <2>3, <3>2, <3>3, <3>4
  <2>10. CASE \E R \in SUBSET Task : race(v, R)
    <3>1. PICK R \in SUBSET Task : race(v, R) BY <2>10
    <3>2. PICK n : n = [NoLocals EXCEPT !.snapshot = SetToSeq(R), !.todo = 1 .. Cardinality(R)]
      OBVIOUS
    <3>3. /\ SetToSeq(R) \in Seq(Task) /\ DOMAIN SetToSeq(R) = 1 .. Cardinality(R)
          /\ \A i \in DOMAIN SetToSeq(R) : SetToSeq(R)[i] \in R
          /\ 1 .. Cardinality(R) \in SUBSET Nat
      BY SequenceOfSet
    <3>4. n \in Locals /\ n.snapshot = SetToSeq(R) /\ n.todo = 1 .. Cardinality(R)
      BY <2>4, <3>2, <3>3, ZenonT(40) DEF Locals
    <3>5. /\ pc' = [pc EXCEPT ![v] = "race_subscribe"] /\ join' = [join EXCEPT ![v] = n]
          /\ unwind' = unwind /\ \A t \in R : pc[t] # "new"
      BY <3>1, <3>2 DEF race, Goto
    <3>6. QED BY <1>2, <2>1, <2>2, <2>3, <3>3, <3>4, <3>5
  <2>11. CASE race_subscribe(v) \/ race_wake(v) \/ race_wait(v) \/ race_poll(v)
    <3>1. /\ unwind' = unwind
          /\ \E l \in {"run"} \cup RacePcs : pc' = [pc EXCEPT ![v] = l]
      <4>1. pc[v] \in RacePcs /\ unwind' = unwind
            /\ \/ UNCHANGED pc
               \/ \E l \in {"run"} \cup RacePcs : Goto(v, l)
        BY <2>11 DEF race_subscribe, race_wake, race_wait, race_poll, RacePcs
      <4>2. UNCHANGED pc => pc' = [pc EXCEPT ![v] = pc[v]] BY <1>2
      <4>3. QED BY <4>1, <4>2 DEF Goto
    <3>2. \E n \in Locals :
            /\ join' = [join EXCEPT ![v] = n] /\ n.todo \subseteq DOMAIN n.snapshot
            /\ \A i \in DOMAIN n.snapshot : n.snapshot[i] \in Task /\ pc[n.snapshot[i]] # "new"
      <4>1. \/ join' = [join EXCEPT ![v] = NoLocals]
            \/ EnterRegion(v)
            \/ \E X \in {AfterTurn(v), DOMAIN join[v].snapshot} :
                 join' = [join EXCEPT ![v].todo = X]
        BY <2>11 DEF race_subscribe, race_wake, race_wait, race_poll, EndRace
      <4>2. CASE join' = [join EXCEPT ![v] = NoLocals] BY <2>4, <4>2
      <4>3. CASE EnterRegion(v)
        <5>1. PICK g : g = IF join[v].region # "none" THEN join[v].region
                           ELSE IF join[v].abandoned THEN "External" ELSE "OnPoolTasks" OBVIOUS
        <5>2. g \in {"none", "OnPoolTasks", "External"} BY <1>2, <5>1 DEF Locals
        <5>3. PICK n : n = [join[v] EXCEPT !.region = g] OBVIOUS
        <5>4. n \in Locals /\ n.snapshot = join[v].snapshot /\ n.todo = join[v].todo
          BY <1>2, <5>2, <5>3, ZenonT(40) DEF Locals
        <5>5. join' = [join EXCEPT ![v] = n] BY <4>3, <5>1, <5>3 DEF EnterRegion
        <5>6. QED BY <1>5, <5>4, <5>5
      <4>4. CASE \E X \in {AfterTurn(v), DOMAIN join[v].snapshot} :
                   join' = [join EXCEPT ![v].todo = X]
        <5>1. PICK X \in {AfterTurn(v), DOMAIN join[v].snapshot} :
                join' = [join EXCEPT ![v].todo = X]
          BY <4>4
        <5>2. PICK n : n = [join[v] EXCEPT !.todo = X] OBVIOUS
        <5>3. X \in SUBSET Nat /\ X \subseteq DOMAIN join[v].snapshot BY <1>5
        <5>4. n \in Locals /\ n.snapshot = join[v].snapshot /\ n.todo = X
          BY <1>2, <5>2, <5>3, ZenonT(40) DEF Locals
        <5>5. join' = [join EXCEPT ![v] = n] BY <5>1, <5>2
        <5>6. QED BY <1>5, <5>3, <5>4, <5>5
      <4>5. QED BY <4>1, <4>2, <4>3, <4>4
    <3>3. PICK l \in {"run"} \cup RacePcs : pc' = [pc EXCEPT ![v] = l] BY <3>1
    <3>4. PICK n \in Locals :
            /\ join' = [join EXCEPT ![v] = n] /\ n.todo \subseteq DOMAIN n.snapshot
            /\ \A i \in DOMAIN n.snapshot : n.snapshot[i] \in Task /\ pc[n.snapshot[i]] # "new"
      BY <3>2
    <3>5. l \in BodyPcs \ (Joining \cup {"add"}) /\ l \notin {"join", "await"} BY <2>1, <3>3
    <3>6. unwind' = [unwind EXCEPT ![v] = unwind[v]] BY <2>2, <3>1
    <3>7. QED BY <1>2, <2>3, <3>3, <3>4, <3>5, <3>6
  <2>12. CASE \E t \in Task : handle_await(v, t)
    <3>1. PICK t \in Task : handle_await(v, t) BY <2>12
    <3>2. PICK g \in {"none", "OnPoolTasks"} :
            g = IF promise[t] = "unset" THEN "OnPoolTasks" ELSE "none" OBVIOUS
    <3>3. PICK n : n = [NoLocals EXCEPT !.snapshot = <<t>>, !.region = g] OBVIOUS
    <3>4. n \in Locals /\ n.snapshot = <<t>> /\ n.todo = {}
      <4>1. <<t>> \in Seq(Task) OBVIOUS
      <4>2. n \in Locals /\ n.snapshot = <<t>> /\ n.todo = NoLocals.todo
        BY <2>4, <3>2, <3>3, <4>1, ZenonT(40) DEF Locals
      <4>3. QED BY <4>2, LocalFields
    <3>5. /\ pc' = [pc EXCEPT ![v] = "await"] /\ join' = [join EXCEPT ![v] = n]
          /\ unwind' = unwind /\ pc[t] # "new"
      BY <3>1, <3>2, <3>3 DEF handle_await, Goto
    <3>6. /\ \A i \in DOMAIN n.snapshot : n.snapshot[i] \in Task /\ pc[n.snapshot[i]] # "new"
          /\ n.todo \subseteq DOMAIN n.snapshot /\ n.snapshot # <<>>
      BY <3>4, <3>5
    <3>7. unwind' = [unwind EXCEPT ![v] = unwind[v]] BY <2>2, <3>5
    <3>8. "await" \in BodyPcs \ (Joining \cup {"add"}) /\ "await" # "join" BY <2>1
    <3>9. QED BY <1>2, <2>3, <3>4, <3>5, <3>6, <3>7, <3>8
  <2>13. CASE await_returns(v)
    <3>1. join' = [join EXCEPT ![v] = NoLocals] BY <2>13 DEF await_returns
    <3>2. CASE promise[Awaited(v)] = "value"
      <4>1. pc' = [pc EXCEPT ![v] = "run"] /\ unwind' = unwind
        BY <2>13, <3>2 DEF await_returns, Goto
      <4>2. QED BY <1>2, <2>1, <2>2, <2>3, <2>4, <3>1, <4>1
    <3>3. CASE promise[Awaited(v)] # "value"
      <4>1. ThrowFrom(v, Len(stack[v]), promise[Awaited(v)]) /\ promise[Awaited(v)] # "unset"
        BY <2>13, <3>3 DEF await_returns
      <4>2. promise[Awaited(v)] \in {"error", "cancelled"}
        <5>1. pc[v] = "await" BY <2>13 DEF await_returns
        <5>2. join[v].snapshot # <<>> BY <1>1, <5>1 DEF ShapeOK
        <5>3. Awaited(v) = join[v].snapshot[1] /\ 1 \in DOMAIN join[v].snapshot
          <6>1. PICK q \in Seq(Task) : q = join[v].snapshot BY <1>1, Positions
          <6>2. Head(q) = q[1] /\ 1 \in DOMAIN q BY <5>2, <6>1
          <6>3. QED BY <6>1, <6>2 DEF Awaited
        <5>4. Awaited(v) \in Task BY <1>5, <5>3
        <5>5. QED BY <1>1, <3>3, <4>1, <5>4 DEF Types
      <4>3. /\ pc' = [pc EXCEPT ![v] = "unwind"]
            /\ \E u \in Unwinds : /\ unwind' = [unwind EXCEPT ![v] = u]
                                  /\ u.outcome # "run" => u.to = 0
        BY <1>2, <4>1, <4>2, ThrowEffect
      <4>4. QED BY <2>1, <2>4, <3>1, <4>3
    <3>4. QED BY <3>2, <3>3
  <2>14. QED BY <2>5, <2>6, <2>7, <2>8, <2>9, <2>10, <2>11, <2>12, <2>13 DEF BodyAction
<1>8. PICK l \in BodyPcs \ (Joining \cup {"add"}), n \in Locals, u \in Unwinds :
        /\ pc' = [pc EXCEPT ![v] = l] /\ join' = [join EXCEPT ![v] = n]
        /\ unwind' = [unwind EXCEPT ![v] = u]
        /\ l = "join" => stack[v] # <<>> /\ n.collected = {}
        /\ l = "await" => n.snapshot # <<>>
        /\ u.outcome # "run" => u.to = 0
        /\ n.todo \subseteq DOMAIN n.snapshot
        /\ \A i \in DOMAIN n.snapshot : n.snapshot[i] \in Task /\ pc[n.snapshot[i]] # "new"
  BY <1>7
<1>9. complete' \in [Task -> BOOLEAN] BY <1>1, <1>3 DEF Types
<1>10. QED BY <1>3, <1>4, <1>6, <1>8, <1>9, BodyMoves, ZenonT(40)

(* A body returns or is left by an exception; or a handler is reached.     *)
Returns(v) == return_value(v) /\ stack[v] = <<>>
LEMMA ReturnsQuietly ==
  ASSUME NEW v \in VM, Types, Returns(v)
  PROVE  scopes' = scopes /\ stack' = stack /\ Goto(v, Ended(v))
<1>1. ToSet(stack[v]) = {} BY EmptySeq DEF Returns, ToSet
<1>2. scopes \in [Scope -> {"free", "open", "joined", "failed", "left"}]
      /\ stack \in [VM -> Seq(Scope)]
  BY DEF Types
<1>3. scopes' = scopes
  <2>1. scopes' = [s \in Scope |-> scopes[s]] BY <1>1 DEF Returns, return_value
  <2>2. QED BY <1>2, <2>1
<1>4. stack' = stack
  <2>1. stack' = [stack EXCEPT ![v] = stack[v]] BY DEF Returns, return_value
  <2>2. QED BY <1>2, <2>1
<1>5. QED BY <1>3, <1>4 DEF Returns, return_value

LEMMA EndKeeps ==
  ASSUME IInv, NEW v \in VM, Returns(v) \/ Unwound(v)
  PROVE  IInv'
<1>1. Types /\ ShapeOK(v) /\ (v \in Task => PromiseOK(v)) BY DEF IInv
<1>2. /\ pc \in [VM -> Pcs] /\ join[v] \in Locals
      /\ unwind \in [VM -> Unwinds] /\ unwind[v] \in Unwinds
      /\ stack[v] \in Seq(Scope) /\ NoUnwind \in Unwinds /\ NoUnwind.outcome = "run"
  BY <1>1 DEF Types, NoUnwind, Unwinds
<1>3. /\ scopes' = scopes /\ chain' = chain /\ stack' = stack /\ children' = children
      /\ spawning' = spawning /\ started' = started /\ join' = join
      /\ UNCHANGED <<complete, subs, notified, cancelled>>
      /\ pc[v] \in {"run", "unwind"}
  BY <1>1, ReturnsQuietly DEF Returns, return_value, Unwound, tree
<1>4. PICK l \in {"run", "finish", "done"} : pc' = [pc EXCEPT ![v] = l]
  BY <1>1, ReturnsQuietly DEF Unwound, Goto, Ended
<1>5. pc'[v] = l /\ pc' \in [VM -> Pcs] BY <1>2, <1>4 DEF Pcs
<1>6. /\ unwind' \in [VM -> Unwinds]
      /\ unwind'[v].outcome # "run" => unwind'[v].to = 0
      /\ \A w \in VM \ {v} : unwind'[w] = unwind[w]
  <2>1. CASE Returns(v)
    <3>1. unwind' = unwind BY <2>1 DEF Returns, return_value
    <3>2. QED BY <1>1, <1>2, <3>1 DEF ShapeOK
  <2>2. CASE Unwound(v)
    <3>1. unwind' = [unwind EXCEPT ![v] = NoUnwind] BY <2>2 DEF Unwound
    <3>2. QED BY <1>2, <3>1
  <2>3. QED BY <2>1, <2>2
<1>7. /\ l # "run" => stack[v] = <<>>
      /\ \/ promise' = promise
         \/ /\ v \in Task /\ l = "finish"
            /\ \E o \in {"value", "error", "cancelled"} : Resolve(v, o)
  <2>1. CASE Returns(v)
    <3>1. CASE v = Main BY <2>1, <3>1 DEF Returns, return_value
    <3>2. CASE v # Main
      <4>1. /\ v \in Task /\ stack[v] = <<>> /\ Goto(v, "finish") /\ Resolve(v, "value")
        BY <1>1, <2>1, <3>2, ReturnsQuietly DEF Returns, return_value, VM, Ended
      <4>2. l = "finish" BY <1>2, <1>5, <4>1 DEF Goto
      <4>3. QED BY <4>1, <4>2
    <3>3. QED BY <3>1, <3>2
  <2>2. CASE Unwound(v)
    <3>1. CASE unwind[v].outcome = "run"
      <4>1. Goto(v, "run") /\ promise' = promise BY <2>2, <3>1 DEF Unwound
      <4>2. l = "run" BY <1>2, <1>5, <4>1 DEF Goto
      <4>3. QED BY <4>1, <4>2
    <3>2. CASE unwind[v].outcome # "run"
      <4>1. Len(stack[v]) = 0 BY <1>1, <2>2, <3>2 DEF Unwound, ShapeOK
      <4>2. stack[v] = <<>> BY <1>2, <4>1, EmptySeq
      <4>3. CASE v = Main
        <5>1. promise' = promise BY <2>2, <3>2, <4>3 DEF Unwound
        <5>2. QED BY <4>2, <5>1
      <4>4. CASE v # Main
        <5>1. /\ Goto(v, "finish")
              /\ Resolve(v, IF is_cancelled(v) THEN "cancelled" ELSE unwind[v].outcome)
          BY <2>2, <3>2, <4>4 DEF Unwound
        <5>2. v \in Task BY <4>4 DEF VM
        <5>3. l = "finish" BY <1>2, <1>5, <5>1 DEF Goto
        <5>4. unwind[v].outcome \in {"error", "cancelled"} BY <1>2, <3>2 DEF Unwinds
        <5>5. \E o \in {"value", "error", "cancelled"} : Resolve(v, o)
          BY <5>1, <5>4
        <5>6. QED BY <4>2, <5>2, <5>3, <5>5
      <4>5. QED BY <4>3, <4>4
    <3>3. QED BY <3>1, <3>2
  <2>3. QED BY <2>1, <2>2
<1>8. /\ promise' \in [Task -> {"unset", "value", "error", "cancelled"}]
      /\ \A t \in Task : \/ promise'[t] = promise[t]
                         \/ t = v /\ promise'[t] # "unset" /\ l = "finish"
  <2>1. CASE promise' = promise BY <1>1, <2>1 DEF Types
  <2>2. CASE v \in Task /\ l = "finish" /\ \E o \in {"value", "error", "cancelled"} : Resolve(v, o)
    BY <1>1, <2>2, PromiseSet
  <2>3. QED BY <1>7, <2>1, <2>2
<1>9. Types' BY <1>1, <1>3, <1>5, <1>6, <1>8 DEF Types
<1>10. pc[v] \in BodyPcs /\ pc[v] \notin Joining \cup {"add"} /\ pc[v] \notin Resting
  BY <1>3 DEF BodyPcs, Joining, JoinPcs, Resting
<1>11. v \in Task => started'[v] BY <1>1, <1>3, <1>10 DEF PromiseOK
<1>12. Held(v) = {} BY <1>10 DEF Held
<1>13. /\ l \notin JoinPcs \cup {"add", "new", "handler", "notify"} \cup Joining
       /\ "run" \in BodyPcs /\ "finish" \in Resting
  BY DEF JoinPcs, Joining, BodyPcs, Resting
<1>14. ShapeOK(v)'
  <2>1. \A i \in DOMAIN join[v].snapshot :
          join[v].snapshot[i] \in VM /\ pc[join[v].snapshot[i]] # "new"
    BY <1>1, Positions, Sets DEF ShapeOK
  <2>2. \A i \in DOMAIN join[v].snapshot : pc'[join[v].snapshot[i]] # "new"
    BY <1>2, <1>4, <1>5, <1>13, <2>1
  <2>3. stack[v] # <<>> => l \in BodyPcs BY <1>7, <1>13
  <2>4. join[v].todo \subseteq DOMAIN join[v].snapshot BY <1>1 DEF ShapeOK
  <2>5. l \notin JoinPcs \cup {"add"} /\ l # "join" /\ l \notin Joining /\ l \notin {"handler", "notify"}
    BY <1>13 DEF JoinPcs
  <2>6. QED BY <1>3, <1>5, <1>6, <2>2, <2>3, <2>4, <2>5 DEF ShapeOK
<1>15. HandlerOK(v)' BY <1>5, <1>13 DEF HandlerOK
<1>16. \A w \in VM \ {v} : pc'[w] = pc[w] BY <1>2, <1>4
<1>17. pc[v] # "new" /\ pc'[v] # "new" BY <1>3, <1>5
<1>18. QED BY <1>3, <1>5, <1>6, <1>7, <1>8, <1>9, <1>10, <1>11, <1>12, <1>13, <1>14, <1>15,
              <1>16, <1>17, Quiet

(* ~VM cancels the scopes that were left.                                  *)
LEMMA DestroyKeeps ==
  ASSUME IInv, NEW v \in VM, destroy_vm(v)
  PROVE  IInv'
<1>1. Types /\ ShapeOK(v) BY DEF IInv
<1>2. PICK l \in {"done", "finish"} : pc' = [pc EXCEPT ![v] = l]
  BY DEF destroy_vm, Goto, Ended
<1>3. /\ pc[v] = "destroy"
      /\ started' = started /\ promise' = promise /\ complete' = complete
      /\ subs' = subs /\ notified' = notified /\ scopes' = scopes /\ children' = children
      /\ chain' = chain /\ stack' = stack /\ spawning' = spawning /\ join' = join
      /\ unwind' = unwind /\ cancelled' = cancelled \cup LeftBy(v)
  BY DEF destroy_vm, task_state, tree
<1>4. pc'[v] = l /\ \A w \in VM \ {v} : pc'[w] = pc[w]
  BY <1>1, <1>2 DEF Types
<1>5. Types'
  <2>1. LeftBy(v) \subseteq Token BY Sets DEF LeftBy
  <2>2. cancelled' \subseteq Token BY <1>1, <1>3, <2>1 DEF Types
  <2>3. pc' \in [VM -> Pcs] BY <1>1, <1>2 DEF Types, Pcs
  <2>4. QED BY <1>1, <1>3, <2>2, <2>3 DEF Types
<1>6. /\ {"destroy", l} \subseteq Resting
      /\ {"destroy", l} \cap (BodyPcs \cup JoinPcs \cup Joining) = {}
      /\ {"destroy", l} \cap {"new", "claimed", "add", "join", "handler", "notify", "await"} = {}
  BY DEF Resting, BodyPcs, JoinPcs, RacePcs, Joining
<1>7. stack[v] = <<>> BY <1>1, <1>3, <1>6 DEF ShapeOK
<1>8. ShapeOK(v)'
  <2>1. \A i \in DOMAIN join[v].snapshot :
          join[v].snapshot[i] \in VM /\ pc[join[v].snapshot[i]] # "new"
    BY <1>1, Positions, Sets DEF ShapeOK
  <2>2. \A i \in DOMAIN join[v].snapshot : pc'[join[v].snapshot[i]] # "new"
    BY <1>4, <1>6, <2>1
  <2>3. QED BY <1>1, <1>3, <1>4, <1>6, <1>7, <2>2 DEF ShapeOK
<1>9. HandlerOK(v)' BY <1>4, <1>6 DEF HandlerOK
<1>10. Held(v) = {} BY <1>3, <1>6 DEF Held
<1>11. v \in Task => pc'[v] \notin {"claimed"} \cup BodyPcs BY <1>4, <1>6
<1>12. QED BY <1>3, <1>4, <1>5, <1>6, <1>8, <1>9, <1>10, <1>11, Quiet

-----------------------------------------------------------------------------
(* The record of a scope's children changes hands.                         *)
LEMMA RecordKeeps ==
  ASSUME IInv, NEW v \in VM, take_children(v) \/ add_child(v) \/ report_stall(v)
  PROVE  IInv'
<1>1. Types /\ ShapeOK(v) /\ FreshOK /\ (v \in Task => PromiseOK(v)) BY DEF IInv
<1>2. /\ pc \in [VM -> Pcs] /\ join \in [VM -> Locals] /\ join[v] \in Locals
      /\ unwind \in [VM -> Unwinds] /\ spawning \in [VM -> Task \cup {NoTask}]
      /\ children \in [Scope -> Seq(Task)]
      /\ notified \in [VM -> BOOLEAN] /\ subs \in [Task -> SUBSET VM]
  BY <1>1 DEF Types
<1>3. pc[v] \in {"join", "add", "poll"} /\ pc[v] \in BodyPcs /\ pc[v] \notin Resting \cup {"new"}
  BY DEF take_children, add_child, report_stall, BodyPcs, JoinPcs, Resting
<1>4. stack[v] # <<>> BY <1>1, <1>3 DEF ShapeOK, JoinPcs
<1>5. /\ stack[v] \in Seq(Scope) /\ Len(stack[v]) \in Nat \ {0}
      /\ current_scope(v) \in Scope /\ children[current_scope(v)] \in Seq(Task)
  BY <1>1, <1>2, <1>4, CurrentScope
<1>6. /\ scopes' = scopes /\ chain' = chain /\ stack' = stack /\ cancelled' = cancelled
      /\ started' = started /\ promise' = promise /\ complete' = complete
  BY DEF take_children, add_child, report_stall, task_state
<1>7. v \in Task => started'[v] BY <1>1, <1>3, <1>6 DEF PromiseOK
<1>8. \A i \in DOMAIN children[current_scope(v)] :
        /\ children[current_scope(v)][i] \in VM /\ pc[children[current_scope(v)][i]] # "new"
  BY <1>1, <1>5, ElementOfSeq, LenProperties, Sets DEF FreshOK
<1>9. /\ \A i \in DOMAIN join[v].snapshot :
           /\ join[v].snapshot[i] \in VM /\ pc[join[v].snapshot[i]] # "new"
      /\ join[v].snapshot \in Seq(Task) /\ DOMAIN join[v].snapshot \in SUBSET Nat
      /\ join[v].todo \subseteq DOMAIN join[v].snapshot
      /\ unwind[v].outcome # "run" => unwind[v].to = 0
  BY <1>1, Positions, Sets DEF ShapeOK
<1>10. CASE take_children(v)
  <2>1. PICK c : c = children[current_scope(v)] OBVIOUS
  <2>2. /\ pc[v] = "join" /\ pc' = [pc EXCEPT ![v] = "subscribe"]
        /\ join' = [join EXCEPT ![v].snapshot = c, ![v].todo = DOMAIN c]
        /\ children' = [children EXCEPT ![current_scope(v)] = <<>>]
        /\ UNCHANGED <<subs, notified, spawning, unwind>>
    BY <1>10, <2>1 DEF take_children, Goto
  <2>3. PICK n : n = [join[v] EXCEPT !.snapshot = c, !.todo = DOMAIN c] OBVIOUS
  <2>4. c \in Seq(Task) /\ DOMAIN c \in SUBSET Nat BY <1>5, <2>1, LenProperties
  <2>5. /\ n \in Locals /\ n.snapshot = c /\ n.todo = DOMAIN c
        /\ n.collected = join[v].collected
    BY <1>2, <2>3, <2>4, ZenonT(40) DEF Locals
  <2>6. join' = [join EXCEPT ![v] = n] BY <2>2, <2>3
  <2>7. n.collected = {} BY <1>1, <2>2, <2>5 DEF ShapeOK
  <2>8. /\ pc'[v] = "subscribe" /\ join'[v] = n /\ unwind' = unwind /\ spawning' = spawning
        /\ \A w \in VM \ {v} : pc'[w] = pc[w] /\ join'[w] = join[w]
    BY <1>2, <2>2, <2>6
  <2>9. /\ children'[current_scope(v)] = <<>>
        /\ \A s \in Scope \ {current_scope(v)} : children'[s] = children[s]
    BY <1>2, <1>5, <2>2
  <2>10. Types'
    <3>1. "subscribe" \in Pcs BY DEF Pcs, JoinPcs
    <3>2. children' \in [Scope -> Seq(Task)] BY <1>2, <1>5, <2>2, EmptySeq
    <3>4. pc' \in [VM -> Pcs] /\ join' \in [VM -> Locals]
      <4>1. pc' \in [VM -> Pcs] BY <1>2, <2>2, <3>1
      <4>2. join' \in [VM -> Locals] BY <1>2, <2>5, <2>6
      <4>3. QED BY <4>1, <4>2
    <3>3. QED BY <3>4, <1>1, <1>6, <2>2, <3>1, <3>2 DEF Types
  <2>11. \A s \in Scope : \A i \in DOMAIN children'[s] : pc[children'[s][i]] # "new"
    BY <1>1, <2>9, EmptySeq DEF FreshOK
  <2>12. /\ "subscribe" \in Joining /\ "subscribe" \in JoinPcs /\ "subscribe" \in BodyPcs
    BY DEF Joining, JoinPcs, BodyPcs
  <2>13. ShapeOK(v)'
    <3>1. \A i \in DOMAIN c : pc'[c[i]] # "new" BY <1>8, <2>1, <2>8
    <3>2. (current_scope(v))' = current_scope(v) BY <1>6 DEF current_scope
    <3>3. QED BY <1>4, <1>6, <1>9, <2>5, <2>7, <2>8, <2>9, <2>12, <3>1, <3>2 DEF ShapeOK
  <2>14. HandlerOK(v)' BY <2>8 DEF HandlerOK
  <2>15. Held(v) = {} BY <2>2 DEF Held, Joining
  <2>16. \A i \in DOMAIN c : c[i] \in Held(v)'
    <3>1. Held(v)' = {n.snapshot[i] : i \in DOMAIN n.snapshot \ n.collected}
      BY <2>8, <2>12 DEF Held, Uncollected
    <3>2. QED BY <3>1, <2>5, <2>7
  <2>17. \A u \in Task : \/ u \in Held(v)
                         \/ \E i \in DOMAIN children[current_scope(v)] :
                              children[current_scope(v)][i] = u
                         => \/ u \in Held(v)'
                            \/ \E i \in DOMAIN children'[current_scope(v)] :
                                 children'[current_scope(v)][i] = u
    BY <2>1, <2>15, <2>16
  <2>18. /\ \A s \in Scope : s # current_scope(v) \/ stack[v] = <<>> => children'[s] = children[s]
         /\ \A w \in VM \ {v} : /\ pc'[w] = pc[w] /\ join'[w] = join[w]
                                 /\ spawning'[w] = spawning[w] /\ unwind'[w] = unwind[w]
    BY <1>4, <2>8, <2>9
  <2>19. pc[v] # "new" /\ pc'[v] # "new" BY <1>3, <2>8
  <2>20. QED BY <1>3, <1>6, <1>7, <2>10, <2>11, <2>13, <2>14, <2>17, <2>18, <2>19, Acts
<1>11. CASE add_child(v)
  <2>1. PICK c : c = Append(children[current_scope(v)], spawning[v]) OBVIOUS
  <2>2. /\ pc[v] = "add" /\ pc' = [pc EXCEPT ![v] = "run"]
        /\ children' = [children EXCEPT ![current_scope(v)] = c]
        /\ spawning' = [spawning EXCEPT ![v] = NoTask]
        /\ UNCHANGED <<subs, notified, join, unwind>>
    BY <1>11, <2>1 DEF add_child, Goto
  <2>3. spawning[v] \in Task /\ pc[spawning[v]] # "new" BY <1>1, <2>2 DEF ShapeOK
  <2>4. /\ c \in Seq(Task)
        /\ \A i \in DOMAIN children[current_scope(v)] :
             i \in DOMAIN c /\ c[i] = children[current_scope(v)][i]
        /\ \A i \in DOMAIN c : \/ c[i] = spawning[v]
                               \/ /\ i \in DOMAIN children[current_scope(v)]
                                  /\ c[i] = children[current_scope(v)][i]
        /\ \E i \in DOMAIN c : c[i] = spawning[v]
    <3>1. PICK r : r = children[current_scope(v)] OBVIOUS
    <3>2. r \in Seq(Task) /\ Len(r) \in Nat /\ DOMAIN r = 1 .. Len(r)
      BY <1>5, <3>1, LenProperties
    <3>3. c = Append(r, spawning[v]) BY <2>1, <3>1
    <3>4. /\ c \in Seq(Task) /\ Len(c) = Len(r) + 1 /\ DOMAIN c = 1 .. Len(r) + 1
          /\ \A i \in 1 .. Len(r) : c[i] = r[i]
          /\ c[Len(r) + 1] = spawning[v]
      BY <2>3, <3>2, <3>3, AppendProperties, LenProperties
    <3>5. QED BY <3>1, <3>2, <3>4
  <2>5. /\ pc'[v] = "run" /\ join' = join /\ unwind' = unwind
        /\ \A w \in VM \ {v} : pc'[w] = pc[w] /\ spawning'[w] = spawning[w]
    BY <1>2, <2>2
  <2>6. /\ children'[current_scope(v)] = c
        /\ \A s \in Scope \ {current_scope(v)} : children'[s] = children[s]
    BY <1>2, <1>5, <2>2
  <2>7. Types'
    <3>1. pc' \in [VM -> Pcs] /\ spawning' \in [VM -> Task \cup {NoTask}]
      BY <1>2, <2>2 DEF Pcs
    <3>2. children' \in [Scope -> Seq(Task)] BY <1>2, <1>5, <2>2, <2>4
    <3>3. QED BY <1>1, <1>6, <2>2, <3>1, <3>2 DEF Types
  <2>8. \A s \in Scope : \A i \in DOMAIN children'[s] : pc[children'[s][i]] # "new"
    BY <1>1, <1>8, <2>3, <2>4, <2>6 DEF FreshOK
  <2>9. "run" \notin Joining \cup JoinPcs \cup {"add", "handler", "notify"} /\ "run" \in BodyPcs
    BY DEF Joining, JoinPcs, BodyPcs
  <2>10. ShapeOK(v)'
    <3>1. \A i \in DOMAIN join[v].snapshot : pc'[join[v].snapshot[i]] # "new"
      BY <1>9, <2>5
    <3>2. QED BY <1>6, <1>9, <2>5, <2>9, <3>1 DEF ShapeOK
  <2>11. HandlerOK(v)' BY <2>5 DEF HandlerOK
  <2>12. Held(v) = {spawning[v]} BY <2>2 DEF Held
  <2>13. \A u \in Task : \/ u \in Held(v)
                         \/ \E i \in DOMAIN children[current_scope(v)] :
                              children[current_scope(v)][i] = u
                         => \/ u \in Held(v)'
                            \/ \E i \in DOMAIN children'[current_scope(v)] :
                                 children'[current_scope(v)][i] = u
    BY <2>4, <2>6, <2>12
  <2>14. /\ \A s \in Scope : s # current_scope(v) \/ stack[v] = <<>> => children'[s] = children[s]
         /\ \A w \in VM \ {v} : /\ pc'[w] = pc[w] /\ join'[w] = join[w]
                                 /\ spawning'[w] = spawning[w] /\ unwind'[w] = unwind[w]
    BY <1>4, <2>5, <2>6
  <2>15. pc[v] # "new" /\ pc'[v] # "new" BY <1>3, <2>5
  <2>16. QED BY <1>3, <1>6, <1>7, <2>7, <2>8, <2>10, <2>11, <2>13, <2>14, <2>15, Acts
<1>12. CASE report_stall(v)
  <2>1. PICK c : c = join[v].snapshot OBVIOUS
  <2>2. /\ pc[v] = "poll" /\ ThrowFrom(v, Len(stack[v]) - 1, "error")
        /\ children' = [children EXCEPT ![current_scope(v)] = c]
        /\ join' = [join EXCEPT ![v] = NoLocals]
        /\ unsubscribe(v) /\ spawning' = spawning
    BY <1>12, <2>1 DEF report_stall
  <2>3. /\ pc' = [pc EXCEPT ![v] = "unwind"]
        /\ \E u \in Unwinds : /\ unwind' = [unwind EXCEPT ![v] = u]
                              /\ u.outcome # "run" => u.to = 0
    BY <1>5, <2>2, ThrowEffect
  <2>4. /\ NoLocals \in Locals /\ NoLocals.todo = {} /\ NoLocals.snapshot = <<>>
    BY LocalFields
  <2>5. /\ pc'[v] = "unwind" /\ join'[v] = NoLocals
        /\ unwind' \in [VM -> Unwinds]
        /\ unwind'[v].outcome # "run" => unwind'[v].to = 0
        /\ \A w \in VM \ {v} : pc'[w] = pc[w] /\ unwind'[w] = unwind[w] /\ join'[w] = join[w]
    BY <1>2, <2>2, <2>3
  <2>6. /\ children'[current_scope(v)] = c
        /\ \A s \in Scope \ {current_scope(v)} : children'[s] = children[s]
    BY <1>2, <1>5, <2>2
  <2>7. Types'
    <3>1. pc' \in [VM -> Pcs] /\ join' \in [VM -> Locals]
      BY <1>2, <2>2, <2>3, <2>4 DEF Pcs
    <3>2. children' \in [Scope -> Seq(Task)] BY <1>2, <1>5, <1>9, <2>1, <2>2
    <3>3. subs' \in [Task -> SUBSET VM] /\ notified' \in [VM -> BOOLEAN]
      BY <1>2, <2>2 DEF unsubscribe
    <3>4. QED BY <1>1, <1>6, <2>2, <2>5, <3>1, <3>2, <3>3 DEF Types
  <2>8. \A s \in Scope : \A i \in DOMAIN children'[s] : pc[children'[s][i]] # "new"
    BY <1>1, <1>9, <2>1, <2>6 DEF FreshOK
  <2>9. /\ "unwind" \notin Joining \cup JoinPcs \cup {"add", "handler", "notify"}
        /\ "unwind" \in BodyPcs
        /\ "poll" \in Joining
    BY DEF Joining, JoinPcs, BodyPcs
  <2>10. ShapeOK(v)' BY <1>6, <2>4, <2>5, <2>9, EmptySeq DEF ShapeOK
  <2>11. HandlerOK(v)' BY <2>5 DEF HandlerOK
  <2>12. Held(v) = {c[i] : i \in Uncollected(v)} BY <2>1, <2>2, <2>9 DEF Held
  <2>13. Uncollected(v) \subseteq DOMAIN c BY <2>1 DEF Uncollected
  <2>14. children[current_scope(v)] = <<>> BY <1>1, <2>2, <2>9 DEF ShapeOK
  <2>15. \A u \in Task : \/ u \in Held(v)
                         \/ \E i \in DOMAIN children[current_scope(v)] :
                              children[current_scope(v)][i] = u
                         => \/ u \in Held(v)'
                            \/ \E i \in DOMAIN children'[current_scope(v)] :
                                 children'[current_scope(v)][i] = u
    BY <2>6, <2>12, <2>13, <2>14, EmptySeq
  <2>16. /\ \A s \in Scope : s # current_scope(v) \/ stack[v] = <<>> => children'[s] = children[s]
         /\ \A w \in VM \ {v} : /\ pc'[w] = pc[w] /\ join'[w] = join[w]
                                 /\ spawning'[w] = spawning[w] /\ unwind'[w] = unwind[w]
    BY <1>4, <2>2, <2>5, <2>6
  <2>17. pc[v] # "new" /\ pc'[v] # "new" BY <1>3, <2>5
  <2>18. QED BY <1>3, <1>6, <1>7, <2>7, <2>8, <2>10, <2>11, <2>15, <2>16, <2>17, Acts
<1>13. QED BY <1>10, <1>11, <1>12

-----------------------------------------------------------------------------
(* Scopes open, tasks are spawned in them, and joins return.               *)
LEMMA BeginKeeps ==
  ASSUME IInv, NEW v \in VM, NEW s \in Scope, handle_task_scope_begin(v, s)
  PROVE  IInv'
<1>1. Types /\ StacksOK /\ FreshOK BY DEF IInv
<1>2. /\ pc[v] = "run" /\ scopes[s] = "free"
      /\ scopes' = [scopes EXCEPT ![s] = "open"]
      /\ chain' = [chain EXCEPT ![s] = {s} \cup OwnChain(v)]
      /\ stack' = [stack EXCEPT ![v] = Append(stack[v], s)]
      /\ pc' = pc /\ started' = started /\ promise' = promise /\ complete' = complete
      /\ subs' = subs /\ notified' = notified /\ children' = children
      /\ cancelled' = cancelled /\ spawning' = spawning /\ join' = join /\ unwind' = unwind
  BY DEF handle_task_scope_begin, task_state
<1>3. /\ scopes \in [Scope -> {"free", "open", "joined", "failed", "left"}]
      /\ chain \in [Token -> SUBSET Token] /\ stack \in [VM -> Seq(Scope)]
      /\ children \in [Scope -> Seq(Task)]
  BY <1>1 DEF Types
<1>4. /\ stack[v] \in Seq(Scope) /\ Len(stack[v]) \in Nat
      /\ DOMAIN stack[v] = 1 .. Len(stack[v])
      /\ stack'[v] \in Seq(Scope) /\ stack'[v] # <<>>
      /\ DOMAIN stack'[v] = 1 .. Len(stack[v]) + 1
      /\ \A i \in 1 .. Len(stack[v]) : stack'[v][i] = stack[v][i]
      /\ stack'[v][Len(stack[v]) + 1] = s
      /\ \A w \in VM \ {v} : stack'[w] = stack[w]
  <2>1. PICK r \in Seq(Scope) : r = stack[v] BY <1>3
  <2>2. stack'[v] = Append(r, s) /\ \A w \in VM \ {v} : stack'[w] = stack[w]
    BY <1>2, <1>3, <2>1
  <2>3. Len(r) \in Nat /\ DOMAIN r = 1 .. Len(r) BY LenProperties
  <2>4. /\ Append(r, s) \in Seq(Scope) /\ Append(r, s) # <<>>
        /\ DOMAIN Append(r, s) = 1 .. Len(r) + 1
        /\ \A i \in 1 .. Len(r) : Append(r, s)[i] = r[i]
        /\ Append(r, s)[Len(r) + 1] = s
    BY AppendProperties, LenProperties
  <2>5. QED BY <2>1, <2>2, <2>3, <2>4
<1>5. /\ s \in Token /\ s \notin Task
      /\ \A x \in Token \ {s} : chain'[x] = chain[x]
      /\ chain'[s] = {s} \cup OwnChain(v)
      /\ \A x \in Scope \ {s} : scopes'[x] = scopes[x]
      /\ scopes'[s] = "open"
  BY <1>2, <1>3, Sets
<1>6. /\ OwnChain(v) \subseteq Token
      /\ \/ OwnChain(v) = {}
         \/ v \in Task /\ v \in Token \ {s} /\ OwnChain(v) = chain[v]
  <2>1. CASE v = Main BY <2>1 DEF OwnChain
  <2>2. CASE v # Main
    <3>1. v \in Task /\ v \in Token /\ v # s BY <2>2, Sets DEF VM
    <3>2. QED BY <1>3, <2>2, <3>1 DEF OwnChain
  <2>3. QED BY <2>1, <2>2
<1>7. \A x \in Token \ {s} : s \notin chain[x] BY <1>1, <1>2 DEF FreshOK
<1>8. s \notin OwnChain(v) BY <1>6, <1>7
<1>9. \A w \in VM : OwnChain(w)' = OwnChain(w)
  BY <1>5, Sets DEF OwnChain, VM
<1>10. Types'
  <2>1. chain' \in [Token -> SUBSET Token]
    <3>1. PICK C \in SUBSET Token : C = {s} \cup OwnChain(v) BY <1>5, <1>6
    <3>2. chain' = [chain EXCEPT ![s] = C] BY <1>2, <3>1
    <3>3. QED BY <1>3, <3>2
  <2>2. stack' \in [VM -> Seq(Scope)] /\ scopes' \in [Scope -> {"free", "open", "joined", "failed", "left"}]
    BY <1>2, <1>3, <1>4
  <2>3. QED BY <1>1, <1>2, <2>1, <2>2 DEF Types
<1>11. \A w \in VM : \A i \in DOMAIN stack[w] : stack[w][i] # s /\ stack[w][i] \in Scope
  <2>1. \A w \in VM : \A i \in DOMAIN stack[w] : stack[w][i] \in Scope
    BY <1>3, ElementOfSeq, LenProperties
  <2>2. QED BY <1>1, <1>2, <2>1 DEF StacksOK
<1>12. \A w \in VM : \A i \in DOMAIN stack'[w] :
         \/ i \in DOMAIN stack[w] /\ stack'[w][i] = stack[w][i]
         \/ w = v /\ i = Len(stack[v]) + 1 /\ stack'[w][i] = s
  BY <1>4
<1>13. StacksOK'
  <2>1. ASSUME NEW w \in VM, NEW i \in DOMAIN stack'[w]
        PROVE  /\ scopes'[stack'[w][i]] = "open"
               /\ chain'[stack'[w][i]] = {stack'[w][i]} \cup OwnChain(w)'
               /\ stack'[w][i] \notin OwnChain(w)'
    <3>1. CASE i \in DOMAIN stack[w] /\ stack'[w][i] = stack[w][i]
      <4>1. /\ scopes[stack[w][i]] = "open"
            /\ chain[stack[w][i]] = {stack[w][i]} \cup OwnChain(w)
            /\ stack[w][i] \notin OwnChain(w)
        BY <1>1, <3>1 DEF StacksOK
      <4>2. stack[w][i] \in Scope \ {s} BY <3>1, <1>11
      <4>3. QED BY <3>1, <4>1, <4>2, <1>5, <1>9, Sets
    <3>2. CASE w = v /\ i = Len(stack[v]) + 1 /\ stack'[w][i] = s
      BY <3>2, <1>5, <1>8, <1>9
    <3>3. QED BY <3>1, <3>2, <1>12
  <2>2. ASSUME NEW w \in VM, NEW x \in VM, NEW i \in DOMAIN stack'[w], NEW j \in DOMAIN stack'[x],
               stack'[w][i] = stack'[x][j]
        PROVE  w = x /\ i = j
    BY <1>1, <1>11, <1>12, <2>2 DEF StacksOK
  <2>3. QED BY <2>1, <2>2 DEF StacksOK
<1>14. FreshOK'
  <2>1. \A x \in Token : x \in chain'[x] BY <1>1, <1>5 DEF FreshOK
  <2>2. ASSUME NEW t \in Task, pc[t] = "new"
        PROVE  chain'[t] = {t} /\ \A x \in Token \ {t} : t \notin chain'[x]
    <3>1. chain[t] = {t} /\ \A x \in Token \ {t} : t \notin chain[x]
      BY <1>1, <2>2 DEF FreshOK
    <3>2. t # v /\ t # s /\ t \in Token BY <1>2, <1>5, <2>2, Sets
    <3>3. t \notin OwnChain(v) BY <3>1, <3>2, <1>6
    <3>4. QED BY <1>5, <3>1, <3>2, <3>3
  <2>3. ASSUME NEW x \in Scope, scopes'[x] = "free"
        PROVE  children'[x] = <<>> /\ \A y \in Token \ {x} : x \notin chain'[y]
    <3>1. x # s /\ scopes[x] = "free" BY <1>5, <2>3
    <3>2. children[x] = <<>> /\ \A y \in Token \ {x} : x \notin chain[y]
      BY <1>1, <3>1 DEF FreshOK
    <3>3. x \notin OwnChain(v) BY <1>6, <3>2, Sets
    <3>4. QED BY <1>2, <1>5, <3>1, <3>2, <3>3
  <2>4. QED BY <1>1, <1>2, <2>1, <2>2, <2>3 DEF FreshOK
<1>15. \A w \in VM : pc[w] # "run" =>
         stack'[w] = stack[w] /\ (current_scope(w))' = current_scope(w)
  BY <1>2, <1>4 DEF current_scope
<1>16. \A w \in VM : ShapeOK(w)' /\ HandlerOK(w)'
  <2> SUFFICES ASSUME NEW w \in VM PROVE ShapeOK(w)' /\ HandlerOK(w)' OBVIOUS
  <2>1. ShapeOK(w) /\ HandlerOK(w) BY DEF IInv
  <2>2. "run" \in BodyPcs /\ "run" \notin {"add"} \cup JoinPcs /\ "run" \notin Joining
    BY DEF BodyPcs, JoinPcs, Joining
  <2>3. HandlerOK(w)' BY <1>2, <2>1 DEF HandlerOK, Turn
  <2>4. CASE pc[w] # "run" BY <1>2, <1>15, <2>1, <2>3, <2>4 DEF ShapeOK
  <2>5. CASE pc[w] = "run" BY <1>2, <2>1, <2>2, <2>3, <2>5 DEF ShapeOK
  <2>6. QED BY <2>4, <2>5
<1>17. \A t \in Task : PromiseOK(t)'
  <2>1. \A t \in Task : PromiseOK(t) BY DEF IInv
  <2>2. QED BY <1>2, <2>1 DEF PromiseOK
<1>18. ASSUME NEW t \in Task PROVE LineageOK(t)'
  <2> SUFFICES ASSUME Unresolved(t)' PROVE LineageOK(t)' BY DEF LineageOK
  <2>1. \A u \in Task : Unresolved(u)' <=> Unresolved(u) BY <1>2 DEF Unresolved
  <2>2. chain'[t] = chain[t] /\ s \notin chain[t] BY <1>5, <1>7, Sets
  <2>3. /\ \A x \in chain[t] \cap Scope : Intact(t, x) => scopes[x] = "open" /\ KidAbove(t, x)
        /\ \A u \in (chain[t] \cap Task) \ {t} : Intact(t, u) =>
             \E i \in DOMAIN stack[u] : stack[u][i] \in chain[t]
    BY <2>1 DEF IInv, LineageOK
  <2>4. ASSUME NEW u \in Task, NEW x \in Scope, Kid(u, x) PROVE Kid(u, x)'
    <3>1. CASE \E i \in DOMAIN children[x] : children[x][i] = u BY <1>2, <3>1 DEF Kid
    <3>2. CASE \E w \in VM : stack[w] # <<>> /\ current_scope(w) = x /\ u \in Held(w)
      <4>1. PICK w \in VM : stack[w] # <<>> /\ current_scope(w) = x /\ u \in Held(w)
        BY <3>2
      <4>2. pc[w] # "run" BY <4>1 DEF Held, Joining, JoinPcs
      <4>3. Held(w)' = Held(w) BY <1>2 DEF Held, Uncollected
      <4>4. QED BY <4>1, <4>2, <4>3, <1>15 DEF Kid
    <3>3. QED BY <2>4, <3>1, <3>2 DEF Kid
  <2>5. \A x \in chain[t] : Intact(t, x)' => Intact(t, x)
    <3> SUFFICES ASSUME NEW x \in chain[t], Intact(t, x)',
                        NEW r \in chain[t] \cap Scope, scopes[r] = "left"
                 PROVE  r \in chain[x] \ {x}
      BY DEF Intact
    <3>1. x \in Token \ {s} /\ r # s BY <1>3, <2>2, Sets
    <3>2. scopes'[r] = "left" /\ chain'[x] = chain[x] BY <1>5, <3>1
    <3>3. QED BY <2>2, <3>2 DEF Intact
  <2>6. ASSUME NEW u \in (chain[t] \cap Task) \ {t}, Intact(t, u)'
        PROVE  \E i \in DOMAIN stack'[u] : stack'[u][i] \in chain[t]
    <3>1. PICK i \in DOMAIN stack[u] : stack[u][i] \in chain[t] BY <2>3, <2>5, <2>6
    <3>2. u \in VM BY Sets
    <3>3. i \in DOMAIN stack'[u] /\ stack'[u][i] = stack[u][i] BY <1>4, <3>1, <3>2
    <3>4. QED BY <3>1, <3>3
  <2>7. ASSUME NEW x \in chain[t] \cap Scope, Intact(t, x)'
        PROVE  scopes'[x] = "open" /\ KidAbove(t, x)'
    <3>1. scopes[x] = "open" /\ KidAbove(t, x) BY <2>3, <2>5, <2>7
    <3>2. PICK u \in chain[t] \cap Task :
            Unresolved(u) /\ Kid(u, x) /\ chain[x] \subseteq chain[u]
      BY <3>1 DEF KidAbove
    <3>3. x # s /\ x \in Token /\ u \in Token /\ u # s BY <2>2, Sets
    <3>4. scopes'[x] = "open" /\ chain'[x] = chain[x] /\ chain'[u] = chain[u]
      BY <1>5, <3>1, <3>3
    <3>5. Unresolved(u)' /\ Kid(u, x)' BY <2>1, <2>4, <3>2
    <3>6. QED BY <2>2, <3>2, <3>4, <3>5 DEF KidAbove
  <2>8. QED BY <2>2, <2>6, <2>7 DEF LineageOK
<1>19. QED BY <1>10, <1>13, <1>14, <1>16, <1>17, <1>18 DEF IInv

LEMMA SpawnKeeps ==
  ASSUME IInv, NEW v \in VM, NEW t \in Task, handle_spawn(v, t)
  PROVE  IInv'
<1>1. Types /\ StacksOK /\ FreshOK /\ ShapeOK(v) /\ (v \in Task => PromiseOK(v) /\ LineageOK(v))
  BY DEF IInv
<1>2. PICK c : c = current_scope(v) OBVIOUS
<1>3. /\ pc[v] = "run" /\ stack[v] # <<>> /\ pc[t] = "new"
      /\ chain' = [chain EXCEPT ![t] = {t} \cup chain[c]]
      /\ pc' = [pc EXCEPT ![v] = "add", ![t] = "queued"]
      /\ spawning' = [spawning EXCEPT ![v] = t]
      /\ stack' = stack /\ scopes' = scopes /\ started' = started /\ promise' = promise
      /\ complete' = complete /\ subs' = subs /\ notified' = notified
      /\ children' = children /\ cancelled' = cancelled /\ join' = join /\ unwind' = unwind
  BY <1>2 DEF handle_spawn, task_state
<1>4. /\ pc \in [VM -> Pcs] /\ spawning \in [VM -> Task \cup {NoTask}]
      /\ chain \in [Token -> SUBSET Token]
  BY <1>1 DEF Types
<1>5. /\ t \in VM /\ t # v /\ t \in Token /\ t \notin Scope
      /\ pc'[v] = "add" /\ pc'[t] = "queued" /\ spawning'[v] = t
      /\ \A w \in VM \ {v, t} : pc'[w] = pc[w]
      /\ \A w \in VM \ {v} : spawning'[w] = spawning[w]
  BY <1>3, <1>4, Sets
<1>6. /\ c \in Scope /\ c \in Token /\ scopes[c] = "open"
      /\ chain[c] = {c} \cup OwnChain(v) /\ chain[c] \in SUBSET Token
      /\ Len(stack[v]) \in DOMAIN stack[v] /\ stack[v][Len(stack[v])] = c
  BY <1>1, <1>2, <1>3, <1>4, CurrentScope, Sets DEF StacksOK
<1>7. /\ chain'[t] = {t} \cup chain[c] /\ \A x \in Token \ {t} : chain'[x] = chain[x]
  BY <1>3, <1>4, <1>5
<1>8. \A x \in Token \ {t} : t \notin chain[x] BY <1>1, <1>3 DEF FreshOK
<1>9. Types'
  <2>1. pc' \in [VM -> Pcs] BY <1>3, <1>4 DEF Pcs
  <2>2. chain' \in [Token -> SUBSET Token]
    <3>1. PICK C \in SUBSET Token : C = {t} \cup chain[c] BY <1>5, <1>6
    <3>2. chain' = [chain EXCEPT ![t] = C] BY <1>3, <3>1
    <3>3. QED BY <1>4, <3>2
  <2>3. spawning' \in [VM -> Task \cup {NoTask}] BY <1>3, <1>4
  <2>4. QED BY <1>1, <1>3, <2>1, <2>2, <2>3 DEF Types
<1>10. \A w \in VM : pc'[w] = "new" => pc[w] = "new" BY <1>3, <1>5
<1>11. stack[t] = <<>>
  <2>1. ShapeOK(t) /\ pc[t] \notin BodyPcs BY <1>3, <1>5, Sets DEF IInv
  <2>2. QED BY <2>1 DEF ShapeOK
<1>12. StacksOK'
  <2>1. ASSUME NEW w \in VM, NEW i \in DOMAIN stack[w]
        PROVE  /\ scopes'[stack[w][i]] = "open"
               /\ chain'[stack[w][i]] = {stack[w][i]} \cup OwnChain(w)'
               /\ stack[w][i] \notin OwnChain(w)'
    <3>1. w # t BY <1>11, EmptySeq
    <3>2. OwnChain(w)' = OwnChain(w) BY <1>7, <3>1, Sets DEF OwnChain, VM
    <3>3. stack[w][i] \in Scope
      <4>1. stack[w] \in Seq(Scope) BY <1>1 DEF Types
      <4>2. QED BY <4>1, ElementOfSeq, LenProperties
    <3>4. stack[w][i] \in Token \ {t} BY <3>3, <1>5, Sets
    <3>5. QED BY <1>1, <1>3, <1>7, <3>2, <3>4 DEF StacksOK
  <2>2. QED BY <1>1, <1>3, <2>1 DEF StacksOK
<1>13. FreshOK'
  <2>1. \A x \in Token : x \in chain'[x] BY <1>1, <1>7 DEF FreshOK
  <2>2. ASSUME NEW u \in Task, pc'[u] = "new"
        PROVE  chain'[u] = {u} /\ \A x \in Token \ {u} : u \notin chain'[x]
    <3>1. pc[u] = "new" /\ u # t /\ u \in VM /\ u \in Token BY <2>2, <1>5, <1>10, Sets
    <3>2. chain[u] = {u} /\ \A x \in Token \ {u} : u \notin chain[x]
      BY <1>1, <3>1 DEF FreshOK
    <3>3. u \notin chain[c] BY <3>2, <1>6, Sets
    <3>4. QED BY <1>7, <3>1, <3>2, <3>3
  <2>3. ASSUME NEW s \in Scope, scopes'[s] = "free"
        PROVE  children'[s] = <<>> /\ \A x \in Token \ {s} : s \notin chain'[x]
    <3>1. s # c /\ s # t BY <1>3, <1>5, <1>6, <2>3
    <3>2. children[s] = <<>> /\ \A x \in Token \ {s} : s \notin chain[x]
      BY <1>1, <1>3, <2>3 DEF FreshOK
    <3>3. s \notin chain[c] BY <1>6, <3>1, <3>2
    <3>4. QED BY <1>3, <1>7, <3>1, <3>2, <3>3
  <2>4. \A s \in Scope : \A i \in DOMAIN children[s] : pc'[children[s][i]] # "new"
    <3>1. \A s \in Scope : children[s] \in Seq(Task) BY <1>1 DEF Types
    <3>2. \A s \in Scope : \A i \in DOMAIN children[s] : children[s][i] \in VM
      BY <3>1, ElementOfSeq, LenProperties, Sets
    <3>3. QED BY <1>1, <1>10, <3>2 DEF FreshOK
  <2>5. \A s \in Scope : \A i \in DOMAIN children'[s] : pc'[children'[s][i]] # "new"
    BY <1>3, <2>4
  <2>6. QED BY <2>1, <2>2, <2>3, <2>5, ZenonT(40) DEF FreshOK
<1>14. ASSUME NEW w \in VM PROVE ShapeOK(w)' /\ HandlerOK(w)'
  <2>1. ShapeOK(w) /\ HandlerOK(w) BY DEF IInv
  <2>2. \A i \in DOMAIN join[w].snapshot : pc'[join[w].snapshot[i]] # "new"
    <3>1. \A i \in DOMAIN join[w].snapshot : join[w].snapshot[i] \in VM
      BY <1>1, <2>1, Positions, Sets
    <3>2. QED BY <1>10, <2>1, <3>1 DEF ShapeOK
  <2>3. (current_scope(w))' = current_scope(w) BY <1>3 DEF current_scope
  <2>4. /\ "add" \in BodyPcs /\ "add" \notin JoinPcs \cup Joining \cup {"handler", "notify"}
        /\ "queued" \notin JoinPcs \cup Joining \cup {"handler", "notify", "add"}
    BY DEF BodyPcs, JoinPcs, Joining
  <2>5. ShapeOK(w)'
    <3>1. CASE w = v
      <4>1. /\ pc'[w] = "add" /\ spawning'[w] = t /\ pc'[t] = "queued"
            /\ stack'[w] = stack[w] /\ stack[w] # <<>> /\ join'[w] = join[w]
            /\ unwind'[w] = unwind[w]
        BY <1>3, <1>5, <3>1
      <4>2. QED BY <2>1, <2>2, <2>4, <4>1, SMTT(30) DEF ShapeOK
    <3>2. CASE w = t BY <1>3, <1>5, <1>11, <2>1, <2>2, <2>4, <3>2 DEF ShapeOK
    <3>3. CASE w \notin {v, t}
      <4>1. pc[w] = "add" => spawning[w] \in VM BY <2>1, Sets DEF ShapeOK
      <4>2. QED BY <1>3, <1>5, <1>10, <2>1, <2>2, <2>3, <3>3, <4>1 DEF ShapeOK
    <3>4. QED BY <3>1, <3>2, <3>3
  <2>6. HandlerOK(w)'
    <3> SUFFICES ASSUME pc'[w] \in {"handler", "notify"} PROVE HandlerOK(w)' BY DEF HandlerOK
    <3>1. w \notin {v, t} /\ pc[w] \in {"handler", "notify"} BY <1>5, <2>4
    <3>2. started[Turn(w)] /\ pc[Turn(w)] \in Resting /\ Turn(w)' = Turn(w)
      BY <1>3, <2>1, <3>1 DEF HandlerOK, Turn
    <3>3. Turn(w) \in Task BY <1>1, <2>1, <3>1, Positions DEF ShapeOK
    <3>4. Turn(w) \notin {v, t} BY <1>3, <3>2, Sets DEF BodyPcs
    <3>5. QED BY <1>3, <1>5, <3>2, <3>3, <3>4, Sets DEF HandlerOK
  <2>7. QED BY <2>5, <2>6
<1>15. ASSUME NEW u \in Task PROVE PromiseOK(u)'
  <2>1. PromiseOK(u) BY DEF IInv
  <2>2. /\ "run" \in BodyPcs /\ "run" \notin Resting /\ "new" \notin Resting
        /\ "queued" \notin BodyPcs \cup {"claimed"}
    BY DEF BodyPcs, JoinPcs, RacePcs, Resting
  <2>3. CASE u = v BY <1>3, <2>1, <2>2, <2>3 DEF PromiseOK
  <2>4. CASE u = t BY <1>3, <1>5, <2>1, <2>2, <2>4 DEF PromiseOK
  <2>5. CASE u \notin {v, t} BY <1>3, <1>5, <2>1, <2>5, Sets DEF PromiseOK
  <2>6. QED BY <2>3, <2>4, <2>5
<1>16. Unresolved(t)' /\ \A u \in Task \ {t} : Unresolved(u)' <=> Unresolved(u)
  <2>1. PromiseOK(t) /\ pc[t] \notin Resting BY <1>3, Sets DEF IInv
  <2>2. promise[t] = "unset" BY <2>1 DEF PromiseOK
  <2>3. \A u \in Task : u \in VM BY Sets
  <2>4. QED BY <1>3, <1>5, <2>2, <2>3 DEF Unresolved
<1>17. ASSUME NEW u \in Task, NEW s \in Scope, Kid(u, s) PROVE Kid(u, s)'
  <2>1. CASE \E i \in DOMAIN children[s] : children[s][i] = u BY <1>3, <2>1 DEF Kid
  <2>2. CASE \E w \in VM : stack[w] # <<>> /\ current_scope(w) = s /\ u \in Held(w)
    <3>1. PICK w \in VM : stack[w] # <<>> /\ current_scope(w) = s /\ u \in Held(w)
      BY <2>2
    <3>2. pc[w] # "run" /\ pc[w] # "new" BY <3>1 DEF Held, Joining, JoinPcs
    <3>3. w \notin {v, t} BY <1>3, <3>2
    <3>4. Held(w)' = Held(w) BY <1>3, <1>5, <3>3 DEF Held, Uncollected
    <3>5. (current_scope(w))' = current_scope(w) BY <1>3 DEF current_scope
    <3>6. QED BY <1>3, <3>1, <3>4, <3>5 DEF Kid
  <2>3. QED BY <1>17, <2>1, <2>2 DEF Kid
<1>18. Kid(t, c)'
  <2>1. t \in Held(v)' BY <1>5 DEF Held
  <2>2. (current_scope(v))' = c BY <1>2, <1>3 DEF current_scope
  <2>3. QED BY <1>3, <2>1, <2>2 DEF Kid
<1>19. ASSUME NEW u \in Task, u # t PROVE LineageOK(u)'
  <2> SUFFICES ASSUME Unresolved(u)' PROVE LineageOK(u)' BY DEF LineageOK
  <2>1. Unresolved(u) /\ chain'[u] = chain[u] /\ t \notin chain[u] /\ chain[u] \subseteq Token
    BY <1>4, <1>7, <1>8, <1>16, <1>19, Sets
  <2>2. /\ \A x \in chain[u] \cap Scope : Intact(u, x) => scopes[x] = "open" /\ KidAbove(u, x)
        /\ \A y \in (chain[u] \cap Task) \ {u} : Intact(u, y) =>
             \E i \in DOMAIN stack[y] : stack[y][i] \in chain[u]
    BY <2>1 DEF IInv, LineageOK
  <2>3. \A x \in chain[u] : x \in Token \ {t} /\ chain'[x] = chain[x] BY <1>7, <2>1
  <2>4. \A x \in chain[u] : Intact(u, x)' => Intact(u, x) BY <1>3, <2>1, <2>3 DEF Intact
  <2>5. ASSUME NEW x \in chain[u] \cap Scope, Intact(u, x)'
        PROVE  scopes'[x] = "open" /\ KidAbove(u, x)'
    <3>1. scopes[x] = "open" /\ KidAbove(u, x) BY <2>2, <2>4, <2>5
    <3>2. PICK y \in chain[u] \cap Task :
            Unresolved(y) /\ Kid(y, x) /\ chain[x] \subseteq chain[y]
      BY <3>1 DEF KidAbove
    <3>3. Unresolved(y)' /\ Kid(y, x)' BY <1>16, <1>17, <2>3, <3>2
    <3>4. QED BY <1>3, <2>1, <2>3, <3>1, <3>2, <3>3 DEF KidAbove
  <2>6. QED BY <1>3, <2>1, <2>2, <2>4, <2>5 DEF LineageOK
<1>20. LineageOK(t)'
  <2>1. ASSUME v # Main
        PROVE  /\ v \in Task /\ v # t /\ OwnChain(v) = chain[v]
               /\ \A x \in chain[v] \cap Scope :
                    Intact(v, x) => scopes[x] = "open" /\ KidAbove(v, x)
               /\ \A y \in (chain[v] \cap Task) \ {v} : Intact(v, y) =>
                    \E i \in DOMAIN stack[y] : stack[y][i] \in chain[v]
               /\ t \notin chain[v]
               /\ chain[v] \subseteq chain'[t] /\ chain[v] \subseteq Token
    <3>1. v \in Task /\ v \in Token BY <2>1, Sets DEF VM
    <3>2. "run" \notin Resting BY DEF Resting
    <3>3. promise[v] = "unset" BY <1>1, <1>3, <3>1, <3>2 DEF PromiseOK
    <3>4. Unresolved(v) BY <1>3, <3>3 DEF Unresolved
    <3>5. OwnChain(v) = chain[v] BY <2>1 DEF OwnChain
    <3>6. chain[v] \subseteq chain'[t] /\ chain[v] \subseteq Token
      BY <1>4, <1>6, <1>7, <3>1, <3>5
    <3>7. QED BY <1>1, <1>5, <1>8, <2>1, <3>1, <3>4, <3>5, <3>6 DEF LineageOK
  <2>2. v = Main => OwnChain(v) = {} BY DEF OwnChain
  <2>3. chain'[t] \cap Scope = {c} \cup (OwnChain(v) \cap Scope)
    BY <1>5, <1>6, <1>7
  <2>4. ASSUME v # Main, NEW x \in chain[v], Intact(t, x)' PROVE Intact(v, x)
    <3>1. x \in Token \ {t} /\ chain'[x] = chain[x] BY <1>7, <2>1, <2>4
    <3>2. QED BY <1>3, <2>1, <2>4, <3>1 DEF Intact
  <2>5. ASSUME NEW s \in chain'[t] \cap Scope, Intact(t, s)'
        PROVE  scopes'[s] = "open" /\ KidAbove(t, s)'
    <3>1. CASE s = c
      <4>1. t \in chain'[t] \cap Task BY <1>7
      <4>2. c # t /\ chain'[c] = chain[c] BY <1>5, <1>6, <1>7
      <4>3. chain'[c] \subseteq chain'[t] BY <1>7, <4>2
      <4>4. KidAbove(t, c)' BY <1>16, <1>18, <4>1, <4>3 DEF KidAbove
      <4>5. QED BY <1>3, <1>6, <3>1, <4>4
    <3>2. CASE s # c
      <4>1. v # Main /\ s \in OwnChain(v) \cap Scope BY <2>2, <2>3, <2>5, <3>2
      <4>2. s \in chain[v] \cap Scope /\ Intact(v, s) BY <2>1, <2>4, <2>5, <4>1
      <4>3. scopes[s] = "open" /\ KidAbove(v, s) BY <2>1, <4>1, <4>2
      <4>4. PICK y \in chain[v] \cap Task :
              Unresolved(y) /\ Kid(y, s) /\ chain[s] \subseteq chain[y]
        BY <4>3 DEF KidAbove
      <4>5. y # t /\ s # t /\ chain'[y] = chain[y] /\ chain'[s] = chain[s]
        BY <1>5, <1>7, <2>1, <4>1, <4>2, <4>4
      <4>6. Unresolved(y)' /\ Kid(y, s)' /\ y \in chain'[t]
        BY <1>16, <1>17, <2>1, <4>1, <4>4, <4>5
      <4>7. QED BY <1>3, <4>3, <4>4, <4>5, <4>6 DEF KidAbove
    <3>3. QED BY <3>1, <3>2
  <2>6. ASSUME NEW u \in (chain'[t] \cap Task) \ {t}, Intact(t, u)'
        PROVE  \E i \in DOMAIN stack[u] : stack[u][i] \in chain'[t]
    <3>1. u \in OwnChain(v) BY <1>6, <1>7, <2>6, Sets
    <3>2. v # Main BY <2>2, <3>1
    <3>3. CASE u = v BY <1>6, <1>7, <3>3
    <3>4. CASE u # v
      <4>1. Intact(v, u) BY <2>1, <2>4, <2>6, <3>1, <3>2
      <4>2. \E i \in DOMAIN stack[u] : stack[u][i] \in chain[v]
        BY <2>1, <2>6, <3>1, <3>2, <3>4, <4>1
      <4>3. QED BY <2>1, <3>2, <4>2
    <3>5. QED BY <3>3, <3>4
  <2>7. QED BY <1>3, <2>5, <2>6 DEF LineageOK
<1>21. QED BY <1>9, <1>12, <1>13, <1>14, <1>15, <1>19, <1>20 DEF IInv

(* A scope that is left has no unresolved child, so no unresolved task     *)
(* hangs below it.                                                         *)
LEMMA ReturnKeeps ==
  ASSUME IInv, NEW v \in VM, join_returns(v)
  PROVE  IInv'
<1>1. Types /\ StacksOK /\ FreshOK /\ ShapeOK(v) /\ (v \in Task => PromiseOK(v))
  BY DEF IInv
<1>2. PICK c : c = current_scope(v) OBVIOUS
<1>3. PICK how \in {"failed", "joined"}, l \in {"unwind", "run"} :
        /\ pc[v] = "check" /\ Uncollected(v) = {}
        /\ scopes' = [scopes EXCEPT ![c] = how]
        /\ stack' = [stack EXCEPT ![v] = Front(stack[v])]
        /\ unsubscribe(v)
        /\ join' = [join EXCEPT ![v] = NoLocals]
        /\ pc' = [pc EXCEPT ![v] = l]
  BY <1>2, ZenonT(40) DEF join_returns, PopScope, Goto
<1>4. /\ started' = started /\ promise' = promise /\ complete' = complete
      /\ children' = children /\ chain' = chain /\ cancelled' = cancelled
      /\ spawning' = spawning /\ unwind' = unwind
  BY DEF join_returns, task_state
<1>5. /\ pc \in [VM -> Pcs] /\ join \in [VM -> Locals] /\ stack \in [VM -> Seq(Scope)]
      /\ scopes \in [Scope -> {"free", "open", "joined", "failed", "left"}]
      /\ notified \in [VM -> BOOLEAN] /\ subs \in [Task -> SUBSET VM]
      /\ chain \in [Token -> SUBSET Token]
  BY <1>1 DEF Types
<1>6. /\ "check" \in Joining /\ "check" \in JoinPcs /\ "check" \in BodyPcs
      /\ "check" \notin Resting \cup {"new", "add"}
      /\ {l} \cap (JoinPcs \cup Joining \cup {"add", "new", "join", "handler", "notify"}) = {}
      /\ l \in BodyPcs
  BY DEF Joining, JoinPcs, BodyPcs, Resting
<1>7. /\ pc'[v] = l /\ join'[v] = NoLocals
      /\ \A w \in VM \ {v} : pc'[w] = pc[w] /\ join'[w] = join[w] /\ stack'[w] = stack[w]
  BY <1>3, <1>5
<1>8. /\ stack[v] # <<>> /\ Len(stack[v]) \in Nat \ {0} /\ c \in Scope
      /\ DOMAIN stack[v] = 1 .. Len(stack[v]) /\ stack[v][Len(stack[v])] = c
      /\ children[c] = <<>>
  BY <1>1, <1>2, <1>3, <1>6, CurrentScope DEF ShapeOK
<1>9. /\ stack'[v] \in Seq(Scope) /\ DOMAIN stack'[v] = 1 .. Len(stack[v]) - 1
      /\ \A i \in 1 .. Len(stack[v]) - 1 : stack'[v][i] = stack[v][i]
  <2>1. PICK r \in Seq(Scope) : r = stack[v] BY <1>5
  <2>2. stack'[v] = Front(r) BY <1>3, <1>5, <2>1
  <2>3. Len(r) \in Nat \ {0} /\ DOMAIN r = 1 .. Len(r) BY <1>8, <2>1
  <2>4. Front(r) = SubSeq(r, 1, Len(r) - 1) BY DEF Front
  <2>5. \A i \in 1 .. Len(r) - 1 : r[i] \in Scope BY <2>3, ElementOfSeq
  <2>6. /\ Front(r) \in Seq(Scope) /\ DOMAIN Front(r) = 1 .. Len(r) - 1
        /\ \A i \in 1 .. Len(r) - 1 : Front(r)[i] = r[i]
    BY <2>3, <2>4, <2>5, SubSeqProperties, LenProperties
  <2>7. QED BY <2>1, <2>2, <2>6
<1>10. /\ scopes'[c] = how /\ \A s \in Scope \ {c} : scopes'[s] = scopes[s]
  BY <1>3, <1>5, <1>8
<1>11. Types'
  <2>1. pc' \in [VM -> Pcs] BY <1>3, <1>5 DEF Pcs
  <2>2. join' \in [VM -> Locals] BY <1>3, <1>5, LocalFields
  <2>3. stack' \in [VM -> Seq(Scope)] BY <1>3, <1>5, <1>9
  <2>4. scopes' \in [Scope -> {"free", "open", "joined", "failed", "left"}] BY <1>3, <1>5
  <2>5. subs' \in [Task -> SUBSET VM] /\ notified' \in [VM -> BOOLEAN]
    BY <1>3, <1>5 DEF unsubscribe
  <2>6. QED BY <1>1, <1>4, <2>1, <2>2, <2>3, <2>4, <2>5 DEF Types
<1>12. \A w \in VM : \A i \in DOMAIN stack'[w] :
         /\ i \in DOMAIN stack[w] /\ stack'[w][i] = stack[w][i]
         /\ stack[w][i] \in Scope \ {c}
  <2>1. \A w \in VM : \A i \in DOMAIN stack'[w] :
          /\ i \in DOMAIN stack[w] /\ stack'[w][i] = stack[w][i]
          /\ w = v => i # Len(stack[v])
    BY <1>7, <1>8, <1>9
  <2>2. \A w \in VM : \A i \in DOMAIN stack[w] : stack[w][i] \in Scope
    BY <1>5, ElementOfSeq, LenProperties
  <2>3. \A w \in VM : \A i \in DOMAIN stack[w] : stack[w][i] = c => w = v /\ i = Len(stack[v])
    BY <1>1, <1>8 DEF StacksOK
  <2>4. QED BY <2>1, <2>2, <2>3
<1>13. StacksOK' BY <1>1, <1>4, <1>10, <1>12, SMTT(30) DEF StacksOK, OwnChain
<1>14. \A u \in Task : pc'[u] = "new" <=> pc[u] = "new" BY <1>3, <1>6, <1>7, Sets
<1>15. FreshOK'
  <2>1. \A s \in Scope : scopes'[s] = "free" => scopes[s] = "free" BY <1>3, <1>10
  <2>2. \A s \in Scope : \A i \in DOMAIN children[s] : children[s][i] \in Task
    <3>1. \A s \in Scope : children[s] \in Seq(Task) BY <1>1 DEF Types
    <3>2. QED BY <3>1, ElementOfSeq, LenProperties
  <2>3. QED BY <1>1, <1>4, <1>14, <2>1, <2>2 DEF FreshOK
<1>16. ASSUME NEW w \in VM PROVE ShapeOK(w)' /\ HandlerOK(w)'
  <2>1. ShapeOK(w) /\ HandlerOK(w) BY DEF IInv
  <2>2. CASE w = v
    <3>1. NoLocals.todo = {} /\ DOMAIN NoLocals.snapshot = {}
      BY LocalFields, EmptySeq
    <3>2. ShapeOK(v)' BY <1>1, <1>4, <1>6, <1>7, <3>1 DEF ShapeOK
    <3>3. HandlerOK(v)' BY <1>6, <1>7 DEF HandlerOK
    <3>4. QED BY <2>2, <3>2, <3>3
  <2>3. CASE w # v
    <3>1. /\ pc'[w] = pc[w] /\ join'[w] = join[w] /\ stack'[w] = stack[w]
          /\ (current_scope(w))' = current_scope(w) /\ Turn(w)' = Turn(w)
      BY <1>7, <2>3 DEF current_scope, Turn
    <3>2. \A i \in DOMAIN join[w].snapshot : pc'[join[w].snapshot[i]] # "new"
      BY <1>1, <1>14, <2>1, Positions DEF ShapeOK
    <3>3. pc[w] = "add" => pc'[spawning[w]] # "new" BY <1>14, <2>1 DEF ShapeOK
    <3>4. ShapeOK(w)' BY <1>4, <2>1, <3>1, <3>2, <3>3 DEF ShapeOK
    <3>5. pc[w] \in {"handler", "notify"} => Turn(w) \in Task
      BY <1>1, <2>1, Positions DEF ShapeOK
    <3>6. \A u \in Task : pc[u] \in Resting => pc'[u] \in Resting BY <1>3, <1>6, <1>7, Sets
    <3>7. HandlerOK(w)' BY <1>4, <2>1, <3>1, <3>5, <3>6 DEF HandlerOK
    <3>8. QED BY <3>4, <3>7
  <2>4. QED BY <2>2, <2>3
<1>17. ASSUME NEW u \in Task PROVE PromiseOK(u)'
  <2>1. PromiseOK(u) BY DEF IInv
  <2>2. CASE u = v BY <1>3, <1>4, <1>6, <2>1, <2>2 DEF PromiseOK
  <2>3. CASE u # v BY <1>4, <1>7, <2>1, <2>3, Sets DEF PromiseOK
  <2>4. QED BY <2>2, <2>3
<1>18. Held(v) = {} BY <1>3, <1>6, EmptyHands
<1>19. \A u \in Task : ~Kid(u, c)
  <2>1. ASSUME NEW u \in Task, NEW w \in VM, stack[w] # <<>>, current_scope(w) = c, u \in Held(w)
        PROVE  FALSE
    <3>1. Len(stack[w]) \in DOMAIN stack[w] /\ stack[w][Len(stack[w])] = c
      BY <1>1, <2>1, CurrentScope
    <3>2. Len(stack[v]) \in DOMAIN stack[v] BY <1>8
    <3>3. w = v BY <1>1, <1>8, <3>1, <3>2 DEF StacksOK
    <3>4. QED BY <1>18, <2>1, <3>3
  <2>2. DOMAIN children[c] = {} BY <1>8, EmptySeq
  <2>3. QED BY <2>1, <2>2 DEF Kid
<1>20. ASSUME NEW u \in Task, NEW s \in Scope, Kid(u, s) PROVE Kid(u, s)'
  <2>1. CASE \E i \in DOMAIN children[s] : children[s][i] = u BY <1>4, <2>1 DEF Kid
  <2>2. CASE \E w \in VM : stack[w] # <<>> /\ current_scope(w) = s /\ u \in Held(w)
    <3>1. PICK w \in VM : stack[w] # <<>> /\ current_scope(w) = s /\ u \in Held(w)
      BY <2>2
    <3>2. w # v BY <1>18, <3>1
    <3>3. Held(w)' = Held(w) BY <1>4, <1>7, <3>2 DEF Held, Uncollected
    <3>4. (current_scope(w))' = current_scope(w) BY <1>7, <3>2 DEF current_scope
    <3>5. QED BY <1>7, <3>1, <3>2, <3>3, <3>4 DEF Kid
  <2>3. QED BY <1>20, <2>1, <2>2 DEF Kid
<1>21. ASSUME NEW t \in Task PROVE LineageOK(t)'
  <2> SUFFICES ASSUME Unresolved(t)' PROVE LineageOK(t)' BY DEF LineageOK
  <2>1. \A u \in Task : Unresolved(u)' <=> Unresolved(u) BY <1>4, <1>14 DEF Unresolved
  <2>2. /\ \A x \in chain[t] \cap Scope : Intact(t, x) => scopes[x] = "open" /\ KidAbove(t, x)
        /\ \A u \in (chain[t] \cap Task) \ {t} : Intact(t, u) =>
             \E i \in DOMAIN stack[u] : stack[u][i] \in chain[t]
    BY <2>1 DEF IInv, LineageOK
  <2>3. ~ (c \in chain[t] /\ Intact(t, c)) BY <1>8, <1>19, <2>2 DEF KidAbove
  <2>4. scopes[c] = "open" /\ chain[c] = {c} \cup OwnChain(v) BY <1>1, <1>8 DEF StacksOK
  <2>5. \A r \in Scope : scopes'[r] = "left" <=> scopes[r] = "left" BY <1>3, <1>10, <2>4
  <2>6. \A x \in Token : Intact(t, x)' <=> Intact(t, x) BY <1>4, <2>5 DEF Intact
  <2>7. ASSUME NEW x \in chain[t] \cap Scope, Intact(t, x)'
        PROVE  scopes'[x] = "open" /\ KidAbove(t, x)'
    <3>1. Intact(t, x) BY <2>6, <2>7, Sets
    <3>2. x # c /\ scopes[x] = "open" /\ KidAbove(t, x) BY <2>2, <2>3, <3>1
    <3>3. KidAbove(t, x)' BY <1>4, <1>20, <2>1, <3>2 DEF KidAbove
    <3>4. QED BY <1>10, <3>2, <3>3
  <2>8. ASSUME NEW u \in (chain[t] \cap Task) \ {t}, Intact(t, u)'
        PROVE  \E i \in DOMAIN stack'[u] : stack'[u][i] \in chain[t]
    <3>1. Intact(t, u) BY <2>6, <2>8, Sets
    <3>2. PICK i \in DOMAIN stack[u] : stack[u][i] \in chain[t] BY <2>2, <3>1
    <3>3. CASE u = v
      <4>1. OwnChain(v) = chain[u] BY <3>3, Sets DEF OwnChain
      <4>2. \A r \in chain[t] \cap Scope : scopes[r] = "left" => r \in chain[c] \ {c}
        BY <2>4, <3>1, <4>1 DEF Intact
      <4>3. c \notin chain[t] BY <2>3, <4>2 DEF Intact
      <4>4. i # Len(stack[v]) BY <1>8, <3>2, <3>3, <4>3
      <4>5. i \in 1 .. Len(stack[v]) - 1 BY <1>8, <3>2, <3>3, <4>4
      <4>6. QED BY <1>9, <3>2, <3>3, <4>5
    <3>4. CASE u # v BY <1>7, <3>2, <3>4, Sets
    <3>5. QED BY <3>3, <3>4
  <2>9. QED BY <1>4, <2>7, <2>8 DEF LineageOK
<1>22. QED BY <1>11, <1>13, <1>15, <1>16, <1>17, <1>21 DEF IInv

(* A body returns from inside its scopes: what is unresolved below them is *)
(* cut off from what is above.                                             *)
Departs(v) == return_value(v) /\ stack[v] # <<>>
LEMMA DepartEffect ==
  ASSUME Types, NEW v \in VM, Departs(v)
  PROVE  /\ pc[v] = "run" /\ stack[v] # <<>> /\ pc' = [pc EXCEPT ![v] = "destroy"]
         /\ pc'[v] = "destroy" /\ stack'[v] = <<>>
         /\ \A w \in VM \ {v} : pc'[w] = pc[w] /\ stack'[w] = stack[w]
         /\ stack' \in [VM -> Seq(Scope)]
         /\ scopes' \in [Scope -> {"free", "open", "joined", "failed", "left"}]
         /\ \A i \in DOMAIN stack[v] : stack[v][i] \in Scope /\ scopes'[stack[v][i]] = "left"
         /\ \A s \in Scope :
              scopes'[s] = scopes[s] \/ \E i \in DOMAIN stack[v] : stack[v][i] = s
         /\ promise' \in [Task -> {"unset", "value", "error", "cancelled"}]
         /\ v \in Task => promise'[v] = "value"
         /\ \A t \in Task \ {v} : promise'[t] = promise[t]
         /\ started' = started /\ complete' = complete /\ subs' = subs
         /\ notified' = notified /\ children' = children /\ chain' = chain
         /\ cancelled' = cancelled /\ spawning' = spawning /\ join' = join
         /\ unwind' = unwind
<1>1. /\ pc \in [VM -> Pcs] /\ stack \in [VM -> Seq(Scope)]
      /\ scopes \in [Scope -> {"free", "open", "joined", "failed", "left"}]
      /\ promise \in [Task -> {"unset", "value", "error", "cancelled"}]
  BY DEF Types
<1>2. /\ pc[v] = "run" /\ stack[v] # <<>> /\ pc' = [pc EXCEPT ![v] = "destroy"]
      /\ stack' = [stack EXCEPT ![v] = <<>>]
      /\ scopes' = [s \in Scope |-> IF s \in ToSet(stack[v]) THEN "left" ELSE scopes[s]]
      /\ started' = started /\ complete' = complete /\ subs' = subs
      /\ notified' = notified /\ children' = children /\ chain' = chain
      /\ cancelled' = cancelled /\ spawning' = spawning /\ join' = join
      /\ unwind' = unwind
      /\ IF v = Main THEN promise' = promise ELSE Resolve(v, "value")
  BY DEF Departs, return_value, Goto
<1>3. /\ promise' \in [Task -> {"unset", "value", "error", "cancelled"}]
      /\ v \in Task => promise'[v] = "value"
      /\ \A t \in Task \ {v} : promise'[t] = promise[t]
  <2>1. CASE v = Main BY <1>1, <1>2, <2>1, Sets
  <2>2. CASE v # Main
    <3>1. v \in Task /\ Resolve(v, "value") BY <1>2, <2>2 DEF VM
    <3>2. QED BY <3>1, PromiseSet
  <2>3. QED BY <2>1, <2>2
<1>4. \A i \in DOMAIN stack[v] : stack[v][i] \in Scope
  BY <1>1, ElementOfSeq, LenProperties
<1>5. ToSet(stack[v]) = {stack[v][i] : i \in DOMAIN stack[v]} BY DEF ToSet
<1>6. /\ pc'[v] = "destroy" /\ stack'[v] = <<>>
      /\ \A w \in VM \ {v} : pc'[w] = pc[w] /\ stack'[w] = stack[w]
  BY <1>1, <1>2
<1>7. stack' \in [VM -> Seq(Scope)] BY <1>1, <1>2, EmptySeq
<1>8. /\ scopes' \in [Scope -> {"free", "open", "joined", "failed", "left"}]
      /\ \A s \in Scope :
           scopes'[s] = IF s \in ToSet(stack[v]) THEN "left" ELSE scopes[s]
  BY <1>1, <1>2
<1>9. QED BY <1>2, <1>3, <1>4, <1>5, <1>6, <1>7, <1>8

LEMMA DepartKeeps ==
  ASSUME IInv, NEW v \in VM, Departs(v)
  PROVE  IInv'
<1>1. Types /\ StacksOK /\ FreshOK /\ ShapeOK(v) /\ (v \in Task => PromiseOK(v))
  BY DEF IInv
<1>2. /\ pc[v] = "run" /\ stack[v] # <<>> /\ pc' = [pc EXCEPT ![v] = "destroy"]
      /\ pc'[v] = "destroy" /\ stack'[v] = <<>>
      /\ \A w \in VM \ {v} : pc'[w] = pc[w] /\ stack'[w] = stack[w]
      /\ stack' \in [VM -> Seq(Scope)]
      /\ scopes' \in [Scope -> {"free", "open", "joined", "failed", "left"}]
      /\ promise' \in [Task -> {"unset", "value", "error", "cancelled"}]
      /\ v \in Task => promise'[v] = "value"
      /\ \A t \in Task \ {v} : promise'[t] = promise[t]
      /\ started' = started /\ complete' = complete /\ subs' = subs
      /\ notified' = notified /\ children' = children /\ chain' = chain
      /\ cancelled' = cancelled /\ spawning' = spawning /\ join' = join
      /\ unwind' = unwind
  BY <1>1, DepartEffect
<1>3. /\ \A i \in DOMAIN stack[v] : stack[v][i] \in Scope /\ scopes'[stack[v][i]] = "left"
      /\ \A s \in Scope :
           scopes'[s] = scopes[s] \/ \E i \in DOMAIN stack[v] : stack[v][i] = s
  BY <1>1, DepartEffect
<1>4. \A i \in DOMAIN stack[v] :
        scopes[stack[v][i]] = "open" /\ stack[v][i] \notin OwnChain(v)
  BY <1>1 DEF StacksOK
<1>5. \A s \in Scope :
        /\ scopes[s] = "left" => scopes'[s] = "left"
        /\ scopes'[s] # "left" => scopes'[s] = scopes[s]
  BY <1>3, <1>4
<1>6. /\ "run" \in BodyPcs /\ "run" \notin Resting \cup Joining \cup {"new", "add"}
      /\ "destroy" \in Resting
      /\ "destroy" \notin BodyPcs \cup JoinPcs \cup Joining
      /\ "destroy" \notin {"new", "claimed", "add", "join", "handler", "notify", "await"}
  BY DEF BodyPcs, JoinPcs, Joining, RacePcs, Resting
<1>7. Types'
  <2>1. pc' \in [VM -> Pcs] BY <1>1, <1>2 DEF Types, Pcs
  <2>2. QED BY <1>1, <1>2, <2>1 DEF Types
<1>8. StacksOK'
  <2>1. \A w \in VM : OwnChain(w)' = OwnChain(w) BY <1>2 DEF OwnChain
  <2>2. \A w \in VM : \A i \in DOMAIN stack'[w] :
          /\ w # v /\ i \in DOMAIN stack[w] /\ stack'[w][i] = stack[w][i]
    BY <1>2, EmptySeq
  <2>3. ASSUME NEW w \in VM \ {v}, NEW i \in DOMAIN stack[w]
        PROVE  scopes'[stack[w][i]] = "open"
    <3>1. stack[w][i] \in Scope
      <4>1. stack[w] \in Seq(Scope) BY <1>1 DEF Types
      <4>2. QED BY <4>1, ElementOfSeq, LenProperties
    <3>2. ~ \E j \in DOMAIN stack[v] : stack[v][j] = stack[w][i] BY <1>1 DEF StacksOK
    <3>3. QED BY <1>1, <1>3, <3>1, <3>2 DEF StacksOK
  <2>4. \A w \in VM : \A i \in DOMAIN stack'[w] :
          /\ scopes'[stack'[w][i]] = "open"
          /\ chain[stack'[w][i]] = {stack'[w][i]} \cup OwnChain(w)
          /\ stack'[w][i] \notin OwnChain(w)
    BY <1>1, <2>2, <2>3 DEF StacksOK
  <2>5. \A w, x \in VM : \A i \in DOMAIN stack'[w], j \in DOMAIN stack'[x] :
          stack'[w][i] = stack'[x][j] => w = x /\ i = j
    BY <1>1, <2>2 DEF StacksOK
  <2>6. QED BY <1>2, <2>1, <2>4, <2>5 DEF StacksOK
<1>9. \A u \in Task : pc'[u] = "new" <=> pc[u] = "new" BY <1>2, <1>6, Sets
<1>10. FreshOK'
  <2>1. \A s \in Scope : scopes'[s] = "free" => scopes[s] = "free" BY <1>5
  <2>2. \A s \in Scope : \A i \in DOMAIN children[s] : children[s][i] \in Task
    <3>1. \A s \in Scope : children[s] \in Seq(Task) BY <1>1 DEF Types
    <3>2. QED BY <3>1, ElementOfSeq, LenProperties
  <2>3. QED BY <1>1, <1>2, <1>9, <2>1, <2>2 DEF FreshOK
<1>11. ASSUME NEW w \in VM PROVE ShapeOK(w)' /\ HandlerOK(w)'
  <2>1. ShapeOK(w) /\ HandlerOK(w) BY DEF IInv
  <2>2. \A i \in DOMAIN join[w].snapshot : pc'[join[w].snapshot[i]] # "new"
    BY <1>1, <1>9, <2>1, Positions DEF ShapeOK
  <2>3. CASE w = v
    <3>1. ShapeOK(w)' BY <1>2, <1>6, <2>1, <2>2, <2>3 DEF ShapeOK
    <3>2. HandlerOK(w)' BY <1>2, <2>3 DEF HandlerOK
    <3>3. QED BY <3>1, <3>2
  <2>4. CASE w # v
    <3>1. /\ pc'[w] = pc[w] /\ stack'[w] = stack[w] /\ Turn(w)' = Turn(w)
          /\ (current_scope(w))' = current_scope(w)
      BY <1>2, <2>4 DEF current_scope, Turn
    <3>2. pc[w] = "add" => pc'[spawning[w]] # "new" BY <1>9, <2>1 DEF ShapeOK
    <3>3. ShapeOK(w)' BY <1>2, <2>1, <2>2, <3>1, <3>2 DEF ShapeOK
    <3>4. pc[w] \in {"handler", "notify"} => Turn(w) \in Task
      BY <1>1, <2>1, Positions DEF ShapeOK
    <3>5. \A u \in Task : pc[u] \in Resting => pc'[u] \in Resting BY <1>2, <1>6, Sets
    <3>6. HandlerOK(w)' BY <1>2, <2>1, <3>1, <3>4, <3>5 DEF HandlerOK
    <3>7. QED BY <3>3, <3>6
  <2>5. QED BY <2>3, <2>4
<1>12. ASSUME NEW u \in Task PROVE PromiseOK(u)'
  <2>1. PromiseOK(u) BY DEF IInv
  <2>2. CASE u = v BY <1>2, <1>6, <2>1, <2>2 DEF PromiseOK
  <2>3. CASE u # v BY <1>2, <2>1, <2>3, Sets DEF PromiseOK
  <2>4. QED BY <2>2, <2>3
<1>13. Held(v) = {} BY <1>2, <1>6 DEF Held
<1>14. ASSUME NEW u \in Task, NEW s \in Scope, Kid(u, s) PROVE Kid(u, s)'
  <2>1. CASE \E i \in DOMAIN children[s] : children[s][i] = u BY <1>2, <2>1 DEF Kid
  <2>2. CASE \E w \in VM : stack[w] # <<>> /\ current_scope(w) = s /\ u \in Held(w)
    <3>1. PICK w \in VM : stack[w] # <<>> /\ current_scope(w) = s /\ u \in Held(w)
      BY <2>2
    <3>2. w # v BY <1>13, <3>1
    <3>3. Held(w)' = Held(w) BY <1>2, <3>2 DEF Held, Uncollected
    <3>4. (current_scope(w))' = current_scope(w) BY <1>2, <3>2 DEF current_scope
    <3>5. QED BY <1>2, <3>1, <3>2, <3>3, <3>4 DEF Kid
  <2>3. QED BY <1>14, <2>1, <2>2 DEF Kid
<1>15. ASSUME NEW t \in Task PROVE LineageOK(t)'
  <2> SUFFICES ASSUME Unresolved(t)' PROVE LineageOK(t)' BY DEF LineageOK
  <2>1. t # v BY <1>2 DEF Unresolved
  <2>2. \A u \in Task : u # v => (Unresolved(u)' <=> Unresolved(u))
    BY <1>2, <1>9 DEF Unresolved
  <2>3. /\ \A x \in chain[t] \cap Scope : Intact(t, x) => scopes[x] = "open" /\ KidAbove(t, x)
        /\ \A u \in (chain[t] \cap Task) \ {t} : Intact(t, u) =>
             \E i \in DOMAIN stack[u] : stack[u][i] \in chain[t]
    BY <2>1, <2>2 DEF IInv, LineageOK
  <2>4. \A x \in Token : Intact(t, x)' => Intact(t, x) BY <1>2, <1>5 DEF Intact
  <2>5. ASSUME NEW x \in Token, Intact(t, x)', v \in chain[t], Intact(t, v), v \in Task,
               chain[x] \subseteq chain[v]
        PROVE  FALSE
    <3>1. PICK i \in DOMAIN stack[v] : stack[v][i] \in chain[t] BY <2>1, <2>3, <2>5
    <3>2. stack[v][i] \in Scope /\ scopes'[stack[v][i]] = "left" BY <1>3
    <3>3. stack[v][i] \in chain[x] BY <1>2, <2>5, <3>1, <3>2 DEF Intact
    <3>4. OwnChain(v) = chain[v] BY <2>5, Sets DEF OwnChain
    <3>5. QED BY <1>4, <2>5, <3>3, <3>4
  <2>6. ASSUME NEW x \in chain[t] \cap Scope, Intact(t, x)'
        PROVE  scopes'[x] = "open" /\ KidAbove(t, x)'
    <3>1. Intact(t, x) BY <2>4, <2>6, Sets
    <3>2. scopes[x] = "open" /\ KidAbove(t, x) BY <2>3, <3>1
    <3>3. scopes'[x] # "left" BY <1>2, <2>6 DEF Intact
    <3>4. PICK u \in chain[t] \cap Task :
            Unresolved(u) /\ Kid(u, x) /\ chain[x] \subseteq chain[u]
      BY <3>2 DEF KidAbove
    <3>5. Intact(t, u) BY <3>1, <3>4, IntactAbove
    <3>6. u # v BY <2>5, <2>6, <3>4, <3>5, Sets
    <3>7. Unresolved(u)' /\ Kid(u, x)' BY <1>14, <2>2, <3>4, <3>6
    <3>8. KidAbove(t, x)' BY <1>2, <3>4, <3>7 DEF KidAbove
    <3>9. QED BY <1>5, <3>2, <3>3, <3>8
  <2>7. ASSUME NEW u \in (chain[t] \cap Task) \ {t}, Intact(t, u)'
        PROVE  \E i \in DOMAIN stack'[u] : stack'[u][i] \in chain[t]
    <3>1. Intact(t, u) BY <2>4, <2>7, Sets
    <3>2. u # v BY <2>5, <2>7, <3>1, Sets
    <3>3. PICK i \in DOMAIN stack[u] : stack[u][i] \in chain[t] BY <2>3, <3>1
    <3>4. u \in VM \ {v} BY <3>2, Sets
    <3>5. stack'[u] = stack[u] BY <1>2, <3>4
    <3>6. QED BY <3>3, <3>5
  <2>8. QED BY <1>2, <2>6, <2>7 DEF LineageOK
<1>16. QED BY <1>7, <1>8, <1>10, <1>11, <1>12, <1>15 DEF IInv

-----------------------------------------------------------------------------
(* The theorems.                                                           *)
LEMMA Initial ==
  ASSUME Init
  PROVE  IInv
<1>1. /\ pc = [v \in VM |-> IF v = Main THEN "run" ELSE "new"]
      /\ started = [t \in Task |-> FALSE] /\ promise = [t \in Task |-> "unset"]
      /\ complete = [t \in Task |-> FALSE] /\ subs = [t \in Task |-> {}]
      /\ notified = [v \in VM |-> FALSE] /\ scopes = [s \in Scope |-> "free"]
      /\ children = [s \in Scope |-> <<>>] /\ chain = [x \in Token |-> {x}]
      /\ cancelled = {} /\ stack = [v \in VM |-> <<>>]
      /\ spawning = [v \in VM |-> NoTask] /\ join = [v \in VM |-> NoLocals]
      /\ unwind = [v \in VM |-> NoUnwind]
  BY DEF Init
<1>2. /\ NoLocals \in Locals /\ NoLocals.todo = {} /\ DOMAIN NoLocals.snapshot = {}
      /\ NoUnwind \in Unwinds /\ NoUnwind.outcome = "run"
  BY LocalFields, EmptySeq DEF Unwinds, NoUnwind
<1>3. Types
  <2>1. pc \in [VM -> Pcs] BY <1>1 DEF Pcs
  <2>2. children \in [Scope -> Seq(Task)] /\ stack \in [VM -> Seq(Scope)] BY <1>1, EmptySeq
  <2>3. chain \in [Token -> SUBSET Token] BY <1>1
  <2>4. join \in [VM -> Locals] /\ unwind \in [VM -> Unwinds] BY <1>1, <1>2
  <2>5. QED BY <1>1, <2>1, <2>2, <2>3, <2>4 DEF Types
<1>4. \A v \in VM : stack[v] = <<>> /\ DOMAIN stack[v] = {} BY <1>1, EmptySeq
<1>5. StacksOK BY <1>4 DEF StacksOK
<1>6. FreshOK
  <2>1. \A s \in Scope : children[s] = <<>> /\ DOMAIN children[s] = {} BY <1>1, EmptySeq
  <2>2. QED BY <1>1, <2>1, Sets DEF FreshOK
<1>7. \A v \in VM : pc[v] \in {"run", "new"} /\ (pc[v] = "run" => v = Main) BY <1>1
<1>8. {"run", "new"} \cap (JoinPcs \cup Joining \cup Resting \cup {"add", "await"}) = {}
  BY DEF JoinPcs, Joining, Resting
<1>9. \A v \in VM : ShapeOK(v) /\ HandlerOK(v)
  <2> SUFFICES ASSUME NEW v \in VM PROVE ShapeOK(v) /\ HandlerOK(v) OBVIOUS
  <2>1. pc[v] \notin {"add", "join", "handler", "notify", "await"} \cup JoinPcs \cup Joining
    BY <1>7, <1>8
  <2>2. join[v] = NoLocals /\ unwind[v] = NoUnwind BY <1>1
  <2>3. ShapeOK(v) BY <1>2, <1>4, <2>1, <2>2 DEF ShapeOK
  <2>4. HandlerOK(v) BY <2>1 DEF HandlerOK
  <2>5. QED BY <2>3, <2>4
<1>10. \A t \in Task : pc[t] = "new" /\ promise[t] = "unset" BY <1>1, Sets
<1>11. \A t \in Task : PromiseOK(t) /\ LineageOK(t)
  BY <1>10, Sets DEF PromiseOK, LineageOK, Unresolved
<1>12. QED BY <1>3, <1>5, <1>6, <1>9, <1>11 DEF IInv

LEMMA Stuttering ==
  ASSUME IInv, UNCHANGED vars
  PROVE  IInv'
<1>1. /\ pc' = pc /\ started' = started /\ promise' = promise /\ complete' = complete
      /\ subs' = subs /\ notified' = notified /\ scopes' = scopes /\ children' = children
      /\ chain' = chain /\ stack' = stack /\ cancelled' = cancelled
      /\ spawning' = spawning /\ join' = join /\ unwind' = unwind
  BY DEF vars, task_state, tree
<1>2. /\ Types /\ StacksOK /\ FreshOK
      /\ \A v \in VM : ShapeOK(v) /\ HandlerOK(v)
      /\ \A t \in Task : PromiseOK(t) /\ LineageOK(t)
  BY DEF IInv
<1>3. Types' /\ StacksOK' /\ FreshOK'
  BY <1>1, <1>2 DEF Types, StacksOK, FreshOK, OwnChain
<1>4. \A v \in VM : /\ Held(v)' = Held(v) /\ Turn(v)' = Turn(v)
                    /\ (current_scope(v))' = current_scope(v)
  BY <1>1 DEF Held, Turn, current_scope, Uncollected
<1>5. \A v \in VM : ShapeOK(v)' /\ HandlerOK(v)'
  BY <1>1, <1>2, <1>4 DEF ShapeOK, HandlerOK
<1>6. \A t \in Task, s \in Scope : Kid(t, s) => Kid(t, s)' BY <1>1, <1>4 DEF Kid
<1>7. \A t \in Task : PromiseOK(t)' BY <1>1, <1>2 DEF PromiseOK
<1>8. \A t \in Task : Unresolved(t)' <=> Unresolved(t) BY <1>1 DEF Unresolved
<1>9. \A t \in Task : LineageOK(t)' BY <1>1, <1>6, <1>8, LineageKept
<1>10. QED BY <1>3, <1>5, <1>7, <1>9 DEF IInv

LEMMA StepCases ==
  ASSUME Next
  PROVE  \/ \E t \in Task : WorkerStep(t)
         \/ \E v \in VM : \/ LoopAction(v) \/ BodyAction(v)
                          \/ Returns(v) \/ Departs(v) \/ Unwound(v) \/ destroy_vm(v)
                          \/ take_children(v) \/ add_child(v) \/ report_stall(v)
                          \/ join_returns(v)
                          \/ \E s \in Scope : handle_task_scope_begin(v, s)
                          \/ \E t \in Task : handle_spawn(v, t)
BY DEF Next, JoinStep, AwaitStep, RaceStep, Body, LoopAction, BodyAction, Returns, Departs

LEMMA Invariance == Spec => []IInv
<1>1. Init => IInv BY Initial
<1>2. IInv /\ [Next]_vars => IInv'
  <2> SUFFICES ASSUME IInv, [Next]_vars PROVE IInv' OBVIOUS
  <2>1. CASE Next
    BY <2>1, StepCases, WorkerKeeps, LoopKeeps, BodyKeeps, EndKeeps, DepartKeeps, DestroyKeeps,
       RecordKeeps, ReturnKeeps, BeginKeeps, SpawnKeeps
  <2>2. CASE UNCHANGED vars BY <2>2, Stuttering
  <2>3. QED BY <2>1, <2>2
<1>3. QED BY <1>1, <1>2, PTL DEF Spec

(* No orphans: once a task_scope has been joined or torn down, every task  *)
(* spawned in it and in the scopes those tasks opened is resolved and none *)
(* of their code runs (join_all, unwind_task_scopes_to), but for what is   *)
(* below a scope that its VM returned from (VM::run): that is not joined.  *)
THEOREM NoTaskOutlivesItsScope == Spec => []ChildrenAccounted
<1>1. IInv => ChildrenAccounted
  <2> SUFFICES ASSUME IInv PROVE ChildrenAccounted OBVIOUS
  <2>1. ASSUME NEW s \in Scope, NEW t \in Task, scopes[s] \in {"joined", "failed"}, s \in chain[t],
               Intact(t, s)
        PROVE  promise[t] # "unset" /\ pc[t] \in Resting
    <3>1. FreshOK /\ PromiseOK(t) /\ LineageOK(t) BY DEF IInv
    <3>2. pc[t] # "new" BY <2>1, <3>1, Sets DEF FreshOK
    <3>3. ~Unresolved(t) BY <2>1, <3>1 DEF LineageOK
    <3>4. promise[t] # "unset" BY <3>2, <3>3 DEF Unresolved
    <3>5. QED BY <3>1, <3>4 DEF PromiseOK
  <2>2. NoOrphan BY <2>1 DEF NoOrphan, Resting
  <2>3. TypeOK BY TypesAre DEF IInv
  <2>4. QED BY <2>2, <2>3 DEF ChildrenAccounted
<1>2. QED BY <1>1, Invariance, PTL

(* claim_start against abandon_if_not_started: of the worker of a task and *)
(* the scope that gives it up only one ever resolves its promise.          *)
THEOREM OneResolver == Spec => []ResolvedOnce
<1>1. IInv => ResolvedOnce
  <2> SUFFICES ASSUME IInv, NEW t \in Task, Claimed(t)
               PROVE  /\ promise[t] = "unset"
                      /\ ~ \E v \in VM : pc[v] = "handler" /\ Turn(v) = t
    BY DEF ResolvedOnce
  <2>1. pc[t] \notin Resting BY DEF Claimed, Resting
  <2>2. PromiseOK(t) /\ \A v \in VM : HandlerOK(v) BY DEF IInv
  <2>3. QED BY <2>1, <2>2 DEF PromiseOK, HandlerOK
<1>2. QED BY <1>1, Invariance, PTL

-----------------------------------------------------------------------------
(* Parents, signals and outcomes.                                          *)

(* The token tree is one, and what is recorded as a child of a scope is.   *)
Parents ==
  /\ \A x, y \in Token : x \in chain[y] /\ y \in chain[x] => x = y
  /\ \A s \in Scope : \A i \in DOMAIN children[s] : IsChild(children[s][i], s)
  /\ \A v \in VM : pc[v] = "add" => IsChild(spawning[v], current_scope(v))
  /\ \A v \in VM : pc[v] \in Joining =>
       \A i \in DOMAIN join[v].snapshot : IsChild(join[v].snapshot[i], current_scope(v))

(* A task that is complete, or whose worker is done with it, has a claim   *)
(* on it.  A joiner subscribes to every child, and a child that is set     *)
(* after its turn in the pass is set by its worker, which notifies.        *)
Finished(t) ==
  /\ complete[t] => started[t] /\ pc[t] \in Resting
  /\ pc[t] \in {"destroy", "finish", "done"} => started[t]
Closing == {"destroy", "finish"}
Subscribed(v) ==
  pc[v] \in Joining =>
    \A i \in Uncollected(v) :
      LET t == join[v].snapshot[i] IN
      \/ pc[v] = "subscribe" /\ i \in join[v].todo
      \/ complete[t]
      \/ v \in subs[t]
Watching(v) ==
  pc[v] \in {"poll", "sleep"} =>
    \A i \in Uncollected(v) :
      LET t == join[v].snapshot[i] IN
      \/ promise[t] = "unset"
      \/ pc[v] = "poll" /\ i \in join[v].todo
      \/ notified[v]
      \/ pc[t] \in Closing /\ v \in subs[t]
Signals ==
  /\ \A t \in Task : Finished(t)
  /\ \A v \in VM : Subscribed(v) /\ Watching(v)
  /\ \A v \in VM : pc[v] = "sleep" => join[v].todo = {}

(* A cancelled outcome has its reason while it is on the way: the token of *)
(* the VM that unwinds or a task it awaited, or the token of the scope     *)
(* that abandons.                                                          *)
Excused(t) ==
  \/ is_cancelled(t)
  \/ t \in Awaiting /\ \E u \in Task \ {t} : promise[u] = "cancelled" /\ is_cancelled(u)
Abandoning == {"exchange", "handler", "notify"}
Reason(v) ==
  /\ unwind[v].outcome = "cancelled" /\ v \in Task => Excused(v)
  /\ pc[v] \in RacePcs => v \in Task
  /\ pc[v] = "await" => v \in Awaiting
  /\ pc[v] \in JoinPcs /\ (join[v].teardown \/ join[v].abandoned) =>
       is_cancelled(current_scope(v))
  /\ pc[v] \in Abandoning => join[v].abandoned
  /\ pc[v] \in {"poll", "sleep"} /\ join[v].teardown => join[v].abandoned
Reasons ==
  /\ \A t \in Task : promise[t] = "cancelled" => Excused(t)
  /\ \A v \in VM : Reason(v)

(* A child that failed is recorded, or collected as the first error or     *)
(* after it, or its scope is being retired.                                *)
Retiring(v, k) ==
  /\ \/ pc[v] = "unwind"
     \/ pc[v] \in JoinPcs /\ join[v].teardown
  /\ k > unwind[v].to
Known(t, v) ==
  \/ pc[v] = "add" /\ spawning[v] = t
  \/ pc[v] \in Joining /\ \E i \in DOMAIN join[v].snapshot :
       join[v].snapshot[i] = t /\ (i \in join[v].collected => join[v].first_error # NoTask)
Recorded(t, s) == \E i \in DOMAIN children[s] : children[s][i] = t
Collected(v) ==
  pc[v] \in Joining =>
    \A i \in DOMAIN join[v].snapshot \cap join[v].collected :
      promise[join[v].snapshot[i]] # "unset"
Kept(v) ==
  /\ \A k \in DOMAIN stack[v], t \in Task :
       IsChild(t, stack[v][k]) /\ promise[t] = "error" =>
         \/ Retiring(v, k)
         \/ k = Len(stack[v]) /\ Known(t, v)
         \/ Recorded(t, stack[v][k])
  /\ Collected(v)
  /\ pc[v] \in JoinPcs /\ join[v].teardown => Len(stack[v]) > unwind[v].to
FailuresKept ==
  /\ \A s \in Scope, t \in Task : scopes[s] = "joined" /\ IsChild(t, s) => promise[t] # "error"
  /\ \A v \in VM : Kept(v)

(* Everyone but v stays where it is.                                       *)
Elsewhere(v) ==
  \A w \in VM \ {v} : /\ pc'[w] = pc[w] /\ join'[w] = join[w]
                      /\ spawning'[w] = spawning[w] /\ unwind'[w] = unwind[w]

(* The worker and body steps do nothing to the tree, and are outside of    *)
(* the join loop afterwards.                                               *)
LEMMA OutsideLoop ==
  ASSUME IInv, NEW v \in VM,
         \/ v \in Task /\ WorkerStep(v)
         \/ BodyAction(v) \/ Returns(v) \/ Unwound(v)
  PROVE  /\ UNCHANGED <<scopes, chain, stack, children, spawning>> /\ Elsewhere(v)
         /\ pc'[v] \notin Joining \cup {"add"}
<1>1. Types BY DEF IInv
<1>2. pc \in [VM -> Pcs] /\ join \in [VM -> Locals] /\ unwind \in [VM -> Unwinds]
  BY <1>1 DEF Types
<1>3. UNCHANGED <<scopes, chain, stack, children, spawning>>
  <2>1. CASE v \in Task /\ WorkerStep(v)
    BY <2>1 DEF WorkerStep, fetch, claim_start, start_task, notify_completion, tree
  <2>2. CASE BodyAction(v)
    <3>1. CASE (\E t \in Task : cancel_task(v, t)) \/ throw_error(v) \/ check_cancellation(v)
               \/ handle_task_scope_end(v) \/ retire_task_scope(v) \/ join_throws(v)
      BY <3>1 DEF cancel_task, throw_error, check_cancellation, handle_task_scope_end,
         retire_task_scope, join_throws, tree
    <3>2. CASE (\E R \in SUBSET Task : race(v, R)) \/ race_subscribe(v) \/ race_poll(v) \/ race_throws(v)
               \/ race_wait(v) \/ race_wake(v)
      BY <3>2 DEF race, race_subscribe, race_poll, race_throws, race_wait, race_wake, tree
    <3>3. CASE (\E t \in Task : handle_await(v, t)) \/ await_returns(v) \/ await_throws(v)
      BY <3>3 DEF handle_await, await_returns, await_throws, tree
    <3>4. QED BY <2>2, <3>1, <3>2, <3>3 DEF BodyAction
  <2>3. CASE Returns(v)
    BY <1>1, <2>3, ReturnsQuietly DEF Returns, return_value
  <2>4. CASE Unwound(v) BY <2>4 DEF Unwound, tree
  <2>5. QED BY <2>1, <2>2, <2>3, <2>4
<1>4. /\ \E f : join' = [join EXCEPT ![v] = f]
      /\ \E u : unwind' = [unwind EXCEPT ![v] = u]
      /\ \/ pc' = pc /\ pc[v] \notin Joining \cup {"add"}
         \/ \E l \in {"dequeued", "finish", "claimed", "done", "run", "unwind", "join", "await",
                      "race_subscribe", "race_poll", "race_sleep"} : Goto(v, l)
  <2>1. join' = join => join' = [join EXCEPT ![v] = join[v]] BY <1>2
  <2>2. unwind' = unwind => unwind' = [unwind EXCEPT ![v] = unwind[v]] BY <1>2
  <2>3. CASE v \in Task /\ WorkerStep(v)
    BY <2>1, <2>2, <2>3 DEF WorkerStep, fetch, claim_start, start_task, notify_completion
  <2>4. CASE Returns(v) \/ Unwound(v)
    <3>1. CASE Returns(v)
      BY <1>1, <2>1, <2>2, <3>1, ReturnsQuietly DEF Returns, return_value, Ended
    <3>2. CASE Unwound(v) BY <2>1, <3>2 DEF Unwound
    <3>3. QED BY <2>4, <3>1, <3>2
  <2>5. CASE BodyAction(v)
    <3>1. \/ join' = join \/ \E f : join' = [join EXCEPT ![v] = f]
      BY <2>5 DEF BodyAction, cancel_task, throw_error, check_cancellation, handle_task_scope_end,
           retire_task_scope, join_throws, race, race_subscribe, race_poll, race_throws,
           race_wait, race_wake, EnterRegion, EndRace, handle_await, await_returns, await_throws
    <3>2. \/ unwind' = unwind \/ \E u : unwind' = [unwind EXCEPT ![v] = u]
      BY <2>5 DEF BodyAction, cancel_task, throw_error, check_cancellation, handle_task_scope_end,
           retire_task_scope, join_throws, race, race_subscribe, race_poll, race_throws,
           race_wait, race_wake, ThrowFrom, handle_await, await_returns, await_throws
    <3>3. \/ pc' = pc /\ pc[v] \in {"run", "race_subscribe", "race_poll"}
          \/ \E l \in {"run", "unwind", "join", "await", "race_subscribe", "race_poll", "race_sleep"} :
               Goto(v, l)
      BY <2>5 DEF BodyAction, cancel_task, throw_error, check_cancellation, handle_task_scope_end,
           retire_task_scope, join_throws, race, race_subscribe, race_poll, race_throws,
           race_wait, race_wake, ThrowFrom, handle_await, await_returns, await_throws
    <3>4. {"run", "race_subscribe", "race_poll"} \cap (Joining \cup {"add"}) = {}
      BY DEF Joining, JoinPcs
    <3>5. QED BY <2>1, <2>2, <3>1, <3>2, <3>3, <3>4
  <2>6. QED BY <2>3, <2>4, <2>5
<1>5. Elsewhere(v) BY <1>2, <1>3, <1>4 DEF Elsewhere, Goto
<1>6. pc'[v] \notin Joining \cup {"add"}
  <2>1. ASSUME NEW l \in {"dequeued", "finish", "claimed", "done", "run", "unwind", "join", "await",
                      "race_subscribe", "race_poll", "race_sleep"}, Goto(v, l)
        PROVE  pc'[v] \notin Joining \cup {"add"}
    BY <1>2, <2>1 DEF Goto, Joining, JoinPcs
  <2>2. QED BY <1>4, <2>1
<1>7. QED BY <1>3, <1>5, <1>6

(* A VM that leaves its scopes open, and its destruction.                  *)
Leaves(v) == Departs(v) \/ destroy_vm(v)

LEMMA LeaveFrame ==
  ASSUME IInv, NEW v \in VM, Leaves(v)
  PROVE  /\ UNCHANGED <<chain, children, spawning, join, unwind, started, complete, subs, notified>>
         /\ Elsewhere(v) /\ cancelled \subseteq cancelled'
         /\ pc'[v] \in {"destroy", "finish", "done"}
         /\ v \in Task => pc'[v] \in Closing
         /\ stack'[v] = <<>> /\ \A w \in VM \ {v} : stack'[w] = stack[w]
         /\ \A s \in Scope : scopes'[s] = scopes[s] \/ scopes'[s] = "left"
         /\ \A t \in Task : \/ promise'[t] = promise[t]
                            \/ t = v /\ pc[v] = "run" /\ promise[t] = "unset" /\ promise'[t] = "value"
         /\ pc[v] = "run" \/ (pc[v] = "destroy" /\ promise' = promise)
<1>1. Types /\ ShapeOK(v) /\ (v \in Task => PromiseOK(v)) BY DEF IInv
<1>2. CASE Departs(v)
  <2>1. /\ UNCHANGED <<chain, children, spawning, join, unwind, started, complete, subs, notified>>
        /\ cancelled' = cancelled /\ pc[v] = "run" /\ pc'[v] = "destroy" /\ stack'[v] = <<>>
        /\ \A w \in VM \ {v} : pc'[w] = pc[w] /\ stack'[w] = stack[w]
        /\ v \in Task => promise'[v] = "value"
        /\ \A t \in Task \ {v} : promise'[t] = promise[t]
    BY <1>1, <1>2, DepartEffect
  <2>2. \A s \in Scope : scopes'[s] = scopes[s] \/ scopes'[s] = "left"
    <3>1. /\ \A i \in DOMAIN stack[v] : stack[v][i] \in Scope /\ scopes'[stack[v][i]] = "left"
          /\ \A s \in Scope :
               scopes'[s] = scopes[s] \/ \E i \in DOMAIN stack[v] : stack[v][i] = s
      BY <1>1, <1>2, DepartEffect
    <3>2. QED BY <3>1
  <2>3. v \in Task => promise[v] = "unset" BY <1>1, <2>1 DEF PromiseOK, Resting
  <2>4. Elsewhere(v) BY <2>1 DEF Elsewhere
  <2>5. \A t \in Task :
          \/ promise'[t] = promise[t]
          \/ t = v /\ pc[v] = "run" /\ promise[t] = "unset" /\ promise'[t] = "value"
    BY <2>1, <2>3
  <2>6. pc'[v] \in {"destroy", "finish", "done"} /\ pc'[v] \in Closing BY <2>1 DEF Closing
  <2>7. QED BY <2>1, <2>2, <2>4, <2>5, <2>6
<1>3. CASE destroy_vm(v)
  <2>1. /\ UNCHANGED <<chain, children, spawning, join, unwind, started, complete, subs, notified,
                      promise, scopes, stack>>
        /\ cancelled \subseteq cancelled' /\ pc[v] = "destroy" /\ Goto(v, Ended(v))
    BY <1>3 DEF destroy_vm, tree, task_state
  <2>2. /\ pc'[v] = Ended(v) /\ \A w \in VM \ {v} : pc'[w] = pc[w]
    BY <1>1, <2>1 DEF Goto, Types
  <2>3. pc'[v] \in {"finish", "done"} /\ (v \in Task => pc'[v] = "finish")
    BY <2>2, ScopeAssumption DEF Ended
  <2>4. stack[v] = <<>> BY <1>1, <2>1 DEF ShapeOK, BodyPcs, JoinPcs, RacePcs
  <2>5. Elsewhere(v) BY <2>1, <2>2 DEF Elsewhere
  <2>6. QED BY <2>1, <2>3, <2>4, <2>5 DEF Closing
<1>4. QED BY <1>2, <1>3 DEF Leaves

-----------------------------------------------------------------------------
(* Parents.                                                                *)

(* A task has one parent.                                                  *)
LEMMA OneParent ==
  ASSUME IInv, Parents, NEW t \in Task, NEW r \in Scope, NEW s \in Scope,
         IsChild(t, r), IsChild(t, s)
  PROVE  r = s
<1>1. r \in chain[r] /\ s \in chain[s] /\ r \in Token /\ s \in Token
  BY Sets DEF IInv, FreshOK
<1>2. r # t /\ s # t BY Sets
<1>3. r \in chain[s] /\ s \in chain[r] BY <1>1, <1>2 DEF IsChild
<1>4. QED BY <1>1, <1>3 DEF Parents

(* Two VMs do not join the same child.                                     *)
LEMMA OneJoiner ==
  ASSUME IInv, Parents, NEW v \in VM, NEW w \in VM, pc[v] \in Joining, pc[w] \in Joining,
         NEW i \in DOMAIN join[v].snapshot, NEW j \in DOMAIN join[w].snapshot,
         join[v].snapshot[i] = join[w].snapshot[j]
  PROVE  v = w
<1>1. Types /\ StacksOK /\ ShapeOK(v) /\ ShapeOK(w) BY DEF IInv
<1>2. join[v].snapshot[i] \in Task BY <1>1, Positions
<1>3. stack[v] # <<>> /\ stack[w] # <<>> BY <1>1, Sets DEF ShapeOK
<1>4. /\ current_scope(v) \in Scope /\ current_scope(w) \in Scope
      /\ \E k \in DOMAIN stack[v] : stack[v][k] = current_scope(v)
      /\ \E k \in DOMAIN stack[w] : stack[w][k] = current_scope(w)
  BY <1>1, <1>3, CurrentScope
<1>5. IsChild(join[v].snapshot[i], current_scope(v)) /\ IsChild(join[v].snapshot[i], current_scope(w))
  BY DEF Parents
<1>6. current_scope(v) = current_scope(w) BY <1>2, <1>4, <1>5, OneParent
<1>7. QED BY <1>1, <1>4, <1>6 DEF StacksOK

LEMMA ParentsKept ==
  ASSUME Parents, NEW v \in VM, chain' = chain, Elsewhere(v),
         \A w \in VM \ {v} : stack'[w] = stack[w],
         \A s \in Scope : \A i \in DOMAIN children'[s] : IsChild(children'[s][i], s),
         pc'[v] = "add" => IsChild(spawning'[v], (current_scope(v))'),
         pc'[v] \in Joining =>
           \A i \in DOMAIN join'[v].snapshot : IsChild(join'[v].snapshot[i], (current_scope(v))')
  PROVE  Parents'
<1>1. \A w \in VM \ {v} : (current_scope(w))' = current_scope(w) BY DEF current_scope
<1>2. (\A x, y \in Token : x \in chain[y] /\ y \in chain[x] => x = y)' BY DEF Parents
<1>3. (\A s \in Scope : \A i \in DOMAIN children[s] : IsChild(children[s][i], s))'
  BY DEF IsChild
<1>4. (\A w \in VM : pc[w] = "add" => IsChild(spawning[w], current_scope(w)))'
  BY <1>1 DEF Parents, Elsewhere, IsChild
<1>5. (\A w \in VM : pc[w] \in Joining =>
         \A i \in DOMAIN join[w].snapshot : IsChild(join[w].snapshot[i], current_scope(w)))'
  <2> SUFFICES ASSUME NEW w \in VM, pc'[w] \in Joining, NEW i \in DOMAIN join'[w].snapshot
               PROVE  IsChild(join[w].snapshot[i], current_scope(w))'
    OBVIOUS
  <2>1. CASE w = v BY <2>1 DEF IsChild
  <2>2. CASE w # v
    <3>1. pc'[w] = pc[w] /\ join'[w] = join[w] BY <2>2 DEF Elsewhere
    <3>2. IsChild(join[w].snapshot[i], current_scope(w)) BY <3>1 DEF Parents
    <3>3. QED BY <1>1, <2>2, <3>1, <3>2 DEF IsChild
  <2>3. QED BY <2>1, <2>2
<1>6. QED BY <1>2, <1>3, <1>4, <1>5 DEF Parents

LEMMA LoopFrame ==
  ASSUME IInv, NEW v \in VM, LoopAction(v)
  PROVE  /\ UNCHANGED <<scopes, chain, stack, children, spawning, unwind>> /\ Elsewhere(v)
         /\ pc[v] \in Joining /\ pc'[v] \in Joining
         /\ join'[v] \in Locals /\ join'[v].snapshot = join[v].snapshot
         /\ \/ join'[v].collected = join[v].collected
            \/ /\ join'[v].collected = join[v].collected \cup {Min(join[v].todo)}
               /\ join[v].todo # {} /\ promise[Turn(v)] # "unset"
<1>1. /\ pc[v] \in Joining /\ UNCHANGED <<scopes, chain, stack, children, spawning, unwind>>
  BY LoopShape
<1>2. PICK l \in Joining : pc' = [pc EXCEPT ![v] = l] BY LoopShape
<1>3. PICK n \in Locals :
        /\ join' = [join EXCEPT ![v] = n]
        /\ n.snapshot = join[v].snapshot
        /\ \/ n.collected = join[v].collected
           \/ /\ n.collected = join[v].collected \cup {Min(join[v].todo)}
              /\ join[v].todo # {} /\ promise[Turn(v)] # "unset"
  BY LoopShape
<1>4. pc \in [VM -> Pcs] /\ join \in [VM -> Locals] BY DEF IInv, Types
<1>5. pc'[v] = l /\ join'[v] = n BY <1>2, <1>3, <1>4
<1>6. Elsewhere(v) BY <1>1, <1>2, <1>3, <1>4 DEF Elsewhere
<1>7. QED BY <1>1, <1>3, <1>5, <1>6

LEMMA RecordFrame ==
  ASSUME IInv, NEW v \in VM, take_children(v) \/ add_child(v) \/ report_stall(v)
  PROVE  /\ UNCHANGED <<scopes, chain, stack, started, promise, complete, cancelled>>
         /\ Elsewhere(v)
         /\ stack[v] # <<>> /\ current_scope(v) \in Scope
         /\ \A s \in Scope \ {current_scope(v)} : children'[s] = children[s]
         /\ \/ /\ pc[v] = "join" /\ pc'[v] = "subscribe"
               /\ children'[current_scope(v)] = <<>>
               /\ join'[v].snapshot = children[current_scope(v)]
               /\ join'[v].todo = DOMAIN children[current_scope(v)]
               /\ join'[v].collected = {} /\ join'[v].first_error = join[v].first_error
               /\ join'[v].teardown = join[v].teardown
               /\ join'[v].abandoned = join[v].abandoned
               /\ UNCHANGED <<subs, notified, unwind>>
            \/ /\ pc[v] = "add" /\ pc'[v] = "run" /\ UNCHANGED <<join, subs, notified, unwind>>
               /\ children'[current_scope(v)] =
                    Append(children[current_scope(v)], spawning[v])
            \/ /\ pc[v] = "poll" /\ pc'[v] = "unwind" /\ join'[v] = NoLocals
               /\ children'[current_scope(v)] = join[v].snapshot
               /\ unsubscribe(v) /\ ThrowFrom(v, Len(stack[v]) - 1, "error")
<1>1. Types /\ ShapeOK(v) BY DEF IInv
<1>2. /\ pc \in [VM -> Pcs] /\ join \in [VM -> Locals] /\ unwind \in [VM -> Unwinds]
      /\ spawning \in [VM -> Task \cup {NoTask}] /\ children \in [Scope -> Seq(Task)]
      /\ join[v] \in Locals
  BY <1>1 DEF Types
<1>3. UNCHANGED <<scopes, chain, stack, started, promise, complete, cancelled>>
  BY DEF take_children, add_child, report_stall, task_state
<1>4. pc[v] \in {"join", "add", "poll"} BY DEF take_children, add_child, report_stall
<1>5. stack[v] # <<>> BY <1>1, <1>4 DEF ShapeOK, JoinPcs
<1>6. current_scope(v) \in Scope BY <1>1, <1>5, CurrentScope
<1>7. CASE take_children(v)
  <2>1. PICK c : c = children[current_scope(v)] OBVIOUS
  <2>2. PICK n : n = [join[v] EXCEPT !.snapshot = c, !.todo = DOMAIN c] OBVIOUS
  <2>3. /\ n.snapshot = c /\ n.todo = DOMAIN c /\ n.collected = join[v].collected
        /\ n.first_error = join[v].first_error /\ n.teardown = join[v].teardown
        /\ n.abandoned = join[v].abandoned
    BY <1>2, <2>2, ZenonT(40) DEF Locals
  <2>4. /\ pc[v] = "join" /\ pc' = [pc EXCEPT ![v] = "subscribe"]
        /\ join' = [join EXCEPT ![v] = n]
        /\ children' = [children EXCEPT ![current_scope(v)] = <<>>]
        /\ UNCHANGED <<subs, notified, spawning, unwind>>
    BY <1>7, <2>1, <2>2 DEF take_children, Goto
  <2>5. join[v].collected = {} BY <1>1, <2>4 DEF ShapeOK
  <2>6. Elsewhere(v) BY <1>2, <2>4 DEF Elsewhere
  <2>7. join'[v] = n /\ pc'[v] = "subscribe" BY <1>2, <2>4
  <2>8. QED BY <1>2, <1>3, <1>5, <1>6, <2>1, <2>3, <2>4, <2>5, <2>6, <2>7
<1>8. CASE add_child(v)
  <2>1. /\ pc[v] = "add" /\ pc' = [pc EXCEPT ![v] = "run"]
        /\ children' = [children EXCEPT ![current_scope(v)] =
                          Append(children[current_scope(v)], spawning[v])]
        /\ spawning' = [spawning EXCEPT ![v] = NoTask]
        /\ UNCHANGED <<subs, notified, join, unwind>>
    BY <1>8 DEF add_child, Goto
  <2>2. Elsewhere(v) BY <1>2, <2>1 DEF Elsewhere
  <2>3. QED BY <1>2, <1>3, <1>5, <1>6, <2>1, <2>2
<1>9. CASE report_stall(v)
  <2>1. /\ pc[v] = "poll" /\ ThrowFrom(v, Len(stack[v]) - 1, "error")
        /\ children' = [children EXCEPT ![current_scope(v)] = join[v].snapshot]
        /\ join' = [join EXCEPT ![v] = NoLocals]
        /\ unsubscribe(v) /\ spawning' = spawning
    BY <1>9 DEF report_stall
  <2>2. Len(stack[v]) - 1 \in Int BY <1>1, <1>5, CurrentScope
  <2>3. /\ pc' = [pc EXCEPT ![v] = "unwind"]
        /\ \E u : unwind' = [unwind EXCEPT ![v] = u]
    BY <2>1, <2>2, ThrowEffect
  <2>4. Elsewhere(v) BY <1>2, <2>1, <2>3 DEF Elsewhere
  <2>5. QED BY <1>2, <1>3, <1>5, <1>6, <2>1, <2>3, <2>4
<1>10. QED BY <1>7, <1>8, <1>9

LEMMA ReturnFrame ==
  ASSUME IInv, NEW v \in VM, join_returns(v)
  PROVE  /\ UNCHANGED <<chain, children, started, promise, complete, cancelled, unwind>>
         /\ Elsewhere(v) /\ unsubscribe(v)
         /\ stack[v] # <<>> /\ current_scope(v) \in Scope
         /\ pc[v] = "check" /\ Uncollected(v) = {} /\ join'[v] = NoLocals
         /\ pc'[v] = IF join[v].teardown THEN "unwind" ELSE "run"
         /\ join[v].teardown \/ join[v].first_error = NoTask
         /\ scopes'[current_scope(v)] = IF join[v].teardown THEN "failed" ELSE "joined"
         /\ \A s \in Scope \ {current_scope(v)} : scopes'[s] = scopes[s]
         /\ \A w \in VM \ {v} : stack'[w] = stack[w]
         /\ Len(stack'[v]) = Len(stack[v]) - 1
         /\ DOMAIN stack'[v] = 1 .. Len(stack[v]) - 1
         /\ \A i \in DOMAIN stack'[v] : stack'[v][i] = stack[v][i]
<1>1. Types /\ ShapeOK(v) BY DEF IInv
<1>2. /\ pc \in [VM -> Pcs] /\ join \in [VM -> Locals] /\ stack \in [VM -> Seq(Scope)]
      /\ scopes \in [Scope -> {"free", "open", "joined", "failed", "left"}]
  BY <1>1 DEF Types
<1>3. PICK how, l :
        /\ how = IF join[v].teardown THEN "failed" ELSE "joined"
        /\ l = IF join[v].teardown THEN "unwind" ELSE "run"
        /\ pc[v] = "check" /\ Uncollected(v) = {}
        /\ join[v].teardown \/ join[v].first_error = NoTask
        /\ scopes' = [scopes EXCEPT ![current_scope(v)] = how]
        /\ stack' = [stack EXCEPT ![v] = Front(stack[v])]
        /\ unsubscribe(v)
        /\ join' = [join EXCEPT ![v] = NoLocals]
        /\ pc' = [pc EXCEPT ![v] = l]
  BY ZenonT(40) DEF join_returns, PopScope, Goto
<1>4. UNCHANGED <<chain, children, started, promise, complete, cancelled, spawning, unwind>>
  BY DEF join_returns, task_state
<1>5. stack[v] # <<>> BY <1>1, <1>3 DEF ShapeOK, JoinPcs
<1>6. current_scope(v) \in Scope /\ Len(stack[v]) \in Nat \ {0} BY <1>1, <1>5, CurrentScope
<1>7. Elsewhere(v) BY <1>2, <1>3, <1>4 DEF Elsewhere
<1>8. /\ Len(stack'[v]) = Len(stack[v]) - 1 /\ DOMAIN stack'[v] = 1 .. Len(stack[v]) - 1
      /\ \A i \in DOMAIN stack'[v] : stack'[v][i] = stack[v][i]
  <2>1. PICK r \in Seq(Scope) : r = stack[v] BY <1>2
  <2>2. stack'[v] = Front(r) BY <1>2, <1>3, <2>1
  <2>3. Len(r) \in Nat \ {0} BY <1>6, <2>1
  <2>4. Front(r) = SubSeq(r, 1, Len(r) - 1) BY DEF Front
  <2>5. \A i \in 1 .. Len(r) - 1 : r[i] \in Scope BY <2>3, ElementOfSeq
  <2>6. /\ Front(r) \in Seq(Scope) /\ DOMAIN Front(r) = 1 .. Len(r) - 1
        /\ \A i \in 1 .. Len(r) - 1 : Front(r)[i] = r[i]
    BY <2>3, <2>4, <2>5, SubSeqProperties, LenProperties
  <2>7. Len(Front(r)) = Len(r) - 1
    <3>1. Len(Front(r)) \in Nat /\ 1 .. Len(Front(r)) = 1 .. Len(r) - 1
      BY <2>6, LenProperties
    <3>2. QED BY <2>3, <3>1
  <2>8. QED BY <2>1, <2>2, <2>6, <2>7
<1>9. QED BY <1>2, <1>3, <1>4, <1>5, <1>6, <1>7, <1>8

LEMMA ParentsHold ==
  ASSUME IInv, Parents, Next
  PROVE  Parents'
<1>1. Types /\ FreshOK /\ StacksOK /\ \A v \in VM : ShapeOK(v) BY DEF IInv
<1>2. \A s \in Scope : \A i \in DOMAIN children[s] : IsChild(children[s][i], s)
  BY DEF Parents
<1>3. ASSUME NEW v \in VM,
             \/ v \in Task /\ WorkerStep(v)
             \/ BodyAction(v) \/ Returns(v) \/ Unwound(v)
      PROVE  Parents'
  <2>1. /\ UNCHANGED <<scopes, chain, stack, children, spawning>> /\ Elsewhere(v)
        /\ pc'[v] \notin Joining \cup {"add"}
    BY <1>3, OutsideLoop
  <2>2. QED BY <1>2, <2>1, ParentsKept
<1>4. ASSUME NEW v \in VM, LoopAction(v) PROVE Parents'
  <2>1. /\ UNCHANGED <<scopes, chain, stack, children, spawning, unwind>> /\ Elsewhere(v)
        /\ pc[v] \in Joining /\ pc'[v] \in Joining
        /\ join'[v].snapshot = join[v].snapshot
    BY <1>4, LoopFrame
  <2>2. (current_scope(v))' = current_scope(v) BY <2>1 DEF current_scope
  <2>3. "add" \notin Joining BY DEF Joining, JoinPcs
  <2>4. \A i \in DOMAIN join[v].snapshot : IsChild(join[v].snapshot[i], current_scope(v))
    BY <2>1 DEF Parents
  <2>5. QED BY <1>2, <2>1, <2>2, <2>3, <2>4, ParentsKept
<1>5. ASSUME NEW v \in VM, take_children(v) \/ add_child(v) \/ report_stall(v) PROVE Parents'
  <2>1. PICK c \in Scope : c = current_scope(v) BY <1>5, RecordFrame
  <2>2. /\ chain' = chain /\ stack' = stack /\ Elsewhere(v)
        /\ \A s \in Scope \ {c} : children'[s] = children[s]
        /\ \/ /\ pc[v] = "join" /\ pc'[v] = "subscribe"
              /\ children'[c] = <<>> /\ join'[v].snapshot = children[c]
           \/ /\ pc[v] = "add" /\ pc'[v] = "run"
              /\ children'[c] = Append(children[c], spawning[v])
           \/ /\ pc[v] = "poll" /\ pc'[v] = "unwind" /\ children'[c] = join[v].snapshot
    BY <1>5, <2>1, RecordFrame
  <2>3. (current_scope(v))' = c BY <2>1, <2>2 DEF current_scope
  <2>4. "unwind" \notin Joining /\ "run" \notin Joining /\ "add" \notin Joining /\ "poll" \in Joining
    BY DEF Joining, JoinPcs
  <2>5. \A i \in DOMAIN children'[c] : IsChild(children'[c][i], c)
    <3>1. CASE children'[c] = <<>> BY <3>1, EmptySeq
    <3>2. CASE pc[v] = "add" /\ children'[c] = Append(children[c], spawning[v])
      <4>1. IsChild(spawning[v], c) BY <2>1, <3>2 DEF Parents
      <4>2. spawning[v] \in Task BY <1>1, <3>2 DEF ShapeOK
      <4>3. children[c] \in Seq(Task) BY <1>1 DEF Types
      <4>4. \A i \in DOMAIN Append(children[c], spawning[v]) :
              \/ i \in DOMAIN children[c]
                 /\ Append(children[c], spawning[v])[i] = children[c][i]
              \/ Append(children[c], spawning[v])[i] = spawning[v]
        <5>1. PICK r \in Seq(Task) : r = children[c] BY <4>3
        <5>2. Len(r) \in Nat /\ DOMAIN r = 1 .. Len(r) BY LenProperties
        <5>3. /\ DOMAIN Append(r, spawning[v]) = 1 .. Len(r) + 1
              /\ \A i \in 1 .. Len(r) : Append(r, spawning[v])[i] = r[i]
              /\ Append(r, spawning[v])[Len(r) + 1] = spawning[v]
          BY <4>2, AppendProperties, LenProperties
        <5>4. QED BY <5>1, <5>2, <5>3
      <4>5. QED BY <1>2, <3>2, <4>1, <4>4
    <3>3. CASE pc[v] = "poll" /\ children'[c] = join[v].snapshot
      BY <2>1, <2>4, <3>3 DEF Parents
    <3>4. QED BY <2>2, <3>1, <3>2, <3>3
  <2>6. \A s \in Scope : \A i \in DOMAIN children'[s] : IsChild(children'[s][i], s)
    BY <1>2, <2>2, <2>5
  <2>7. pc'[v] \in Joining =>
          \A i \in DOMAIN join'[v].snapshot : IsChild(join'[v].snapshot[i], c)
    BY <1>2, <2>2, <2>4
  <2>8. QED BY <2>2, <2>3, <2>4, <2>6, <2>7, ParentsKept
<1>6. ASSUME NEW v \in VM, join_returns(v) PROVE Parents'
  <2>1. /\ UNCHANGED <<chain, children>> /\ Elsewhere(v)
        /\ \A w \in VM \ {v} : stack'[w] = stack[w]
        /\ pc'[v] \in {"unwind", "run"}
    BY <1>6, ReturnFrame
  <2>2. pc'[v] \notin Joining \cup {"add"} BY <2>1 DEF Joining, JoinPcs
  <2>3. QED BY <1>2, <2>1, <2>2, ParentsKept
<1>7. ASSUME NEW v \in VM, NEW s \in Scope, handle_task_scope_begin(v, s) PROVE Parents'
  <2>1. /\ pc[v] = "run" /\ scopes[s] = "free"
        /\ chain' = [chain EXCEPT ![s] = {s} \cup OwnChain(v)]
        /\ stack' = [stack EXCEPT ![v] = Append(stack[v], s)]
        /\ pc' = pc /\ children' = children /\ join' = join /\ spawning' = spawning
    BY <1>7 DEF handle_task_scope_begin
  <2>2. chain \in [Token -> SUBSET Token] /\ stack \in [VM -> Seq(Scope)] BY <1>1 DEF Types
  <2>3. s \in Token /\ chain'[s] = {s} \cup OwnChain(v)
        /\ \A x \in Token \ {s} : chain'[x] = chain[x] /\ s \notin chain[x]
    BY <1>1, <2>1, <2>2, Sets DEF FreshOK
  <2>4. children[s] = <<>> BY <1>1, <2>1 DEF FreshOK
  <2>5. \A w \in VM : stack[w] # <<>> => current_scope(w) # s /\ current_scope(w) \in Scope
    BY <1>1, <2>1, CurrentScope DEF StacksOK
  <2>6. \A w \in VM \ {v} : (current_scope(w))' = current_scope(w)
    BY <2>1, <2>2 DEF current_scope
  <2>7. \A t \in Task, r \in Scope \ {s} : IsChild(t, r) => IsChild(t, r)'
    BY <2>3, Sets DEF IsChild
  <2>8. (\A x, y \in Token : x \in chain[y] /\ y \in chain[x] => x = y)'
    <3> SUFFICES ASSUME NEW x \in Token, NEW y \in Token, x \in chain'[y], y \in chain'[x]
                 PROVE  x = y
      OBVIOUS
    <3>1. CASE x = s
      <4>1. y # s => FALSE BY <2>3, <3>1
      <4>2. QED BY <3>1, <4>1
    <3>2. CASE y = s BY <2>3, <3>2
    <3>3. CASE x # s /\ y # s BY <2>3, <3>3 DEF Parents
    <3>4. QED BY <3>1, <3>2, <3>3
  <2>9. (\A r \in Scope : \A i \in DOMAIN children[r] : IsChild(children[r][i], r))'
    <3> SUFFICES ASSUME NEW r \in Scope, NEW i \in DOMAIN children[r]
                 PROVE  IsChild(children[r][i], r)'
      BY <2>1
    <3>1. r # s BY <2>4, EmptySeq
    <3>2. children[r] \in Seq(Task) BY <1>1 DEF Types
    <3>3. children[r][i] \in Task BY <3>2, ElementOfSeq, LenProperties
    <3>4. QED BY <1>2, <2>1, <2>7, <3>1, <3>3 DEF IsChild
  <2>10. (\A w \in VM : pc[w] = "add" => IsChild(spawning[w], current_scope(w)))'
    <3> SUFFICES ASSUME NEW w \in VM, pc[w] = "add"
                 PROVE  IsChild(spawning[w], current_scope(w))'
      BY <2>1
    <3>1. w # v BY <2>1
    <3>2. stack[w] # <<>> /\ spawning[w] \in Task BY <1>1 DEF ShapeOK
    <3>3. IsChild(spawning[w], current_scope(w)) BY DEF Parents
    <3>4. QED BY <2>1, <2>5, <2>6, <2>7, <3>1, <3>2, <3>3 DEF IsChild
  <2>11. (\A w \in VM : pc[w] \in Joining =>
            \A i \in DOMAIN join[w].snapshot : IsChild(join[w].snapshot[i], current_scope(w)))'
    <3> SUFFICES ASSUME NEW w \in VM, pc[w] \in Joining, NEW i \in DOMAIN join[w].snapshot
                 PROVE  IsChild(join[w].snapshot[i], current_scope(w))'
      BY <2>1
    <3>1. w # v BY <2>1 DEF Joining, JoinPcs
    <3>2. stack[w] # <<>> /\ join[w].snapshot[i] \in Task
      BY <1>1, Positions, Sets DEF ShapeOK
    <3>3. IsChild(join[w].snapshot[i], current_scope(w)) BY DEF Parents
    <3>4. QED BY <2>1, <2>5, <2>6, <2>7, <3>1, <3>2, <3>3 DEF IsChild
  <2>12. QED BY <2>8, <2>9, <2>10, <2>11 DEF Parents
<1>8. ASSUME NEW v \in VM, NEW t \in Task, handle_spawn(v, t) PROVE Parents'
  <2>1. /\ pc[v] = "run" /\ stack[v] # <<>> /\ pc[t] = "new"
        /\ chain' = [chain EXCEPT ![t] = {t} \cup chain[current_scope(v)]]
        /\ pc' = [pc EXCEPT ![v] = "add", ![t] = "queued"]
        /\ spawning' = [spawning EXCEPT ![v] = t]
        /\ stack' = stack /\ children' = children /\ join' = join
    BY <1>8 DEF handle_spawn
  <2>2. /\ chain \in [Token -> SUBSET Token] /\ pc \in [VM -> Pcs]
        /\ spawning \in [VM -> Task \cup {NoTask}]
    BY <1>1 DEF Types
  <2>3. current_scope(v) \in Scope BY <1>1, <2>1, CurrentScope
  <2>4. /\ t \in Token /\ t \in VM /\ chain'[t] = {t} \cup chain[current_scope(v)]
        /\ \A x \in Token \ {t} : chain'[x] = chain[x] /\ t \notin chain[x]
        /\ pc'[v] = "add" /\ spawning'[v] = t /\ pc'[t] = "queued"
        /\ \A w \in VM \ {v, t} : pc'[w] = pc[w] /\ spawning'[w] = spawning[w]
    BY <1>1, <2>1, <2>2, Sets DEF FreshOK
  <2>5. \A w \in VM : (current_scope(w))' = current_scope(w) BY <2>1 DEF current_scope
  <2>6. \A u \in Task \ {t}, r \in Scope : IsChild(u, r) => IsChild(u, r)'
    BY <2>4, Sets DEF IsChild
  <2>7. (\A x, y \in Token : x \in chain[y] /\ y \in chain[x] => x = y)'
    <3> SUFFICES ASSUME NEW x \in Token, NEW y \in Token, x \in chain'[y], y \in chain'[x]
                 PROVE  x = y
      OBVIOUS
    <3>1. CASE x = t BY <2>4, <3>1
    <3>2. CASE y = t BY <2>4, <3>2
    <3>3. CASE x # t /\ y # t BY <2>4, <3>3 DEF Parents
    <3>4. QED BY <3>1, <3>2, <3>3
  <2>8. (\A r \in Scope : \A i \in DOMAIN children[r] : IsChild(children[r][i], r))'
    <3> SUFFICES ASSUME NEW r \in Scope, NEW i \in DOMAIN children[r]
                 PROVE  IsChild(children[r][i], r)'
      BY <2>1
    <3>1. children[r] \in Seq(Task) BY <1>1 DEF Types
    <3>2. children[r][i] \in Task BY <3>1, ElementOfSeq, LenProperties
    <3>3. children[r][i] # t BY <1>1, <2>1 DEF FreshOK
    <3>4. IsChild(children[r][i], r) BY <1>2
    <3>5. PICK u \in Task \ {t} : u = children[r][i] BY <3>2, <3>3
    <3>6. IsChild(u, r)' BY <2>6, <3>4, <3>5
    <3>7. QED BY <2>1, <3>5, <3>6 DEF IsChild
  <2>9. (\A w \in VM : pc[w] = "add" => IsChild(spawning[w], current_scope(w)))'
    <3> SUFFICES ASSUME NEW w \in VM, pc'[w] = "add"
                 PROVE  IsChild(spawning[w], current_scope(w))'
      OBVIOUS
    <3>1. CASE w = v
      <4>1. IsChild(t, current_scope(v))'
        <5>1. current_scope(v) # t /\ current_scope(v) \in Token BY <2>3, Sets
        <5>2. QED BY <2>4, <2>5, <5>1 DEF IsChild
      <4>2. QED BY <2>4, <3>1, <4>1 DEF IsChild
    <3>2. CASE w # v
      <4>1. w # t /\ pc[w] = "add" /\ spawning'[w] = spawning[w] BY <2>4, <3>2
      <4>2. stack[w] # <<>> /\ spawning[w] \in Task /\ spawning[w] # t
        BY <1>1, <2>1, <4>1 DEF ShapeOK
      <4>3. IsChild(spawning[w], current_scope(w)) /\ current_scope(w) \in Scope
        BY <1>1, <4>1, <4>2, CurrentScope DEF Parents
      <4>4. QED BY <2>5, <2>6, <4>1, <4>2, <4>3 DEF IsChild
    <3>3. QED BY <3>1, <3>2
  <2>10. (\A w \in VM : pc[w] \in Joining =>
            \A i \in DOMAIN join[w].snapshot : IsChild(join[w].snapshot[i], current_scope(w)))'
    <3> SUFFICES ASSUME NEW w \in VM, pc'[w] \in Joining, NEW i \in DOMAIN join[w].snapshot
                 PROVE  IsChild(join[w].snapshot[i], current_scope(w))'
      BY <2>1
    <3>1. w \notin {v, t} BY <2>4 DEF Joining, JoinPcs
    <3>2. pc[w] \in Joining BY <2>4, <3>1
    <3>3. /\ stack[w] # <<>> /\ join[w].snapshot[i] \in Task
          /\ pc[join[w].snapshot[i]] # "new"
      BY <1>1, <3>2, Positions, Sets DEF ShapeOK
    <3>4. IsChild(join[w].snapshot[i], current_scope(w)) /\ current_scope(w) \in Scope
      BY <1>1, <3>2, <3>3, CurrentScope DEF Parents
    <3>5. QED BY <2>1, <2>5, <2>6, <3>3, <3>4 DEF IsChild
  <2>11. QED BY <2>7, <2>8, <2>9, <2>10 DEF Parents
<1>9. ASSUME NEW v \in VM, Leaves(v) PROVE Parents'
  <2>1. /\ UNCHANGED <<chain, children>> /\ Elsewhere(v)
        /\ \A w \in VM \ {v} : stack'[w] = stack[w]
        /\ pc'[v] \in {"destroy", "finish", "done"}
    BY <1>9, LeaveFrame
  <2>2. pc'[v] \notin Joining \cup {"add"} BY <2>1 DEF Joining, JoinPcs
  <2>3. QED BY <1>2, <2>1, <2>2, ParentsKept
<1>10. QED BY <1>3, <1>4, <1>5, <1>6, <1>7, <1>8, <1>9, StepCases, Sets DEF Leaves

(* What a step of the loop makes of the locals.                            *)
LEMMA LocalsSet ==
  ASSUME NEW r \in Locals
  PROVE  /\ \A X : LET n == [r EXCEPT !.todo = X] IN
              /\ n.todo = X /\ n.snapshot = r.snapshot /\ n.collected = r.collected
              /\ n.teardown = r.teardown /\ n.abandoned = r.abandoned
              /\ n.first_error = r.first_error
         /\ \A X, a : LET n == [r EXCEPT !.todo = X, !.abandoned = a, !.progressed = FALSE] IN
              /\ n.todo = X /\ n.snapshot = r.snapshot /\ n.collected = r.collected
              /\ n.teardown = r.teardown /\ n.abandoned = a
              /\ n.first_error = r.first_error
         /\ \A g : LET n == [r EXCEPT !.region = g] IN
              /\ n.todo = r.todo /\ n.snapshot = r.snapshot /\ n.collected = r.collected
              /\ n.teardown = r.teardown /\ n.abandoned = r.abandoned
              /\ n.first_error = r.first_error
         /\ \A X, C, f : LET n == [r EXCEPT !.todo = X, !.collected = C, !.progressed = TRUE,
                                            !.first_error = f] IN
              /\ n.todo = X /\ n.snapshot = r.snapshot /\ n.collected = C
              /\ n.teardown = r.teardown /\ n.abandoned = r.abandoned
              /\ n.first_error = f
BY DEF Locals

SameLocals(n, r) ==
  /\ n.snapshot = r.snapshot /\ n.teardown = r.teardown
SameResults(n, r) == n.collected = r.collected /\ n.first_error = r.first_error
Advances(v) ==
  /\ join'[v].todo = AfterTurn(v) /\ join'[v].abandoned = join[v].abandoned
  /\ SameResults(join'[v], join[v])
Rests(v) ==
  /\ join'[v].todo = join[v].todo /\ join'[v].abandoned = join[v].abandoned
  /\ SameResults(join'[v], join[v])

LEMMA LoopLocals ==
  ASSUME IInv, NEW v \in VM, LoopAction(v)
  PROVE  /\ SameLocals(join'[v], join[v])
         /\ subscribe_child(v) \/ abandon_notify(v) => Advances(v)
         /\ subscribed(v) \/ abandon_handler(v) \/ poll_again(v) \/ wait_for_children(v) \/ wake(v)
              => Rests(v)
         /\ abandon_unstarted_if_cancelled(v) =>
              /\ join'[v].todo = Uncollected(v) /\ SameResults(join'[v], join[v])
              /\ join'[v].abandoned = (join[v].abandoned \/ MustAbandon(v))
         /\ abandon_exchange(v) => IF started[Turn(v)] THEN Advances(v) ELSE Rests(v)
         /\ abandon_done(v) =>
              /\ join'[v].todo = Uncollected(v) /\ SameResults(join'[v], join[v])
              /\ join'[v].abandoned = join[v].abandoned
         /\ poll_child(v) =>
              IF promise[Turn(v)] = "unset" THEN Advances(v)
              ELSE /\ join'[v].todo = AfterTurn(v) /\ join'[v].abandoned = join[v].abandoned
                   /\ join'[v].collected = join[v].collected \cup {Min(join[v].todo)}
                   /\ join'[v].first_error =
                        IF promise[Turn(v)] = "error" /\ join[v].first_error = NoTask
                          THEN Turn(v) ELSE join[v].first_error
<1>1. join \in [VM -> Locals] /\ join[v] \in Locals BY DEF IInv, Types
<1>2. ASSUME join' = join PROVE SameLocals(join'[v], join[v]) /\ Rests(v)
  BY <1>2 DEF SameLocals, SameResults, Rests
<1>3. ASSUME join' = [join EXCEPT ![v].todo = AfterTurn(v)]
      PROVE  SameLocals(join'[v], join[v]) /\ Advances(v)
  <2>1. PICK X : X = AfterTurn(v) OBVIOUS
  <2>2. join'[v] = [join[v] EXCEPT !.todo = X] BY <1>1, <1>3, <2>1
  <2>3. QED BY <1>1, <2>1, <2>2, LocalsSet DEF SameLocals, SameResults, Advances
<1>4. ASSUME EnterRegion(v) PROVE SameLocals(join'[v], join[v]) /\ Rests(v)
  <2>1. PICK g : join'[v] = [join[v] EXCEPT !.region = g]
    BY <1>1, <1>4 DEF EnterRegion
  <2>2. QED BY <1>1, <2>1, LocalsSet DEF SameLocals, SameResults, Rests
<1>5. subscribe_child(v) \/ abandon_notify(v) => SameLocals(join'[v], join[v]) /\ Advances(v)
  BY <1>3 DEF subscribe_child, abandon_notify
<1>6. \/ subscribed(v) \/ abandon_handler(v) \/ poll_again(v)
      \/ wait_for_children(v) \/ wake(v)
      => SameLocals(join'[v], join[v]) /\ Rests(v)
  BY <1>2, <1>4 DEF subscribed, abandon_handler, poll_again, wait_for_children, wake
<1>7. abandon_exchange(v) =>
        /\ SameLocals(join'[v], join[v])
        /\ IF started[Turn(v)] THEN Advances(v) ELSE Rests(v)
  BY <1>2, <1>3 DEF abandon_exchange
<1>8. abandon_unstarted_if_cancelled(v) =>
        /\ SameLocals(join'[v], join[v])
        /\ join'[v].todo = Uncollected(v) /\ SameResults(join'[v], join[v])
        /\ join'[v].abandoned = (join[v].abandoned \/ MustAbandon(v))
  <2> SUFFICES ASSUME abandon_unstarted_if_cancelled(v)
               PROVE  /\ SameLocals(join'[v], join[v])
                      /\ join'[v].todo = Uncollected(v) /\ SameResults(join'[v], join[v])
                      /\ join'[v].abandoned = (join[v].abandoned \/ MustAbandon(v))
    OBVIOUS
  <2>1. PICK X, a : X = Uncollected(v) /\ a = (join[v].abandoned \/ MustAbandon(v)) OBVIOUS
  <2>2. join'[v] = [join[v] EXCEPT !.todo = X, !.abandoned = a, !.progressed = FALSE]
    BY <1>1, <2>1 DEF abandon_unstarted_if_cancelled
  <2>3. LET n == [join[v] EXCEPT !.todo = X, !.abandoned = a, !.progressed = FALSE] IN
        /\ n.todo = X /\ n.snapshot = join[v].snapshot /\ n.collected = join[v].collected
        /\ n.teardown = join[v].teardown /\ n.abandoned = a
        /\ n.first_error = join[v].first_error
    BY <1>1, LocalsSet
  <2>4. QED BY <2>1, <2>2, <2>3 DEF SameLocals, SameResults
<1>9. abandon_done(v) =>
        /\ SameLocals(join'[v], join[v])
        /\ join'[v].todo = Uncollected(v) /\ SameResults(join'[v], join[v])
        /\ join'[v].abandoned = join[v].abandoned
  <2> SUFFICES ASSUME abandon_done(v)
               PROVE  /\ SameLocals(join'[v], join[v])
                      /\ join'[v].todo = Uncollected(v) /\ SameResults(join'[v], join[v])
                      /\ join'[v].abandoned = join[v].abandoned
    OBVIOUS
  <2>1. PICK X : X = Uncollected(v) OBVIOUS
  <2>2. join'[v] = [join[v] EXCEPT !.todo = X] BY <1>1, <2>1 DEF abandon_done
  <2>3. QED BY <1>1, <2>1, <2>2, LocalsSet DEF SameLocals, SameResults
<1>10. poll_child(v) =>
         /\ SameLocals(join'[v], join[v])
         /\ IF promise[Turn(v)] = "unset" THEN Advances(v)
            ELSE /\ join'[v].todo = AfterTurn(v) /\ join'[v].abandoned = join[v].abandoned
                 /\ join'[v].collected = join[v].collected \cup {Min(join[v].todo)}
                 /\ join'[v].first_error =
                      IF promise[Turn(v)] = "error" /\ join[v].first_error = NoTask
                        THEN Turn(v) ELSE join[v].first_error
  <2>1. CASE promise[Turn(v)] = "unset" BY <1>3, <2>1 DEF poll_child
  <2>2. ASSUME promise[Turn(v)] # "unset", poll_child(v)
        PROVE  /\ SameLocals(join'[v], join[v])
               /\ join'[v].todo = AfterTurn(v) /\ join'[v].abandoned = join[v].abandoned
               /\ join'[v].collected = join[v].collected \cup {Min(join[v].todo)}
               /\ join'[v].first_error =
                    IF promise[Turn(v)] = "error" /\ join[v].first_error = NoTask
                      THEN Turn(v) ELSE join[v].first_error
    <3>1. PICK X, C, f :
            /\ X = AfterTurn(v) /\ C = join[v].collected \cup {Min(join[v].todo)}
            /\ f = IF promise[Turn(v)] = "error" /\ join[v].first_error = NoTask
                     THEN Turn(v) ELSE join[v].first_error
      OBVIOUS
    <3>2. join'[v] = [join[v] EXCEPT !.todo = X, !.collected = C, !.progressed = TRUE,
                                     !.first_error = f]
      BY <1>1, <2>2, <3>1 DEF poll_child
    <3>3. LET n == [join[v] EXCEPT !.todo = X, !.collected = C, !.progressed = TRUE,
                                   !.first_error = f] IN
          /\ n.todo = X /\ n.snapshot = join[v].snapshot /\ n.collected = C
          /\ n.teardown = join[v].teardown /\ n.abandoned = join[v].abandoned
          /\ n.first_error = f
      BY <1>1, LocalsSet
    <3>4. QED BY <3>1, <3>2, <3>3 DEF SameLocals
  <2>3. QED BY <2>1, <2>2
<1>11. QED BY <1>5, <1>6, <1>7, <1>8, <1>9, <1>10 DEF LoopAction

-----------------------------------------------------------------------------
(* Signals.                                                                *)

(* A step of v takes no subscription away from anybody else and clears     *)
(* nobody else's flag, except of a task it completes.                      *)
Telling(v) ==
  /\ \A t \in Task : complete[t] => complete'[t]
  /\ \A w \in VM \ {v} : notified[w] => notified'[w]
  /\ \A w \in VM \ {v}, t \in Task :
       w \in subs[t] => w \in subs'[t] \/ (complete'[t] /\ notified'[w])

LEMMA Tells ==
  ASSUME Types, NEW v \in VM,
         \/ UNCHANGED <<complete, subs, notified>>
         \/ \E t \in Task : mark_complete(t)
         \/ UNCHANGED complete /\ unsubscribe(v)
         \/ \E t \in Task : UNCHANGED complete /\ subscribe(v, t)
         \/ UNCHANGED <<complete, subs>> /\ notified' = [notified EXCEPT ![v] = FALSE]
  PROVE  Telling(v)
<1>1. /\ complete \in [Task -> BOOLEAN] /\ subs \in [Task -> SUBSET VM]
      /\ notified \in [VM -> BOOLEAN]
  BY DEF Types
<1>2. CASE UNCHANGED <<complete, subs, notified>> BY <1>2 DEF Telling
<1>3. ASSUME NEW t \in Task, mark_complete(t) PROVE Telling(v)
  <2>1. \A u \in Task : complete[u] => complete'[u] BY <1>1, <1>3 DEF mark_complete
  <2>2. \A w \in VM : notified'[w] = (notified[w] \/ w \in subs[t]) BY <1>3 DEF mark_complete
  <2>3. complete'[t] BY <1>1, <1>3 DEF mark_complete
  <2>4. \A u \in Task \ {t} : subs'[u] = subs[u] BY <1>1, <1>3 DEF mark_complete
  <2>5. QED BY <2>1, <2>2, <2>3, <2>4 DEF Telling
<1>4. CASE UNCHANGED complete /\ unsubscribe(v)
  <2>1. \A w \in VM \ {v} : notified'[w] = notified[w] BY <1>1, <1>4 DEF unsubscribe
  <2>2. \A t \in Task : subs'[t] = subs[t] \ {v} BY <1>4 DEF unsubscribe
  <2>3. QED BY <1>4, <2>1, <2>2 DEF Telling
<1>5. ASSUME NEW t \in Task, UNCHANGED complete, subscribe(v, t) PROVE Telling(v)
  <2>1. \A w \in VM \ {v} : notified'[w] = notified[w] BY <1>1, <1>5 DEF subscribe
  <2>2. \A u \in Task : subs[u] \subseteq subs'[u] BY <1>1, <1>5 DEF subscribe
  <2>3. QED BY <1>5, <2>1, <2>2 DEF Telling
<1>6. CASE UNCHANGED <<complete, subs>> /\ notified' = [notified EXCEPT ![v] = FALSE]
  BY <1>1, <1>6 DEF Telling
<1>7. QED BY <1>2, <1>3, <1>4, <1>5, <1>6

(* Whoever does not take part keeps its subscriptions: what is set under   *)
(* its eyes is set by a worker that has still to notify.                   *)
Watched(w) == Subscribed(w) /\ Watching(w) /\ (pc[w] = "sleep" => join[w].todo = {})

LEMMA WatcherKept ==
  ASSUME IInv, Signals, NEW v \in VM, NEW w \in VM, w # v, Telling(v),
         pc'[w] = pc[w], join'[w] = join[w],
         pc[w] \in Joining => \A i \in Uncollected(w) :
           \/ promise'[join[w].snapshot[i]] = promise[join[w].snapshot[i]]
           \/ /\ pc'[join[w].snapshot[i]] \in Closing /\ ~complete[join[w].snapshot[i]]
              /\ subs' = subs,
         \A t \in Task : pc[t] \in Closing /\ w \in subs[t] =>
                           \/ notified'[w]
                           \/ pc'[t] \in Closing /\ w \in subs'[t]
  PROVE  Watched(w)'
<1>1. Subscribed(w) /\ Watching(w) /\ (pc[w] = "sleep" => join[w].todo = {}) BY DEF Signals
<1>2. Uncollected(w)' = Uncollected(w) BY DEF Uncollected
<1>3. ShapeOK(w) /\ Types BY DEF IInv
<1>4. \A i \in Uncollected(w) : join[w].snapshot[i] \in Task
  BY <1>3, Positions DEF Uncollected
<1>5. Subscribed(w)'
  BY <1>1, <1>2, <1>4 DEF Subscribed, Telling
<1>6. Watching(w)'
  <2> SUFFICES ASSUME pc[w] \in {"poll", "sleep"}, NEW i \in Uncollected(w),
                      NEW t \in Task, t = join[w].snapshot[i]
               PROVE  \/ promise'[t] = "unset"
                      \/ pc[w] = "poll" /\ i \in join[w].todo
                      \/ notified'[w]
                      \/ pc'[t] \in Closing /\ w \in subs'[t]
    BY <1>2, <1>4 DEF Watching
  <2>0. pc[w] \in Joining BY DEF Joining, JoinPcs
  <2>1. \/ promise[t] = "unset"
        \/ pc[w] = "poll" /\ i \in join[w].todo
        \/ notified[w]
        \/ pc[t] \in Closing /\ w \in subs[t]
    BY <1>1 DEF Watching
  <2>2. CASE promise[t] = "unset" /\ promise'[t] # promise[t]
    <3>1. pc'[t] \in Closing /\ ~complete[t] /\ subs' = subs BY <2>0, <2>2
    <3>2. pc[w] # "subscribe" OBVIOUS
    <3>3. w \in subs[t] BY <1>1, <2>0, <3>1, <3>2 DEF Subscribed
    <3>4. QED BY <3>1, <3>3
  <2>3. CASE promise[t] = "unset" /\ promise'[t] = promise[t] BY <2>3
  <2>4. CASE notified[w] BY <2>4 DEF Telling
  <2>5. CASE pc[t] \in Closing /\ w \in subs[t] BY <2>5
  <2>6. QED BY <2>1, <2>2, <2>3, <2>4, <2>5
<1>7. QED BY <1>1, <1>5, <1>6 DEF Watched

(* The own subscriptions of a VM outside the loop are of no concern.       *)
LEMMA Unwatched ==
  ASSUME NEW v \in VM, pc[v] \notin Joining
  PROVE  Watched(v)
BY DEF Watched, Subscribed, Watching, Joining, JoinPcs

LEMMA SignalsAre == Signals <=> (\A t \in Task : Finished(t)) /\ (\A v \in VM : Watched(v))
BY DEF Signals, Watched

LEMMA WorkerSignals ==
  ASSUME IInv, Signals, NEW v \in Task, WorkerStep(v)
  PROVE  Signals'
<1>1. v \in VM /\ Types /\ PromiseOK(v) /\ Finished(v) BY Sets DEF IInv, Signals
<1>2. /\ Elsewhere(v) /\ pc'[v] \notin Joining BY <1>1, OutsideLoop
<1>3. /\ pc \in [VM -> Pcs] /\ started \in [Task -> BOOLEAN] /\ complete \in [Task -> BOOLEAN]
      /\ promise \in [Task -> {"unset", "value", "error", "cancelled"}]
  BY <1>1 DEF Types
<1>4. /\ \A u \in Task \ {v} : started'[u] = started[u] /\ promise'[u] = promise[u]
                               /\ complete'[u] = complete[u]
      /\ started[v] => started'[v]
  <2>1. CASE fetch(v) BY <2>1 DEF fetch, task_state
  <2>2. CASE claim_start(v) BY <1>3, <2>2 DEF claim_start
  <2>3. CASE start_task(v) BY <1>3, <2>3 DEF start_task, Resolve
  <2>4. CASE notify_completion(v) BY <1>3, <2>4 DEF notify_completion, mark_complete
  <2>5. QED BY <2>1, <2>2, <2>3, <2>4 DEF WorkerStep
<1>5. /\ notify_completion(v) => pc[v] = "finish" /\ pc'[v] = "done" /\ mark_complete(v)
                                 /\ complete'[v] /\ UNCHANGED <<promise, started>>
      /\ ~notify_completion(v) => /\ UNCHANGED <<complete, subs, notified>>
                                  /\ pc[v] # "finish" /\ pc'[v] # "done"
      /\ pc'[v] = "finish" => started'[v]
      /\ promise'[v] # promise[v] => pc[v] = "claimed" /\ pc'[v] = "finish"
      /\ pc[v] \in {"queued", "dequeued", "claimed", "finish"}
      /\ pc'[v] \in {"dequeued", "claimed", "run", "finish", "done"}
      /\ started[v] /\ pc[v] \in {"queued", "dequeued", "finish"} => pc'[v] \in {"dequeued", "finish", "done"}
  <2>1. CASE fetch(v) BY <1>3, <1>1, <2>1 DEF fetch, notify_completion, Goto, task_state
  <2>2. CASE claim_start(v) BY <1>3, <1>1, <2>2 DEF claim_start, notify_completion, Goto
  <2>3. CASE start_task(v)
    BY <1>3, <1>1, <2>3 DEF start_task, notify_completion, Goto, PromiseOK
  <2>4. CASE notify_completion(v)
    BY <1>3, <1>1, <2>4 DEF notify_completion, Goto, mark_complete
  <2>5. QED BY <2>1, <2>2, <2>3, <2>4 DEF WorkerStep
<1>6. Telling(v) BY <1>1, <1>5, Tells
<1>7. complete[v] => started[v] /\ pc[v] \in {"queued", "dequeued", "finish"}
  BY <1>1, <1>5 DEF Finished, Resting
<1>8. Finished(v)'
  <2>1. CASE notify_completion(v)
    <3>1. started[v] /\ pc'[v] = "done" BY <1>1, <1>5, <2>1 DEF Finished
    <3>2. started'[v] BY <1>4, <3>1
    <3>3. QED BY <3>1, <3>2 DEF Finished, Resting
  <2>2. CASE ~notify_completion(v)
    <3>1. complete'[v] => started'[v] /\ pc'[v] \in Resting
      BY <1>4, <1>5, <1>7, <2>2 DEF Resting
    <3>2. QED BY <1>5, <2>2, <3>1 DEF Finished
  <2>3. QED BY <2>1, <2>2
<1>9. \A t \in Task : Finished(t)'
  <2>1. ASSUME NEW t \in Task, t # v PROVE Finished(t)'
    BY <1>2, <1>4, <2>1, Sets DEF Finished, Signals, Elsewhere
  <2>2. QED BY <1>8, <2>1
<1>10. \A w \in VM : Watched(w)'
  <2>1. ASSUME NEW w \in VM, w # v PROVE Watched(w)'
    <3>1. \A t \in Task : promise'[t] = promise[t]
                          \/ (pc'[t] \in Closing /\ ~complete[t] /\ subs' = subs)
      BY <1>4, <1>5, <1>7 DEF Closing
    <3>2. \A i \in Uncollected(w) : join[w].snapshot[i] \in Task
      BY <2>1, Positions DEF Uncollected, IInv
    <3>3. \A t \in Task : pc[t] \in Closing /\ w \in subs[t] =>
                           notified'[w] \/ (pc'[t] \in Closing /\ w \in subs'[t])
      <4>1. ASSUME NEW t \in Task, pc[t] \in Closing, w \in subs[t]
            PROVE  notified'[w] \/ (pc'[t] \in Closing /\ w \in subs'[t])
        <5>1. CASE notify_completion(v)
          <6>1. mark_complete(v) BY <1>5, <5>1
          <6>2. CASE t = v BY <4>1, <6>1, <6>2 DEF mark_complete
          <6>3. CASE t # v
            <7>1. subs'[t] = subs[t] BY <6>1, <6>3, <1>1 DEF mark_complete, Types
            <7>2. pc'[t] = pc[t] BY <1>2, <6>3, Sets DEF Elsewhere
            <7>3. QED BY <4>1, <7>1, <7>2
          <6>4. QED BY <6>2, <6>3
        <5>2. CASE ~notify_completion(v)
          <6>1. t # v /\ subs' = subs BY <1>5, <4>1, <5>2 DEF Closing
          <6>2. pc'[t] = pc[t] BY <1>2, <6>1, Sets DEF Elsewhere
          <6>3. QED BY <4>1, <6>1, <6>2
        <5>3. QED BY <5>1, <5>2
      <4>2. QED BY <4>1
    <3>4. pc'[w] = pc[w] /\ join'[w] = join[w] BY <1>2, <2>1 DEF Elsewhere
    <3>5. QED BY <1>1, <1>6, <2>1, <3>1, <3>2, <3>3, <3>4, WatcherKept
  <2>2. Watched(v)' BY <1>1, <1>2 DEF Watched, Subscribed, Watching, Joining, JoinPcs
  <2>3. QED BY <2>1, <2>2
<1>11. QED BY <1>9, <1>10 DEF Signals, Watched

LEMMA BodySignals ==
  ASSUME IInv, Signals, NEW v \in VM, BodyAction(v) \/ Returns(v) \/ Unwound(v)
  PROVE  Signals'
<1>1. Types /\ (v \in Task => PromiseOK(v) /\ Finished(v)) BY DEF IInv, Signals
<1>2. /\ Elsewhere(v) /\ pc'[v] \notin Joining BY OutsideLoop
<1>3. /\ pc \in [VM -> Pcs] /\ promise \in [Task -> {"unset", "value", "error", "cancelled"}]
  BY <1>1 DEF Types
<1>4. /\ started' = started /\ complete' = complete
      /\ pc[v] \in {"run", "unwind", "race_subscribe", "race_poll", "race_sleep", "check", "await"}
  BY DEF BodyAction, cancel_task, throw_error, check_cancellation, handle_task_scope_end,
         retire_task_scope, join_throws, race, race_subscribe, race_poll, race_throws,
         race_wait, race_wake, Returns, return_value, Unwound, handle_await, await_returns,
         await_throws, tree, task_state
<1>5. pc[v] \in BodyPcs /\ pc[v] \notin Resting
  BY <1>4 DEF BodyPcs, JoinPcs, RacePcs, Resting
<1>6. \/ BodyAction(v) /\ promise' = promise
      \/ /\ UNCHANGED <<subs, notified>>
         /\ \/ promise' = promise
            \/ v \in Task /\ pc'[v] = "finish" /\ \A u \in Task \ {v} : promise'[u] = promise[u]
  <2>1. CASE BodyAction(v)
    BY <2>1 DEF BodyAction, cancel_task, throw_error, check_cancellation, handle_task_scope_end,
         retire_task_scope, join_throws, race, race_subscribe, race_poll, race_throws,
         race_wait, race_wake, handle_await, await_returns, await_throws, tree, task_state
  <2>2. CASE Returns(v)
    <3>1. /\ Goto(v, Ended(v)) /\ UNCHANGED <<subs, notified>>
          /\ IF v = Main THEN UNCHANGED promise ELSE Resolve(v, "value")
      BY <1>1, <2>2, ReturnsQuietly DEF Returns, return_value
    <3>2. QED BY <1>3, <3>1 DEF Resolve, Goto, VM, Ended
  <2>3. CASE Unwound(v)
    <3>1. UNCHANGED <<subs, notified>> BY <2>3 DEF Unwound
    <3>2. \/ promise' = promise
          \/ /\ v # Main /\ Goto(v, "finish")
             /\ Resolve(v, IF is_cancelled(v) THEN "cancelled" ELSE unwind[v].outcome)
      BY <2>3, Zenon DEF Unwound
    <3>3. QED BY <1>3, <3>1, <3>2 DEF Resolve, Goto, VM
  <2>4. QED BY <2>1, <2>2, <2>3
<1>7. Telling(v)
  <2>1. \/ UNCHANGED <<subs, notified>>
        \/ unsubscribe(v)
        \/ \E t \in Task : subscribe(v, t)
        \/ subs' = subs /\ notified' = [notified EXCEPT ![v] = FALSE]
    <3>1. CASE race_subscribe(v)
      <4>1. CASE join[v].todo # {}
        <5>1. ShapeOK(v) BY DEF IInv
        <5>2. Turn(v) \in Task BY <1>1, <4>1, <5>1, Positions
        <5>3. subscribe(v, Turn(v)) BY <3>1, <4>1 DEF race_subscribe
        <5>4. QED BY <5>2, <5>3
      <4>2. CASE join[v].todo = {} BY <3>1, <4>2 DEF race_subscribe
      <4>3. QED BY <4>1, <4>2
    <3>2. CASE race_poll(v) BY <3>2 DEF race_poll, EndRace
    <3>3. CASE race_throws(v) BY <3>3 DEF race_throws, EndRace
    <3>4. CASE race_wake(v) BY <3>4 DEF race_wake
    <3>5. CASE join_throws(v) BY <3>5 DEF join_throws
    <3>6. CASE \/ \E t \in Task : cancel_task(v, t)
               \/ throw_error(v) \/ check_cancellation(v) \/ handle_task_scope_end(v)
               \/ retire_task_scope(v)
               \/ \E R \in SUBSET Task : race(v, R)
               \/ race_wait(v)
               \/ \E t \in Task : handle_await(v, t)
               \/ await_returns(v) \/ await_throws(v)
      BY <3>6 DEF handle_await, await_returns, await_throws, cancel_task, throw_error, check_cancellation, handle_task_scope_end,
         retire_task_scope, race, race_wait, tree, task_state
    <3>7. QED BY <1>6, <3>1, <3>2, <3>3, <3>4, <3>5, <3>6 DEF BodyAction, Returns, return_value, Unwound
  <2>2. QED BY <1>1, <1>4, <2>1, Tells
<1>8. \A t \in Task : Finished(t)'
  <2>1. ASSUME NEW t \in Task, t # v PROVE Finished(t)'
    BY <1>2, <1>4, <2>1, Sets DEF Finished, Signals, Elsewhere
  <2>2. ASSUME v \in Task PROVE Finished(v)'
    BY <1>1, <1>4, <1>5, <2>2 DEF Finished, PromiseOK
  <2>3. QED BY <2>1, <2>2
<1>9. \A w \in VM : Watched(w)'
  <2>1. ASSUME NEW w \in VM, w # v PROVE Watched(w)'
    <3>1. \A t \in Task : promise'[t] = promise[t]
                          \/ (pc'[t] \in Closing /\ ~complete[t] /\ subs' = subs)
      BY <1>1, <1>5, <1>6 DEF Finished, Closing
    <3>2. \A i \in Uncollected(w) : join[w].snapshot[i] \in Task
      BY <2>1, Positions DEF Uncollected, IInv
    <3>3. \A t \in Task : pc[t] \in Closing /\ w \in subs[t] =>
                           notified'[w] \/ (pc'[t] \in Closing /\ w \in subs'[t])
      <4>1. ASSUME NEW t \in Task, pc[t] \in Closing, w \in subs[t]
            PROVE  notified'[w] \/ (pc'[t] \in Closing /\ w \in subs'[t])
        <5>1. t # v BY <1>4, <4>1 DEF Closing
        <5>2. pc'[t] \in Closing BY <1>2, <4>1, <5>1, Sets DEF Elsewhere
        <5>3. QED BY <1>7, <2>1, <4>1, <5>2 DEF Telling
      <4>2. QED BY <4>1
    <3>4. pc'[w] = pc[w] /\ join'[w] = join[w] BY <1>2, <2>1 DEF Elsewhere
    <3>5. QED BY <1>7, <2>1, <3>1, <3>2, <3>3, <3>4, WatcherKept
  <2>2. Watched(v)' BY <1>2 DEF Watched, Subscribed, Watching, Joining, JoinPcs
  <2>3. QED BY <2>1, <2>2
<1>10. QED BY <1>8, <1>9 DEF Signals, Watched

(* A step of code that runs, and sets no promise of a child of others.     *)
LEMMA StepSignals ==
  ASSUME IInv, Signals, NEW v \in VM, Elsewhere(v), Telling(v),
         pc[v] \in BodyPcs, pc'[v] \in BodyPcs,
         \A t \in Task : started[t] => started'[t],
         \A t \in Task : complete'[t] => complete[t] \/ (started[t] /\ pc[t] \in Resting),
         \A w \in VM \ {v} : pc[w] \in Joining =>
           \A i \in Uncollected(w) : promise'[join[w].snapshot[i]] = promise[join[w].snapshot[i]],
         \A w \in VM \ {v}, t \in Task : w \in subs[t] => w \in subs'[t] \/ notified'[w],
         Watched(v)'
  PROVE  Signals'
<1>1. \A t \in Task : Finished(t) BY DEF Signals
<1>2. pc[v] \notin Resting /\ pc'[v] \notin {"destroy", "finish", "done"} BY Sets DEF Resting
<1>3. \A t \in Task : Finished(t)'
  <2>1. ASSUME NEW t \in Task, t # v PROVE Finished(t)'
    <3>1. pc'[t] = pc[t] BY <2>1, Sets DEF Elsewhere
    <3>2. QED BY <1>1, <3>1 DEF Finished
  <2>2. ASSUME v \in Task PROVE Finished(v)' BY <1>1, <1>2, <2>2 DEF Finished
  <2>3. QED BY <2>1, <2>2
<1>4. ASSUME NEW w \in VM, w # v PROVE Watched(w)'
  <2>1. pc'[w] = pc[w] /\ join'[w] = join[w] BY <1>4 DEF Elsewhere
  <2>2. ASSUME NEW t \in Task, pc[t] \in Closing, w \in subs[t]
        PROVE  notified'[w] \/ (pc'[t] \in Closing /\ w \in subs'[t])
    <3>1. t # v BY <1>2, <2>2 DEF Resting, Closing
    <3>2. pc'[t] \in Closing BY <2>2, <3>1, Sets DEF Elsewhere
    <3>3. QED BY <1>4, <2>2, <3>2
  <2>3. QED BY <1>4, <2>1, <2>2, WatcherKept
<1>5. QED BY <1>3, <1>4 DEF Signals, Watched

LEMMA LoopWatched ==
  ASSUME IInv, Signals, NEW v \in VM, LoopAction(v)
  PROVE  Watched(v)'
<1>1. /\ Types /\ ShapeOK(v) /\ Subscribed(v) /\ Watching(v) BY DEF IInv, Signals
<1>2. pc[v] \in Joining /\ join'[v].snapshot = join[v].snapshot BY LoopFrame
<1>3. /\ pc \in [VM -> Pcs] /\ complete \in [Task -> BOOLEAN]
      /\ promise \in [Task -> {"unset", "value", "error", "cancelled"}]
      /\ subs \in [Task -> SUBSET VM] /\ notified \in [VM -> BOOLEAN]
  BY <1>1 DEF Types
<1>4. \A i \in DOMAIN join[v].snapshot : join[v].snapshot[i] \in Task BY <1>1, Positions
<1>5. join[v].todo # {} => /\ Min(join[v].todo) \in DOMAIN join[v].snapshot
                           /\ Turn(v) \in Task
  BY <1>1, Positions
<1>6. \A i \in Uncollected(v) : i \in DOMAIN join[v].snapshot BY DEF Uncollected
<1>7. \A i \in Uncollected(v) :
        \/ pc[v] = "subscribe" /\ i \in join[v].todo
        \/ complete[join[v].snapshot[i]]
        \/ v \in subs[join[v].snapshot[i]]
  BY <1>1, <1>2 DEF Subscribed
(* The subscriptions: nothing but the passing of a turn takes one away.    *)
<1>8. ASSUME Uncollected(v)' \subseteq Uncollected(v), pc'[v] # "subscribe",
             pc[v] = "subscribe" => join[v].todo = {},
             UNCHANGED <<complete, subs>> \/ \E t \in Task : mark_complete(t)
      PROVE  Subscribed(v)'
  <2> SUFFICES ASSUME NEW i \in Uncollected(v)
               PROVE  complete'[join[v].snapshot[i]] \/ v \in subs'[join[v].snapshot[i]]
    BY <1>2, <1>8 DEF Subscribed
  <2>1. complete[join[v].snapshot[i]] \/ v \in subs[join[v].snapshot[i]] BY <1>7, <1>8
  <2>2. join[v].snapshot[i] \in Task BY <1>4, <1>6
  <2>3. CASE UNCHANGED <<complete, subs>> BY <2>1, <2>3
  <2>4. ASSUME NEW t \in Task, mark_complete(t)
        PROVE  complete'[join[v].snapshot[i]] \/ v \in subs'[join[v].snapshot[i]]
    BY <1>3, <2>1, <2>2, <2>4 DEF mark_complete
  <2>5. QED BY <1>8, <2>3, <2>4
<1>9. ASSUME SameResults(join'[v], join[v]) PROVE Uncollected(v)' = Uncollected(v)
  BY <1>2, <1>9 DEF Uncollected, SameResults
<1>10. ASSUME pc'[v] \notin {"poll", "sleep"} PROVE Watching(v)' /\ (pc'[v] = "sleep" => join'[v].todo = {})
  BY <1>10 DEF Watching
<1>11. CASE subscribe_child(v)
  <2>1. /\ pc[v] = "subscribe" /\ pc' = pc /\ complete' = complete /\ join[v].todo # {}
        /\ subscribe(v, Turn(v))
    BY <1>11 DEF subscribe_child, task_state
  <2>2. Advances(v) BY <1>11, LoopLocals
  <2>3. /\ Uncollected(v)' = Uncollected(v) /\ join'[v].todo = AfterTurn(v)
    BY <1>9, <2>2 DEF Advances
  <2>4. ASSUME NEW i \in Uncollected(v)
        PROVE  \/ i \in join'[v].todo
               \/ complete'[join[v].snapshot[i]]
               \/ v \in subs'[join[v].snapshot[i]]
    <3>1. CASE i \in join[v].todo /\ i # Min(join[v].todo) BY <2>3, <3>1 DEF AfterTurn
    <3>2. CASE i = Min(join[v].todo)
      <4>1. Turn(v) = join[v].snapshot[i] BY <3>2 DEF Turn
      <4>2. QED BY <1>3, <1>5, <2>1, <4>1 DEF subscribe
    <3>3. CASE complete[join[v].snapshot[i]] \/ v \in subs[join[v].snapshot[i]]
      <4>1. \A t \in Task : subs[t] \subseteq subs'[t] BY <1>3, <1>5, <2>1 DEF subscribe
      <4>2. QED BY <1>4, <1>6, <2>1, <3>3, <4>1
    <3>4. QED BY <1>7, <3>1, <3>2, <3>3
  <2>5. Subscribed(v)' BY <1>2, <2>1, <2>3, <2>4 DEF Subscribed
  <2>6. QED BY <1>10, <2>1, <2>5 DEF Watched
<1>12. CASE subscribed(v) \/ poll_again(v) \/ wake(v)
  <2>1. /\ pc'[v] = "check" /\ UNCHANGED <<complete, subs>>
        /\ pc[v] = "subscribe" => join[v].todo = {}
    BY <1>3, <1>12 DEF subscribed, poll_again, wake, Goto, task_state
  <2>2. Rests(v) BY <1>12, LoopLocals
  <2>3. Uncollected(v)' = Uncollected(v) BY <1>9, <2>2 DEF Rests
  <2>4. QED BY <1>8, <1>10, <2>1, <2>3 DEF Watched
<1>13. CASE abandon_exchange(v) \/ abandon_handler(v) \/ abandon_notify(v)
  <2>1. /\ pc'[v] \in {"exchange", "handler", "notify"} /\ pc[v] # "subscribe"
        /\ UNCHANGED <<complete, subs>> \/ mark_complete(Turn(v))
        /\ pc[v] \in {"exchange", "handler", "notify"}
    BY <1>3, <1>13 DEF abandon_exchange, abandon_handler, abandon_notify, Goto
  <2>2. Advances(v) \/ Rests(v) BY <1>13, LoopLocals
  <2>3. Uncollected(v)' = Uncollected(v) BY <1>9, <2>2 DEF Rests, Advances
  <2>4. UNCHANGED <<complete, subs>> \/ \E t \in Task : mark_complete(t)
    <3>1. CASE abandon_notify(v)
      <4>1. join[v].todo # {} BY <1>1, <3>1 DEF ShapeOK, abandon_notify
      <4>2. QED BY <1>5, <2>1, <4>1
    <3>2. CASE abandon_exchange(v) \/ abandon_handler(v)
      BY <3>2 DEF abandon_exchange, abandon_handler
    <3>3. QED BY <1>13, <3>1, <3>2
  <2>5. Subscribed(v)' BY <1>8, <2>1, <2>3, <2>4
  <2>6. QED BY <1>10, <2>1, <2>5 DEF Watched
<1>14. CASE abandon_unstarted_if_cancelled(v) \/ abandon_done(v)
  <2>1. /\ pc'[v] \in {"exchange", "poll"} /\ pc[v] # "subscribe" /\ UNCHANGED <<complete, subs>>
    BY <1>3, <1>14 DEF abandon_unstarted_if_cancelled, abandon_done, Goto, task_state
  <2>2. join'[v].todo = Uncollected(v) /\ SameResults(join'[v], join[v])
    BY <1>14, LoopLocals
  <2>3. Uncollected(v)' = Uncollected(v) BY <1>9, <2>2
  <2>4. Subscribed(v)' BY <1>8, <2>1, <2>3
  <2>5. Watching(v)' BY <2>1, <2>2, <2>3 DEF Watching
  <2>6. QED BY <2>1, <2>4, <2>5 DEF Watched
<1>15. CASE poll_child(v)
  <2>1. /\ pc[v] = "poll" /\ pc' = pc /\ join[v].todo # {}
        /\ UNCHANGED <<complete, subs, promise, notified>>
    BY <1>15 DEF poll_child, task_state
  <2>2. /\ join'[v].todo = AfterTurn(v)
        /\ \/ promise[Turn(v)] = "unset" /\ join'[v].collected = join[v].collected
           \/ join'[v].collected = join[v].collected \cup {Min(join[v].todo)}
    BY <1>15, LoopLocals DEF Advances, SameResults
  <2>3. Uncollected(v)' = DOMAIN join[v].snapshot \ join'[v].collected
    BY <1>2 DEF Uncollected
  <2>4. Uncollected(v)' \subseteq Uncollected(v) BY <2>2, <2>3 DEF Uncollected
  <2>5. Subscribed(v)' BY <1>8, <2>1, <2>4
  <2>6. Watching(v)'
    <3> SUFFICES ASSUME NEW i \in Uncollected(v)'
                 PROVE  \/ promise[join[v].snapshot[i]] = "unset"
                        \/ i \in AfterTurn(v)
                        \/ notified[v]
                        \/ pc[join[v].snapshot[i]] \in Closing /\ v \in subs[join[v].snapshot[i]]
      BY <1>2, <2>1, <2>2 DEF Watching
    <3>1. i \in Uncollected(v) BY <2>4
    <3>2. \/ promise[join[v].snapshot[i]] = "unset"
          \/ i \in join[v].todo
          \/ notified[v]
          \/ pc[join[v].snapshot[i]] \in Closing /\ v \in subs[join[v].snapshot[i]]
      BY <1>1, <2>1, <3>1 DEF Watching
    <3>3. CASE i \in join[v].todo /\ i # Min(join[v].todo) BY <3>3 DEF AfterTurn
    <3>4. CASE i = Min(join[v].todo)
      <4>1. i \notin join'[v].collected BY <2>3
      <4>2. promise[Turn(v)] = "unset" BY <2>2, <3>4, <4>1
      <4>3. QED BY <3>4, <4>2 DEF Turn
    <3>5. QED BY <3>2, <3>3, <3>4
  <2>7. QED BY <2>1, <2>5, <2>6 DEF Watched
<1>16. CASE wait_for_children(v)
  <2>1. /\ pc[v] = "poll" /\ pc' = [pc EXCEPT ![v] = "sleep"] /\ join[v].todo = {}
        /\ UNCHANGED <<complete, subs, promise, notified>>
    BY <1>16 DEF wait_for_children, task_state, Goto
  <2>2. Rests(v) BY <1>16, LoopLocals
  <2>3. Uncollected(v)' = Uncollected(v) /\ join'[v].todo = {} BY <1>9, <2>1, <2>2 DEF Rests
  <2>4. pc'[v] = "sleep" /\ \A t \in Task : pc[t] \in Closing => pc'[t] \in Closing
    BY <1>3, <2>1 DEF Closing
  <2>5. Subscribed(v)' BY <1>8, <2>1, <2>3, <2>4
  <2>6. Watching(v)'
    <3> SUFFICES ASSUME NEW i \in Uncollected(v)
                 PROVE  \/ promise[join[v].snapshot[i]] = "unset"
                        \/ notified[v]
                        \/ pc'[join[v].snapshot[i]] \in Closing /\ v \in subs[join[v].snapshot[i]]
      BY <1>2, <2>1, <2>3 DEF Watching
    <3>1. \/ promise[join[v].snapshot[i]] = "unset"
          \/ notified[v]
          \/ pc[join[v].snapshot[i]] \in Closing /\ v \in subs[join[v].snapshot[i]]
      BY <1>1, <2>1 DEF Watching
    <3>2. QED BY <1>4, <1>6, <2>4, <3>1
  <2>7. QED BY <2>3, <2>5, <2>6 DEF Watched
<1>17. QED BY <1>11, <1>12, <1>13, <1>14, <1>15, <1>16 DEF LoopAction

LEMMA LoopSignals ==
  ASSUME IInv, Parents, Signals, NEW v \in VM, LoopAction(v)
  PROVE  Signals'
<1>1. /\ Types /\ ShapeOK(v) /\ HandlerOK(v) /\ Watched(v) BY DEF IInv, Signals, Watched
<1>2. /\ Elsewhere(v) /\ pc[v] \in Joining /\ pc'[v] \in Joining
      /\ pc[v] \in BodyPcs /\ pc'[v] \in BodyPcs
  BY LoopFrame, Sets
<1>3. /\ pc \in [VM -> Pcs] /\ started \in [Task -> BOOLEAN] /\ complete \in [Task -> BOOLEAN]
      /\ promise \in [Task -> {"unset", "value", "error", "cancelled"}]
      /\ subs \in [Task -> SUBSET VM] /\ notified \in [VM -> BOOLEAN]
  BY <1>1 DEF Types
<1>4. pc[v] \in {"handler", "notify"} \/ join[v].todo # {} => Turn(v) \in Task /\ join[v].todo # {}
  BY <1>1, Positions DEF ShapeOK
<1>5. \A t \in Task : started[t] => started'[t]
  <2>1. CASE abandon_exchange(v) BY <1>3, <2>1 DEF abandon_exchange
  <2>2. CASE ~abandon_exchange(v)
    BY <2>2 DEF LoopAction, subscribe_child, subscribed, abandon_unstarted_if_cancelled,
       abandon_handler, abandon_notify, abandon_done, poll_child,
       poll_again, wait_for_children, wake, task_state, tree
  <2>3. QED BY <2>1, <2>2
<1>6. /\ \/ UNCHANGED <<complete, subs, notified>>
         \/ mark_complete(Turn(v)) /\ pc[v] = "notify"
         \/ UNCHANGED complete /\ join[v].todo # {} /\ subscribe(v, Turn(v))
         \/ UNCHANGED <<complete, subs>> /\ notified' = [notified EXCEPT ![v] = FALSE]
  BY DEF LoopAction, subscribe_child, subscribed, abandon_unstarted_if_cancelled,
         abandon_exchange, abandon_handler, abandon_notify, abandon_done, poll_child,
         poll_again, wait_for_children, wake, task_state, tree
<1>7. Telling(v) BY <1>1, <1>4, <1>6, Tells
<1>8. \A t \in Task : complete'[t] => complete[t] \/ (started[t] /\ pc[t] \in Resting)
  <2>1. CASE UNCHANGED complete BY <2>1
  <2>2. CASE mark_complete(Turn(v)) /\ pc[v] = "notify"
    <3>1. started[Turn(v)] /\ pc[Turn(v)] \in Resting BY <1>1, <2>2 DEF HandlerOK
    <3>2. QED BY <1>3, <2>2, <3>1 DEF mark_complete
  <2>3. QED BY <1>6, <2>1, <2>2
<1>9. /\ ~abandon_handler(v) => promise' = promise
      /\ abandon_handler(v) => /\ pc[v] = "handler"
                               /\ \A u \in Task \ {Turn(v)} : promise'[u] = promise[u]
  <2>1. CASE abandon_handler(v) BY <1>3, <2>1 DEF abandon_handler, Resolve
  <2>2. CASE ~abandon_handler(v)
    BY <2>2 DEF LoopAction, subscribe_child, subscribed, abandon_unstarted_if_cancelled,
       abandon_exchange, abandon_notify, abandon_done, poll_child,
       poll_again, wait_for_children, wake, task_state, tree
  <2>3. QED BY <2>1, <2>2
<1>10. ASSUME NEW w \in VM \ {v}, pc[w] \in Joining, NEW i \in Uncollected(w)
       PROVE  promise'[join[w].snapshot[i]] = promise[join[w].snapshot[i]]
  <2>1. CASE ~abandon_handler(v) BY <1>9, <2>1
  <2>2. CASE abandon_handler(v)
    <3>1. i \in DOMAIN join[w].snapshot /\ join[w].snapshot[i] \in Task
      BY Positions DEF Uncollected, IInv
    <3>2. Min(join[v].todo) \in DOMAIN join[v].snapshot
      BY <1>1, <1>4, <1>9, <2>2, Positions
    <3>3. join[w].snapshot[i] # Turn(v)
      BY <1>2, <1>10, <3>1, <3>2, OneJoiner DEF Turn
    <3>4. QED BY <1>9, <2>2, <3>1, <3>3
  <2>3. QED BY <2>1, <2>2
<1>11. \A w \in VM \ {v}, t \in Task : w \in subs[t] => w \in subs'[t] \/ notified'[w]
  BY <1>7 DEF Telling
<1>12. Watched(v)' BY LoopWatched
<1>13. QED BY <1>2, <1>5, <1>7, <1>8, <1>10, <1>11, <1>12, StepSignals, ZenonT(40)

LEMMA RecordSignals ==
  ASSUME IInv, Signals, NEW v \in VM,
         take_children(v) \/ add_child(v) \/ report_stall(v) \/ join_returns(v)
  PROVE  Signals'
<1>1. Types BY DEF IInv
<1>2. /\ Elsewhere(v) /\ UNCHANGED <<started, promise, complete>>
      /\ pc[v] \in BodyPcs /\ pc'[v] \in BodyPcs
      /\ UNCHANGED <<subs, notified>> \/ unsubscribe(v)
      /\ \/ pc'[v] \notin Joining
         \/ /\ pc'[v] = "subscribe" /\ join'[v].collected = {}
            /\ join'[v].todo = DOMAIN join'[v].snapshot
  <2>1. CASE join_returns(v)
    <3>1. /\ Elsewhere(v) /\ UNCHANGED <<started, promise, complete>> /\ unsubscribe(v)
          /\ pc[v] = "check" /\ pc'[v] \in {"unwind", "run"}
      BY <2>1, ReturnFrame
    <3>2. QED BY <3>1 DEF BodyPcs, JoinPcs, Joining
  <2>2. CASE take_children(v) \/ add_child(v) \/ report_stall(v)
    <3>1. /\ Elsewhere(v) /\ UNCHANGED <<started, promise, complete>>
          /\ \/ /\ pc[v] = "join" /\ pc'[v] = "subscribe"
                /\ join'[v].snapshot = children[current_scope(v)]
                /\ join'[v].todo = DOMAIN children[current_scope(v)]
                /\ join'[v].collected = {}
                /\ UNCHANGED <<subs, notified>>
             \/ pc[v] = "add" /\ pc'[v] = "run" /\ UNCHANGED <<subs, notified>>
             \/ pc[v] = "poll" /\ pc'[v] = "unwind" /\ unsubscribe(v)
      BY <2>2, RecordFrame
    <3>2. QED BY <3>1 DEF BodyPcs, JoinPcs, Joining
  <2>3. QED BY <2>1, <2>2
<1>3. Telling(v) BY <1>1, <1>2, Tells
<1>4. \A w \in VM \ {v}, t \in Task : w \in subs[t] => w \in subs'[t] \/ notified'[w]
  BY <1>3 DEF Telling
<1>5. Watched(v)'
  BY <1>2 DEF Watched, Subscribed, Watching, Uncollected, Joining, JoinPcs
<1>6. QED BY <1>2, <1>3, <1>4, <1>5, StepSignals, ZenonT(40)

LEMMA OpenSignals ==
  ASSUME IInv, Signals, NEW v \in VM,
         \/ \E s \in Scope : handle_task_scope_begin(v, s)
         \/ \E t \in Task : handle_spawn(v, t)
  PROVE  Signals'
<1>1. Types /\ pc \in [VM -> Pcs] BY DEF IInv, Types
<1>2. UNCHANGED <<started, promise, complete, subs, notified, join>>
  BY DEF handle_task_scope_begin, handle_spawn, task_state
<1>3. /\ pc[v] = "run"
      /\ \/ pc' = pc
         \/ \E t \in Task : pc[t] = "new" /\ pc' = [pc EXCEPT ![v] = "add", ![t] = "queued"]
  BY DEF handle_task_scope_begin, handle_spawn
<1>4. \A w \in VM : \/ pc'[w] = pc[w]
                    \/ /\ pc'[w] \in {"add", "queued"} /\ pc[w] \in {"run", "new"}
  BY <1>1, <1>3, Sets
<1>5. \A t \in Task : Finished(t)'
  <2>1. \A t \in Task : Finished(t) BY DEF Signals
  <2>2. "new" \notin Resting /\ "run" \notin Resting BY DEF Resting
  <2>3. ASSUME NEW t \in Task PROVE Finished(t)'
    <3>1. pc'[t] = pc[t] \/ (pc'[t] \in {"add", "queued"} /\ pc[t] \in {"run", "new"})
      BY <1>4, Sets
    <3>2. QED BY <1>2, <2>1, <2>2, <3>1 DEF Finished
  <2>4. QED BY <2>3
<1>6. Telling(v) BY <1>2 DEF Telling
<1>7. \A w \in VM : Watched(w)'
  <2> SUFFICES ASSUME NEW w \in VM PROVE Watched(w)' OBVIOUS
  <2>1. Subscribed(w) /\ Watching(w) /\ (pc[w] = "sleep" => join[w].todo = {}) BY DEF Signals
  <2>2. Uncollected(w)' = Uncollected(w) BY <1>2 DEF Uncollected
  <2>3. CASE pc'[w] # pc[w]
    <3>1. pc'[w] \in {"add", "queued"} BY <1>4, <2>3
    <3>2. pc'[w] \notin Joining BY <3>1 DEF Joining, JoinPcs
    <3>3. QED BY <3>2 DEF Watched, Subscribed, Watching, Joining, JoinPcs
  <2>4. CASE pc'[w] = pc[w]
    <3>1. \A i \in Uncollected(w) : join[w].snapshot[i] \in Task
      BY <1>1, Positions DEF Uncollected, IInv
    <3>2. \A t \in Task : pc[t] \in Closing => pc'[t] \in Closing BY <1>4, Sets DEF Closing
    <3>3. Subscribed(w)' BY <1>2, <2>1, <2>2, <2>4 DEF Subscribed
    <3>4. Watching(w)' BY <1>2, <2>1, <2>2, <2>4, <3>1, <3>2 DEF Watching
    <3>5. QED BY <1>2, <2>1, <2>4, <3>3, <3>4 DEF Watched
  <2>5. QED BY <2>3, <2>4
<1>8. QED BY <1>5, <1>7 DEF Signals, Watched

(* A VM that returned from its scopes has still to notify.                 *)
LEMMA LeaveSignals ==
  ASSUME IInv, Signals, NEW v \in VM, Leaves(v)
  PROVE  Signals'
<1>1. Types /\ (v \in Task => PromiseOK(v) /\ Finished(v)) BY DEF IInv, Signals
<1>2. /\ UNCHANGED <<join, started, complete, subs, notified>> /\ Elsewhere(v)
      /\ pc'[v] \in {"destroy", "finish", "done"} /\ (v \in Task => pc'[v] \in Closing)
      /\ \A t \in Task : promise'[t] = promise[t] \/ (t = v /\ pc[v] = "run")
      /\ pc[v] \in {"run", "destroy"}
  BY LeaveFrame
<1>3. pc'[v] \in Resting /\ "run" \notin Resting /\ "run" \in BodyPcs
  BY <1>2 DEF Resting, BodyPcs
<1>4. v \in Task => started[v] /\ (pc[v] = "run" => ~complete[v])
  BY <1>1, <1>2, <1>3 DEF PromiseOK, Finished
<1>5. \A t \in Task : Finished(t)'
  <2>1. ASSUME NEW t \in Task, t # v PROVE Finished(t)'
    BY <1>2, <2>1, Sets DEF Finished, Signals, Elsewhere
  <2>2. ASSUME v \in Task PROVE Finished(v)' BY <1>2, <1>3, <1>4, <2>2 DEF Finished
  <2>3. QED BY <2>1, <2>2
<1>6. Telling(v) BY <1>2 DEF Telling
<1>7. ASSUME NEW w \in VM, w # v PROVE Watched(w)'
  <2>1. pc'[w] = pc[w] /\ join'[w] = join[w] BY <1>2, <1>7 DEF Elsewhere
  <2>2. \A t \in Task : promise'[t] = promise[t]
                        \/ (pc'[t] \in Closing /\ ~complete[t] /\ subs' = subs)
    BY <1>2, <1>4
  <2>3. \A i \in Uncollected(w) : join[w].snapshot[i] \in Task
    BY <1>7, Positions DEF Uncollected, IInv
  <2>4. ASSUME NEW t \in Task, pc[t] \in Closing, w \in subs[t]
        PROVE  notified'[w] \/ (pc'[t] \in Closing /\ w \in subs'[t])
    <3>1. t \in VM /\ (t # v => pc'[t] = pc[t]) BY <1>2, Sets DEF Elsewhere
    <3>2. QED BY <1>2, <2>4, <3>1
  <2>5. QED BY <1>6, <1>7, <2>1, <2>2, <2>3, <2>4, WatcherKept
<1>8. Watched(v)' BY <1>2 DEF Watched, Subscribed, Watching, Joining, JoinPcs
<1>9. QED BY <1>5, <1>7, <1>8 DEF Signals, Watched

LEMMA SignalsHold ==
  ASSUME IInv, Parents, Signals, Next
  PROVE  Signals'
BY StepCases, WorkerSignals, BodySignals, LoopSignals, RecordSignals, OpenSignals, LeaveSignals,
   ZenonT(40) DEF Leaves

LEMMA TreeInvariance == Spec => [](Parents /\ Signals)
<1>1. Init => Parents /\ Signals
  <2> SUFFICES ASSUME Init PROVE Parents /\ Signals OBVIOUS
  <2>1. Parents
    <3>1. /\ \A x \in Token : chain[x] = {x}
          /\ \A s \in Scope : children[s] = <<>>
          /\ \A v \in VM : pc[v] \in {"run", "new"}
      BY DEF Init
    <3>2. \A v \in VM : pc[v] # "add" /\ pc[v] \notin Joining BY <3>1 DEF Joining, JoinPcs
    <3>3. \A x, y \in Token : x \in chain[y] /\ y \in chain[x] => x = y BY <3>1
    <3>4. QED BY <3>1, <3>2, <3>3, EmptySeq DEF Parents
  <2>2. Signals
    <3>1. /\ \A t \in Task : complete[t] = FALSE
          /\ \A v \in VM : pc[v] \in {"run", "new"}
      BY DEF Init
    <3>2. \A v \in VM : pc[v] \notin Joining /\ pc[v] \notin {"destroy", "finish", "done", "sleep"}
      BY <3>1 DEF Joining, JoinPcs
    <3>3. \A t \in Task : Finished(t) BY <3>1, <3>2, Sets DEF Finished
    <3>4. \A v \in VM : Watched(v) BY <3>2, Unwatched
    <3>5. QED BY <3>3, <3>4, SignalsAre
  <2>3. QED BY <2>1, <2>2
<1>2. ASSUME IInv, Parents, Signals, [Next]_vars PROVE Parents' /\ Signals'
  <2>1. CASE Next BY <1>2, <2>1, ParentsHold, SignalsHold
  <2>2. CASE UNCHANGED vars
    <3>1. UNCHANGED <<pc, started, promise, complete, subs, notified, scopes, children, chain,
                      stack, join, spawning>>
      BY <2>2 DEF vars, tree, task_state
    <3>2. Parents' BY <1>2, <3>1 DEF Parents, IsChild, current_scope
    <3>3. \A t \in Task : Finished(t)' BY <1>2, <3>1 DEF Signals, Finished
    <3>4. \A v \in VM : Subscribed(v)' /\ Watching(v)' /\ (pc'[v] = "sleep" => join'[v].todo = {})
      BY <1>2, <3>1 DEF Signals, Subscribed, Watching, Uncollected
    <3>5. Signals' BY <3>3, <3>4 DEF Signals
    <3>6. QED BY <3>2, <3>5
  <2>3. QED BY <1>2, <2>1, <2>2
<1>3. QED BY <1>1, <1>2, Invariance, PTL DEF Spec

(* A joiner asleep on its CompletionSignal has not missed a child: one     *)
(* that is resolved and not collected has set the flag, or its worker is   *)
(* about to notify (wait_for_children against mark_complete).              *)
THEOREM NoChildIsMissed == Spec => []SignalNotMissed
<1>1. IInv /\ Signals => SignalNotMissed
  <2> SUFFICES ASSUME IInv, Signals, NEW v \in VM, pc[v] = "sleep", NEW i \in Uncollected(v),
                      promise[join[v].snapshot[i]] # "unset"
               PROVE  notified[v] \/ Marking(join[v].snapshot[i])
    BY DEF SignalNotMissed
  <2>1. Watching(v) BY DEF Signals
  <2>2. notified[v] \/ pc[join[v].snapshot[i]] \in Closing BY <2>1 DEF Watching
  <2>3. QED BY <2>2 DEF Marking, Closing
<1>2. QED BY <1>1, Invariance, TreeInvariance, PTL

-----------------------------------------------------------------------------
(* Reasons.                                                                *)

LEMMA ThrowOutcome ==
  ASSUME Types, NEW v \in VM, NEW depth \in Nat, NEW o \in {"error", "cancelled"},
         ThrowFrom(v, depth, o)
  PROVE  /\ pc'[v] = "unwind" /\ unwind'[v].outcome \in {"run", o}
         /\ unwind'[v].to \in 0 .. depth
<1>1. pc \in [VM -> Pcs] /\ unwind \in [VM -> Unwinds] BY DEF Types
<1>2. pc'[v] = "unwind" BY <1>1 DEF ThrowFrom, Goto
<1>3. CASE \E d \in 0 .. depth : unwind' = [unwind EXCEPT ![v] = [to |-> d, outcome |-> "run"]]
  <2>1. PICK d \in 0 .. depth : unwind' = [unwind EXCEPT ![v] = [to |-> d, outcome |-> "run"]]
    BY <1>3
  <2>2. unwind'[v] = [to |-> d, outcome |-> "run"] BY <1>1, <2>1
  <2>3. QED BY <1>2, <2>2
<1>4. CASE unwind' = [unwind EXCEPT ![v] = [to |-> 0, outcome |-> o]]
  <2>1. unwind'[v] = [to |-> 0, outcome |-> o] BY <1>1, <1>4
  <2>2. QED BY <1>2, <2>1
<1>5. QED BY <1>3, <1>4 DEF ThrowFrom

LEMMA CancelledStays ==
  ASSUME NEW x, cancelled \subseteq cancelled', chain[x] \subseteq chain'[x], is_cancelled(x)
  PROVE  is_cancelled(x)'
BY DEF is_cancelled

(* Nobody takes the outcome of a cancelled task back.                      *)
OutcomeStays == \A t \in Task : promise[t] = "cancelled" => promise'[t] = "cancelled"

LEMMA ExcusedStays ==
  ASSUME NEW t \in Task, OutcomeStays, cancelled \subseteq cancelled',
         \A x \in Task : chain[x] \subseteq chain'[x], Excused(t)
  PROVE  Excused(t)'
<1>1. CASE is_cancelled(t) BY <1>1, CancelledStays DEF Excused
<1>2. CASE t \in Awaiting /\ \E u \in Task \ {t} : promise[u] = "cancelled" /\ is_cancelled(u)
  <2>1. PICK u \in Task \ {t} : promise[u] = "cancelled" /\ is_cancelled(u) BY <1>2
  <2>2. promise'[u] = "cancelled" /\ is_cancelled(u)'
    BY <2>1, CancelledStays DEF OutcomeStays
  <2>3. QED BY <1>2, <2>2 DEF Excused
<1>3. QED BY <1>1, <1>2 DEF Excused

LEMMA ReasonsKept ==
  ASSUME Reasons, NEW v \in VM, Elsewhere(v), chain' = chain, cancelled \subseteq cancelled',
         OutcomeStays,
         \A w \in VM \ {v} : stack'[w] = stack[w],
         \A t \in Task : promise'[t] = "cancelled" => promise[t] = "cancelled" \/ Excused(t),
         Reason(v)'
  PROVE  Reasons'
<1>0. \A t \in Task : Excused(t) => Excused(t)' BY ExcusedStays
<1>1. \A t \in Task : (promise[t] = "cancelled" => Excused(t))'
  BY <1>0 DEF Reasons
<1>2. ASSUME NEW w \in VM, w # v PROVE Reason(w)'
  <2>1. /\ pc'[w] = pc[w] /\ join'[w] = join[w] /\ unwind'[w] = unwind[w]
        /\ (current_scope(w))' = current_scope(w)
    BY <1>2 DEF Elsewhere, current_scope
  <2>2. Reason(w) BY DEF Reasons
  <2>3. w \in Task /\ Excused(w) => Excused(w)' BY <1>0
  <2>4. is_cancelled(current_scope(w)) => (is_cancelled(current_scope(w)))'
    BY <2>1 DEF is_cancelled
  <2>5. QED BY <2>1, <2>2, <2>3, <2>4 DEF Reason
<1>3. QED BY <1>1, <1>2 DEF Reasons

(* A promise is set once, but for a scope that abandons.                   *)
LEMMA StaysSet ==
  ASSUME IInv, NEW v \in VM,
         \/ promise' = promise
         \/ \E t \in Task : Resolve(t, "cancelled")
         \/ /\ v \in Task /\ pc[v] \notin Resting
            /\ \E o \in {"value", "error", "cancelled"} : Resolve(v, o)
  PROVE  OutcomeStays
<1>1. promise \in [Task -> {"unset", "value", "error", "cancelled"}] BY DEF IInv, Types
<1>2. CASE promise' = promise BY <1>2 DEF OutcomeStays
<1>3. CASE \E t \in Task : Resolve(t, "cancelled") BY <1>1, <1>3 DEF OutcomeStays, Resolve
<1>4. CASE /\ v \in Task /\ pc[v] \notin Resting
           /\ \E o \in {"value", "error", "cancelled"} : Resolve(v, o)
  <2>1. promise[v] = "unset" BY <1>4 DEF IInv, PromiseOK
  <2>2. \A t \in Task \ {v} : promise'[t] = promise[t] BY <1>1, <1>4 DEF Resolve
  <2>3. QED BY <2>1, <2>2 DEF OutcomeStays
<1>5. QED BY <1>2, <1>3, <1>4

(* A VM that neither joins nor races has nothing to justify but its        *)
(* exception.                                                              *)
LEMMA WorkerReasons ==
  ASSUME IInv, Reasons, NEW v \in Task, WorkerStep(v)
  PROVE  Reasons'
<1>1. Types /\ v \in VM /\ Reason(v) BY Sets DEF IInv, Reasons
<1>2. UNCHANGED <<chain, stack>> /\ Elsewhere(v) BY <1>1, OutsideLoop
<1>3. pc \in [VM -> Pcs] /\ promise \in [Task -> {"unset", "value", "error", "cancelled"}]
  BY <1>1 DEF Types
<1>4. UNCHANGED <<cancelled, unwind>> /\ pc'[v] \in {"dequeued", "claimed", "run", "finish", "done"}
  BY <1>1, <1>3 DEF WorkerStep, fetch, claim_start, start_task, notify_completion, Goto, tree,
     task_state
<1>5. \A t \in Task : promise'[t] = "cancelled" => promise[t] = "cancelled" \/ Excused(t)
  <2>1. CASE start_task(v)
    <3>1. promise' = promise \/ (is_cancelled(v) /\ Resolve(v, "cancelled"))
      BY <2>1 DEF start_task
    <3>2. QED BY <1>3, <3>1 DEF Resolve, Excused
  <2>2. CASE ~start_task(v)
    BY <2>2 DEF WorkerStep, fetch, claim_start, notify_completion, tree, task_state
  <2>3. QED BY <2>1, <2>2
<1>6. OutcomeStays
  <2>1. promise' = promise \/ \E t \in Task : Resolve(t, "cancelled")
    BY DEF WorkerStep, fetch, claim_start, start_task, notify_completion, tree, task_state
  <2>2. QED BY <1>1, <2>1, StaysSet
<1>7. Reason(v)'
  <2>1. pc'[v] \notin JoinPcs \cup RacePcs \cup Abandoning \cup {"poll", "sleep", "await"}
    BY <1>4 DEF JoinPcs, RacePcs, Abandoning
  <2>2. Excused(v) => Excused(v)' BY <1>2, <1>4, <1>6, ExcusedStays
  <2>3. QED BY <1>1, <1>4, <2>1, <2>2 DEF Reason
<1>8. QED BY <1>1, <1>2, <1>4, <1>5, <1>6, <1>7, ReasonsKept

LEMMA BodyReasons ==
  ASSUME IInv, Reasons, NEW v \in VM, BodyAction(v) \/ Returns(v) \/ Unwound(v)
  PROVE  Reasons'
<1>1. Types /\ Reason(v) /\ ShapeOK(v) /\ FreshOK BY DEF IInv, Reasons
<1>2. UNCHANGED <<chain, stack>> /\ Elsewhere(v) BY OutsideLoop
<1>3. /\ pc \in [VM -> Pcs] /\ promise \in [Task -> {"unset", "value", "error", "cancelled"}]
      /\ join \in [VM -> Locals] /\ unwind \in [VM -> Unwinds]
      /\ Len(stack[v]) \in Nat
  BY <1>1, LenProperties DEF Types
<1>4. cancelled \subseteq cancelled'
  BY DEF BodyAction, cancel_task, throw_error, check_cancellation, handle_task_scope_end,
         retire_task_scope, join_throws, race, race_subscribe, race_poll, race_throws,
         race_wait, race_wake, Returns, return_value, Unwound, handle_await, await_returns,
         await_throws, tree, task_state
<1>5. \A t \in Task : promise'[t] = "cancelled" => promise[t] = "cancelled" \/ Excused(t)
  <2>1. CASE BodyAction(v)
    <3>1. promise' = promise
      BY <2>1 DEF BodyAction, cancel_task, throw_error, check_cancellation, handle_task_scope_end,
         retire_task_scope, join_throws, race, race_subscribe, race_poll, race_throws,
         race_wait, race_wake, handle_await, await_returns, await_throws, tree, task_state
    <3>2. QED BY <3>1
  <2>2. CASE Returns(v)
    <3>1. promise' = promise \/ (v \in Task /\ Resolve(v, "value"))
      BY <2>2 DEF Returns, return_value, VM
    <3>2. QED BY <1>3, <3>1 DEF Resolve
  <2>3. CASE Unwound(v)
    <3>1. \/ promise' = promise
          \/ /\ v # Main
             /\ Resolve(v, IF is_cancelled(v) THEN "cancelled" ELSE unwind[v].outcome)
      BY <2>3, Zenon DEF Unwound
    <3>2. v \in Task /\ (is_cancelled(v) \/ unwind[v].outcome = "cancelled") => Excused(v)
      BY <1>1 DEF Reason, Excused
    <3>3. v # Main => v \in Task BY DEF VM
    <3>4. QED BY <1>3, <3>1, <3>2, <3>3 DEF Resolve
  <2>4. QED BY <2>1, <2>2, <2>3
<1>11. OutcomeStays
  <2>1. CASE BodyAction(v)
    <3>1. promise' = promise
      BY <2>1 DEF BodyAction, cancel_task, throw_error, check_cancellation, handle_task_scope_end,
         retire_task_scope, join_throws, race, race_subscribe, race_poll, race_throws,
         race_wait, race_wake, handle_await, await_returns, await_throws, tree, task_state
    <3>2. QED BY <3>1, StaysSet
  <2>2. CASE Returns(v) \/ Unwound(v)
    <3>1. pc[v] \in {"run", "unwind"} BY <2>2 DEF Returns, return_value, Unwound
    <3>2. pc[v] \notin Resting BY <3>1 DEF Resting
    <3>3. unwind[v].outcome \in {"run", "error", "cancelled"} BY <1>3 DEF Unwinds
    <3>4. CASE Returns(v)
      <4>1. promise' = promise \/ (v \in Task /\ Resolve(v, "value"))
        BY <3>4 DEF Returns, return_value, VM
      <4>2. QED BY <3>2, <4>1, StaysSet
    <3>5. CASE Unwound(v)
      <4>1. \/ promise' = promise
            \/ /\ v # Main /\ unwind[v].outcome # "run"
               /\ Resolve(v, IF is_cancelled(v) THEN "cancelled" ELSE unwind[v].outcome)
        BY <3>5, Zenon DEF Unwound
      <4>2. promise' = promise
            \/ (v \in Task /\ \E o \in {"value", "error", "cancelled"} : Resolve(v, o))
        BY <3>3, <4>1 DEF VM
      <4>3. QED BY <3>2, <4>2, StaysSet
    <3>6. QED BY <2>2, <3>4, <3>5
  <2>3. QED BY <2>1, <2>2
<1>6. v \in Task /\ Excused(v) => Excused(v)' BY <1>2, <1>4, <1>11, ExcusedStays
<1>7. Reason(v)'
  <2>1. ASSUME pc'[v] \in {"run", "finish", "done"}, unwind' = unwind \/ unwind'[v] = NoUnwind
        PROVE  Reason(v)'
    <3>1. pc'[v] \notin JoinPcs \cup RacePcs \cup Abandoning \cup {"poll", "sleep", "await"}
      BY <2>1 DEF JoinPcs, RacePcs, Abandoning
    <3>2. unwind'[v].outcome = "cancelled" /\ v \in Task => Excused(v)'
      BY <1>1, <1>6, <2>1 DEF Reason, NoUnwind
    <3>3. QED BY <3>1, <3>2 DEF Reason
  <2>2. ASSUME pc'[v] \in RacePcs, unwind' = unwind, v \in Task PROVE Reason(v)'
    <3>1. pc'[v] \notin JoinPcs \cup Abandoning \cup {"poll", "sleep", "await"}
      BY <2>2 DEF JoinPcs, RacePcs, Abandoning
    <3>2. unwind'[v].outcome = "cancelled" /\ v \in Task => Excused(v)'
      BY <1>1, <1>6, <2>2 DEF Reason
    <3>3. QED BY <2>2, <3>1, <3>2 DEF Reason
  <2>3. ASSUME pc'[v] = "unwind",
               unwind'[v].outcome = "cancelled" /\ v \in Task => Excused(v)
        PROVE  Reason(v)'
    BY <1>6, <2>3 DEF Reason, JoinPcs, RacePcs, Abandoning
  <2>4. CASE \E t \in Task : cancel_task(v, t)
    BY <1>3, <2>1, <2>4 DEF cancel_task
  <2>5. CASE throw_error(v)
    <3>1. ThrowFrom(v, Len(stack[v]), "error") BY <2>5 DEF throw_error
    <3>2. QED BY <1>1, <1>3, <2>3, <3>1, ThrowOutcome
  <2>6. CASE check_cancellation(v)
    <3>1. ThrowFrom(v, Len(stack[v]), "cancelled") /\ v \in Task /\ is_cancelled(v)
      BY <2>6 DEF check_cancellation, VM
    <3>2. Excused(v) BY <3>1 DEF Excused
    <3>3. QED BY <3>2, <1>1, <1>3, <2>3, <3>1, ThrowOutcome
  <2>7. CASE handle_task_scope_end(v)
    <3>1. /\ pc'[v] = "join" /\ join'[v] = NoLocals /\ unwind' = unwind
      BY <1>3, <2>7 DEF handle_task_scope_end, Goto
    <3>2. ~NoLocals.teardown /\ ~NoLocals.abandoned BY DEF NoLocals
    <3>3. unwind'[v].outcome = "cancelled" /\ v \in Task => Excused(v)'
      BY <1>1, <1>6, <3>1 DEF Reason
    <3>4. QED BY <3>1, <3>2, <3>3 DEF Reason, RacePcs, Abandoning
  <2>8. CASE retire_task_scope(v)
    <3>1. /\ pc'[v] = "join" /\ unwind' = unwind /\ pc[v] = "unwind"
          /\ cancelled' = cancelled \cup {current_scope(v)} /\ Len(stack[v]) > unwind[v].to
      BY <1>3, <2>8 DEF retire_task_scope, Goto
    <3>2. stack[v] # <<>>
      <4>1. unwind[v].to \in Nat BY <1>3 DEF Unwinds
      <4>2. Len(stack[v]) # 0 BY <1>3, <3>1, <4>1
      <4>3. QED BY <4>2, EmptySeq
    <3>3. current_scope(v) \in chain[current_scope(v)]
      BY <1>1, <3>2, CurrentScope, Sets DEF FreshOK
    <3>4. (is_cancelled(current_scope(v)))'
      BY <1>2, <3>1, <3>3 DEF is_cancelled, current_scope
    <3>5. unwind'[v].outcome = "cancelled" /\ v \in Task => Excused(v)'
      BY <1>1, <1>6, <3>1 DEF Reason
    <3>6. QED BY <3>1, <3>4, <3>5 DEF Reason, RacePcs, Abandoning
  <2>9. CASE join_throws(v)
    <3>1. ThrowFrom(v, Len(stack[v]) - 1, "error") /\ pc[v] = "check" BY <2>9 DEF join_throws
    <3>2. stack[v] # <<>> BY <1>1, <3>1 DEF ShapeOK, JoinPcs
    <3>3. Len(stack[v]) - 1 \in Nat BY <1>1, <3>2, CurrentScope
    <3>4. QED BY <1>1, <2>3, <3>1, <3>3, ThrowOutcome
  <2>10. CASE Unwound(v)
    <3>1. /\ unwind' = [unwind EXCEPT ![v] = NoUnwind]
          /\ Goto(v, "run") \/ Goto(v, "done") \/ Goto(v, "finish")
      BY <2>10, Zenon DEF Unwound
    <3>2. QED BY <1>3, <2>1, <3>1 DEF Goto
  <2>11. CASE \E R \in SUBSET Task : race(v, R)
    <3>1. pc'[v] = "race_subscribe" /\ unwind' = unwind /\ v \in Racing
      BY <1>3, <2>11 DEF race, Goto
    <3>2. QED BY <2>2, <3>1, ScopeAssumption DEF RacePcs
  <2>12. CASE race_subscribe(v) \/ race_wait(v) \/ race_wake(v)
    <3>1. /\ pc[v] \in {"race_subscribe", "race_poll", "race_sleep"} /\ unwind' = unwind
          /\ pc'[v] \in {"race_subscribe", "race_poll", "race_sleep"}
      BY <1>3, <2>12 DEF race_subscribe, race_wait, race_wake, Goto
    <3>2. v \in Task BY <1>1, <3>1 DEF Reason, RacePcs
    <3>3. QED BY <2>2, <3>1, <3>2 DEF RacePcs
  <2>13. CASE race_poll(v)
    <3>1. /\ pc[v] = "race_poll" /\ unwind' = unwind /\ pc'[v] \in {"race_poll", "run"}
      BY <1>3, <2>13 DEF race_poll, Goto
    <3>2. v \in Task BY <1>1, <3>1 DEF Reason, RacePcs
    <3>3. QED BY <2>1, <2>2, <3>1, <3>2 DEF RacePcs
  <2>14. CASE race_throws(v)
    <3>1. /\ pc[v] = "race_poll"
          /\ \/ is_cancelled(v) /\ ThrowFrom(v, Len(stack[v]), "cancelled")
             \/ ThrowFrom(v, Len(stack[v]), "error")
      BY <2>14 DEF race_throws
    <3>2. is_cancelled(v) => Excused(v) BY DEF Excused
    <3>3. QED BY <1>1, <1>3, <2>3, <3>1, <3>2, ThrowOutcome
  <2>16. CASE Returns(v)
    <3>1. Goto(v, Ended(v)) /\ unwind' = unwind
      BY <1>1, <2>16, ReturnsQuietly DEF Returns, return_value
    <3>2. QED BY <1>3, <2>1, <3>1 DEF Goto, Ended
  <2>17. CASE \E t \in Task : handle_await(v, t)
    <3>1. pc'[v] = "await" /\ unwind' = unwind /\ v \in Awaiting
      BY <1>3, <2>17 DEF handle_await, Goto
    <3>2. unwind'[v].outcome = "cancelled" /\ v \in Task => Excused(v)'
      BY <1>1, <1>6, <3>1 DEF Reason
    <3>3. QED BY <3>1, <3>2 DEF Reason, JoinPcs, RacePcs, Abandoning
  <2>18. CASE await_throws(v)
    <3>1. \/ is_cancelled(v) /\ ThrowFrom(v, Len(stack[v]), "cancelled")
          \/ ThrowFrom(v, Len(stack[v]), "error")
      BY <2>18 DEF await_throws
    <3>2. is_cancelled(v) => Excused(v) BY DEF Excused
    <3>3. QED BY <1>1, <1>3, <2>3, <3>1, <3>2, ThrowOutcome
  <2>19. CASE await_returns(v)
    <3>1. PICK o : o = promise[Awaited(v)] OBVIOUS
    <3>2. /\ pc[v] = "await" /\ o # "unset"
          /\ \/ o = "value" /\ Goto(v, "run") /\ unwind' = unwind
             \/ o # "value" /\ ThrowFrom(v, Len(stack[v]), o)
      BY <2>19, <3>1 DEF await_returns
    <3>3. CASE o = "value" BY <1>3, <2>1, <3>2, <3>3 DEF Goto
    <3>4. CASE o # "value"
      <4>1. join[v].snapshot # <<>> BY <1>1, <3>2 DEF ShapeOK
      <4>2. PICK u \in Task : u = Awaited(v)
        <5>1. PICK q \in Seq(Task) : q = join[v].snapshot BY <1>3, LocalFields
        <5>2. Head(q) \in Task BY <4>1, <5>1, HeadTailProperties
        <5>3. QED BY <5>1, <5>2 DEF Awaited
      <4>3. o \in {"error", "cancelled"} /\ ThrowFrom(v, Len(stack[v]), o)
        BY <1>3, <3>1, <3>2, <3>4, <4>2
      <4>4. ASSUME o = "cancelled", v \in Task PROVE Excused(v)
        <5>1. promise[v] = "unset"
          <6>1. pc[v] \notin Resting BY <3>2 DEF Resting
          <6>2. QED BY <4>4, <6>1 DEF IInv, PromiseOK
        <5>2. promise[u] = "cancelled" /\ Excused(u) BY <3>1, <4>2, <4>4 DEF Reasons
        <5>3. v \in Awaiting BY <1>1, <3>2 DEF Reason
        <5>4. CASE is_cancelled(u) BY <5>1, <5>2, <5>3, <5>4 DEF Excused
        <5>5. CASE \E x \in Task \ {u} : promise[x] = "cancelled" /\ is_cancelled(x)
          BY <5>1, <5>3, <5>5 DEF Excused
        <5>6. QED BY <5>2, <5>4, <5>5 DEF Excused
      <4>5. QED BY <1>1, <1>3, <2>3, <4>3, <4>4, ThrowOutcome
    <3>5. QED BY <3>3, <3>4
  <2>15. QED BY <2>16, <2>17, <2>18, <2>19, <2>4, <2>5, <2>6, <2>7, <2>8, <2>9, <2>10, <2>11, <2>12, <2>13, <2>14 DEF BodyAction
<1>8. QED BY <1>2, <1>4, <1>5, <1>7, <1>11, ReasonsKept

LEMMA LoopReasons ==
  ASSUME IInv, Parents, Reasons, NEW v \in VM, LoopAction(v)
  PROVE  Reasons'
<1>1. Types /\ Reason(v) /\ ShapeOK(v) BY DEF IInv, Reasons
<1>2. /\ UNCHANGED <<scopes, chain, stack, children, spawning, unwind>> /\ Elsewhere(v)
      /\ pc[v] \in Joining /\ pc'[v] \in Joining
  BY LoopFrame
<1>3. /\ pc \in [VM -> Pcs] /\ promise \in [Task -> {"unset", "value", "error", "cancelled"}]
  BY <1>1 DEF Types
<1>4. cancelled \subseteq cancelled'
  BY DEF LoopAction, subscribe_child, subscribed, abandon_unstarted_if_cancelled,
         abandon_exchange, abandon_handler, abandon_notify, abandon_done, poll_child,
         poll_again, wait_for_children, wake, task_state, tree
<1>5. (current_scope(v))' = current_scope(v) BY <1>2 DEF current_scope
<1>15. OutcomeStays
  <2>1. promise' = promise \/ (abandon_handler(v) /\ Resolve(Turn(v), "cancelled"))
    BY DEF LoopAction, subscribe_child, subscribed, abandon_unstarted_if_cancelled,
         abandon_exchange, abandon_handler, abandon_notify, abandon_done, poll_child,
         poll_again, wait_for_children, wake, task_state, tree
  <2>2. CASE promise' = promise BY <2>2, StaysSet
  <2>3. CASE abandon_handler(v) /\ Resolve(Turn(v), "cancelled")
    <3>1. pc[v] = "handler" BY <2>3 DEF abandon_handler
    <3>2. Turn(v) \in Task BY <1>1, <3>1, Positions DEF ShapeOK
    <3>3. QED BY <2>3, <3>2, StaysSet
  <2>4. QED BY <2>1, <2>2, <2>3
<1>6. v \in Task /\ Excused(v) => Excused(v)' BY <1>2, <1>4, <1>15, ExcusedStays
<1>7. is_cancelled(current_scope(v)) => (is_cancelled(current_scope(v)))'
  BY <1>2, <1>4, <1>5 DEF is_cancelled
<1>8. pc[v] \in JoinPcs /\ pc'[v] \in JoinPcs /\ pc'[v] \notin RacePcs \cup {"await"}
  BY <1>2, Sets DEF Joining, JoinPcs, RacePcs
<1>9. \A t \in Task : promise'[t] = "cancelled" => promise[t] = "cancelled" \/ Excused(t)
  <2>1. CASE abandon_handler(v)
    <3>1. pc[v] = "handler" /\ Resolve(Turn(v), "cancelled") BY <2>1 DEF abandon_handler
    <3>2. Min(join[v].todo) \in DOMAIN join[v].snapshot /\ Turn(v) \in Task
      BY <1>1, <3>1, Positions DEF ShapeOK
    <3>3. IsChild(Turn(v), current_scope(v)) BY <1>2, <3>2 DEF Parents, Turn
    <3>4. is_cancelled(current_scope(v)) BY <1>1, <1>8, <3>1 DEF Reason, Abandoning
    <3>5. is_cancelled(Turn(v)) BY <3>3, <3>4 DEF IsChild, is_cancelled
    <3>6. QED BY <1>3, <3>1, <3>2, <3>5 DEF Resolve, Excused
  <2>2. CASE ~abandon_handler(v)
    <3>1. promise' = promise
      BY <2>2 DEF LoopAction, subscribe_child, subscribed, abandon_unstarted_if_cancelled,
         abandon_exchange, abandon_notify, abandon_done, poll_child,
         poll_again, wait_for_children, wake, task_state, tree
    <3>2. QED BY <3>1
  <2>3. QED BY <2>1, <2>2
<1>10. join'[v].teardown = join[v].teardown BY LoopLocals DEF SameLocals
<1>11. unwind'[v].outcome = "cancelled" /\ v \in Task => Excused(v)'
  BY <1>1, <1>2, <1>6 DEF Reason
<1>12. ASSUME join'[v].abandoned = join[v].abandoned,
              pc'[v] \in Abandoning => pc[v] \in Abandoning,
              pc'[v] \in {"poll", "sleep"} => pc[v] \in {"poll", "sleep"} \cup Abandoning
       PROVE  Reason(v)'
  BY <1>1, <1>5, <1>7, <1>8, <1>10, <1>11, <1>12 DEF Reason
<1>13. Reason(v)'
  <2>1. CASE abandon_unstarted_if_cancelled(v)
    <3>1. /\ pc'[v] = IF MustAbandon(v) THEN "exchange" ELSE "poll"
      BY <1>3, <2>1 DEF abandon_unstarted_if_cancelled, Goto
    <3>2. join'[v].abandoned = (join[v].abandoned \/ MustAbandon(v)) BY <2>1, LoopLocals
    <3>3. MustAbandon(v) => is_cancelled(current_scope(v))
      BY <1>1, <1>8 DEF MustAbandon, Reason
    <3>4. (join'[v].teardown \/ join'[v].abandoned) => (is_cancelled(current_scope(v)))'
      BY <1>1, <1>7, <1>8, <1>10, <3>2, <3>3 DEF Reason
    <3>5. pc'[v] \in Abandoning => MustAbandon(v) BY <3>1 DEF Abandoning
    <3>6. ASSUME pc'[v] \in {"poll", "sleep"}, join'[v].teardown PROVE join'[v].abandoned
      BY <1>10, <3>1, <3>2, <3>6 DEF MustAbandon
    <3>7. QED BY <1>8, <1>11, <3>2, <3>4, <3>5, <3>6 DEF Reason
  <2>2. CASE subscribe_child(v) \/ subscribed(v) \/ poll_again(v) \/ wake(v)
    <3>1. pc'[v] \in {"subscribe", "check"}
      BY <1>3, <2>2 DEF subscribe_child, subscribed, poll_again, wake, Goto
    <3>2. join'[v].abandoned = join[v].abandoned BY <2>2, LoopLocals DEF Advances, Rests
    <3>3. QED BY <1>12, <3>1, <3>2 DEF Abandoning
  <2>3. CASE abandon_exchange(v) \/ abandon_handler(v) \/ abandon_notify(v)
    <3>1. pc[v] \in Abandoning /\ pc'[v] \in Abandoning
      BY <1>3, <2>3 DEF abandon_exchange, abandon_handler, abandon_notify, Goto, Abandoning
    <3>2. join'[v].abandoned = join[v].abandoned BY <2>3, LoopLocals DEF Advances, Rests
    <3>3. QED BY <1>12, <3>1, <3>2
  <2>4. CASE abandon_done(v) \/ poll_child(v) \/ wait_for_children(v)
    <3>1. /\ pc[v] \in {"exchange", "poll"} /\ pc'[v] \in {"poll", "sleep"}
      BY <1>3, <2>4 DEF abandon_done, poll_child, wait_for_children, Goto
    <3>2. join'[v].abandoned = join[v].abandoned BY <2>4, LoopLocals DEF Advances, Rests
    <3>3. QED BY <1>12, <3>1, <3>2 DEF Abandoning
  <2>5. QED BY <2>1, <2>2, <2>3, <2>4 DEF LoopAction
<1>14. QED BY <1>2, <1>4, <1>9, <1>13, <1>15, ReasonsKept

LEMMA RecordReasons ==
  ASSUME IInv, Reasons, NEW v \in VM,
         take_children(v) \/ add_child(v) \/ report_stall(v) \/ join_returns(v)
  PROVE  Reasons'
<1>1. Types /\ Reason(v) /\ ShapeOK(v) BY DEF IInv, Reasons
<1>2. CASE join_returns(v)
  <2>1. /\ UNCHANGED <<chain, promise, cancelled, unwind>> /\ Elsewhere(v)
        /\ \A w \in VM \ {v} : stack'[w] = stack[w]
        /\ pc'[v] \in {"unwind", "run"}
    BY <1>2, ReturnFrame
  <2>2. pc'[v] \notin JoinPcs \cup RacePcs \cup Abandoning \cup {"poll", "sleep", "await"}
    BY <2>1 DEF JoinPcs, RacePcs, Abandoning
  <2>3. OutcomeStays BY <2>1, StaysSet
  <2>4. v \in Task /\ Excused(v) => Excused(v)' BY <2>1, <2>3, ExcusedStays
  <2>5. Reason(v)' BY <1>1, <2>1, <2>2, <2>4 DEF Reason
  <2>6. QED BY <2>1, <2>3, <2>5, ReasonsKept
<1>3. CASE take_children(v) \/ add_child(v) \/ report_stall(v)
  <2>1. /\ UNCHANGED <<chain, stack, promise, cancelled>> /\ Elsewhere(v) /\ stack[v] # <<>>
        /\ \/ /\ pc[v] = "join" /\ pc'[v] = "subscribe" /\ unwind' = unwind
              /\ join'[v].teardown = join[v].teardown
              /\ join'[v].abandoned = join[v].abandoned
           \/ pc[v] = "add" /\ pc'[v] = "run" /\ unwind' = unwind
           \/ pc'[v] = "unwind" /\ ThrowFrom(v, Len(stack[v]) - 1, "error")
    BY <1>3, RecordFrame
  <2>7. OutcomeStays BY <2>1, StaysSet
  <2>2. /\ v \in Task /\ Excused(v) => Excused(v)'
        /\ (is_cancelled(current_scope(v)))' = is_cancelled(current_scope(v))
    BY <2>1, <2>7, ExcusedStays DEF is_cancelled, current_scope
  <2>3. Len(stack[v]) - 1 \in Nat BY <1>1, <2>1, CurrentScope
  <2>4. CASE pc'[v] = "unwind" /\ ThrowFrom(v, Len(stack[v]) - 1, "error")
    <3>1. unwind'[v].outcome # "cancelled" BY <1>1, <2>3, <2>4, ThrowOutcome
    <3>2. Reason(v)' BY <2>4, <3>1 DEF Reason, JoinPcs, RacePcs, Abandoning
    <3>3. QED BY <2>1, <2>7, <3>2, ReasonsKept
  <2>5. CASE \/ /\ pc[v] = "join" /\ pc'[v] = "subscribe" /\ unwind' = unwind
                /\ join'[v].teardown = join[v].teardown
                /\ join'[v].abandoned = join[v].abandoned
             \/ pc[v] = "add" /\ pc'[v] = "run" /\ unwind' = unwind
    <3>1. Reason(v)' BY <1>1, <2>2, <2>5 DEF Reason, JoinPcs, RacePcs, Abandoning
    <3>2. QED BY <2>1, <2>7, <3>1, ReasonsKept
  <2>6. QED BY <2>1, <2>4, <2>5
<1>4. QED BY <1>2, <1>3

LEMMA OpenReasons ==
  ASSUME IInv, Reasons, NEW v \in VM,
         \/ \E s \in Scope : handle_task_scope_begin(v, s)
         \/ \E t \in Task : handle_spawn(v, t)
  PROVE  Reasons'
<1>1. Types /\ FreshOK /\ StacksOK BY DEF IInv
<1>2. pc \in [VM -> Pcs] /\ chain \in [Token -> SUBSET Token] /\ stack \in [VM -> Seq(Scope)]
  BY <1>1 DEF Types
<1>3. UNCHANGED <<promise, cancelled, unwind, join>> /\ pc[v] = "run"
  BY DEF handle_task_scope_begin, handle_spawn, task_state
<1>4. \A w \in VM : \/ pc'[w] = pc[w]
                    \/ pc'[w] \in {"add", "queued"}
  <2>1. \/ pc' = pc
        \/ \E t \in Task : pc' = [pc EXCEPT ![v] = "add", ![t] = "queued"]
    BY DEF handle_task_scope_begin, handle_spawn
  <2>2. QED BY <1>2, <2>1, Sets
<1>5. \A x \in Task : chain[x] \subseteq chain'[x]
  <2>1. ASSUME NEW s \in Scope, handle_task_scope_begin(v, s) PROVE \A x \in Task : chain'[x] = chain[x]
    BY <1>2, <2>1, Sets DEF handle_task_scope_begin
  <2>2. ASSUME NEW t \in Task, handle_spawn(v, t)
        PROVE  \A x \in Task : chain[x] \subseteq chain'[x]
    BY <1>1, <1>2, <2>2, Sets DEF handle_spawn, FreshOK
  <2>3. QED BY <2>1, <2>2
<1>6. \A w \in VM \ {v} : stack[w] # <<>> =>
        /\ (current_scope(w))' = current_scope(w)
        /\ chain'[current_scope(w)] = chain[current_scope(w)]
  <2> SUFFICES ASSUME NEW w \in VM \ {v}, stack[w] # <<>>
               PROVE  /\ (current_scope(w))' = current_scope(w)
                      /\ chain'[current_scope(w)] = chain[current_scope(w)]
    OBVIOUS
  <2>1. current_scope(w) \in Scope /\ scopes[current_scope(w)] = "open"
    BY <1>1, CurrentScope DEF StacksOK
  <2>2. stack'[w] = stack[w] BY <1>2 DEF handle_task_scope_begin, handle_spawn
  <2>3. \/ \E s \in Scope : scopes[s] = "free" /\ chain' = [chain EXCEPT ![s] = {s} \cup OwnChain(v)]
        \/ \E t \in Task : chain' = [chain EXCEPT ![t] = {t} \cup chain[current_scope(v)]]
    BY DEF handle_task_scope_begin, handle_spawn
  <2>4. QED BY <1>2, <2>1, <2>2, <2>3, Sets DEF current_scope
<1>10. OutcomeStays BY <1>3, StaysSet
<1>11. \A t \in Task : Excused(t) => Excused(t)' BY <1>3, <1>5, <1>10, ExcusedStays
<1>7. \A t \in Task : (promise[t] = "cancelled" => Excused(t))'
  BY <1>3, <1>11 DEF Reasons
<1>8. ASSUME NEW w \in VM PROVE Reason(w)'
  <2>1. Reason(w) /\ ShapeOK(w) BY DEF Reasons, IInv
  <2>2. unwind'[w].outcome = "cancelled" /\ w \in Task => Excused(w)'
    BY <1>3, <1>11, <2>1 DEF Reason
  <2>3. CASE pc'[w] \in {"add", "queued"} \/ w = v
    <3>1. pc'[w] \in {"add", "queued", "run"} BY <1>3, <1>4, <2>3
    <3>2. QED BY <2>2, <3>1 DEF Reason, JoinPcs, RacePcs, Abandoning
  <2>4. CASE pc'[w] = pc[w] /\ w # v
    <3>1. pc[w] \in JoinPcs => stack[w] # <<>> BY <2>1 DEF ShapeOK
    <3>2. pc[w] \in JoinPcs => (is_cancelled(current_scope(w)))' = is_cancelled(current_scope(w))
      BY <1>3, <1>6, <2>4, <3>1 DEF is_cancelled
    <3>3. QED BY <1>3, <2>1, <2>2, <2>4, <3>2 DEF Reason
  <2>5. QED BY <1>4, <2>3, <2>4
<1>9. QED BY <1>7, <1>8 DEF Reasons

LEMMA LeaveReasons ==
  ASSUME IInv, Reasons, NEW v \in VM, Leaves(v)
  PROVE  Reasons'
<1>1. /\ UNCHANGED <<chain, join, unwind>> /\ Elsewhere(v) /\ cancelled \subseteq cancelled'
      /\ \A w \in VM \ {v} : stack'[w] = stack[w]
      /\ pc'[v] \in {"destroy", "finish", "done"}
      /\ \A t \in Task : \/ promise'[t] = promise[t]
                         \/ promise[t] = "unset" /\ promise'[t] = "value"
  BY LeaveFrame
<1>2. OutcomeStays BY <1>1 DEF OutcomeStays
<1>3. Reason(v)'
  <2>1. pc'[v] \notin JoinPcs \cup RacePcs \cup Abandoning \cup {"poll", "sleep", "await"}
    BY <1>1 DEF JoinPcs, RacePcs, Abandoning
  <2>2. v \in Task /\ Excused(v) => Excused(v)' BY <1>1, <1>2, ExcusedStays
  <2>3. QED BY <1>1, <2>1, <2>2 DEF Reason, Reasons
<1>4. \A t \in Task : promise'[t] = "cancelled" => promise[t] = "cancelled" BY <1>1
<1>5. QED BY <1>1, <1>2, <1>3, <1>4, ReasonsKept

LEMMA ReasonsHold ==
  ASSUME IInv, Parents, Reasons, Next
  PROVE  Reasons'
BY StepCases, WorkerReasons, BodyReasons, LoopReasons, RecordReasons, OpenReasons, LeaveReasons,
   ZenonT(40) DEF Leaves

-----------------------------------------------------------------------------
(* Failures.                                                               *)

Live(t) == promise[t] = "error" \/ Unresolved(t)

(* What is said of a child that failed holds of one that still may.        *)
(* No VM has left a scope between a child and its own, unless it is that.  *)
LEMMA ChildIntact ==
  ASSUME NEW t \in Task, NEW s \in Scope, IsChild(t, s), scopes[s] # "left"
  PROVE  Intact(t, s)
BY Sets DEF IsChild, Intact

LEMMA Located ==
  ASSUME IInv, Parents, FailuresKept, NEW t \in Task, Live(t),
         NEW v \in VM, NEW k \in DOMAIN stack[v], IsChild(t, stack[v][k])
  PROVE  \/ Retiring(v, k)
         \/ k = Len(stack[v]) /\ Known(t, v)
         \/ Recorded(t, stack[v][k])
<1>1. CASE promise[t] = "error" BY <1>1 DEF FailuresKept, Kept
<1>2. CASE Unresolved(t)
  <2>1. Types /\ StacksOK /\ FreshOK /\ LineageOK(t) BY DEF IInv
  <2>2. stack[v] \in Seq(Scope) BY <2>1 DEF Types
  <2>3. PICK s \in Scope : s = stack[v][k] BY <2>2, ElementOfSeq, LenProperties
  <2>4. s \in Token /\ s \in chain[s] /\ t \in Token /\ s # t BY <2>1, Sets DEF FreshOK
  <2>5. s \in chain[t] BY <2>3, <2>4 DEF IsChild
  <2>6. PICK u \in chain[t] \cap Task : Unresolved(u) /\ Kid(u, s)
    <3>1. Intact(t, s) BY <2>1, <2>3, ChildIntact DEF StacksOK
    <3>2. QED BY <1>2, <2>1, <2>5, <3>1 DEF LineageOK, KidAbove
  <2>7. ASSUME NEW w \in VM, stack[w] # <<>>, current_scope(w) = s, u \in Held(w)
        PROVE  w = v /\ k = Len(stack[v]) /\ Known(u, v)
    <3>1. Len(stack[w]) \in DOMAIN stack[w] /\ stack[w][Len(stack[w])] = s
      BY <2>1, <2>7, CurrentScope
    <3>2. w = v /\ k = Len(stack[v]) BY <2>1, <2>3, <3>1 DEF StacksOK
    <3>3. Known(u, v) BY <2>7, <3>2 DEF Held, Known, Uncollected
    <3>4. QED BY <3>2, <3>3
  <2>8. Recorded(u, s) \/ (k = Len(stack[v]) /\ Known(u, v))
    BY <2>6, <2>7 DEF Kid, Recorded
  <2>9. IsChild(u, s)
    <3>1. CASE Recorded(u, s) BY <3>1 DEF Recorded, Parents
    <3>2. CASE k = Len(stack[v]) /\ Known(u, v)
      <4>1. stack[v] # <<>> BY EmptySeq
      <4>2. current_scope(v) = s BY <2>1, <2>3, <3>2, <4>1, CurrentScope
      <4>3. QED BY <3>2, <4>2 DEF Known, Parents
    <3>3. QED BY <2>8, <3>1, <3>2
  <2>10. u = t
    <3>1. CASE u \in chain[s]
      <4>1. u \in Token /\ s \in chain[u] BY <2>4, <2>9, Sets DEF IsChild
      <4>2. u = s BY <2>4, <3>1, <4>1 DEF Parents
      <4>3. QED BY <4>2, Sets
    <3>2. CASE u \notin chain[s] BY <2>3, <2>6, <3>2 DEF IsChild
    <3>3. QED BY <3>1, <3>2
  <2>11. QED BY <2>3, <2>8, <2>10
<1>3. QED BY <1>1, <1>2 DEF Live

LEMMA JoinedIsOver ==
  ASSUME IInv, FailuresKept, NEW t \in Task, NEW s \in Scope, scopes[s] = "joined", IsChild(t, s)
  PROVE  ~Live(t)
<1>1. promise[t] # "error" BY DEF FailuresKept
<1>2. s \in chain[t] BY Sets DEF IInv, FreshOK, IsChild
<1>3. ~Unresolved(t)
  <2>1. Intact(t, s) BY ChildIntact
  <2>2. QED BY <1>2, <2>1 DEF IInv, LineageOK
<1>4. QED BY <1>1, <1>3 DEF Live

Settled(v) ==
  \A k \in DOMAIN stack[v], t \in Task :
    IsChild(t, stack[v][k]) /\ promise[t] = "error" =>
      \/ Retiring(v, k)
      \/ k = Len(stack[v]) /\ Known(t, v)
      \/ Recorded(t, stack[v][k])
Lasting(v) == pc[v] \in JoinPcs /\ join[v].teardown => Len(stack[v]) > unwind[v].to
LEMMA KeptIs == \A v \in VM : Kept(v) <=> Settled(v) /\ Collected(v) /\ Lasting(v)
BY DEF Kept, Settled, Lasting

LEMMA FailuresStay ==
  ASSUME IInv, Parents, FailuresKept, NEW v \in VM, Elsewhere(v), chain' = chain,
         \A t \in Task : promise'[t] = "error" => Live(t),
         \A t \in Task : promise[t] # "unset" => promise'[t] # "unset",
         \A w \in VM \ {v} : stack'[w] = stack[w],
         \A s \in Scope : s # current_scope(v) \/ stack[v] = <<>> => children'[s] = children[s],
         \A s \in Scope, t \in Task :
           scopes'[s] = "joined" /\ scopes[s] # "joined" /\ IsChild(t, s) => promise'[t] # "error",
         Settled(v)', Collected(v)', Lasting(v)'
  PROVE  FailuresKept'
<1>1. Types /\ StacksOK BY DEF IInv
<1>2. ASSUME NEW s \in Scope, NEW t \in Task, scopes'[s] = "joined", IsChild(t, s)'
      PROVE  promise'[t] # "error"
  <2>1. IsChild(t, s) BY <1>2 DEF IsChild
  <2>2. scopes[s] = "joined" => ~Live(t) BY <2>1, JoinedIsOver
  <2>3. QED BY <1>2, <2>1, <2>2
<1>3. ASSUME NEW w \in VM, w # v PROVE Settled(w)' /\ Collected(w)' /\ Lasting(w)'
  <2>1. /\ pc'[w] = pc[w] /\ join'[w] = join[w] /\ spawning'[w] = spawning[w]
        /\ unwind'[w] = unwind[w] /\ stack'[w] = stack[w]
    BY <1>3 DEF Elsewhere
  <2>2. Collected(w) /\ Lasting(w) /\ ShapeOK(w) BY KeptIs DEF FailuresKept, IInv
  <2>3. Lasting(w)' BY <2>1, <2>2 DEF Lasting
  <2>4. Collected(w)'
    <3>1. \A i \in DOMAIN join[w].snapshot : join[w].snapshot[i] \in Task
      BY <1>1, <2>2, Positions
    <3>2. QED BY <2>1, <2>2, <3>1 DEF Collected
  <2>5. Settled(w)'
    <3> SUFFICES ASSUME NEW k \in DOMAIN stack[w], NEW t \in Task, IsChild(t, stack[w][k]),
                        promise'[t] = "error"
                 PROVE  \/ Retiring(w, k)'
                        \/ k = Len(stack[w]) /\ Known(t, w)'
                        \/ Recorded(t, stack[w][k])'
      BY <2>1 DEF Settled, IsChild
    <3>1. \/ Retiring(w, k)
          \/ k = Len(stack[w]) /\ Known(t, w)
          \/ Recorded(t, stack[w][k])
      BY Located
    <3>2. stack[w] \in Seq(Scope) BY <1>1 DEF Types
    <3>3. stack[w][k] \in Scope BY <3>2, ElementOfSeq, LenProperties
    <3>4. stack[v] # <<>> => stack[w][k] # current_scope(v)
      BY <1>1, <1>3, CurrentScope DEF StacksOK
    <3>5. children'[stack[w][k]] = children[stack[w][k]] BY <3>3, <3>4
    <3>6. Retiring(w, k) => Retiring(w, k)' BY <2>1 DEF Retiring
    <3>7. Known(t, w) => Known(t, w)' BY <2>1 DEF Known
    <3>8. Recorded(t, stack[w][k]) => Recorded(t, stack[w][k])' BY <2>1, <3>5 DEF Recorded
    <3>9. QED BY <3>1, <3>6, <3>7, <3>8
  <2>6. QED BY <2>3, <2>4, <2>5
<1>4. \A w \in VM : Kept(w)'
  <2>1. \A w \in VM : Settled(w)' /\ Collected(w)' /\ Lasting(w)' BY <1>3
  <2>2. (\A w \in VM : Kept(w) <=> Settled(w) /\ Collected(w) /\ Lasting(w))'
    BY DEF Kept, Settled, Lasting
  <2>3. QED BY <2>1, <2>2
<1>5. QED BY <1>2, <1>4 DEF FailuresKept

LEMMA SettledStays ==
  ASSUME IInv, Parents, FailuresKept, NEW v \in VM,
         chain' = chain, stack' = stack, children' = children,
         \A t \in Task : promise'[t] = "error" => Live(t),
         \A k \in DOMAIN stack[v] : Retiring(v, k) => Retiring(v, k)',
         \A t \in Task : promise'[t] = "error" /\ Known(t, v) /\ stack[v] # <<>> =>
           Known(t, v)' \/ Retiring(v, Len(stack[v]))'
  PROVE  Settled(v)'
<1> SUFFICES ASSUME NEW k \in DOMAIN stack[v], NEW t \in Task, IsChild(t, stack[v][k]),
                    promise'[t] = "error"
             PROVE  \/ Retiring(v, k)'
                    \/ k = Len(stack[v]) /\ Known(t, v)'
                    \/ Recorded(t, stack[v][k])'
  BY DEF Settled, IsChild
<1>1. \/ Retiring(v, k)
      \/ k = Len(stack[v]) /\ Known(t, v)
      \/ Recorded(t, stack[v][k])
  BY Located
<1>2. Recorded(t, stack[v][k]) => Recorded(t, stack[v][k])' BY DEF Recorded
<1>3. stack[v] # <<>> BY EmptySeq
<1>4. QED BY <1>1, <1>2, <1>3

LEMMA WorkerFailures ==
  ASSUME IInv, Parents, FailuresKept, NEW v \in Task, WorkerStep(v)
  PROVE  FailuresKept'
<1>1. Types /\ v \in VM /\ ShapeOK(v) BY Sets DEF IInv
<1>2. UNCHANGED <<scopes, chain, stack, children>> /\ Elsewhere(v) BY <1>1, OutsideLoop
<1>3. pc \in [VM -> Pcs] /\ promise \in [Task -> {"unset", "value", "error", "cancelled"}]
  BY <1>1 DEF Types
<1>4. /\ pc[v] \in {"queued", "dequeued", "claimed", "finish"}
      /\ pc'[v] \in {"dequeued", "claimed", "run", "finish", "done"}
  BY <1>1, <1>3 DEF WorkerStep, fetch, claim_start, start_task, notify_completion, Goto
<1>5. /\ \A t \in Task : promise'[t] = "error" => Live(t)
      /\ \A t \in Task : promise[t] # "unset" => promise'[t] # "unset"
  <2>1. promise' = promise \/ Resolve(v, "cancelled")
    BY DEF WorkerStep, fetch, claim_start, start_task, notify_completion, task_state, tree
  <2>2. QED BY <1>3, <2>1 DEF Resolve, Live
<1>6. stack[v] = <<>> BY <1>1, <1>4 DEF ShapeOK, BodyPcs, JoinPcs, RacePcs
<1>7. pc'[v] \notin JoinPcs \cup Joining BY <1>4 DEF JoinPcs, Joining
<1>8. Settled(v)' BY <1>2, <1>6, EmptySeq DEF Settled
<1>9. Collected(v)' /\ Lasting(v)' BY <1>7 DEF Collected, Lasting
<1>10. QED BY <1>1, <1>2, <1>5, <1>8, <1>9, FailuresStay

LEMMA BodyFailures ==
  ASSUME IInv, Parents, FailuresKept, NEW v \in VM, BodyAction(v) \/ Returns(v) \/ Unwound(v)
  PROVE  FailuresKept'
<1>1. Types /\ ShapeOK(v) /\ Settled(v) /\ Lasting(v) /\ (v \in Task => PromiseOK(v))
  BY KeptIs DEF IInv, FailuresKept
<1>2. UNCHANGED <<scopes, chain, stack, children, spawning>> /\ Elsewhere(v)
      /\ pc'[v] \notin Joining \cup {"add"}
  BY OutsideLoop
<1>3. /\ pc \in [VM -> Pcs] /\ promise \in [Task -> {"unset", "value", "error", "cancelled"}]
      /\ join \in [VM -> Locals] /\ unwind \in [VM -> Unwinds]
      /\ Len(stack[v]) \in Nat /\ unwind[v].to \in Nat /\ DOMAIN stack[v] = 1 .. Len(stack[v])
  BY <1>1, LenProperties DEF Types, Unwinds
<1>4. /\ \A t \in Task : promise'[t] = "error" => Live(t)
      /\ \A t \in Task : promise[t] # "unset" => promise'[t] # "unset"
  <2>1. CASE BodyAction(v)
    <3>1. promise' = promise
      BY <2>1 DEF BodyAction, cancel_task, throw_error, check_cancellation, handle_task_scope_end,
         retire_task_scope, join_throws, race, race_subscribe, race_poll, race_throws,
         race_wait, race_wake, handle_await, await_returns, await_throws, tree, task_state
    <3>2. QED BY <3>1 DEF Live
  <2>2. CASE Returns(v)
    <3>1. promise' = promise \/ (v \in Task /\ Resolve(v, "value"))
      BY <2>2 DEF Returns, return_value, VM
    <3>2. QED BY <1>3, <3>1 DEF Resolve, Live
  <2>3. CASE Unwound(v)
    <3>1. /\ pc[v] = "unwind"
          /\ \/ promise' = promise
             \/ /\ v # Main /\ unwind[v].outcome # "run"
                /\ Resolve(v, IF is_cancelled(v) THEN "cancelled" ELSE unwind[v].outcome)
      BY <2>3, Zenon DEF Unwound
    <3>2. v \in Task => Unresolved(v) BY <1>1, <1>3, <3>1 DEF PromiseOK, Resting, Unresolved
    <3>3. unwind[v].outcome \in {"run", "error", "cancelled"} BY <1>3 DEF Unwinds
    <3>4. QED BY <1>3, <3>1, <3>2, <3>3 DEF Resolve, VM, Live
  <2>4. QED BY <2>1, <2>2, <2>3
<1>5. Collected(v)' BY <1>2 DEF Collected
(* Before a step of the code itself the children that failed are recorded. *)
<1>6. ASSUME \A k \in DOMAIN stack[v] : ~Retiring(v, k), \A t \in Task : ~Known(t, v)
      PROVE  Settled(v)'
  BY <1>2, <1>4, <1>6, SettledStays
<1>7. ASSUME pc[v] \in {"run", "await", "race_subscribe", "race_poll", "race_sleep"} PROVE Settled(v)'
  <2>1. pc[v] \notin {"unwind", "add"} \cup JoinPcs \cup Joining
    BY <1>7 DEF JoinPcs, Joining
  <2>2. QED BY <1>6, <2>1 DEF Retiring, Known
<1>8. CASE retire_task_scope(v)
  <2>1. /\ pc[v] = "unwind" /\ pc'[v] = "join" /\ unwind' = unwind
        /\ Len(stack[v]) > unwind[v].to
        /\ join'[v] = [NoLocals EXCEPT !.teardown = TRUE]
    BY <1>3, <1>8 DEF retire_task_scope, Goto
  <2>2. join'[v].teardown BY <2>1 DEF NoLocals
  <2>3. Lasting(v)' BY <1>2, <2>1 DEF Lasting
  <2>4. \A k \in DOMAIN stack[v] : Retiring(v, k) => Retiring(v, k)'
    BY <2>1, <2>2 DEF Retiring, JoinPcs
  <2>5. \A t \in Task : ~Known(t, v) BY <2>1 DEF Known, Joining, JoinPcs
  <2>6. Settled(v)' BY <1>2, <1>4, <2>4, <2>5, SettledStays
  <2>7. QED BY <1>2, <1>4, <1>5, <2>3, <2>6, FailuresStay
<1>9. CASE join_throws(v)
  <2>1. /\ pc[v] = "check" /\ ~join[v].teardown /\ ThrowFrom(v, Len(stack[v]) - 1, "error")
    BY <1>9 DEF join_throws
  <2>2. stack[v] # <<>> BY <1>1, <2>1 DEF ShapeOK, JoinPcs
  <2>3. Len(stack[v]) - 1 \in Nat BY <1>1, <2>2, CurrentScope
  <2>4. pc'[v] = "unwind" /\ unwind'[v].to \in 0 .. (Len(stack[v]) - 1)
    BY <1>1, <2>1, <2>3, ThrowOutcome
  <2>5. Retiring(v, Len(stack[v]))' BY <1>2, <2>3, <2>4 DEF Retiring
  <2>6. \A k \in DOMAIN stack[v] : ~Retiring(v, k) BY <2>1 DEF Retiring, JoinPcs
  <2>7. Settled(v)' BY <1>2, <1>4, <2>5, <2>6, SettledStays
  <2>8. Lasting(v)' BY <2>4 DEF Lasting, JoinPcs
  <2>9. QED BY <1>2, <1>4, <1>5, <2>7, <2>8, FailuresStay
<1>10. CASE Unwound(v)
  <2>1. pc[v] = "unwind" /\ Len(stack[v]) = unwind[v].to
        /\ (Goto(v, "run") \/ Goto(v, "done") \/ Goto(v, "finish"))
    BY <1>10, Zenon DEF Unwound
  <2>2. \A k \in DOMAIN stack[v] : ~Retiring(v, k) BY <1>3, <2>1 DEF Retiring
  <2>3. \A t \in Task : ~Known(t, v) BY <2>1 DEF Known, Joining, JoinPcs
  <2>4. Settled(v)' BY <1>6, <2>2, <2>3
  <2>5. pc'[v] \notin JoinPcs BY <1>3, <2>1 DEF Goto, JoinPcs
  <2>6. Lasting(v)' BY <2>5 DEF Lasting
  <2>7. QED BY <1>2, <1>4, <1>5, <2>4, <2>6, FailuresStay
<1>11. CASE handle_task_scope_end(v)
  <2>1. pc[v] = "run" /\ join'[v] = NoLocals BY <1>3, <1>11 DEF handle_task_scope_end
  <2>2. Lasting(v)' BY <2>1 DEF Lasting, NoLocals
  <2>3. QED BY <1>2, <1>4, <1>5, <1>7, <2>1, <2>2, FailuresStay
<1>12. CASE \/ \E t \in Task : cancel_task(v, t)
            \/ throw_error(v) \/ check_cancellation(v)
            \/ \E R \in SUBSET Task : race(v, R)
            \/ race_subscribe(v) \/ race_poll(v) \/ race_throws(v) \/ race_wait(v) \/ race_wake(v)
            \/ Returns(v)
            \/ \E t \in Task : handle_await(v, t)
            \/ await_returns(v) \/ await_throws(v)
  <2>1. pc[v] \in {"run", "await", "race_subscribe", "race_poll", "race_sleep"}
    BY <1>12 DEF cancel_task, throw_error, check_cancellation, race, race_subscribe, race_poll,
       race_throws, race_wait, race_wake, Returns, return_value, handle_await, await_returns,
       await_throws
  <2>2. \/ pc' = pc
        \/ \E l \in {"run", "unwind", "finish", "done", "await", "race_subscribe", "race_poll",
                     "race_sleep"} : Goto(v, l)
    <3>1. CASE Returns(v) BY <1>1, <3>1, ReturnsQuietly DEF Ended
    <3>2. CASE ~Returns(v)
      BY <1>12, <3>2 DEF cancel_task, throw_error, check_cancellation, race, race_subscribe,
         race_poll, race_throws, race_wait, race_wake, handle_await, await_returns, await_throws,
         ThrowFrom
    <3>3. QED BY <3>1, <3>2
  <2>3. pc'[v] \notin JoinPcs BY <1>3, <2>1, <2>2 DEF Goto, JoinPcs
  <2>4. Lasting(v)' BY <2>3 DEF Lasting
  <2>5. QED BY <1>2, <1>4, <1>5, <1>7, <2>1, <2>4, FailuresStay
<1>13. QED BY <1>8, <1>9, <1>10, <1>11, <1>12 DEF BodyAction

LEMMA LoopFailures ==
  ASSUME IInv, Parents, FailuresKept, NEW v \in VM, LoopAction(v)
  PROVE  FailuresKept'
<1>1. Types /\ ShapeOK(v) /\ Collected(v) /\ Lasting(v) BY KeptIs DEF IInv, FailuresKept
<1>2. /\ UNCHANGED <<scopes, chain, stack, children, spawning, unwind>> /\ Elsewhere(v)
      /\ pc[v] \in Joining /\ pc'[v] \in Joining
      /\ join'[v].snapshot = join[v].snapshot
      /\ \/ join'[v].collected = join[v].collected
         \/ /\ join'[v].collected = join[v].collected \cup {Min(join[v].todo)}
            /\ join[v].todo # {} /\ promise[Turn(v)] # "unset"
  BY LoopFrame
<1>3. /\ promise \in [Task -> {"unset", "value", "error", "cancelled"}]
  BY <1>1 DEF Types
<1>4. /\ \A t \in Task : promise'[t] = "error" => promise[t] = "error"
      /\ \A t \in Task : promise[t] # "unset" => promise'[t] # "unset"
  <2>1. promise' = promise \/ (abandon_handler(v) /\ Resolve(Turn(v), "cancelled"))
    BY DEF LoopAction, subscribe_child, subscribed, abandon_unstarted_if_cancelled,
         abandon_exchange, abandon_handler, abandon_notify, abandon_done, poll_child,
         poll_again, wait_for_children, wake, task_state, tree
  <2>2. QED BY <1>3, <2>1 DEF Resolve
<1>5. join'[v].teardown = join[v].teardown BY LoopLocals DEF SameLocals
<1>6. pc[v] \in JoinPcs /\ pc'[v] \in JoinPcs /\ pc[v] # "add" /\ pc[v] # "unwind"
  BY <1>2 DEF Joining, JoinPcs
<1>7. \A k \in DOMAIN stack[v] : Retiring(v, k) => Retiring(v, k)'
  BY <1>2, <1>5, <1>6 DEF Retiring
<1>8. ASSUME NEW t \in Task, promise'[t] = "error", Known(t, v) PROVE Known(t, v)'
  <2>1. PICK i \in DOMAIN join[v].snapshot :
          /\ join[v].snapshot[i] = t
          /\ i \in join[v].collected => join[v].first_error # NoTask
    BY <1>6, <1>8 DEF Known
  <2>2. i \in join'[v].collected => join'[v].first_error # NoTask
    <3>1. CASE poll_child(v) /\ promise[Turn(v)] # "unset"
      <4>1. /\ join'[v].collected = join[v].collected \cup {Min(join[v].todo)}
            /\ join'[v].first_error =
                 IF promise[Turn(v)] = "error" /\ join[v].first_error = NoTask
                   THEN Turn(v) ELSE join[v].first_error
        BY <3>1, LoopLocals, Zenon
      <4>2. join[v].todo # {} BY <3>1 DEF poll_child
      <4>3. Turn(v) \in Task /\ Turn(v) # NoTask BY <1>1, <4>2, Positions, NoTaskAssumption
      <4>4. CASE i = Min(join[v].todo)
        <5>1. promise[Turn(v)] = "error" BY <1>4, <1>8, <2>1, <4>4 DEF Turn
        <5>2. QED BY <4>1, <4>3, <5>1
      <4>5. CASE i # Min(join[v].todo) BY <2>1, <4>1, <4>3, <4>5
      <4>6. QED BY <4>4, <4>5
    <3>2. CASE ~(poll_child(v) /\ promise[Turn(v)] # "unset")
      <4>1. SameResults(join'[v], join[v])
        BY <3>2, LoopLocals DEF LoopAction, Advances, Rests
      <4>2. QED BY <2>1, <4>1 DEF SameResults
    <3>3. QED BY <3>1, <3>2
  <2>3. QED BY <1>2, <2>1, <2>2 DEF Known
<1>9. Settled(v)' BY <1>2, <1>4, <1>7, <1>8, SettledStays DEF Live
<1>10. Collected(v)'
  <2> SUFFICES ASSUME NEW i \in DOMAIN join[v].snapshot, i \in join'[v].collected
               PROVE  promise'[join[v].snapshot[i]] # "unset"
    BY <1>2 DEF Collected
  <2>1. promise[join[v].snapshot[i]] # "unset"
    <3>1. CASE i \in join[v].collected BY <1>1, <1>2, <3>1 DEF Collected
    <3>2. CASE i \notin join[v].collected BY <1>2, <3>2 DEF Turn
    <3>3. QED BY <3>1, <3>2
  <2>2. join[v].snapshot[i] \in Task BY <1>1, Positions
  <2>3. QED BY <1>4, <2>1, <2>2
<1>11. Lasting(v)' BY <1>1, <1>2, <1>5, <1>6 DEF Lasting
<1>12. QED BY <1>2, <1>4, <1>9, <1>10, <1>11, FailuresStay DEF Live

LEMMA RecordFailures ==
  ASSUME IInv, Parents, Reasons, FailuresKept, NEW v \in VM,
         take_children(v) \/ add_child(v) \/ report_stall(v)
  PROVE  FailuresKept'
<1>1. /\ Types /\ StacksOK /\ ShapeOK(v) /\ Collected(v) /\ Lasting(v) /\ Reason(v)
  BY KeptIs DEF IInv, FailuresKept, Reasons
<1>2. PICK c \in Scope : c = current_scope(v) BY RecordFrame
<1>3. /\ UNCHANGED <<scopes, chain, stack, promise>> /\ Elsewhere(v) /\ stack[v] # <<>>
      /\ \A s \in Scope \ {c} : children'[s] = children[s]
      /\ \/ /\ pc[v] = "join" /\ pc'[v] = "subscribe"
            /\ join'[v].snapshot = children[c] /\ join'[v].collected = {}
            /\ join'[v].teardown = join[v].teardown /\ unwind' = unwind
         \/ /\ pc[v] = "add" /\ pc'[v] = "run"
            /\ children'[c] = Append(children[c], spawning[v])
         \/ /\ pc[v] = "poll" /\ pc'[v] = "unwind"
            /\ ThrowFrom(v, Len(stack[v]) - 1, "error") /\ report_stall(v)
  <2>1. add_child(v) => pc[v] = "add" BY DEF add_child
  <2>2. take_children(v) => pc[v] = "join" BY DEF take_children
  <2>3. QED BY <1>2, <2>1, <2>2, RecordFrame
<1>4. /\ Len(stack[v]) - 1 \in Nat /\ Len(stack[v]) \in DOMAIN stack[v]
      /\ stack[v][Len(stack[v])] = c /\ DOMAIN stack[v] = 1 .. Len(stack[v])
  BY <1>1, <1>2, <1>3, CurrentScope
<1>5. \A k \in DOMAIN stack[v] : k # Len(stack[v]) =>
        stack[v][k] \in Scope /\ children'[stack[v][k]] = children[stack[v][k]]
  <2> SUFFICES ASSUME NEW k \in DOMAIN stack[v], k # Len(stack[v])
               PROVE  stack[v][k] \in Scope /\ children'[stack[v][k]] = children[stack[v][k]]
    OBVIOUS
  <2>1. stack[v] \in Seq(Scope) BY <1>1 DEF Types
  <2>2. stack[v][k] \in Scope BY <2>1, ElementOfSeq, LenProperties
  <2>3. stack[v][k] # c BY <1>1, <1>4 DEF StacksOK
  <2>4. QED BY <1>3, <2>2, <2>3
<1>6. ASSUME \A k \in DOMAIN stack[v] : Retiring(v, k) => Retiring(v, k)',
             \A t \in Task : Known(t, v) \/ Recorded(t, c) =>
               \/ Retiring(v, Len(stack[v]))'
               \/ Known(t, v)'
               \/ Recorded(t, c)'
      PROVE  Settled(v)'
  <2> SUFFICES ASSUME NEW k \in DOMAIN stack[v], NEW t \in Task, IsChild(t, stack[v][k]),
                      promise[t] = "error"
               PROVE  \/ Retiring(v, k)'
                      \/ k = Len(stack[v]) /\ Known(t, v)'
                      \/ Recorded(t, stack[v][k])'
    BY <1>3 DEF Settled, IsChild
  <2>1. \/ Retiring(v, k)
        \/ k = Len(stack[v]) /\ Known(t, v)
        \/ Recorded(t, stack[v][k])
    BY Located DEF Live
  <2>2. CASE k = Len(stack[v])
    <3>1. stack[v][k] = c BY <1>4, <2>2
    <3>2. Recorded(t, c)' => Recorded(t, stack[v][k])' BY <1>3, <3>1 DEF Recorded
    <3>3. Retiring(v, Len(stack[v]))' => Retiring(v, k)' BY <1>3, <2>2 DEF Retiring
    <3>4. Retiring(v, k) \/ Known(t, v) \/ Recorded(t, c) BY <2>1, <3>1
    <3>5. Retiring(v, k)' \/ Known(t, v)' \/ Recorded(t, c)' BY <1>6, <3>3, <3>4
    <3>6. QED BY <2>2, <3>2, <3>5
  <2>3. CASE k # Len(stack[v])
    <3>1. Recorded(t, stack[v][k]) => Recorded(t, stack[v][k])'
      BY <1>3, <1>5, <2>3 DEF Recorded
    <3>2. QED BY <1>6, <2>1, <2>3, <3>1
  <2>4. QED BY <2>2, <2>3
<1>7. CASE /\ pc[v] = "join" /\ pc'[v] = "subscribe"
           /\ join'[v].snapshot = children[c] /\ join'[v].collected = {}
           /\ join'[v].teardown = join[v].teardown /\ unwind' = unwind
  <2>1. pc[v] \notin Joining /\ pc'[v] \in Joining /\ pc[v] \in JoinPcs /\ pc'[v] \in JoinPcs
    BY <1>7 DEF Joining, JoinPcs
  <2>2. \A k \in DOMAIN stack[v] : Retiring(v, k) => Retiring(v, k)'
    BY <1>7, <2>1 DEF Retiring
  <2>3. \A t \in Task : Recorded(t, c) => Known(t, v)' BY <1>7, <2>1 DEF Recorded, Known
  <2>4. \A t \in Task : ~Known(t, v) BY <1>7, <2>1 DEF Known
  <2>5. Settled(v)' BY <1>6, <2>2, <2>3, <2>4
  <2>6. Collected(v)' /\ Lasting(v)' BY <1>1, <1>3, <1>7, <2>1 DEF Collected, Lasting
  <2>7. QED BY <1>2, <1>3, <2>5, <2>6, FailuresStay DEF Live
<1>8. CASE /\ pc[v] = "add" /\ pc'[v] = "run"
           /\ children'[c] = Append(children[c], spawning[v])
  <2>1. /\ pc[v] \notin JoinPcs \cup Joining \cup {"unwind"}
        /\ pc'[v] \notin JoinPcs \cup Joining
    BY <1>8 DEF Joining, JoinPcs
  <2>2. \A k \in DOMAIN stack[v] : ~Retiring(v, k) BY <2>1 DEF Retiring
  <2>3. \A t \in Task : Known(t, v) \/ Recorded(t, c) => Recorded(t, c)'
    <3>1. PICK r \in Seq(Task) : r = children[c] BY <1>1 DEF Types
    <3>2. spawning[v] \in Task BY <1>1, <1>8 DEF ShapeOK
    <3>3. Len(r) \in Nat /\ DOMAIN r = 1 .. Len(r) BY LenProperties
    <3>4. /\ DOMAIN Append(r, spawning[v]) = 1 .. Len(r) + 1
          /\ \A i \in 1 .. Len(r) : Append(r, spawning[v])[i] = r[i]
          /\ Append(r, spawning[v])[Len(r) + 1] = spawning[v]
      BY <3>2, AppendProperties, LenProperties
    <3>5. \A t \in Task : Known(t, v) => spawning[v] = t BY <2>1 DEF Known
    <3>6. ASSUME NEW t \in Task, Known(t, v) \/ Recorded(t, c) PROVE Recorded(t, c)'
      <4>1. CASE Known(t, v)
        <5>1. Append(r, spawning[v])[Len(r) + 1] = t /\ Len(r) + 1 \in 1 .. Len(r) + 1
          BY <3>3, <3>4, <3>5, <4>1
        <5>2. QED BY <1>8, <3>1, <3>4, <5>1 DEF Recorded
      <4>2. CASE Recorded(t, c)
        <5>1. PICK i \in 1 .. Len(r) : r[i] = t BY <3>1, <3>3, <4>2 DEF Recorded
        <5>2. i \in 1 .. Len(r) + 1 BY <3>3
        <5>3. QED BY <1>8, <3>1, <3>4, <5>1, <5>2 DEF Recorded
      <4>3. QED BY <3>6, <4>1, <4>2
    <3>7. QED BY <3>6
  <2>4. Settled(v)' BY <1>6, <2>2, <2>3
  <2>5. Collected(v)' /\ Lasting(v)' BY <2>1 DEF Collected, Lasting
  <2>6. QED BY <1>2, <1>3, <2>4, <2>5, FailuresStay DEF Live
<1>9. CASE /\ pc[v] = "poll" /\ pc'[v] = "unwind"
           /\ ThrowFrom(v, Len(stack[v]) - 1, "error") /\ report_stall(v)
  <2>1. ~join[v].teardown BY <1>1, <1>9 DEF Reason, report_stall
  <2>2. unwind'[v].to \in 0 .. (Len(stack[v]) - 1) BY <1>1, <1>4, <1>9, ThrowOutcome
  <2>3. Retiring(v, Len(stack[v]))' BY <1>3, <1>4, <1>9, <2>2 DEF Retiring
  <2>4. \A k \in DOMAIN stack[v] : ~Retiring(v, k) BY <1>9, <2>1 DEF Retiring
  <2>5. Settled(v)' BY <1>6, <2>3, <2>4
  <2>6. Collected(v)' /\ Lasting(v)' BY <1>9 DEF Collected, Lasting, Joining, JoinPcs
  <2>7. QED BY <1>2, <1>3, <2>5, <2>6, FailuresStay DEF Live
<1>10. QED BY <1>3, <1>7, <1>8, <1>9

(* A join returns results when it has collected every child of the scope   *)
(* and none was the first to fail: no child failed.                        *)
LEMMA ReturnFailures ==
  ASSUME IInv, Parents, FailuresKept, NEW v \in VM, join_returns(v)
  PROVE  FailuresKept'
<1>1. Types /\ StacksOK /\ ShapeOK(v) /\ Lasting(v) BY KeptIs DEF IInv, FailuresKept
<1>2. PICK c \in Scope : c = current_scope(v) BY ReturnFrame
<1>3. /\ UNCHANGED <<chain, children, promise, unwind>> /\ Elsewhere(v)
      /\ stack[v] # <<>> /\ pc[v] = "check" /\ Uncollected(v) = {}
      /\ pc'[v] = IF join[v].teardown THEN "unwind" ELSE "run"
      /\ join[v].teardown \/ join[v].first_error = NoTask
      /\ scopes'[c] = IF join[v].teardown THEN "failed" ELSE "joined"
      /\ \A s \in Scope \ {c} : scopes'[s] = scopes[s]
      /\ \A w \in VM \ {v} : stack'[w] = stack[w]
      /\ Len(stack'[v]) = Len(stack[v]) - 1
      /\ DOMAIN stack'[v] = 1 .. Len(stack[v]) - 1
      /\ \A i \in DOMAIN stack'[v] : stack'[v][i] = stack[v][i]
  BY <1>2, ReturnFrame
<1>4. /\ Len(stack[v]) \in Nat \ {0} /\ Len(stack[v]) \in DOMAIN stack[v]
      /\ stack[v][Len(stack[v])] = c /\ DOMAIN stack[v] = 1 .. Len(stack[v])
  BY <1>1, <1>2, <1>3, CurrentScope
<1>5. /\ pc[v] \in Joining /\ pc[v] # "add" /\ pc[v] # "unwind" /\ pc[v] \in JoinPcs
      /\ pc'[v] \notin Joining \cup JoinPcs
  BY <1>3 DEF Joining, JoinPcs
<1>6. ASSUME NEW s \in Scope, NEW t \in Task, scopes'[s] = "joined", scopes[s] # "joined",
             IsChild(t, s), promise[t] = "error"
      PROVE  FALSE
  <2>1. s = c /\ ~join[v].teardown /\ join[v].first_error = NoTask BY <1>3, <1>6
  <2>2. \/ Retiring(v, Len(stack[v]))
        \/ Known(t, v)
        \/ Recorded(t, c)
    BY <1>4, <1>6, <2>1, Located DEF Live
  <2>3. ~Retiring(v, Len(stack[v])) BY <1>5, <2>1 DEF Retiring
  <2>4. ~Known(t, v) BY <1>3, <1>5, <2>1 DEF Known, Uncollected
  <2>5. ~Recorded(t, c) BY <1>1, <1>2, <1>5, EmptySeq DEF Recorded, ShapeOK
  <2>6. QED BY <2>2, <2>3, <2>4, <2>5
<1>7. Settled(v)'
  <2> SUFFICES ASSUME NEW k \in DOMAIN stack'[v], NEW t \in Task, IsChild(t, stack[v][k]),
                      promise[t] = "error"
               PROVE  Retiring(v, k)' \/ Recorded(t, stack[v][k])'
    <3>1. \A k \in DOMAIN stack'[v] : stack'[v][k] = stack[v][k] BY <1>3
    <3>2. QED BY <1>3, <3>1 DEF Settled, IsChild, Recorded
  <2>1. k \in DOMAIN stack[v] /\ k # Len(stack[v]) BY <1>3, <1>4
  <2>2. Retiring(v, k) \/ Recorded(t, stack[v][k]) BY <2>1, Located DEF Live
  <2>3. Retiring(v, k) => Retiring(v, k)' BY <1>3, <1>5 DEF Retiring
  <2>4. Recorded(t, stack[v][k]) => Recorded(t, stack[v][k])'
    BY <1>3 DEF Recorded
  <2>5. QED BY <2>2, <2>3, <2>4
<1>8. Collected(v)' /\ Lasting(v)' BY <1>5 DEF Collected, Lasting
<1>9. QED BY <1>3, <1>6, <1>7, <1>8, FailuresStay DEF Live

LEMMA OpenFailures ==
  ASSUME IInv, Parents, FailuresKept, NEW v \in VM,
         \/ \E s \in Scope : handle_task_scope_begin(v, s)
         \/ \E t \in Task : handle_spawn(v, t)
  PROVE  FailuresKept'
<1>1. Types /\ FreshOK /\ StacksOK /\ \A w \in VM : ShapeOK(w) BY DEF IInv
<1>2. /\ pc \in [VM -> Pcs] /\ chain \in [Token -> SUBSET Token] /\ stack \in [VM -> Seq(Scope)]
      /\ scopes \in [Scope -> {"free", "open", "joined", "failed", "left"}]
      /\ spawning \in [VM -> Task \cup {NoTask}]
  BY <1>1 DEF Types
<1>3. UNCHANGED <<promise, unwind, join, children>> /\ pc[v] = "run"
  BY DEF handle_task_scope_begin, handle_spawn, task_state
<1>4. /\ \A w \in VM \ {v} : pc'[w] = pc[w] \/ (pc[w] = "new" /\ pc'[w] = "queued")
      /\ pc'[v] \in {"run", "add"}
  <2>1. \/ pc' = pc
        \/ \E t \in Task : pc[t] = "new" /\ pc' = [pc EXCEPT ![v] = "add", ![t] = "queued"]
    BY DEF handle_task_scope_begin, handle_spawn
  <2>2. QED BY <1>2, <1>3, <2>1, Sets
(* The scope that is opened has no children; a task that is spawned has    *)
(* not failed.                                                             *)
<1>5. \/ /\ UNCHANGED <<scopes, stack>>
         /\ \A t \in Task, r \in Scope : promise[t] = "error" /\ IsChild(t, r)' => IsChild(t, r)
      \/ \E s \in Scope :
           /\ scopes[s] = "free" /\ scopes' = [scopes EXCEPT ![s] = "open"]
           /\ stack' = [stack EXCEPT ![v] = Append(stack[v], s)]
           /\ \A t \in Task : ~IsChild(t, s)'
           /\ \A t \in Task, r \in Scope \ {s} : IsChild(t, r)' => IsChild(t, r)
  <2>1. ASSUME NEW s \in Scope, handle_task_scope_begin(v, s)
        PROVE  /\ scopes[s] = "free" /\ scopes' = [scopes EXCEPT ![s] = "open"]
               /\ stack' = [stack EXCEPT ![v] = Append(stack[v], s)]
               /\ \A t \in Task : ~IsChild(t, s)'
               /\ \A t \in Task, r \in Scope \ {s} : IsChild(t, r)' => IsChild(t, r)
    <3>1. /\ scopes[s] = "free" /\ scopes' = [scopes EXCEPT ![s] = "open"]
          /\ chain' = [chain EXCEPT ![s] = {s} \cup OwnChain(v)]
          /\ stack' = [stack EXCEPT ![v] = Append(stack[v], s)]
      BY <2>1 DEF handle_task_scope_begin
    <3>2. /\ \A x \in Token \ {s} : chain'[x] = chain[x] /\ s \notin chain[x]
          /\ s \in chain'[s]
      BY <1>1, <1>2, <3>1, Sets DEF FreshOK
    <3>3. \A t \in Task : ~IsChild(t, s)' BY <3>2, Sets DEF IsChild
    <3>4. \A t \in Task, r \in Scope \ {s} : IsChild(t, r)' => IsChild(t, r)
      BY <3>2, Sets DEF IsChild
    <3>5. QED BY <3>1, <3>3, <3>4
  <2>2. ASSUME NEW u \in Task, handle_spawn(v, u)
        PROVE  /\ UNCHANGED <<scopes, stack>>
               /\ \A t \in Task, r \in Scope : promise[t] = "error" /\ IsChild(t, r)' => IsChild(t, r)
    <3>1. /\ UNCHANGED <<scopes, stack>> /\ pc[u] = "new"
          /\ chain' = [chain EXCEPT ![u] = {u} \cup chain[current_scope(v)]]
      BY <2>2 DEF handle_spawn
    <3>2. promise[u] = "unset"
      BY <3>1, Sets DEF IInv, PromiseOK
    <3>3. \A x \in Token \ {u} : chain'[x] = chain[x] BY <1>2, <3>1
    <3>4. ASSUME NEW t \in Task, NEW r \in Scope, promise[t] = "error", IsChild(t, r)'
          PROVE  IsChild(t, r)
      BY <3>2, <3>3, <3>4, Sets DEF IsChild
    <3>5. QED BY <3>1, <3>4
  <2>3. QED BY <2>1, <2>2
<1>6. ASSUME NEW s \in Scope, NEW t \in Task, scopes'[s] = "joined", IsChild(t, s)'
      PROVE  promise'[t] # "error"
  <2>1. scopes[s] = "joined" BY <1>2, <1>5, <1>6
  <2>2. promise[t] = "error" => IsChild(t, s) BY <1>5, <1>6
  <2>3. QED BY <1>3, <2>1, <2>2 DEF FailuresKept
<1>7. ASSUME NEW w \in VM PROVE Collected(w)' /\ Lasting(w)'
  <2>1. Collected(w) /\ Lasting(w) BY KeptIs DEF FailuresKept
  <2>2. CASE pc'[w] = pc[w] /\ w # v
    <3>1. stack'[w] = stack[w] BY <1>2, <1>5, <2>2
    <3>2. QED BY <1>3, <2>1, <2>2, <3>1 DEF Collected, Lasting
  <2>3. CASE pc'[w] \in {"run", "add", "queued"}
    BY <2>3 DEF Collected, Lasting, Joining, JoinPcs
  <2>4. QED BY <1>4, <2>2, <2>3
<1>8. ASSUME NEW w \in VM PROVE Settled(w)'
  <2> SUFFICES ASSUME NEW k \in DOMAIN stack'[w], NEW t \in Task, IsChild(t, stack[w][k])',
                      promise[t] = "error"
               PROVE  \/ Retiring(w, k)'
                      \/ k = Len(stack'[w]) /\ Known(t, w)'
                      \/ Recorded(t, stack[w][k])'
    BY <1>3 DEF Settled
  <2>1. k \in DOMAIN stack[w] /\ stack'[w][k] = stack[w][k] /\ IsChild(t, stack[w][k])
    <3>1. CASE /\ UNCHANGED <<scopes, stack>>
               /\ \A u \in Task, r \in Scope : promise[u] = "error" /\ IsChild(u, r)' => IsChild(u, r)
      <4>1. stack[w] \in Seq(Scope) BY <1>2
      <4>2. stack[w][k] \in Scope /\ k \in DOMAIN stack[w]
        BY <3>1, <4>1, ElementOfSeq, LenProperties
      <4>3. PICK r \in Scope : r = stack[w][k] BY <4>2
      <4>4. IsChild(t, r)' BY <3>1, <4>3 DEF IsChild
      <4>5. QED BY <3>1, <4>2, <4>3, <4>4
    <3>2. ASSUME NEW s \in Scope,
                 stack' = [stack EXCEPT ![v] = Append(stack[v], s)],
                 \A u \in Task : ~IsChild(u, s)',
                 \A u \in Task, r \in Scope \ {s} : IsChild(u, r)' => IsChild(u, r)
          PROVE  k \in DOMAIN stack[w] /\ stack'[w][k] = stack[w][k] /\ IsChild(t, stack[w][k])
      <4>1. PICK q \in Seq(Scope) : q = stack[w] BY <1>2
      <4>2. Len(q) \in Nat /\ DOMAIN q = 1 .. Len(q) BY LenProperties
      <4>3. /\ DOMAIN Append(q, s) = 1 .. Len(q) + 1
            /\ \A i \in 1 .. Len(q) : Append(q, s)[i] = q[i]
            /\ Append(q, s)[Len(q) + 1] = s
        BY AppendProperties, LenProperties
      <4>4. stack'[w] = q \/ stack'[w] = Append(q, s) BY <1>2, <3>2, <4>1
      <4>5. stack'[w][k] # s
        <5>1. PICK r : r = stack'[w][k] OBVIOUS
        <5>2. IsChild(t, r)' BY <5>1 DEF IsChild
        <5>3. QED BY <3>2, <5>1, <5>2
      <4>6. k \in DOMAIN q /\ stack'[w][k] = q[k] BY <4>2, <4>3, <4>4, <4>5
      <4>7. PICK r \in Scope : r = q[k] BY <4>2, <4>6, ElementOfSeq
      <4>8. IsChild(t, r)' BY <4>6, <4>7 DEF IsChild
      <4>9. IsChild(t, r) BY <3>2, <4>5, <4>6, <4>7, <4>8
      <4>10. QED BY <4>1, <4>6, <4>7, <4>9
    <3>3. QED BY <1>5, <3>1, <3>2
  <2>2. \/ Retiring(w, k)
        \/ k = Len(stack[w]) /\ Known(t, w)
        \/ Recorded(t, stack[w][k])
    BY <2>1 DEF FailuresKept, Kept
  <2>3. Recorded(t, stack[w][k]) => Recorded(t, stack[w][k])' BY <1>3, <2>1 DEF Recorded
  <2>4. CASE w = v
    <3>1. ~Retiring(w, k) /\ ~Known(t, w)
      BY <1>3, <2>4 DEF Retiring, Known, Joining, JoinPcs
    <3>2. QED BY <2>2, <2>3, <3>1
  <2>5. CASE w # v
    <3>1. stack'[w] = stack[w] BY <1>2, <1>5, <2>5
    <3>2. pc[w] # "new"
      <4>1. stack[w] # <<>> BY <2>1, EmptySeq
      <4>2. QED BY <1>1, <4>1, Sets DEF ShapeOK
    <3>3. pc'[w] = pc[w] BY <1>4, <2>5, <3>2
    <3>4. spawning'[w] = spawning[w]
      BY <1>2, <2>5 DEF handle_task_scope_begin, handle_spawn
    <3>5. Retiring(w, k) => Retiring(w, k)' BY <1>3, <3>3 DEF Retiring
    <3>6. Known(t, w) => Known(t, w)' BY <1>3, <3>3, <3>4 DEF Known
    <3>7. QED BY <2>2, <2>3, <3>1, <3>5, <3>6
  <2>6. QED BY <2>4, <2>5
<1>9. \A w \in VM : Kept(w)' BY <1>7, <1>8 DEF Kept, Settled, Lasting
<1>10. QED BY <1>6, <1>9 DEF FailuresKept

LEMMA LeaveFailures ==
  ASSUME IInv, Parents, FailuresKept, NEW v \in VM, Leaves(v)
  PROVE  FailuresKept'
<1>1. /\ UNCHANGED <<chain, children>> /\ Elsewhere(v)
      /\ stack'[v] = <<>> /\ \A w \in VM \ {v} : stack'[w] = stack[w]
      /\ pc'[v] \in {"destroy", "finish", "done"}
      /\ \A s \in Scope : scopes'[s] = scopes[s] \/ scopes'[s] = "left"
      /\ \A t \in Task : \/ promise'[t] = promise[t]
                         \/ promise[t] = "unset" /\ promise'[t] = "value"
  BY LeaveFrame
<1>2. Settled(v)' BY <1>1, EmptySeq DEF Settled
<1>3. Collected(v)' /\ Lasting(v)' BY <1>1 DEF Collected, Lasting, Joining, JoinPcs
<1>4. \A s \in Scope : scopes'[s] = "joined" => scopes[s] = "joined" BY <1>1
<1>5. /\ \A t \in Task : promise'[t] = "error" => Live(t)
      /\ \A t \in Task : promise[t] # "unset" => promise'[t] # "unset"
  BY <1>1 DEF Live
<1>6. QED BY <1>1, <1>2, <1>3, <1>4, <1>5, FailuresStay

LEMMA FailuresHold ==
  ASSUME IInv, Parents, Reasons, FailuresKept, Next
  PROVE  FailuresKept'
BY StepCases, WorkerFailures, BodyFailures, LoopFailures, RecordFailures, ReturnFailures,
   OpenFailures, LeaveFailures, ZenonT(40) DEF Leaves

LEMMA OutcomeInvariance == Spec => [](Reasons /\ FailuresKept)
<1>1. Init => Reasons /\ FailuresKept
  <2> SUFFICES ASSUME Init PROVE Reasons /\ FailuresKept OBVIOUS
  <2>1. /\ \A t \in Task : promise[t] = "unset"
        /\ \A v \in VM : pc[v] \in {"run", "new"} /\ unwind[v] = NoUnwind /\ stack[v] = <<>>
    BY DEF Init
  <2>2. \A v \in VM : pc[v] \notin JoinPcs \cup RacePcs \cup Joining \cup Abandoning \cup {"poll", "sleep", "await"}
    BY <2>1 DEF Joining, JoinPcs, RacePcs, Abandoning
  <2>3. Reasons BY <2>1, <2>2 DEF Reasons, Reason, NoUnwind
  <2>4. \A v \in VM : Kept(v) BY <2>1, <2>2, EmptySeq DEF Kept, Collected
  <2>5. QED BY <2>1, <2>3, <2>4 DEF FailuresKept
<1>2. ASSUME IInv, Parents, Reasons, FailuresKept, [Next]_vars PROVE Reasons' /\ FailuresKept'
  <2>1. CASE Next BY <1>2, <2>1, ReasonsHold, FailuresHold
  <2>2. CASE UNCHANGED vars
    <3>1. UNCHANGED <<pc, promise, scopes, children, chain, cancelled, stack, join, spawning, unwind>>
      BY <2>2 DEF vars, tree, task_state
    <3>2. /\ \A t \in Task : Excused(t)' = Excused(t)
          /\ \A v \in VM : /\ is_cancelled(v)' = is_cancelled(v)
                           /\ (is_cancelled(current_scope(v)))' = is_cancelled(current_scope(v))
      BY <3>1 DEF Excused, is_cancelled, current_scope
    <3>3. Reasons' BY <1>2, <3>1, <3>2 DEF Reasons, Reason
    <3>4. \A v \in VM : Kept(v)'
      BY <1>2, <3>1 DEF FailuresKept, Kept, Collected, Retiring, Known, Recorded, IsChild
    <3>5. FailuresKept' BY <1>2, <3>1, <3>4 DEF FailuresKept, IsChild
    <3>6. QED BY <3>3, <3>5
  <2>3. QED BY <1>2, <2>1, <2>2
<1>3. QED BY <1>1, <1>2, Invariance, TreeInvariance, PTL DEF Spec

(* The outcome of a scope and of its tasks is one the program caused: a    *)
(* scope whose join returned results had no child that failed, whatever    *)
(* was cancelled meanwhile (join_all), and a task that ended as cancelled  *)
(* hangs from a token that is set or awaits tasks while another one, which *)
(* does, ended so: await is the one way for a cancellation to spread       *)
(* (handle_await, handle_cancellation, build_spawn_future).                *)
THEOREM OutcomesHaveCauses == Spec => []OutcomesJustified
<1>1. IInv /\ ChildrenAccounted /\ Reasons /\ FailuresKept => OutcomesJustified
  <2> SUFFICES ASSUME IInv, ChildrenAccounted, Reasons, FailuresKept PROVE OutcomesJustified
    OBVIOUS
  <2>1. CancelledForAReason BY DEF Reasons, Excused, CancelledForAReason
  <2>2. ASSUME NEW s \in Scope, NEW t \in Task, scopes[s] = "joined", IsChild(t, s)
        PROVE  promise[t] \in {"value", "cancelled"}
    <3>1. promise[t] # "error" BY <2>2 DEF FailuresKept
    <3>2. s \in chain[t] BY <2>2, Sets DEF IInv, FreshOK, IsChild
    <3>3. promise[t] # "unset"
      <4>1. Intact(t, s) BY <2>2, ChildIntact
      <4>2. QED BY <2>2, <3>2, <4>1 DEF ChildrenAccounted, NoOrphan
    <3>4. promise[t] \in {"unset", "value", "error", "cancelled"} BY DEF IInv, Types
    <3>5. QED BY <3>1, <3>3, <3>4
  <2>3. QED BY <2>1, <2>2 DEF OutcomesJustified, FailureSurfaces
<1>2. QED BY <1>1, Invariance, NoTaskOutlivesItsScope, OutcomeInvariance, PTL
=============================================================================
