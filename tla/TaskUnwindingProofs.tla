------------------------ MODULE TaskUnwindingProofs -------------------------
(***************************************************************************)
(* The VM's own bookkeeping (handlers, shields, scopes) agrees with the    *)
(* nesting of the program, for programs of any depth that leave task_scope *)
(* and finally blocks only at their end or by an error: whatever exits,    *)
(* errors, callbacks and cancellations led there.                          *)
(***************************************************************************)
EXTENDS TaskUnwinding, Integers, SequenceTheorems, FiniteSetTheorems, WellFoundedInduction, TLAPS

\* Programs that do not leave a task_scope or a finally by break, continue or, a
\* task_scope, return: those that do are the findings of TaskUnwinding.
Structured == MaxBlocks \in Nat /\ ~ScopeExits /\ ~FinallyExits

Block ==
  [kind : {"catch", "loop", "scope", "call"}]
    \cup [kind : {"try"}, fin : {"none", "falls"}]
    \cup [kind : {"cleanup"}, fin : {"falls"}, error : Errors, shielded : BOOLEAN]
    \cup [kind : {"finally"}, fin : {"falls"}, exit : {"none", "return", "break", "continue"},
          held : Nat]
    \cup [kind : {"callback"}, native : {"task", "each", "map", "with", "release"},
          pending : Errors \cup {"none"}, scopes : Nat]

HandlerRecord ==
  [fin : {"none", "falls"}, at : Nat, frame : Int, depth : Nat, scopes : Nat]
Shield == [frame : Int, depth : Nat]

Scopes(s) == Cardinality(Positions(s, {"scope"}))
ScopesOf(i) == Scopes(Before(i))
FrameOf(i) == Frames(Before(i)) - 1
DepthOf(i) == Depth(Before(i))

Types ==
  /\ stack \in Seq(Block) /\ handlers \in Seq(HandlerRecord) /\ shields \in Seq(Shield)
  /\ UnwindingTypeOK

\* A running task is in its own activation.
Rooted ==
  /\ outcome = "running" => stack # <<>>
  /\ stack # <<>> => stack[1].kind = "callback" /\ stack[1].native = "task"
  /\ outcome # "running" => thrown = "none" /\ stack = <<>>

\* A callback remembers the scopes that were open when it was made.
CallbacksOK == \A i \in Positions(stack, {"callback"}) : stack[i].scopes = ScopesOf(i)

\* A failed join has retired its scope while its block is still the innermost.
ScopesOK ==
  \/ scopes = Scopes(stack)
  \/ thrown # "none" /\ stack # <<>> /\ Top.kind = "scope" /\ scopes + 1 = Scopes(stack)

Below(x, y) == x.frame < y.frame \/ (x.frame = y.frame /\ x.depth < y.depth)

\* The block a shield belongs to: a cleanup entered by a cancelled task, or the
\* finally of a return that left such a cleanup, further in, on its way.
Guards(s, i, x) ==
  \/ /\ s[i].kind = "cleanup" /\ s[i].shielded
     /\ x = [frame |-> Frames(SubSeq(s, 1, i - 1)) - 1, depth |-> Depth(SubSeq(s, 1, i - 1))]
  \/ /\ s[i].kind = "finally" /\ s[i].exit = "return"
     /\ x.frame = Frames(SubSeq(s, 1, i - 1)) - 1 /\ x.depth >= Depth(SubSeq(s, 1, i - 1))

Has(x) == \E j \in DOMAIN shields : shields[j] = x

\* Shields are nested as the blocks are.
ShieldsOK ==
  /\ \A j, k \in DOMAIN shields : j < k => Below(shields[j], shields[k])
  /\ \A i \in Positions(stack, {"cleanup"}) :
       stack[i].shielded => Has([frame |-> FrameOf(i), depth |-> DepthOf(i)])
  /\ \A j \in DOMAIN shields : \E i \in DOMAIN stack : Guards(stack, i, shields[j])

\* What the compiler knows of the blocks an exit from the end of s leaves.
LeftBy(exit, s) ==
  /\ exit # "return" => Loops(s) # {}
  /\ \A i \in Target(s, exit) + 1 .. Len(s) :
       /\ s[i].kind # "scope"
       /\ exit # "return" =>
            /\ s[i].kind # "cleanup"
            /\ s[i].kind = "finally" => s[i].exit # "return"

\* A delayed exit leaves the blocks around its finally as it would have done.
ExitsOK ==
  \A i \in Positions(stack, {"finally"}) :
    stack[i].exit # "none" => LeftBy(stack[i].exit, Before(i))

IInv ==
  /\ Types /\ Rooted /\ CallbacksOK /\ HandlersMatch /\ ShieldsOK /\ ScopesOK /\ ExitsOK

(***************************************************************************)
(* Numbers and sequences                                                   *)
(***************************************************************************)
\* A set of numbers up to n has a greatest member.
LEMMA MaxSound ==
  ASSUME NEW n \in Nat, NEW S \in SUBSET (0 .. n), S # {}
  PROVE  Max(S) \in S /\ \A y \in S : y <= Max(S)
<1> DEFINE T == {n - x : x \in S}
<1>0. \A x \in S : x \in 0 .. n
  OBVIOUS
<1>1. T \subseteq Nat /\ T # {}
  <2>1. \A x \in S : n - x \in Nat
    BY <1>0
  <2>2. PICK x \in S : TRUE
    OBVIOUS
  <2>3. n - x \in T
    BY <2>2
  <2> QED
    BY <2>1, <2>3
<1>2. IsWellFoundedOn(OpToRel(<, Nat), Nat)
  BY NatLessThanWellFounded
<1>3. PICK d \in T : \A y \in T : ~(<<y, d>> \in OpToRel(<, Nat))
  BY <1>1, <1>2, WFMin
<1>4. \A y \in T : ~(y < d)
  BY <1>1, <1>3 DEF OpToRel
<1>5. PICK x \in S : d = n - x
  OBVIOUS
<1>6. \A y \in S : x >= y
  <2> SUFFICES ASSUME NEW y \in S PROVE x >= y
    OBVIOUS
  <2>1. n - y \in T
    OBVIOUS
  <2>2. ~(n - y < n - x)
    BY <1>4, <1>5, <2>1
  <2> QED
    BY <2>2
<1> QED
  BY <1>6 DEF Max

LEMMA MinOfTwo ==
  ASSUME NEW m \in Nat, NEW n \in Nat
  PROVE  (m <= n => Min({m, n}) = m) /\ Min({m, n}) \in Nat
<1>1. \E x \in {m, n} : \A y \in {m, n} : x =< y
  OBVIOUS
<1>2. Min({m, n}) \in {m, n} /\ \A y \in {m, n} : Min({m, n}) =< y
  BY <1>1 DEF Min
<1> QED
  BY <1>2

\* The first n elements of a sequence.
LEMMA PrefixSound ==
  ASSUME NEW S, NEW s \in Seq(S), NEW n \in 0 .. Len(s)
  PROVE  /\ SubSeq(s, 1, n) \in Seq(S) /\ Len(SubSeq(s, 1, n)) = n
         /\ \A i \in 1 .. n : SubSeq(s, 1, n)[i] = s[i]
         /\ \A m \in 0 .. n : SubSeq(SubSeq(s, 1, n), 1, m) = SubSeq(s, 1, m)
<1>0. Len(s) \in Nat /\ n \in Nat /\ \A i \in 1 .. n : s[i] \in S
  BY ElementOfSeq
<1>1. /\ SubSeq(s, 1, n) \in Seq(S) /\ Len(SubSeq(s, 1, n)) = n
      /\ \A i \in 1 .. n : SubSeq(s, 1, n)[i] = s[i]
  <2>1. /\ SubSeq(s, 1, n) \in Seq(S)
        /\ Len(SubSeq(s, 1, n)) = IF 1 <= n THEN n - 1 + 1 ELSE 0
        /\ \A i \in 1 .. n - 1 + 1 : SubSeq(s, 1, n)[i] = s[1 + i - 1]
    BY <1>0, SubSeqProperties
  <2> QED
    BY <1>0, <2>1
<1>2. ASSUME NEW m \in 0 .. n
      PROVE  SubSeq(SubSeq(s, 1, n), 1, m) = SubSeq(s, 1, m)
  BY <1>0, <1>1, <1>2
<1> QED
  BY <1>1, <1>2

(***************************************************************************)
(* Blocks and what they hold                                               *)
(***************************************************************************)
\* Each kind of block has its fields.
LEMMA BlockFields ==
  ASSUME NEW b \in Block
  PROVE  /\ b.kind \in {"try", "catch", "cleanup", "finally", "loop", "scope", "call", "callback"}
         /\ b.kind = "try" => b.fin \in {"none", "falls"}
         /\ b.kind = "cleanup" => b.fin = "falls" /\ b.error \in Errors /\ b.shielded \in BOOLEAN
         /\ b.kind = "finally" => /\ b.fin = "falls" /\ b.held \in Nat
                                  /\ b.exit \in {"none", "return", "break", "continue"}
         /\ b.kind = "callback" => /\ b.native \in {"task", "each", "map", "with", "release"}
                                   /\ b.pending \in Errors \cup {"none"} /\ b.scopes \in Nat
         /\ Held(b) \in Nat
         /\ b.kind \in {"catch", "cleanup"} => Held(b) = 1
<1>1. CASE b \in [kind : {"catch", "loop", "scope", "call"}]
  BY <1>1 DEF Held
<1>2. CASE b \in [kind : {"try"}, fin : {"none", "falls"}]
  BY <1>2 DEF Held
<1>3. CASE b \in [kind : {"cleanup"}, fin : {"falls"}, error : Errors, shielded : BOOLEAN]
  BY <1>3 DEF Held
<1>4. CASE b \in [kind : {"finally"}, fin : {"falls"}, exit : {"none", "return", "break", "continue"},
                  held : Nat]
  BY <1>4 DEF Held
<1>5. CASE b \in [kind : {"callback"}, native : {"task", "each", "map", "with", "release"},
                  pending : Errors \cup {"none"}, scopes : Nat]
  BY <1>5 DEF Held
<1> QED
  BY <1>1, <1>2, <1>3, <1>4, <1>5 DEF Block

LEMMA NewBlocks ==
  /\ \A fin \in {"none", "falls"} : Try(fin) \in Block /\ Try(fin).kind = "try" /\ Try(fin).fin = fin
  /\ Catch \in Block /\ Catch.kind = "catch"
  /\ \A e \in Errors, b \in BOOLEAN :
       LET c == Cleanup("falls", e, b)
       IN c \in Block /\ c.kind = "cleanup" /\ c.shielded = b
  /\ \A e \in {"none", "return", "break", "continue"}, n \in Nat :
       LET f == Finally("falls", e, n)
       IN f \in Block /\ f.kind = "finally" /\ f.exit = e
  /\ Loop \in Block /\ Loop.kind = "loop"
  /\ TaskScopeBlock \in Block /\ TaskScopeBlock.kind = "scope"
  /\ Function \in Block /\ Function.kind = "call"
  /\ \A v \in {"task", "each", "map", "with", "release"}, e \in Errors \cup {"none"}, n \in Nat :
       LET c == Callback(v, e, n)
       IN c \in Block /\ c.kind = "callback" /\ c.native = v /\ c.scopes = n
<1>1. \A fin \in {"none", "falls"} : Try(fin) \in Block /\ Try(fin).kind = "try" /\ Try(fin).fin = fin
  BY DEF Try, Block
<1>2. Catch \in Block /\ Catch.kind = "catch"
  BY DEF Catch, Block
<1>3. \A e \in Errors, b \in BOOLEAN :
        LET c == Cleanup("falls", e, b)
        IN c \in Block /\ c.kind = "cleanup" /\ c.shielded = b
  BY DEF Cleanup, Block
<1>4. \A e \in {"none", "return", "break", "continue"}, n \in Nat :
        LET f == Finally("falls", e, n)
        IN f \in Block /\ f.kind = "finally" /\ f.exit = e
  BY DEF Finally, Block
<1>5. /\ Loop \in Block /\ Loop.kind = "loop"
      /\ TaskScopeBlock \in Block /\ TaskScopeBlock.kind = "scope"
      /\ Function \in Block /\ Function.kind = "call"
  BY DEF Loop, TaskScopeBlock, Function, Block
<1>6. \A v \in {"task", "each", "map", "with", "release"}, e \in Errors \cup {"none"}, n \in Nat :
        LET c == Callback(v, e, n)
        IN c \in Block /\ c.kind = "callback" /\ c.native = v /\ c.scopes = n
  BY DEF Callback, Block
<1> QED
  BY <1>1, <1>2, <1>3, <1>4, <1>5, <1>6

(***************************************************************************)
(* Counting frames, scopes and operands along the nesting                  *)
(***************************************************************************)
\* Of two sets that grow, the counts do; they differ if the sets do.
LEMMA CountsGrow ==
  ASSUME NEW S, NEW R, IsFiniteSet(R), S \subseteq R
  PROVE  /\ Cardinality(S) \in Nat /\ Cardinality(R) \in Nat
         /\ Cardinality(S) <= Cardinality(R)
         /\ (\E x \in R : x \notin S) => Cardinality(S) < Cardinality(R)
         /\ \A x : x \notin S /\ R = S \cup {x} => Cardinality(R) = Cardinality(S) + 1
<1>1. /\ Cardinality(S) \in Nat /\ Cardinality(R) \in Nat /\ Cardinality(S) <= Cardinality(R)
      /\ IsFiniteSet(S)
  BY FS_Subset, FS_CardinalityType
<1>2. ASSUME NEW x \in R, x \notin S
      PROVE  Cardinality(S) < Cardinality(R)
  <2>1. IsFiniteSet(R \ {x}) /\ Cardinality(R \ {x}) = Cardinality(R) - 1
    BY FS_RemoveElement, <1>2
  <2>2. S \subseteq R \ {x}
    BY <1>2
  <2>3. Cardinality(S) <= Cardinality(R \ {x})
    BY <2>1, <2>2, FS_Subset
  <2> QED
    BY <1>1, <2>1, <2>3
<1>3. ASSUME NEW x, x \notin S, R = S \cup {x}
      PROVE  Cardinality(R) = Cardinality(S) + 1
  BY <1>1, <1>3, FS_AddElement
<1> QED
  BY <1>1, <1>2, <1>3

\* The blocks of some kinds among the first n of s.
Tally(s, kinds, n) == Cardinality(Positions(SubSeq(s, 1, n), kinds))

LEMMA PrefixPositions ==
  ASSUME NEW s \in Seq(Block), NEW kinds, NEW n \in 0 .. Len(s)
  PROVE  /\ Positions(SubSeq(s, 1, n), kinds) = {i \in 1 .. n : s[i].kind \in kinds}
         /\ IsFiniteSet(Positions(SubSeq(s, 1, n), kinds))
<1>1. Len(SubSeq(s, 1, n)) = n /\ SubSeq(s, 1, n) \in Seq(Block)
      /\ \A i \in 1 .. n : SubSeq(s, 1, n)[i] = s[i]
  BY PrefixSound
<1>2. Len(s) \in Nat
  OBVIOUS
<1>3. DOMAIN SubSeq(s, 1, n) = 1 .. n
  BY <1>1
<1>4. Positions(SubSeq(s, 1, n), kinds) = {i \in 1 .. n : s[i].kind \in kinds}
  BY <1>1, <1>3 DEF Positions
<1>5. IsFiniteSet(1 .. n)
  BY <1>2, FS_Interval
<1> QED
  BY <1>4, <1>5, FS_Subset

LEMMA TallySound ==
  ASSUME NEW s \in Seq(Block), NEW kinds, NEW m \in 0 .. Len(s), NEW n \in 0 .. Len(s), m <= n
  PROVE  /\ Tally(s, kinds, m) \in Nat /\ Tally(s, kinds, n) \in Nat
         /\ Tally(s, kinds, m) <= Tally(s, kinds, n)
         /\ (\E i \in m + 1 .. n : s[i].kind \in kinds) => Tally(s, kinds, m) < Tally(s, kinds, n)
         /\ (\A i \in m + 1 .. n : s[i].kind \notin kinds) => Tally(s, kinds, m) = Tally(s, kinds, n)
         /\ n = m + 1 /\ s[n].kind \in kinds => Tally(s, kinds, n) = Tally(s, kinds, m) + 1
<1> DEFINE M == {i \in 1 .. m : s[i].kind \in kinds}
<1> DEFINE N == {i \in 1 .. n : s[i].kind \in kinds}
<1>0. Len(s) \in Nat
  OBVIOUS
<1>1. /\ Tally(s, kinds, m) = Cardinality(M) /\ Tally(s, kinds, n) = Cardinality(N)
      /\ IsFiniteSet(N)
  BY PrefixPositions DEF Tally
<1>2. M \subseteq N
  BY <1>0
<1>3. /\ Cardinality(M) \in Nat /\ Cardinality(N) \in Nat
      /\ Cardinality(M) <= Cardinality(N)
      /\ (\E x \in N : x \notin M) => Cardinality(M) < Cardinality(N)
      /\ \A x : x \notin M /\ N = M \cup {x} => Cardinality(N) = Cardinality(M) + 1
  <2> HIDE DEF M, N
  <2> QED
    BY <1>1, <1>2, CountsGrow
<1>4. ASSUME NEW i \in m + 1 .. n, s[i].kind \in kinds
      PROVE  i \in N /\ i \notin M
  BY <1>0, <1>4
<1>5. ASSUME \A i \in m + 1 .. n : s[i].kind \notin kinds
      PROVE  M = N
  BY <1>0, <1>5
<1>6. ASSUME n = m + 1, s[n].kind \in kinds
      PROVE  n \notin M /\ N = M \cup {n}
  BY <1>0, <1>6
<1> HIDE DEF M, N
<1> QED
  BY <1>1, <1>3, <1>4, <1>5, <1>6

\* Before(i) is everything but the last block when i is the last block.
LEMMA PrefixSlots ==
  ASSUME NEW s \in Seq(Block), NEW n \in 0 .. Len(s)
  PROVE  /\ Slots(SubSeq(s, 1, n)) = UNION {{i} \X (1 .. Held(s[i])) : i \in 1 .. n}
         /\ IsFiniteSet(Slots(SubSeq(s, 1, n)))
<1>1. Len(SubSeq(s, 1, n)) = n /\ SubSeq(s, 1, n) \in Seq(Block)
      /\ \A i \in 1 .. n : SubSeq(s, 1, n)[i] = s[i]
  BY PrefixSound
<1>2. Len(s) \in Nat
  OBVIOUS
<1>3. DOMAIN SubSeq(s, 1, n) = 1 .. n
  BY <1>1
<1> DEFINE row(i) == {i} \X (1 .. Held(s[i]))
<1> DEFINE Rows == {row(i) : i \in 1 .. n}
<1>4. {{i} \X (1 .. Held(SubSeq(s, 1, n)[i])) : i \in 1 .. n} = Rows
  BY <1>1
<1>5. Slots(SubSeq(s, 1, n)) = UNION Rows
  BY <1>3, <1>4 DEF Slots
<1>6. IsFiniteSet(1 .. n)
  BY <1>2, FS_Interval
<1>7. IsFiniteSet(Rows)
  <2> DEFINE f == [i \in 1 .. n |-> row(i)]
  <2>1. f \in Surjection(1 .. n, Rows)
    BY DEF Surjection
  <2> QED
    BY <1>6, <2>1, FS_Surjection
<1>8. ASSUME NEW i \in 1 .. n
      PROVE  IsFiniteSet(row(i))
  <2>1. s[i] \in Block
    BY <1>2, ElementOfSeq
  <2>2. Held(s[i]) \in Nat
    BY <2>1, BlockFields
  <2>3. \A h \in Nat : IsFiniteSet(1 .. h)
    BY FS_Interval
  <2>4. IsFiniteSet({i})
    BY FS_Singleton
  <2> QED
    BY <2>2, <2>3, <2>4, FS_Product
<1>9. IsFiniteSet(UNION Rows)
  BY <1>7, <1>8, FS_UNION
<1> QED
  BY <1>5, <1>9

LEMMA DepthSound ==
  ASSUME NEW s \in Seq(Block), NEW m \in 0 .. Len(s), NEW n \in 0 .. Len(s), m <= n
  PROVE  /\ Depth(SubSeq(s, 1, m)) \in Nat /\ Depth(SubSeq(s, 1, n)) \in Nat
         /\ Depth(SubSeq(s, 1, m)) <= Depth(SubSeq(s, 1, n))
         /\ (\E i \in m + 1 .. n : Held(s[i]) = 1) => Depth(SubSeq(s, 1, m)) < Depth(SubSeq(s, 1, n))
         /\ n = m + 1 /\ Held(s[n]) = 1 => Depth(SubSeq(s, 1, n)) = Depth(SubSeq(s, 1, m)) + 1
<1> DEFINE M == UNION {{i} \X (1 .. Held(s[i])) : i \in 1 .. m}
<1> DEFINE N == UNION {{i} \X (1 .. Held(s[i])) : i \in 1 .. n}
<1>0. Len(s) \in Nat
  OBVIOUS
<1>1. /\ Depth(SubSeq(s, 1, m)) = Cardinality(M) /\ Depth(SubSeq(s, 1, n)) = Cardinality(N)
      /\ IsFiniteSet(N)
  BY PrefixSlots DEF Depth
<1>2. M \subseteq N
  <2>1. 1 .. m \subseteq 1 .. n
    BY <1>0
  <2> QED
    BY <2>1
<1>3. /\ Cardinality(M) \in Nat /\ Cardinality(N) \in Nat
      /\ Cardinality(M) <= Cardinality(N)
      /\ (\E x \in N : x \notin M) => Cardinality(M) < Cardinality(N)
      /\ \A x : x \notin M /\ N = M \cup {x} => Cardinality(N) = Cardinality(M) + 1
  <2> HIDE DEF M, N
  <2> QED
    BY <1>1, <1>2, CountsGrow
<1>4. ASSUME NEW i \in m + 1 .. n, Held(s[i]) = 1
      PROVE  <<i, 1>> \in N /\ <<i, 1>> \notin M
  <2>1. i \in 1 .. n /\ i \notin 1 .. m
    BY <1>0
  <2>2. <<i, 1>> \in {i} \X (1 .. Held(s[i]))
    BY <1>4
  <2> QED
    BY <2>1, <2>2
<1>5. ASSUME n = m + 1, Held(s[n]) = 1
      PROVE  <<n, 1>> \notin M /\ N = M \cup {<<n, 1>>}
  <2>1. 1 .. n = (1 .. m) \cup {n} /\ n \notin 1 .. m
    BY <1>0, <1>5
  <2>2. {n} \X (1 .. Held(s[n])) = {<<n, 1>>}
    BY <1>5
  <2>3. N = M \cup ({n} \X (1 .. Held(s[n])))
    BY <2>1
  <2> QED
    BY <2>1, <2>2, <2>3
<1> HIDE DEF M, N
<1> QED
  BY <1>1, <1>3, <1>4, <1>5

\* What the numbers of frames, operands and scopes below two blocks say of the
\* blocks between them.  Len(stack) + 1 stands for the next block.
LEMMA Nesting ==
  ASSUME stack \in Seq(Block), NEW i \in 1 .. Len(stack) + 1, NEW j \in 1 .. Len(stack) + 1, i <= j
  PROVE  /\ FrameOf(i) \in Int /\ DepthOf(i) \in Nat /\ ScopesOf(i) \in Nat
         /\ FrameOf(i) <= FrameOf(j) /\ DepthOf(i) <= DepthOf(j) /\ ScopesOf(i) <= ScopesOf(j)
         /\ (\E b \in i .. j - 1 : stack[b].kind \in Activation) => FrameOf(i) < FrameOf(j)
         /\ (\A b \in i .. j - 1 : stack[b].kind \notin Activation) => FrameOf(i) = FrameOf(j)
         /\ (\E b \in i .. j - 1 : stack[b].kind = "scope") => ScopesOf(i) < ScopesOf(j)
         /\ (\A b \in i .. j - 1 : stack[b].kind # "scope") => ScopesOf(i) = ScopesOf(j)
         /\ (\E b \in i .. j - 1 : stack[b].kind = "cleanup") => DepthOf(i) < DepthOf(j)
<1> DEFINE m == i - 1
           n == j - 1
<1>0. Len(stack) \in Nat
  OBVIOUS
<1>1. m \in 0 .. Len(stack) /\ n \in 0 .. Len(stack) /\ m <= n /\ m + 1 = i
  BY <1>0
<1>2. FrameOf(i) = Tally(stack, Activation, m) - 1 /\ FrameOf(j) = Tally(stack, Activation, n) - 1
  BY DEF FrameOf, Frames, Before, Tally
<1>3. ScopesOf(i) = Tally(stack, {"scope"}, m) /\ ScopesOf(j) = Tally(stack, {"scope"}, n)
  BY DEF ScopesOf, Scopes, Before, Tally
<1>4. DepthOf(i) = Depth(SubSeq(stack, 1, m)) /\ DepthOf(j) = Depth(SubSeq(stack, 1, n))
  BY DEF DepthOf, Before
<1> HIDE DEF m
<1>5. /\ Tally(stack, Activation, m) \in Nat /\ Tally(stack, Activation, n) \in Nat
      /\ Tally(stack, Activation, m) <= Tally(stack, Activation, n)
      /\ (\E b \in i .. n : stack[b].kind \in Activation) =>
            Tally(stack, Activation, m) < Tally(stack, Activation, n)
      /\ (\A b \in i .. n : stack[b].kind \notin Activation) =>
            Tally(stack, Activation, m) = Tally(stack, Activation, n)
  <2> HIDE DEF n
  <2> QED
    BY <1>1, TallySound
<1>6. /\ Tally(stack, {"scope"}, m) \in Nat /\ Tally(stack, {"scope"}, n) \in Nat
      /\ Tally(stack, {"scope"}, m) <= Tally(stack, {"scope"}, n)
      /\ (\E b \in i .. n : stack[b].kind \in {"scope"}) =>
            Tally(stack, {"scope"}, m) < Tally(stack, {"scope"}, n)
      /\ (\A b \in i .. n : stack[b].kind \notin {"scope"}) =>
            Tally(stack, {"scope"}, m) = Tally(stack, {"scope"}, n)
  <2> HIDE DEF n
  <2> QED
    BY <1>1, TallySound
<1>7. ASSUME NEW b \in i .. n, stack[b].kind = "cleanup"
      PROVE  Held(stack[b]) = 1
  <2>1. stack[b] \in Block
    BY <1>0, <1>1, ElementOfSeq
  <2> QED
    BY <1>7, <2>1, BlockFields
<1>8. /\ Depth(SubSeq(stack, 1, m)) \in Nat /\ Depth(SubSeq(stack, 1, n)) \in Nat
      /\ Depth(SubSeq(stack, 1, m)) <= Depth(SubSeq(stack, 1, n))
      /\ (\E b \in i .. n : Held(stack[b]) = 1) =>
            Depth(SubSeq(stack, 1, m)) < Depth(SubSeq(stack, 1, n))
  <2> HIDE DEF n
  <2> QED
    BY <1>1, DepthSound
<1>9. (\E b \in i .. n : stack[b].kind = "cleanup") => \E b \in i .. n : Held(stack[b]) = 1
  BY <1>7
<1> HIDE DEF n
<1>10. j - 1 = n
  BY DEF n
<1>11. /\ FrameOf(i) \in Int /\ FrameOf(i) <= FrameOf(j)
       /\ (\E b \in i .. j - 1 : stack[b].kind \in Activation) => FrameOf(i) < FrameOf(j)
       /\ (\A b \in i .. j - 1 : stack[b].kind \notin Activation) => FrameOf(i) = FrameOf(j)
  BY <1>2, <1>5, <1>10
<1>12. /\ ScopesOf(i) \in Nat /\ ScopesOf(i) <= ScopesOf(j)
       /\ (\E b \in i .. j - 1 : stack[b].kind = "scope") => ScopesOf(i) < ScopesOf(j)
       /\ (\A b \in i .. j - 1 : stack[b].kind # "scope") => ScopesOf(i) = ScopesOf(j)
  BY <1>3, <1>6, <1>10
<1>13. /\ DepthOf(i) \in Nat /\ DepthOf(i) <= DepthOf(j)
       /\ (\E b \in i .. j - 1 : stack[b].kind = "cleanup") => DepthOf(i) < DepthOf(j)
  BY <1>4, <1>8, <1>9, <1>10
<1> QED
  BY <1>11, <1>12, <1>13

\* What one block adds to the frames, the operands and the scopes below it.
LEMMA OneBlock ==
  ASSUME stack \in Seq(Block), NEW p \in DOMAIN stack
  PROVE  /\ FrameOf(p) \in Int /\ DepthOf(p) \in Nat /\ ScopesOf(p) \in Nat
         /\ stack[p].kind \in Activation => FrameOf(p + 1) = FrameOf(p) + 1
         /\ stack[p].kind \notin Activation => FrameOf(p + 1) = FrameOf(p)
         /\ stack[p].kind = "cleanup" => DepthOf(p + 1) = DepthOf(p) + 1
         /\ stack[p].kind = "scope" => ScopesOf(p + 1) = ScopesOf(p) + 1
         /\ stack[p].kind # "scope" => ScopesOf(p + 1) = ScopesOf(p)
<1>1. PICK n : n = p - 1
  OBVIOUS
<1>2. /\ n \in 0 .. Len(stack) /\ p \in 0 .. Len(stack) /\ n <= p /\ p = n + 1 /\ p + 1 - 1 = p
      /\ \A i \in n + 1 .. p : i = p
  BY <1>1
<1>3. Before(p) = SubSeq(stack, 1, n) /\ Before(p + 1) = SubSeq(stack, 1, p)
  BY <1>1, <1>2 DEF Before
<1>4. /\ Frames(SubSeq(stack, 1, n)) = Tally(stack, Activation, n)
      /\ Frames(SubSeq(stack, 1, p)) = Tally(stack, Activation, p)
      /\ Scopes(SubSeq(stack, 1, n)) = Tally(stack, {"scope"}, n)
      /\ Scopes(SubSeq(stack, 1, p)) = Tally(stack, {"scope"}, p)
  BY DEF Frames, Scopes, Tally
<1>5. /\ FrameOf(p) = Tally(stack, Activation, n) - 1 /\ FrameOf(p + 1) = Tally(stack, Activation, p) - 1
      /\ ScopesOf(p) = Tally(stack, {"scope"}, n) /\ ScopesOf(p + 1) = Tally(stack, {"scope"}, p)
      /\ DepthOf(p) = Depth(SubSeq(stack, 1, n)) /\ DepthOf(p + 1) = Depth(SubSeq(stack, 1, p))
  BY <1>3, <1>4 DEF FrameOf, ScopesOf, DepthOf
<1>6. /\ Tally(stack, Activation, n) \in Nat /\ Tally(stack, Activation, p) \in Nat
      /\ stack[p].kind \in Activation => Tally(stack, Activation, p) = Tally(stack, Activation, n) + 1
      /\ stack[p].kind \notin Activation => Tally(stack, Activation, p) = Tally(stack, Activation, n)
  BY <1>2, TallySound
<1>7. /\ Tally(stack, {"scope"}, n) \in Nat /\ Tally(stack, {"scope"}, p) \in Nat
      /\ stack[p].kind \in {"scope"} => Tally(stack, {"scope"}, p) = Tally(stack, {"scope"}, n) + 1
      /\ stack[p].kind \notin {"scope"} => Tally(stack, {"scope"}, p) = Tally(stack, {"scope"}, n)
  BY <1>2, TallySound
<1>8. stack[p].kind = "cleanup" => Held(stack[p]) = 1
  <2>1. stack[p] \in Block
    BY ElementOfSeq
  <2> QED
    BY <2>1, BlockFields
<1>9. /\ Depth(SubSeq(stack, 1, n)) \in Nat
      /\ Held(stack[p]) = 1 => Depth(SubSeq(stack, 1, p)) = Depth(SubSeq(stack, 1, n)) + 1
  BY <1>2, DepthSound
<1> QED
  BY <1>5, <1>6, <1>7, <1>8, <1>9

\* The next block would be in the current frame, above all operands and scopes.
LEMMA Innermost ==
  ASSUME stack \in Seq(Block)
  PROVE  /\ Before(Len(stack) + 1) = stack
         /\ FrameOf(Len(stack) + 1) = Frames(stack) - 1
         /\ DepthOf(Len(stack) + 1) = Depth(stack)
         /\ ScopesOf(Len(stack) + 1) = Scopes(stack)
         /\ stack # <<>> => Top = stack[Len(stack)] /\ Top \in Block /\ Len(stack) >= 1
<1>1. Before(Len(stack) + 1) = stack
  <2>1. Len(stack) + 1 - 1 = Len(stack)
    OBVIOUS
  <2>2. SubSeq(stack, 1, Len(stack)) = stack
    BY SubSeqFull
  <2> QED
    BY <2>1, <2>2 DEF Before
<1>2. stack # <<>> => Top = stack[Len(stack)] /\ Top \in Block /\ Len(stack) >= 1
  BY EmptySeq, ElementOfSeq DEF Top, Last
<1> QED
  BY <1>1, <1>2 DEF FrameOf, DepthOf, ScopesOf

(***************************************************************************)
(* What a step leaves of the nesting                                       *)
(***************************************************************************)
\* The step leaves the first n blocks and puts at most one on them.
Keeps(n) ==
  /\ n \in 0 .. Len(stack) /\ stack' \in Seq(Block) /\ Len(stack') \in {n, n + 1}
  /\ \A i \in 1 .. n : stack'[i] = stack[i]

Adds(n) == Len(stack') = n + 1

LEMMA KeepsCut ==
  ASSUME stack \in Seq(Block), NEW n \in 0 .. Len(stack), stack' = SubSeq(stack, 1, n)
  PROVE  Keeps(n) /\ ~Adds(n)
<1>1. /\ SubSeq(stack, 1, n) \in Seq(Block) /\ Len(SubSeq(stack, 1, n)) = n
      /\ \A i \in 1 .. n : SubSeq(stack, 1, n)[i] = stack[i]
  BY PrefixSound
<1> QED
  BY <1>1 DEF Keeps, Adds

LEMMA KeepsPut ==
  ASSUME stack \in Seq(Block), NEW n \in 0 .. Len(stack), NEW b \in Block,
         stack' = Append(SubSeq(stack, 1, n), b)
  PROVE  Keeps(n) /\ Adds(n) /\ stack'[n + 1] = b
<1>1. /\ SubSeq(stack, 1, n) \in Seq(Block) /\ Len(SubSeq(stack, 1, n)) = n
      /\ \A i \in 1 .. n : SubSeq(stack, 1, n)[i] = stack[i]
  BY PrefixSound
<1> QED
  BY <1>1 DEF Keeps, Adds

\* Blocks that stay have the same blocks before them.
LEMMA KeepsBefore ==
  ASSUME stack \in Seq(Block), NEW n, Keeps(n)
  PROVE  /\ \A i \in 1 .. n + 1 : /\ Before(i)' = Before(i) /\ Before(i) = SubSeq(stack, 1, i - 1)
                                  /\ FrameOf(i)' = FrameOf(i) /\ DepthOf(i)' = DepthOf(i)
                                  /\ ScopesOf(i)' = ScopesOf(i)
         /\ ~Adds(n) => stack' = SubSeq(stack, 1, n)
         /\ n \in Nat /\ n <= Len(stack) /\ Len(stack) \in Nat /\ Len(stack') \in Nat
         /\ \A i \in DOMAIN stack' : i \in 1 .. n \/ (Adds(n) /\ i = n + 1)
         /\ \A i \in 1 .. n : i \in DOMAIN stack /\ i \in DOMAIN stack' /\ stack'[i] = stack[i]
         /\ Adds(n) => n + 1 \in DOMAIN stack'
<1>0. Len(stack) \in Nat /\ n \in 0 .. Len(stack) /\ n \in Nat /\ Len(stack') \in {n, n + 1}
      /\ stack' \in Seq(Block) /\ \A i \in 1 .. n : stack'[i] = stack[i]
  BY DEF Keeps
<1>1. ASSUME NEW m \in 0 .. n
      PROVE  SubSeq(stack', 1, m) = SubSeq(stack, 1, m)
  <2>1. m \in 0 .. Len(stack) /\ m \in 0 .. Len(stack')
    BY <1>0
  <2>2. /\ SubSeq(stack, 1, m) \in Seq(Block) /\ Len(SubSeq(stack, 1, m)) = m
        /\ \A i \in 1 .. m : SubSeq(stack, 1, m)[i] = stack[i]
    BY <2>1, PrefixSound
  <2>3. /\ SubSeq(stack', 1, m) \in Seq(Block) /\ Len(SubSeq(stack', 1, m)) = m
        /\ \A i \in 1 .. m : SubSeq(stack', 1, m)[i] = stack'[i]
    BY <1>0, <2>1, PrefixSound
  <2>4. \A i \in 1 .. m : SubSeq(stack', 1, m)[i] = SubSeq(stack, 1, m)[i]
    BY <1>0, <2>2, <2>3
  <2> QED
    BY <2>2, <2>3, <2>4, SeqEqual
<1>2. ASSUME NEW i \in 1 .. n + 1
      PROVE  /\ Before(i)' = Before(i) /\ Before(i) = SubSeq(stack, 1, i - 1)
             /\ FrameOf(i)' = FrameOf(i) /\ DepthOf(i)' = DepthOf(i)
             /\ ScopesOf(i)' = ScopesOf(i)
  <2>1. i - 1 \in 0 .. n
    BY <1>0
  <2>2. Before(i)' = Before(i) /\ Before(i) = SubSeq(stack, 1, i - 1)
    BY <1>1, <2>1 DEF Before
  <2> QED
    BY <2>2 DEF FrameOf, DepthOf, ScopesOf
<1>3. ASSUME ~Adds(n)
      PROVE  stack' = SubSeq(stack, 1, n)
  <2>1. Len(stack') = n
    BY <1>0, <1>3 DEF Adds
  <2>2. SubSeq(stack', 1, n) = SubSeq(stack, 1, n)
    BY <1>0, <1>1
  <2>3. SubSeq(stack', 1, Len(stack')) = stack'
    BY <1>0, SubSeqFull
  <2> QED
    BY <2>1, <2>2, <2>3
<1>4. DOMAIN stack' = 1 .. Len(stack') /\ DOMAIN stack = 1 .. Len(stack)
  BY <1>0
<1>5. \A i \in DOMAIN stack' : i \in 1 .. n \/ (Adds(n) /\ i = n + 1)
  <2>1. \A l \in {n, n + 1} : \A i \in 1 .. l : i \in 1 .. n \/ (l = n + 1 /\ i = n + 1)
    BY <1>0
  <2> QED
    BY <1>0, <1>4, <2>1 DEF Adds
<1>6. \A i \in 1 .. n : i \in DOMAIN stack /\ i \in DOMAIN stack' /\ stack'[i] = stack[i]
  <2>1. \A l \in Nat : n <= l => \A i \in 1 .. n : i \in 1 .. l
    BY <1>0
  <2>2. n <= Len(stack) /\ n <= Len(stack') /\ Len(stack') \in Nat
    BY <1>0
  <2> QED
    BY <1>0, <1>4, <2>1, <2>2
<1>7. Adds(n) => n + 1 \in DOMAIN stack'
  BY <1>0, <1>4 DEF Adds
<1>8. n <= Len(stack) /\ Len(stack') \in Nat
  BY <1>0
<1> HIDE DEF Adds
<1> QED
  BY <1>0, <1>2, <1>3, <1>5, <1>6, <1>7, <1>8

(***************************************************************************)
(* The handlers                                                            *)
(***************************************************************************)
\* What a handler says of its block.
LEMMA HandlersSay ==
  ASSUME stack \in Seq(Block), handlers \in Seq(HandlerRecord), HandlersMatch
  PROVE  /\ \A j \in DOMAIN handlers :
              LET i == handlers[j].at
              IN /\ i \in DOMAIN stack /\ stack[i].kind = "try"
                 /\ handlers[j].fin = stack[i].fin /\ handlers[j].frame = FrameOf(i)
                 /\ handlers[j].depth = DepthOf(i) /\ handlers[j].scopes = ScopesOf(i)
                 /\ handlers[j].fin \in {"none", "falls"} /\ i \in Nat
                 /\ handlers[j] = [fin |-> stack[i].fin, at |-> i, frame |-> FrameOf(i),
                                   depth |-> DepthOf(i), scopes |-> ScopesOf(i)]
         /\ \A i \in DOMAIN stack : stack[i].kind = "try" => \E j \in DOMAIN handlers : handlers[j].at = i
         /\ \A j, k \in DOMAIN handlers : j < k => handlers[j].at < handlers[k].at
         /\ DOMAIN handlers = 1 .. Len(handlers) /\ Len(handlers) \in Nat
<1>1. {handlers[j].at : j \in DOMAIN handlers} = Positions(stack, {"try"})
  BY DEF HandlersMatch
<1>2. ASSUME NEW j \in DOMAIN handlers
      PROVE  /\ handlers[j].at \in DOMAIN stack /\ stack[handlers[j].at].kind = "try"
             /\ handlers[j] \in HandlerRecord
  <2>1. handlers[j].at \in Positions(stack, {"try"})
    BY <1>1
  <2> QED
    BY <2>1, ElementOfSeq DEF Positions
<1>3. ASSUME NEW i \in DOMAIN stack, stack[i].kind = "try"
      PROVE  \E j \in DOMAIN handlers : handlers[j].at = i
  <2>1. i \in Positions(stack, {"try"})
    BY <1>3 DEF Positions
  <2> QED
    BY <1>1, <2>1
<1>4. ASSUME NEW j \in DOMAIN handlers
      PROVE  LET i == handlers[j].at
             IN /\ handlers[j].fin = stack[i].fin /\ handlers[j].frame = FrameOf(i)
                /\ handlers[j].depth = DepthOf(i) /\ handlers[j].scopes = ScopesOf(i)
                /\ handlers[j] = [fin |-> stack[i].fin, at |-> i, frame |-> FrameOf(i),
                                  depth |-> DepthOf(i), scopes |-> ScopesOf(i)]
  BY DEF HandlersMatch, FrameOf, DepthOf, ScopesOf, Scopes
<1>5. \A j, k \in DOMAIN handlers : j < k => handlers[j].at < handlers[k].at
  BY DEF HandlersMatch
<1> QED
  BY <1>2, <1>3, <1>4, <1>5 DEF HandlerRecord

\* Handlers that say so.
LEMMA HandlersAgree ==
  ASSUME \A j \in DOMAIN handlers' : \E i \in DOMAIN stack' :
           /\ stack'[i].kind = "try"
           /\ handlers'[j] = [fin |-> stack'[i].fin, at |-> i, frame |-> FrameOf(i)',
                              depth |-> DepthOf(i)', scopes |-> ScopesOf(i)'],
         \A i \in DOMAIN stack' :
           stack'[i].kind = "try" => \E j \in DOMAIN handlers' : handlers'[j].at = i,
         \A j, k \in DOMAIN handlers' : j < k => handlers'[j].at < handlers'[k].at
  PROVE  HandlersMatch'
<1>1. {handlers'[j].at : j \in DOMAIN handlers'} = Positions(stack', {"try"})
  BY DEF Positions
<1>2. ASSUME NEW j \in DOMAIN handlers'
      PROVE  LET i == handlers'[j].at
             IN handlers'[j] =
                  [fin |-> stack'[i].fin, at |-> i, frame |-> Frames(SubSeq(stack', 1, i - 1)) - 1,
                   depth |-> Depth(SubSeq(stack', 1, i - 1)),
                   scopes |-> Cardinality(Positions(SubSeq(stack', 1, i - 1), {"scope"}))]
  <2>1. PICK i \in DOMAIN stack' :
           handlers'[j] = [fin |-> stack'[i].fin, at |-> i, frame |-> FrameOf(i)',
                           depth |-> DepthOf(i)', scopes |-> ScopesOf(i)']
    OBVIOUS
  <2>2. /\ FrameOf(i)' = Frames(SubSeq(stack', 1, i - 1)) - 1
        /\ DepthOf(i)' = Depth(SubSeq(stack', 1, i - 1))
        /\ ScopesOf(i)' = Cardinality(Positions(SubSeq(stack', 1, i - 1), {"scope"}))
    BY DEF FrameOf, DepthOf, ScopesOf, Scopes, Before
  <2>3. handlers'[j].at = i
    BY <2>1
  <2> QED
    BY <2>1, <2>2, <2>3
<1> QED
  BY <1>1, <1>2 DEF HandlersMatch, Before

\* The first k handlers are those of the first n blocks.
CutAt(k, n) ==
  /\ k \in 0 .. Len(handlers)
  /\ \A j \in DOMAIN handlers : j <= k <=> handlers[j].at <= n

LEMMA CutExists ==
  ASSUME stack \in Seq(Block), handlers \in Seq(HandlerRecord), HandlersMatch, NEW n \in Nat
  PROVE  \E k \in 0 .. Len(handlers) : CutAt(k, n)
<1> DEFINE S == {0} \cup {j \in DOMAIN handlers : handlers[j].at <= n}
           k == Max(S)
<1>1. /\ \A j, l \in DOMAIN handlers : j < l => handlers[j].at < handlers[l].at
      /\ \A j \in DOMAIN handlers : handlers[j].at \in Nat
      /\ DOMAIN handlers = 1 .. Len(handlers) /\ Len(handlers) \in Nat
  BY HandlersSay
<1>2. S \in SUBSET (0 .. Len(handlers)) /\ S # {}
  BY <1>1
<1>3. k \in S /\ \A y \in S : y <= k
  BY <1>1, <1>2, MaxSound
<1> HIDE DEF k
<1>4. ASSUME NEW j \in DOMAIN handlers
      PROVE  j <= k <=> handlers[j].at <= n
  <2>1. ASSUME handlers[j].at <= n
        PROVE  j <= k
    BY <1>3, <2>1
  <2>2. ASSUME j <= k
        PROVE  handlers[j].at <= n
    <3>1. k \in DOMAIN handlers /\ handlers[k].at <= n
      BY <1>1, <1>3, <2>2
    <3>2. j = k \/ j < k
      BY <1>1, <2>2, <3>1
    <3> QED
      BY <1>1, <3>1, <3>2
  <2> QED
    BY <2>1, <2>2
<1> QED
  BY <1>2, <1>3, <1>4 DEF CutAt

\* Cutting the handlers where the nesting is cut.
LEMMA HandlersCut ==
  ASSUME stack \in Seq(Block), handlers \in Seq(HandlerRecord), HandlersMatch,
         NEW n, Keeps(n), Adds(n) => stack'[n + 1].kind # "try",
         NEW k, CutAt(k, n), handlers' = SubSeq(handlers, 1, k)
  PROVE  HandlersMatch' /\ handlers' \in Seq(HandlerRecord)
<1>0. k \in 0 .. Len(handlers) /\ \A j \in DOMAIN handlers : j <= k <=> handlers[j].at <= n
  BY DEF CutAt
<1>1. /\ handlers' \in Seq(HandlerRecord) /\ Len(handlers') = k
      /\ \A j \in 1 .. k : handlers'[j] = handlers[j]
  BY <1>0, PrefixSound
<1>2. Len(handlers) \in Nat /\ DOMAIN handlers = 1 .. Len(handlers) /\ DOMAIN handlers' = 1 .. k
  BY <1>1
<1>3. \A j \in 1 .. k : j \in DOMAIN handlers
  BY <1>0, <1>2
<1>4. ASSUME NEW j \in DOMAIN handlers'
      PROVE  \E i \in DOMAIN stack' :
               /\ stack'[i].kind = "try"
               /\ handlers'[j] = [fin |-> stack'[i].fin, at |-> i, frame |-> FrameOf(i)',
                                  depth |-> DepthOf(i)', scopes |-> ScopesOf(i)']
  <2>1. j \in 1 .. k /\ j \in DOMAIN handlers /\ handlers'[j] = handlers[j]
    BY <1>1, <1>2, <1>3
  <2>2. PICK i \in DOMAIN stack :
          /\ i = handlers[j].at /\ stack[i].kind = "try"
          /\ handlers[j] = [fin |-> stack[i].fin, at |-> i, frame |-> FrameOf(i),
                            depth |-> DepthOf(i), scopes |-> ScopesOf(i)]
    BY <2>1, HandlersSay
  <2>3. i <= n /\ i \in 1 .. n
    BY <1>0, <2>1, <2>2
  <2>4. n \in Nat /\ i \in 1 .. n + 1
    BY <2>3 DEF Keeps
  <2>5. /\ FrameOf(i)' = FrameOf(i) /\ DepthOf(i)' = DepthOf(i) /\ ScopesOf(i)' = ScopesOf(i)
        /\ i \in DOMAIN stack' /\ stack'[i] = stack[i]
    BY <2>3, <2>4, KeepsBefore
  <2> QED
    BY <2>1, <2>2, <2>5
<1>5. ASSUME NEW i \in DOMAIN stack', stack'[i].kind = "try"
      PROVE  \E j \in DOMAIN handlers' : handlers'[j].at = i
  <2>1. i \in 1 .. n /\ i \in DOMAIN stack /\ stack[i].kind = "try"
    <3>1. i \in 1 .. n \/ (Adds(n) /\ i = n + 1)
      BY KeepsBefore
    <3>2. i \in 1 .. n
      BY <1>5, <3>1
    <3>3. i \in DOMAIN stack /\ stack'[i] = stack[i]
      BY <3>2, KeepsBefore
    <3> QED
      BY <1>5, <3>2, <3>3
  <2>2. PICK j \in DOMAIN handlers : handlers[j].at = i
    BY <2>1, HandlersSay
  <2>3. n \in Nat
    BY DEF Keeps
  <2>4. j <= k
    BY <1>0, <2>1, <2>2, <2>3
  <2>5. j \in 1 .. k
    BY <1>2, <2>4
  <2> QED
    BY <1>1, <1>2, <2>2, <2>5
<1>6. \A j, l \in DOMAIN handlers' : j < l => handlers'[j].at < handlers'[l].at
  <2>1. \A j \in DOMAIN handlers' : j \in DOMAIN handlers /\ handlers'[j] = handlers[j]
    BY <1>1, <1>2, <1>3
  <2>2. \A j, l \in DOMAIN handlers : j < l => handlers[j].at < handlers[l].at
    BY HandlersSay
  <2> QED
    BY <2>1, <2>2
<1> QED
  BY <1>1, <1>4, <1>5, <1>6, HandlersAgree

\* A try block that is entered puts its handler on the others.
LEMMA HandlersPush ==
  ASSUME stack \in Seq(Block), handlers \in Seq(HandlerRecord), HandlersMatch,
         NEW n, n = Len(stack), Keeps(n), Adds(n), stack'[n + 1].kind = "try",
         NEW h \in HandlerRecord,
         h = [fin |-> stack'[n + 1].fin, at |-> n + 1, frame |-> FrameOf(n + 1),
              depth |-> DepthOf(n + 1), scopes |-> ScopesOf(n + 1)],
         handlers' = Append(handlers, h)
  PROVE  HandlersMatch' /\ handlers' \in Seq(HandlerRecord)
<1> DEFINE l == Len(handlers)
<1>1. /\ handlers' \in Seq(HandlerRecord) /\ Len(handlers') = l + 1 /\ l \in Nat
      /\ \A j \in 1 .. l : handlers'[j] = handlers[j]
      /\ handlers'[l + 1] = h
  OBVIOUS
<1>2. DOMAIN handlers = 1 .. l /\ DOMAIN handlers' = 1 .. l + 1
  BY <1>1
<1>3. \A j \in DOMAIN handlers' : j \in 1 .. l \/ j = l + 1
  BY <1>1, <1>2
<1>4. n \in Nat /\ DOMAIN stack = 1 .. n
  OBVIOUS
<1> HIDE DEF l
<1>5. ASSUME NEW i \in 1 .. n + 1
      PROVE  FrameOf(i)' = FrameOf(i) /\ DepthOf(i)' = DepthOf(i) /\ ScopesOf(i)' = ScopesOf(i)
  BY KeepsBefore
<1>6. ASSUME NEW j \in DOMAIN handlers'
      PROVE  \E i \in DOMAIN stack' :
               /\ stack'[i].kind = "try"
               /\ handlers'[j] = [fin |-> stack'[i].fin, at |-> i, frame |-> FrameOf(i)',
                                  depth |-> DepthOf(i)', scopes |-> ScopesOf(i)']
  <2>1. CASE j \in 1 .. l
    <3>1. j \in DOMAIN handlers /\ handlers'[j] = handlers[j]
      BY <1>1, <1>2, <2>1
    <3>2. PICK i \in DOMAIN stack :
            /\ stack[i].kind = "try"
            /\ handlers[j] = [fin |-> stack[i].fin, at |-> i, frame |-> FrameOf(i),
                              depth |-> DepthOf(i), scopes |-> ScopesOf(i)]
      BY <3>1, HandlersSay
    <3>3. i \in 1 .. n /\ i \in 1 .. n + 1
      BY <1>4
    <3>4. i \in DOMAIN stack' /\ stack'[i] = stack[i]
      BY <3>3, KeepsBefore
    <3> QED
      BY <1>5, <3>1, <3>2, <3>3, <3>4
  <2>2. CASE j = l + 1
    <3>1. n + 1 \in DOMAIN stack' /\ n + 1 \in 1 .. n + 1
      BY <1>4, KeepsBefore
    <3>2. FrameOf(n + 1)' = FrameOf(n + 1) /\ DepthOf(n + 1)' = DepthOf(n + 1)
          /\ ScopesOf(n + 1)' = ScopesOf(n + 1)
      BY <1>5, <3>1
    <3>3. handlers'[j] = [fin |-> stack'[n + 1].fin, at |-> n + 1, frame |-> FrameOf(n + 1)',
                          depth |-> DepthOf(n + 1)', scopes |-> ScopesOf(n + 1)']
      BY <1>1, <2>2, <3>2
    <3> QED
      BY <3>1, <3>3
  <2> QED
    BY <1>3, <2>1, <2>2
<1>7. ASSUME NEW i \in DOMAIN stack', stack'[i].kind = "try"
      PROVE  \E j \in DOMAIN handlers' : handlers'[j].at = i
  <2>1. CASE i \in 1 .. n
    <3>1. i \in DOMAIN stack /\ stack[i].kind = "try"
      BY <1>7, <2>1, KeepsBefore
    <3>2. PICK j \in DOMAIN handlers : handlers[j].at = i
      BY <3>1, HandlersSay
    <3>3. j \in DOMAIN handlers'
      BY <1>1, <1>2
    <3> QED
      BY <1>1, <1>2, <3>2, <3>3
  <2>2. CASE i = n + 1
    <3>1. l + 1 \in DOMAIN handlers'
      BY <1>1, <1>2
    <3> QED
      BY <1>1, <2>2, <3>1
  <2> QED
    BY <1>7, <2>1, <2>2, KeepsBefore
<1>8. ASSUME NEW j \in DOMAIN handlers', NEW m \in DOMAIN handlers', j < m
      PROVE  handlers'[j].at < handlers'[m].at
  <2>1. j \in 1 .. l
    BY <1>1, <1>2, <1>8
  <2>2. CASE m \in 1 .. l
    BY <1>1, <1>2, <1>8, <2>1, <2>2, HandlersSay
  <2>3. CASE m = l + 1
    <3>1. handlers[j].at \in 1 .. n
      BY <1>2, <1>4, <2>1, HandlersSay
    <3> QED
      BY <1>1, <1>4, <2>1, <2>3, <3>1
  <2> QED
    BY <1>3, <2>2, <2>3
<1> QED
  BY <1>1, <1>6, <1>7, <1>8, HandlersAgree

\* As many times Op::TryEnd as there are try blocks above the first n.
LEMMA TryEndCut ==
  ASSUME stack \in Seq(Block), handlers \in Seq(HandlerRecord), HandlersMatch,
         NEW n \in Nat, NEW k, CutAt(k, n), NEW S,
         S = {i \in Positions(stack, {"try"}) : i > n}
  PROVE  TryEnd(Cardinality(S)) = SubSeq(handlers, 1, k)
<1> DEFINE J == k + 1 .. Len(handlers)
           f == [j \in J |-> handlers[j].at]
<1>0. k \in 0 .. Len(handlers) /\ \A j \in DOMAIN handlers : j <= k <=> handlers[j].at <= n
  BY DEF CutAt
<1>1. DOMAIN handlers = 1 .. Len(handlers) /\ Len(handlers) \in Nat /\ k \in Nat
  BY <1>0
<1>2. \A j \in J : j \in DOMAIN handlers /\ ~(j <= k)
  BY <1>0, <1>1
<1>3. \A j \in DOMAIN handlers : handlers[j].at \in Nat /\ handlers[j].at \in Positions(stack, {"try"})
  BY HandlersSay DEF Positions
<1>4. f \in [J -> S]
  BY <1>0, <1>2, <1>3
<1>5. ASSUME NEW i \in S
      PROVE  \E j \in J : f[j] = i
  <2>1. i \in DOMAIN stack /\ stack[i].kind = "try" /\ i > n /\ i \in Nat
    BY DEF Positions
  <2>2. PICK j \in DOMAIN handlers : handlers[j].at = i
    BY <2>1, HandlersSay
  <2>3. ~(j <= k)
    BY <1>0, <2>1, <2>2
  <2>4. j \in J
    BY <1>1, <2>3
  <2> QED
    BY <2>2, <2>4
<1>6. ASSUME NEW i \in J, NEW j \in J, f[i] = f[j]
      PROVE  i = j
  <2>1. handlers[i].at = handlers[j].at
    BY <1>6
  <2>2. \A a, b \in DOMAIN handlers : a < b => handlers[a].at < handlers[b].at
    BY HandlersSay
  <2>3. i < j \/ j < i \/ i = j
    BY <1>1
  <2>4. i \in DOMAIN handlers /\ j \in DOMAIN handlers
    BY <1>2
  <2>5. handlers[i].at \in Nat
    BY <1>3, <2>4
  <2>6. ~(i < j) /\ ~(j < i)
    BY <2>1, <2>2, <2>4, <2>5
  <2> QED
    BY <2>3, <2>6
<1>7. f \in Bijection(J, S)
  <2> HIDE DEF f
  <2> QED
    BY <1>4, <1>5, <1>6 DEF Bijection, Injection, Surjection, IsInjective
<1>8. IsFiniteSet(J) /\ Cardinality(J) = Len(handlers) - k
  <2>1. \A a, b \in Int : /\ IsFiniteSet(a .. b)
                           /\ Cardinality(a .. b) = IF a > b THEN 0 ELSE b - a + 1
    BY FS_Interval
  <2>2. k + 1 \in Int /\ Len(handlers) \in Int
    BY <1>1
  <2>3. /\ IsFiniteSet(J)
        /\ Cardinality(J) = IF k + 1 > Len(handlers) THEN 0 ELSE Len(handlers) - (k + 1) + 1
    BY <2>1, <2>2
  <2>4. k <= Len(handlers) /\ k \in Nat /\ Len(handlers) \in Nat
    BY <1>0, <1>1
  <2>5. (IF k + 1 > Len(handlers) THEN 0 ELSE Len(handlers) - (k + 1) + 1) = Len(handlers) - k
    BY <2>4
  <2> QED
    BY <2>3, <2>5
<1>9. Cardinality(S) = Len(handlers) - k
  <2> HIDE DEF f, J
  <2> QED
    BY <1>7, <1>8, FS_Bijection DEF ExistsBijection
<1>10. Len(handlers) - (Len(handlers) - k) = k
  BY <1>1
<1> QED
  BY <1>9, <1>10 DEF TryEnd

(***************************************************************************)
(* What a frame that ends takes with it                                    *)
(***************************************************************************)
\* The longest prefix of a LIFO stack whose top is not over.
LEMMA MaxOfPrefix ==
  ASSUME NEW n \in Nat, NEW k \in 0 .. n, NEW S, S = {0} \cup (1 .. k)
  PROVE  Max(S) = k
<1>1. S \in SUBSET (0 .. n) /\ S # {} /\ k \in S
  OBVIOUS
<1>2. Max(S) \in S /\ k <= Max(S)
  BY <1>1, MaxSound
<1> QED
  BY <1>2

LEMMA FramesAbove ==
  ASSUME stack \in Seq(Block), NEW n \in Nat, n < Len(stack), stack[n + 1].kind \in Activation
  PROVE  /\ FrameOf(n + 1) \in Int /\ Frames(SubSeq(stack, 1, n)) = FrameOf(n + 1) + 1
         /\ \A i \in 1 .. n : FrameOf(i) < Frames(SubSeq(stack, 1, n))
         /\ \A i \in n + 2 .. Len(stack) + 1 : FrameOf(i) >= Frames(SubSeq(stack, 1, n))
<1>0. Len(stack) \in Nat /\ n + 1 \in 1 .. Len(stack) + 1 /\ n + 1 - 1 = n
  OBVIOUS
<1>1. FrameOf(n + 1) \in Int
  BY <1>0, Nesting
<1>2. Before(n + 1) = SubSeq(stack, 1, n)
  BY <1>0 DEF Before
<1>3. IsFiniteSet(Positions(SubSeq(stack, 1, n), Activation))
  BY <1>0, PrefixPositions
<1>4. Frames(SubSeq(stack, 1, n)) \in Nat
  BY <1>3, FS_CardinalityType DEF Frames
<1>5. Frames(SubSeq(stack, 1, n)) = FrameOf(n + 1) + 1
  <2>1. FrameOf(n + 1) = Frames(SubSeq(stack, 1, n)) - 1
    BY <1>2 DEF FrameOf
  <2> QED
    BY <1>4, <2>1
<1>6. ASSUME NEW i \in 1 .. n
      PROVE  FrameOf(i) < Frames(SubSeq(stack, 1, n))
  <2>1. i \in 1 .. Len(stack) + 1 /\ i <= n + 1
    BY <1>0
  <2>2. FrameOf(i) \in Int /\ FrameOf(i) <= FrameOf(n + 1)
    BY <1>0, <2>1, Nesting
  <2> QED
    BY <1>1, <1>5, <2>2
<1>7. ASSUME NEW i \in n + 2 .. Len(stack) + 1
      PROVE  FrameOf(i) >= Frames(SubSeq(stack, 1, n))
  <2>1. i \in 1 .. Len(stack) + 1 /\ n + 1 <= i /\ n + 1 \in n + 1 .. i - 1
    BY <1>0
  <2>2. FrameOf(i) \in Int
    BY <2>1, Nesting
  <2>3. FrameOf(n + 1) < FrameOf(i)
    BY <1>0, <2>1, Nesting
  <2> QED
    BY <1>1, <1>5, <2>2, <2>3
<1> QED
  BY <1>1, <1>5, <1>6, <1>7

\* The handlers of a frame that ends, and of those above it, go.
LEMMA DiscardHandlers ==
  ASSUME stack \in Seq(Block), handlers \in Seq(HandlerRecord), HandlersMatch,
         NEW n \in Nat, n < Len(stack), stack[n + 1].kind \in Activation,
         NEW k, CutAt(k, n), NEW m \in k .. Len(handlers)
  PROVE  discard_frames_from(SubSeq(handlers, 1, m), Frames(SubSeq(stack, 1, n)))
           = SubSeq(handlers, 1, k)
<1> DEFINE hs == SubSeq(handlers, 1, m)
           F == Frames(SubSeq(stack, 1, n))
<1>0. k \in 0 .. Len(handlers) /\ \A j \in DOMAIN handlers : j <= k <=> handlers[j].at <= n
  BY DEF CutAt
<1>1. DOMAIN handlers = 1 .. Len(handlers) /\ Len(handlers) \in Nat /\ k \in Nat /\ m \in Nat
      /\ m \in 0 .. Len(handlers) /\ k \in 0 .. m
  BY <1>0
<1>2. /\ hs \in Seq(HandlerRecord) /\ Len(hs) = m
      /\ \A i \in 1 .. m : hs[i] = handlers[i]
      /\ \A l \in 0 .. m : SubSeq(hs, 1, l) = SubSeq(handlers, 1, l)
  BY <1>1, PrefixSound
<1>3. ASSUME NEW j \in 1 .. m
      PROVE  ~(hs[j].frame >= F) <=> j \in 1 .. k
  <2>1. j \in DOMAIN handlers /\ hs[j] = handlers[j]
    BY <1>1, <1>2
  <2>2. PICK i \in DOMAIN stack : i = handlers[j].at /\ handlers[j].frame = FrameOf(i) /\ stack[i].kind = "try"
    BY <2>1, HandlersSay
  <2>3. i # n + 1
    BY <2>2 DEF Activation
  <2>4. i \in 1 .. n \/ i \in n + 2 .. Len(stack) + 1
    BY <2>2, <2>3
  <2>5. F \in Int /\ FrameOf(i) \in Int
    <3>1. i \in 1 .. Len(stack) + 1
      BY <2>2
    <3> QED
      BY <3>1, FramesAbove, Nesting
  <2>6. ~(FrameOf(i) >= F) <=> i \in 1 .. n
    BY <2>4, <2>5, FramesAbove
  <2>7. i \in 1 .. n <=> i <= n
    BY <2>2
  <2> QED
    BY <1>0, <1>1, <2>1, <2>2, <2>6, <2>7
<1>4. {0} \cup {i \in DOMAIN hs : ~(hs[i].frame >= F)} = {0} \cup (1 .. k)
  <2>1. DOMAIN hs = 1 .. m
    BY <1>2
  <2>2. 1 .. k \subseteq 1 .. m
    BY <1>1
  <2> QED
    BY <1>3, <2>1, <2>2
<1>5. Max({0} \cup {i \in DOMAIN hs : ~(hs[i].frame >= F)}) = k
  <2> HIDE DEF hs, F
  <2> QED
    BY <1>1, <1>4, MaxOfPrefix
<1>6. discard_frames_from(hs, F) = SubSeq(hs, 1, k)
  <2> HIDE DEF hs, F
  <2> QED
    BY <1>5 DEF discard_frames_from, PopWhile
<1> QED
  BY <1>1, <1>2, <1>6

(***************************************************************************)
(* The shields                                                             *)
(***************************************************************************)
LEMMA ShieldsSay ==
  ASSUME stack \in Seq(Block), shields \in Seq(Shield), ShieldsOK
  PROVE  /\ \A j, k \in DOMAIN shields : j < k => Below(shields[j], shields[k])
         /\ \A j \in DOMAIN shields : \E i \in DOMAIN stack : Guards(stack, i, shields[j])
         /\ \A i \in DOMAIN stack : stack[i].kind = "cleanup" /\ stack[i].shielded =>
              \E j \in DOMAIN shields : shields[j] = [frame |-> FrameOf(i), depth |-> DepthOf(i)]
         /\ DOMAIN shields = 1 .. Len(shields) /\ Len(shields) \in Nat
         /\ \A j \in DOMAIN shields : shields[j].frame \in Int /\ shields[j].depth \in Nat
<1>1. \A i \in DOMAIN stack : stack[i].kind = "cleanup" /\ stack[i].shielded =>
        \E j \in DOMAIN shields : shields[j] = [frame |-> FrameOf(i), depth |-> DepthOf(i)]
  BY DEF ShieldsOK, Has, Positions
<1>2. \A j \in DOMAIN shields : shields[j].frame \in Int /\ shields[j].depth \in Nat
  <2>1. \A j \in DOMAIN shields : shields[j] \in Shield
    BY ElementOfSeq
  <2>2. \A x \in Shield : x.frame \in Int /\ x.depth \in Nat
    BY DEF Shield
  <2> QED
    BY <2>1, <2>2
<1>3. /\ \A j, k \in DOMAIN shields : j < k => Below(shields[j], shields[k])
      /\ \A j \in DOMAIN shields : \E i \in DOMAIN stack : Guards(stack, i, shields[j])
  BY DEF ShieldsOK
<1> QED
  BY <1>1, <1>2, <1>3

\* Where a block that guards a shield is.
LEMMA GuardsSay ==
  ASSUME stack \in Seq(Block), NEW i \in DOMAIN stack, NEW x, Guards(stack, i, x)
  PROVE  /\ x.frame = FrameOf(i) /\ x.depth >= DepthOf(i)
         /\ stack[i].kind \in {"cleanup", "finally"}
         /\ stack[i].kind = "cleanup" => stack[i].shielded /\ x = [frame |-> FrameOf(i), depth |-> DepthOf(i)]
         /\ stack[i].kind = "finally" => stack[i].exit = "return"
         /\ FrameOf(i) \in Int /\ DepthOf(i) \in Nat
<1>1. FrameOf(i) \in Int /\ DepthOf(i) \in Nat
  <2>1. i \in 1 .. Len(stack) + 1
    OBVIOUS
  <2> QED
    BY <2>1, Nesting
<1> QED
  BY <1>1 DEF Guards, FrameOf, DepthOf, Before

LEMMA ShieldsAgree ==
  ASSUME \A j, k \in DOMAIN shields' : j < k => Below(shields'[j], shields'[k]),
         \A i \in DOMAIN stack' : stack'[i].kind = "cleanup" /\ stack'[i].shielded =>
           \E j \in DOMAIN shields' : shields'[j] = [frame |-> FrameOf(i)', depth |-> DepthOf(i)'],
         \A j \in DOMAIN shields' : \E i \in DOMAIN stack' : Guards(stack', i, shields'[j])
  PROVE  ShieldsOK'
BY DEF ShieldsOK, Has, Positions

LEMMA GuardsKept ==
  ASSUME stack \in Seq(Block), NEW n, Keeps(n), NEW i \in 1 .. n, NEW x, Guards(stack, i, x)
  PROVE  i \in DOMAIN stack' /\ Guards(stack', i, x)
<1>1. n \in Nat /\ i \in 1 .. n + 1
  BY DEF Keeps
<1>2. i \in DOMAIN stack' /\ stack'[i] = stack[i]
  BY KeepsBefore
<1>3. Before(i)' = Before(i)
  BY <1>1, KeepsBefore
<1>4. SubSeq(stack', 1, i - 1) = SubSeq(stack, 1, i - 1)
  BY <1>3 DEF Before
<1> QED
  BY <1>2, <1>4 DEF Guards

\* The shields of the blocks that stay, and of the block that takes their place.
LEMMA ShieldsCut ==
  ASSUME stack \in Seq(Block), shields \in Seq(Shield), ShieldsOK, NEW n, Keeps(n),
         Adds(n) /\ stack'[n + 1].kind = "cleanup" => ~stack'[n + 1].shielded,
         NEW k \in 0 .. Len(shields), shields' = SubSeq(shields, 1, k),
         \A j \in DOMAIN shields, i \in 1 .. n :
           stack[i].kind = "cleanup" /\ Guards(stack, i, shields[j]) => j <= k,
         \A j \in DOMAIN shields : j <= k =>
           \/ \E i \in 1 .. n : Guards(stack, i, shields[j])
           \/ Adds(n) /\ Guards(stack', n + 1, shields[j])
  PROVE  ShieldsOK' /\ shields' \in Seq(Shield)
<1>1. /\ shields' \in Seq(Shield) /\ Len(shields') = k
      /\ \A j \in 1 .. k : shields'[j] = shields[j]
  BY PrefixSound
<1>2. Len(shields) \in Nat /\ DOMAIN shields = 1 .. Len(shields) /\ DOMAIN shields' = 1 .. k
  BY <1>1
<1>3. \A j \in 1 .. k : j \in DOMAIN shields /\ j <= k
  BY <1>2
<1>4. \A j, l \in DOMAIN shields' : j < l => Below(shields'[j], shields'[l])
  BY <1>1, <1>2, <1>3, ShieldsSay
<1>5. ASSUME NEW i \in DOMAIN stack', stack'[i].kind = "cleanup", stack'[i].shielded
      PROVE  \E j \in DOMAIN shields' : shields'[j] = [frame |-> FrameOf(i)', depth |-> DepthOf(i)']
  <2>1. i \in 1 .. n
    BY <1>5, KeepsBefore
  <2>2. i \in DOMAIN stack /\ stack'[i] = stack[i]
    BY <2>1, KeepsBefore
  <2>3. PICK j \in DOMAIN shields : shields[j] = [frame |-> FrameOf(i), depth |-> DepthOf(i)]
    BY <1>5, <2>2, ShieldsSay
  <2>4. Guards(stack, i, shields[j])
    BY <1>5, <2>2, <2>3 DEF Guards, FrameOf, DepthOf, Before
  <2>5. j <= k
    BY <1>5, <2>1, <2>2, <2>4
  <2>6. j \in 1 .. k
    BY <1>2, <2>5
  <2>7. n \in Nat /\ i \in 1 .. n + 1
    BY <2>1 DEF Keeps
  <2>8. FrameOf(i)' = FrameOf(i) /\ DepthOf(i)' = DepthOf(i)
    BY <2>7, KeepsBefore
  <2> QED
    BY <1>1, <1>2, <2>3, <2>6, <2>8
<1>6. ASSUME NEW j \in DOMAIN shields'
      PROVE  \E i \in DOMAIN stack' : Guards(stack', i, shields'[j])
  <2>1. j \in DOMAIN shields /\ j <= k /\ shields'[j] = shields[j]
    BY <1>1, <1>2, <1>3
  <2>2. ASSUME NEW i \in 1 .. n, Guards(stack, i, shields[j])
        PROVE  \E b \in DOMAIN stack' : Guards(stack', b, shields'[j])
    BY <2>1, <2>2, GuardsKept
  <2>3. ASSUME Adds(n), Guards(stack', n + 1, shields[j])
        PROVE  \E b \in DOMAIN stack' : Guards(stack', b, shields'[j])
    BY <2>1, <2>3, KeepsBefore
  <2> QED
    BY <2>1, <2>2, <2>3
<1> QED
  BY <1>1, <1>4, <1>5, <1>6, ShieldsAgree

\* Shields below a frame, or below a place in a frame, are the first ones.
LEMMA LowShields ==
  ASSUME stack \in Seq(Block), shields \in Seq(Shield), ShieldsOK,
         NEW S, S \subseteq DOMAIN shields,
         \A j, l \in DOMAIN shields : j < l /\ l \in S => j \in S
  PROVE  LET k == Max({0} \cup S)
         IN k \in 0 .. Len(shields) /\ \A j \in DOMAIN shields : j <= k <=> j \in S
<1> DEFINE k == Max({0} \cup S)
<1>1. DOMAIN shields = 1 .. Len(shields) /\ Len(shields) \in Nat
  OBVIOUS
<1>2. {0} \cup S \in SUBSET (0 .. Len(shields)) /\ {0} \cup S # {}
  BY <1>1
<1>3. k \in {0} \cup S /\ \A y \in {0} \cup S : y <= k
  BY <1>1, <1>2, MaxSound
<1> HIDE DEF k
<1>4. k \in 0 .. Len(shields)
  BY <1>2, <1>3
<1>5. ASSUME NEW j \in DOMAIN shields
      PROVE  j <= k <=> j \in S
  <2>1. ASSUME j <= k
        PROVE  j \in S
    <3>1. k \in S
      BY <1>1, <1>3, <2>1
    <3>2. j = k \/ (j < k /\ k \in DOMAIN shields)
      BY <1>1, <1>4, <2>1, <3>1
    <3> QED
      BY <3>1, <3>2
  <2> QED
    BY <1>3, <2>1
<1> QED
  BY <1>4, <1>5 DEF k

LEMMA DiscardShields ==
  ASSUME stack \in Seq(Block), shields \in Seq(Shield), ShieldsOK, NEW F \in Int
  PROVE  \E k \in 0 .. Len(shields) :
           /\ discard_frames_from(shields, F) = SubSeq(shields, 1, k)
           /\ \A j \in DOMAIN shields : j <= k <=> shields[j].frame < F
<1> DEFINE S == {j \in DOMAIN shields : ~(shields[j].frame >= F)}
           k == Max({0} \cup S)
<1>1. \A j \in DOMAIN shields : shields[j].frame \in Int /\ shields[j].depth \in Nat
  BY ShieldsSay
<1>2. ASSUME NEW j \in DOMAIN shields, NEW l \in DOMAIN shields, j < l, l \in S
      PROVE  j \in S
  <2>1. Below(shields[j], shields[l])
    BY <1>2, ShieldsSay
  <2> QED
    BY <1>1, <1>2, <2>1 DEF Below
<1>3. k \in 0 .. Len(shields) /\ \A j \in DOMAIN shields : j <= k <=> j \in S
  <2>1. S \subseteq DOMAIN shields
    OBVIOUS
  <2> HIDE DEF S
  <2> QED
    BY <1>2, <2>1, LowShields
<1>4. discard_frames_from(shields, F) = SubSeq(shields, 1, k)
  BY DEF discard_frames_from, PopWhile
<1>5. \A j \in DOMAIN shields : j \in S <=> shields[j].frame < F
  BY <1>1
<1> HIDE DEF k, S
<1> QED
  BY <1>3, <1>4, <1>5

LEMMA EndShields ==
  ASSUME stack \in Seq(Block), shields \in Seq(Shield), ShieldsOK, NEW f \in Int, NEW d \in Nat
  PROVE  \E k \in 0 .. Len(shields) :
           /\ end_cancel_shields_from(f, d) = SubSeq(shields, 1, k)
           /\ \A j \in DOMAIN shields : j <= k <=> Below(shields[j], [frame |-> f, depth |-> d])
<1> DEFINE S == {j \in DOMAIN shields :
                  ~(shields[j].frame > f \/ (shields[j].frame = f /\ shields[j].depth >= d))}
           k == Max({0} \cup S)
<1>1. \A j \in DOMAIN shields : shields[j].frame \in Int /\ shields[j].depth \in Nat
  BY ShieldsSay
<1>2. ASSUME NEW j \in DOMAIN shields, NEW l \in DOMAIN shields, j < l, l \in S
      PROVE  j \in S
  <2>1. Below(shields[j], shields[l])
    BY <1>2, ShieldsSay
  <2> QED
    BY <1>1, <1>2, <2>1 DEF Below
<1>3. k \in 0 .. Len(shields) /\ \A j \in DOMAIN shields : j <= k <=> j \in S
  <2>1. S \subseteq DOMAIN shields
    OBVIOUS
  <2> HIDE DEF S
  <2> QED
    BY <1>2, <2>1, LowShields
<1>4. end_cancel_shields_from(f, d) = SubSeq(shields, 1, k)
  BY DEF end_cancel_shields_from, PopWhile
<1>5. \A j \in DOMAIN shields : j \in S <=> Below(shields[j], [frame |-> f, depth |-> d])
  BY <1>1 DEF Below
<1> HIDE DEF k, S
<1> QED
  BY <1>3, <1>4, <1>5

\* A frame that ends takes the shields of its blocks and of those above it.
LEMMA ShieldsFrame ==
  ASSUME stack \in Seq(Block), shields \in Seq(Shield), ShieldsOK, NEW n, Keeps(n),
         Adds(n) /\ stack'[n + 1].kind = "cleanup" => ~stack'[n + 1].shielded,
         NEW p \in DOMAIN stack, p \in {n, n + 1}, stack[p].kind \in Activation,
         shields' = discard_frames_from(shields, Frames(SubSeq(stack, 1, p - 1)))
  PROVE  ShieldsOK' /\ shields' \in Seq(Shield)
<1> DEFINE F == Frames(SubSeq(stack, 1, p - 1))
<1>1. n \in Nat /\ Len(stack) \in Nat /\ DOMAIN stack = 1 .. Len(stack)
  BY DEF Keeps
<1>2. p - 1 \in Nat /\ p - 1 < Len(stack) /\ p - 1 + 1 = p
  BY <1>1
<1>3. /\ F \in Int
      /\ \A i \in 1 .. p - 1 : FrameOf(i) < F
      /\ \A i \in p + 1 .. Len(stack) : FrameOf(i) >= F
  <2>1. /\ FrameOf(p) \in Int /\ F = FrameOf(p) + 1
        /\ \A i \in 1 .. p - 1 : FrameOf(i) < F
        /\ \A i \in p - 1 + 2 .. Len(stack) + 1 : FrameOf(i) >= F
    BY <1>2, FramesAbove
  <2>2. \A i \in p + 1 .. Len(stack) : i \in p - 1 + 2 .. Len(stack) + 1
    BY <1>1
  <2> QED
    BY <2>1, <2>2
<1> HIDE DEF F
<1>4. PICK k \in 0 .. Len(shields) :
        /\ discard_frames_from(shields, F) = SubSeq(shields, 1, k)
        /\ \A j \in DOMAIN shields : j <= k <=> shields[j].frame < F
  BY <1>3, DiscardShields
<1>5. ASSUME NEW j \in DOMAIN shields, NEW i \in DOMAIN stack, Guards(stack, i, shields[j])
      PROVE  j <= k <=> i < p
  <2>1. shields[j].frame = FrameOf(i) /\ stack[i].kind \in {"cleanup", "finally"} /\ FrameOf(i) \in Int
    BY <1>5, GuardsSay
  <2>2. i # p
    BY <2>1 DEF Activation
  <2>3. i \in 1 .. p - 1 \/ i \in p + 1 .. Len(stack)
    BY <1>1, <2>2
  <2>4. i \in 1 .. p - 1 <=> i < p
    BY <1>1
  <2>5. FrameOf(i) < F <=> i \in 1 .. p - 1
    BY <1>3, <2>1, <2>3, <2>4
  <2> QED
    BY <1>4, <2>1, <2>4, <2>5
<1>6. \A i \in 1 .. n : i \in DOMAIN stack
  BY <1>1, KeepsBefore
<1>7. \A j \in DOMAIN shields, i \in 1 .. n :
        stack[i].kind = "cleanup" /\ Guards(stack, i, shields[j]) => j <= k
  <2> SUFFICES ASSUME NEW j \in DOMAIN shields, NEW i \in 1 .. n,
                      stack[i].kind = "cleanup", Guards(stack, i, shields[j])
               PROVE  j <= k
    OBVIOUS
  <2>1. i # p
    BY DEF Activation
  <2>2. i < p
    BY <1>1, <2>1
  <2> QED
    BY <1>5, <1>6, <2>2
<1>8. ASSUME NEW j \in DOMAIN shields, j <= k
      PROVE  \E i \in 1 .. n : Guards(stack, i, shields[j])
  <2>1. PICK i \in DOMAIN stack : Guards(stack, i, shields[j])
    BY ShieldsSay
  <2>2. i < p
    BY <1>5, <1>8, <2>1
  <2>3. i \in 1 .. n
    BY <1>1, <2>2
  <2> QED
    BY <2>1, <2>3
<1>9. shields' = SubSeq(shields, 1, k)
  BY <1>4 DEF F
<1> QED
  BY <1>7, <1>8, <1>9, ShieldsCut

\* The shields of block p and of those above it.
LEMMA ShieldsOver ==
  ASSUME stack \in Seq(Block), shields \in Seq(Shield), ShieldsOK, NEW p \in DOMAIN stack
  PROVE  \E k \in 0 .. Len(shields) :
           /\ end_cancel_shields_from(FrameOf(p), DepthOf(p)) = SubSeq(shields, 1, k)
           /\ \A j \in DOMAIN shields :
                j <= k => Below(shields[j], [frame |-> FrameOf(p), depth |-> DepthOf(p)])
           /\ \A j \in DOMAIN shields, i \in DOMAIN stack :
                Guards(stack, i, shields[j]) =>
                  /\ j <= k => i < p
                  /\ i < p /\ stack[i].kind = "cleanup" => j <= k
<1> DEFINE x == [frame |-> FrameOf(p), depth |-> DepthOf(p)]
<1>1. Len(stack) \in Nat /\ DOMAIN stack = 1 .. Len(stack)
  OBVIOUS
<1>2. \A i \in DOMAIN stack : i \in 1 .. Len(stack) + 1
  BY <1>1
<1>3. FrameOf(p) \in Int /\ DepthOf(p) \in Nat
  BY <1>2, Nesting
<1>4. PICK k \in 0 .. Len(shields) :
        /\ end_cancel_shields_from(FrameOf(p), DepthOf(p)) = SubSeq(shields, 1, k)
        /\ \A j \in DOMAIN shields : j <= k <=> Below(shields[j], x)
  BY <1>3, EndShields
<1>5. ASSUME NEW j \in DOMAIN shields, NEW i \in DOMAIN stack, Guards(stack, i, shields[j]), j <= k
      PROVE  i < p
  <2>1. shields[j].frame = FrameOf(i) /\ shields[j].depth >= DepthOf(i)
        /\ FrameOf(i) \in Int /\ DepthOf(i) \in Nat
    BY <1>5, GuardsSay
  <2>2. shields[j].frame \in Int /\ shields[j].depth \in Nat
    BY ShieldsSay
  <2>3. Below(shields[j], x)
    BY <1>4, <1>5
  <2>4. ASSUME p <= i
        PROVE  FALSE
    <3>1. FrameOf(p) <= FrameOf(i) /\ DepthOf(p) <= DepthOf(i)
      BY <1>2, <2>4, Nesting
    <3> QED
      BY <1>3, <2>1, <2>2, <2>3, <3>1 DEF Below
  <2> QED
    BY <1>1, <2>4
<1>6. ASSUME NEW j \in DOMAIN shields, NEW i \in DOMAIN stack, Guards(stack, i, shields[j]),
             i < p, stack[i].kind = "cleanup"
      PROVE  j <= k
  <2>1. /\ shields[j] = [frame |-> FrameOf(i), depth |-> DepthOf(i)]
        /\ FrameOf(i) \in Int /\ DepthOf(i) \in Nat
    BY <1>6, GuardsSay
  <2>2. i \in i .. p - 1 /\ i <= p
    BY <1>1, <1>6
  <2>3. FrameOf(i) <= FrameOf(p) /\ DepthOf(i) < DepthOf(p)
    BY <1>2, <1>6, <2>2, Nesting
  <2>4. Below(shields[j], x)
    BY <1>3, <2>1, <2>3 DEF Below
  <2> QED
    BY <1>4, <2>4
<1> QED
  BY <1>4, <1>5, <1>6

\* A cleanup that ends, or is entered, takes the shields from there on.
LEMMA ShieldsFrom ==
  ASSUME stack \in Seq(Block), shields \in Seq(Shield), ShieldsOK,
         NEW p \in DOMAIN stack, NEW n, n = p - 1, Keeps(n),
         Adds(n) /\ stack'[n + 1].kind = "cleanup" => ~stack'[n + 1].shielded,
         shields' = end_cancel_shields_from(FrameOf(p), DepthOf(p))
  PROVE  ShieldsOK' /\ shields' \in Seq(Shield)
<1>1. PICK k \in 0 .. Len(shields) :
        /\ end_cancel_shields_from(FrameOf(p), DepthOf(p)) = SubSeq(shields, 1, k)
        /\ \A j \in DOMAIN shields, i \in DOMAIN stack :
             Guards(stack, i, shields[j]) =>
               /\ j <= k => i < p
               /\ i < p /\ stack[i].kind = "cleanup" => j <= k
  BY ShieldsOver
<1>2. n \in Nat /\ \A i \in DOMAIN stack : i < p <=> i \in 1 .. n
  BY DEF Keeps
<1>3. \A i \in 1 .. n : i \in DOMAIN stack
  BY KeepsBefore
<1>4. \A j \in DOMAIN shields, i \in 1 .. n :
        stack[i].kind = "cleanup" /\ Guards(stack, i, shields[j]) => j <= k
  BY <1>1, <1>2, <1>3
<1>5. \A j \in DOMAIN shields : j <= k => \E i \in 1 .. n : Guards(stack, i, shields[j])
  BY <1>1, <1>2, ShieldsSay
<1> QED
  BY <1>1, <1>4, <1>5, ShieldsCut

\* A cleanup that a cancelled task enters puts its shield on those below it.
LEMMA ShieldsPush ==
  ASSUME stack \in Seq(Block), shields \in Seq(Shield), ShieldsOK,
         NEW p \in DOMAIN stack, NEW n, n = p - 1, Keeps(n), Adds(n),
         stack'[p].kind = "cleanup", stack'[p].shielded,
         NEW x, x = [frame |-> FrameOf(p), depth |-> DepthOf(p)],
         shields' = Append(end_cancel_shields_from(FrameOf(p), DepthOf(p)), x)
  PROVE  ShieldsOK' /\ shields' \in Seq(Shield)
<1>1. PICK k \in 0 .. Len(shields) :
        /\ end_cancel_shields_from(FrameOf(p), DepthOf(p)) = SubSeq(shields, 1, k)
        /\ \A j \in DOMAIN shields : j <= k => Below(shields[j], x)
        /\ \A j \in DOMAIN shields, i \in DOMAIN stack :
             Guards(stack, i, shields[j]) =>
               /\ j <= k => i < p
               /\ i < p /\ stack[i].kind = "cleanup" => j <= k
  BY ShieldsOver
<1>2. n \in Nat /\ p = n + 1 /\ \A i \in DOMAIN stack : i < p <=> i \in 1 .. n
  BY DEF Keeps
<1>3. /\ FrameOf(p)' = FrameOf(p) /\ DepthOf(p)' = DepthOf(p) /\ FrameOf(p) \in Int /\ DepthOf(p) \in Nat
      /\ p \in DOMAIN stack'
  <2>1. p \in 1 .. Len(stack) + 1 /\ p \in 1 .. n + 1
    BY <1>2
  <2> QED
    BY <1>2, <2>1, KeepsBefore, Nesting
<1>4. x \in Shield
  BY <1>3 DEF Shield
<1>5. /\ SubSeq(shields, 1, k) \in Seq(Shield) /\ Len(SubSeq(shields, 1, k)) = k
      /\ \A j \in 1 .. k : SubSeq(shields, 1, k)[j] = shields[j]
  BY PrefixSound
<1>6. /\ shields' \in Seq(Shield) /\ Len(shields') = k + 1 /\ shields'[k + 1] = x
      /\ \A j \in 1 .. k : shields'[j] = shields[j]
  BY <1>1, <1>4, <1>5
<1>7. /\ Len(shields) \in Nat /\ DOMAIN shields = 1 .. Len(shields) /\ DOMAIN shields' = 1 .. k + 1
      /\ k \in Nat
  BY <1>6
<1>8. \A j \in 1 .. k : j \in DOMAIN shields /\ j <= k
  BY <1>7
<1>9. \A j \in DOMAIN shields' : j \in 1 .. k \/ j = k + 1
  BY <1>7
<1>10. ASSUME NEW j \in DOMAIN shields', NEW l \in DOMAIN shields', j < l
       PROVE  Below(shields'[j], shields'[l])
  <2>1. j \in 1 .. k
    BY <1>7, <1>10
  <2>2. CASE l \in 1 .. k
    BY <1>6, <1>8, <1>10, <2>1, <2>2, ShieldsSay
  <2>3. CASE l = k + 1
    BY <1>1, <1>6, <1>8, <2>1, <2>3
  <2> QED
    BY <1>9, <2>2, <2>3
<1>11. ASSUME NEW i \in DOMAIN stack', stack'[i].kind = "cleanup", stack'[i].shielded
       PROVE  \E j \in DOMAIN shields' : shields'[j] = [frame |-> FrameOf(i)', depth |-> DepthOf(i)']
  <2>1. CASE i \in 1 .. n
    <3>1. i \in DOMAIN stack /\ stack'[i] = stack[i]
      BY <2>1, KeepsBefore
    <3>2. PICK j \in DOMAIN shields : shields[j] = [frame |-> FrameOf(i), depth |-> DepthOf(i)]
      BY <1>11, <3>1, ShieldsSay
    <3>3. Guards(stack, i, shields[j])
      BY <1>11, <3>1, <3>2 DEF Guards, FrameOf, DepthOf, Before
    <3>4. j <= k
      BY <1>1, <1>2, <1>11, <2>1, <3>1, <3>3
    <3>5. j \in 1 .. k /\ j \in DOMAIN shields'
      BY <1>7, <3>4
    <3>6. i \in 1 .. n + 1
      BY <1>2, <2>1
    <3>7. FrameOf(i)' = FrameOf(i) /\ DepthOf(i)' = DepthOf(i)
      BY <3>6, KeepsBefore
    <3> QED
      BY <1>6, <3>2, <3>5, <3>7
  <2>2. CASE i = n + 1
    <3>1. i = p
      BY <1>2, <2>2
    <3>2. x = [frame |-> FrameOf(i)', depth |-> DepthOf(i)']
      BY <1>3, <3>1
    <3>3. k + 1 \in DOMAIN shields'
      BY <1>7
    <3> QED
      BY <1>6, <3>2, <3>3
  <2> QED
    BY <1>11, <2>1, <2>2, KeepsBefore
<1>12. ASSUME NEW j \in DOMAIN shields'
       PROVE  \E i \in DOMAIN stack' : Guards(stack', i, shields'[j])
  <2>1. CASE j \in 1 .. k
    <3>1. j \in DOMAIN shields /\ j <= k /\ shields'[j] = shields[j]
      BY <1>6, <1>8, <2>1
    <3>2. PICK i \in DOMAIN stack : Guards(stack, i, shields[j])
      BY <3>1, ShieldsSay
    <3>3. i \in 1 .. n
      BY <1>1, <1>2, <3>1, <3>2
    <3> QED
      BY <3>1, <3>2, <3>3, GuardsKept
  <2>2. CASE j = k + 1
    <3>1. x = [frame |-> Frames(SubSeq(stack', 1, p - 1)) - 1, depth |-> Depth(SubSeq(stack', 1, p - 1))]
      <4>1. FrameOf(p)' = Frames(SubSeq(stack', 1, p - 1)) - 1 /\ DepthOf(p)' = Depth(SubSeq(stack', 1, p - 1))
        BY DEF FrameOf, DepthOf, Before
      <4> QED
        BY <1>3, <4>1
    <3>2. Guards(stack', p, x)
      BY <3>1 DEF Guards
    <3> QED
      BY <1>3, <1>6, <2>2, <3>2
  <2> QED
    BY <1>9, <2>1, <2>2
<1> QED
  BY <1>6, <1>10, <1>11, <1>12, ShieldsAgree

(***************************************************************************)
(* A step as a whole                                                       *)
(***************************************************************************)
\* Handlers and shields that no block the step ends has.
LEMMA HandlersStay ==
  ASSUME stack \in Seq(Block), handlers \in Seq(HandlerRecord), HandlersMatch, NEW n, Keeps(n),
         Adds(n) => stack'[n + 1].kind # "try",
         \A i \in n + 1 .. Len(stack) : stack[i].kind # "try",
         handlers' = handlers
  PROVE  HandlersMatch' /\ handlers' \in Seq(HandlerRecord)
<1>1. n \in Nat /\ Len(stack) \in Nat /\ DOMAIN stack = 1 .. Len(stack) /\ Len(handlers) \in Nat
  BY DEF Keeps
<1>2. ASSUME NEW j \in DOMAIN handlers
      PROVE  handlers[j].at <= n /\ j <= Len(handlers)
  <2>1. PICK i \in DOMAIN stack : i = handlers[j].at /\ stack[i].kind = "try"
    BY HandlersSay
  <2>2. i <= n
    BY <1>1, <2>1
  <2> QED
    BY <2>1, <2>2
<1>3. CutAt(Len(handlers), n)
  BY <1>1, <1>2 DEF CutAt
<1>4. SubSeq(handlers, 1, Len(handlers)) = handlers
  BY SubSeqFull
<1> QED
  BY <1>3, <1>4, HandlersCut

LEMMA ShieldsStay ==
  ASSUME stack \in Seq(Block), shields \in Seq(Shield), ShieldsOK, NEW n, Keeps(n),
         Adds(n) /\ stack'[n + 1].kind = "cleanup" => ~stack'[n + 1].shielded,
         \A i \in n + 1 .. Len(stack), j \in DOMAIN shields : Guards(stack, i, shields[j]) =>
           Adds(n) /\ Guards(stack', n + 1, shields[j]),
         shields' = shields
  PROVE  ShieldsOK' /\ shields' \in Seq(Shield)
<1>1. n \in Nat /\ Len(stack) \in Nat /\ DOMAIN stack = 1 .. Len(stack) /\ Len(shields) \in Nat
  BY DEF Keeps
<1>2. SubSeq(shields, 1, Len(shields)) = shields /\ Len(shields) \in 0 .. Len(shields)
  BY <1>1, SubSeqFull
<1>3. \A j \in DOMAIN shields : j <= Len(shields)
  OBVIOUS
<1>4. ASSUME NEW j \in DOMAIN shields
      PROVE  \/ \E i \in 1 .. n : Guards(stack, i, shields[j])
             \/ Adds(n) /\ Guards(stack', n + 1, shields[j])
  <2>1. PICK i \in DOMAIN stack : Guards(stack, i, shields[j])
    BY ShieldsSay
  <2>2. i \in 1 .. n \/ i \in n + 1 .. Len(stack)
    BY <1>1
  <2> QED
    BY <2>1, <2>2
<1> QED
  BY <1>2, <1>3, <1>4, ShieldsCut

\* The callbacks and the delayed exits.
LEMMA BlocksKept ==
  ASSUME stack \in Seq(Block), CallbacksOK, ExitsOK, NEW n, Keeps(n),
         Adds(n) /\ stack'[n + 1].kind = "callback" => stack'[n + 1].scopes = ScopesOf(n + 1),
         Adds(n) /\ stack'[n + 1].kind = "finally" /\ stack'[n + 1].exit # "none" =>
           LeftBy(stack'[n + 1].exit, SubSeq(stack, 1, n))
  PROVE  CallbacksOK' /\ ExitsOK'
<1>1. n \in Nat /\ n + 1 \in 1 .. n + 1 /\ \A i \in 1 .. n : i \in 1 .. n + 1
  BY DEF Keeps
<1>2. ASSUME NEW i \in DOMAIN stack'
      PROVE  /\ ScopesOf(i)' = ScopesOf(i) /\ Before(i)' = Before(i) /\ Before(i) = SubSeq(stack, 1, i - 1)
             /\ \/ i \in 1 .. n /\ i \in DOMAIN stack /\ stack'[i] = stack[i]
                \/ i = n + 1 /\ Adds(n)
  <2>1. i \in 1 .. n \/ (Adds(n) /\ i = n + 1)
    BY KeepsBefore
  <2>2. i \in 1 .. n + 1
    BY <1>1, <2>1
  <2> QED
    BY <2>1, <2>2, KeepsBefore
<1>3. ASSUME NEW i \in DOMAIN stack', stack'[i].kind = "callback"
      PROVE  stack'[i].scopes = ScopesOf(i)'
  <2>1. CASE i \in DOMAIN stack /\ stack'[i] = stack[i]
    BY <1>2, <1>3, <2>1 DEF CallbacksOK, Positions
  <2>2. CASE i = n + 1 /\ Adds(n)
    BY <1>2, <1>3, <2>2
  <2> QED
    BY <1>2, <2>1, <2>2
<1>4. ASSUME NEW i \in DOMAIN stack', stack'[i].kind = "finally", stack'[i].exit # "none"
      PROVE  LeftBy(stack'[i].exit, SubSeq(stack', 1, i - 1))
  <2>1. SubSeq(stack', 1, i - 1) = SubSeq(stack, 1, i - 1)
    BY <1>2 DEF Before
  <2>2. CASE i \in DOMAIN stack /\ stack'[i] = stack[i]
    <3>1. LeftBy(stack[i].exit, SubSeq(stack, 1, i - 1))
      BY <1>4, <2>2 DEF ExitsOK, Positions, Before
    <3> QED
      BY <2>1, <2>2, <3>1
  <2>3. CASE i = n + 1 /\ Adds(n)
    <3>1. i - 1 = n
      BY <1>1, <2>3
    <3> QED
      BY <1>4, <2>1, <2>3, <3>1
  <2> QED
    BY <1>2, <2>2, <2>3
<1>5. CallbacksOK'
  BY <1>3 DEF CallbacksOK, Positions
<1>6. ExitsOK'
  BY <1>4 DEF ExitsOK, Positions, Before
<1> QED
  BY <1>5, <1>6

\* What the invariant says where a step starts.
LEMMA Here ==
  ASSUME Structured, IInv
  PROVE  /\ MaxBlocks \in Nat /\ Fin = {"falls"}
         /\ stack \in Seq(Block) /\ handlers \in Seq(HandlerRecord) /\ shields \in Seq(Shield)
         /\ Len(stack) \in Nat /\ DOMAIN stack = 1 .. Len(stack) /\ Len(stack) <= MaxBlocks + 1
         /\ HandlersMatch /\ ShieldsOK /\ CallbacksOK /\ ExitsOK /\ scopes \in Nat
         /\ thrown \in Errors \cup {"none"} /\ cancelled \in BOOLEAN
         /\ outcome = "running" => /\ Len(stack) >= 1 /\ stack # <<>>
                                   /\ stack[1].kind = "callback" /\ stack[1].native = "task"
         /\ thrown # "none" => outcome = "running"
         /\ thrown = "none" => scopes = Scopes(stack)
<1>1. stack \in Seq(Block) /\ stack # <<>> => Len(stack) >= 1
  BY EmptySeq
<1> QED
  BY <1>1 DEF IInv, Types, UnwindingTypeOK, Rooted, ScopesOK, Structured, Fin

LEMMA StepSound ==
  ASSUME Structured, IInv, outcome = "running", NEW n, Keeps(n), n >= 1,
         Len(stack') <= MaxBlocks + 1,
         outcome' = outcome, thrown' \in Errors \cup {"none"}, cancelled' = cancelled, scopes' \in Nat,
         HandlersMatch' /\ handlers' \in Seq(HandlerRecord),
         ShieldsOK' /\ shields' \in Seq(Shield),
         Adds(n) /\ stack'[n + 1].kind = "callback" => stack'[n + 1].scopes = ScopesOf(n + 1),
         Adds(n) /\ stack'[n + 1].kind = "finally" /\ stack'[n + 1].exit # "none" =>
           LeftBy(stack'[n + 1].exit, SubSeq(stack, 1, n)),
         ScopesOK'
  PROVE  IInv'
<1>1. /\ stack \in Seq(Block) /\ CallbacksOK /\ ExitsOK /\ Len(stack) >= 1 /\ cancelled \in BOOLEAN
      /\ stack[1].kind = "callback" /\ stack[1].native = "task"
  BY Here
<1>2. CallbacksOK' /\ ExitsOK'
  BY <1>1, BlocksKept
<1>3. n \in Nat /\ 1 \in 1 .. n /\ stack' \in Seq(Block) /\ Len(stack') >= 1
  BY DEF Keeps
<1>4. stack'[1] = stack[1]
  BY <1>1, <1>3, KeepsBefore
<1>5. stack' # <<>>
  BY <1>3
<1>6. Rooted'
  BY <1>1, <1>4, <1>5 DEF Rooted
<1>7. \A i \in DOMAIN stack' : stack'[i].kind \in
        {"try", "catch", "cleanup", "finally", "loop", "scope", "call", "callback"}
  <2>1. \A i \in DOMAIN stack' : stack'[i] \in Block
    BY <1>3
  <2> QED
    BY <2>1, BlockFields
<1>8. Types'
  BY <1>1, <1>3, <1>7 DEF Types, UnwindingTypeOK
<1> QED
  BY <1>2, <1>6, <1>8 DEF IInv

\* No clean-up among the blocks the step ends is skipped.
LEMMA CleanupSound ==
  ASSUME stack \in Seq(Block), NEW n, Keeps(n),
         \A i \in n + 1 .. Len(stack) :
           /\ stack[i].kind = "try" /\ stack[i].fin # "none" =>
                \/ thrown = "exit"
                \/ i = n + 1 /\ Adds(n) /\ stack'[n + 1].kind \in {"cleanup", "finally"}
           /\ stack[i].kind = "callback" /\ stack[i].native = "with" =>
                \/ cancelled
                \/ /\ i = n + 1 /\ Adds(n)
                   /\ stack'[n + 1].kind = "callback" /\ stack'[n + 1].native = "release"
  PROVE  RunsCleanup
<1>1. n \in Nat /\ Len(stack) \in Nat /\ DOMAIN stack = 1 .. Len(stack)
  BY DEF Keeps
<1>2. ASSUME NEW i \in DOMAIN stack
      PROVE  Stays(i) \/ i \in n + 1 .. Len(stack)
  <2>1. i \in 1 .. n \/ i \in n + 1 .. Len(stack)
    BY <1>1
  <2> QED
    BY <2>1, KeepsBefore DEF Stays
<1>3. Adds(n) => n + 1 \in DOMAIN stack'
  BY KeepsBefore
<1>4. RunsFinally
  BY <1>2, <1>3 DEF RunsFinally, Positions
<1>5. \A i \in WithBodies : CallsRelease(i) \/ cancelled
  BY <1>2, <1>3 DEF WithBodies, CallsRelease, Positions
<1> QED
  BY <1>4, <1>5 DEF RunsCleanup

\* The scopes that are open after a step.
LEMMA ScopesKept ==
  ASSUME stack \in Seq(Block), NEW n, Keeps(n)
  PROVE  /\ ~Adds(n) => Scopes(stack') = ScopesOf(n + 1)
         /\ Adds(n) /\ stack'[n + 1].kind # "scope" => Scopes(stack') = ScopesOf(n + 1)
         /\ Adds(n) /\ stack'[n + 1].kind = "scope" => Scopes(stack') = ScopesOf(n + 1) + 1
         /\ ScopesOf(n + 1) \in Nat
         /\ (\A i \in n + 1 .. Len(stack) : stack[i].kind # "scope") => ScopesOf(n + 1) = Scopes(stack)
<1>1. n \in Nat /\ Len(stack) \in Nat /\ n <= Len(stack) /\ stack' \in Seq(Block) /\ n + 1 - 1 = n
  BY DEF Keeps
<1>2. Before(n + 1) = SubSeq(stack, 1, n) /\ ScopesOf(n + 1)' = ScopesOf(n + 1)
  <2>1. n + 1 \in 1 .. n + 1
    BY <1>1
  <2> QED
    BY <1>1, <2>1, KeepsBefore
<1>3. ASSUME ~Adds(n)
      PROVE  Scopes(stack') = ScopesOf(n + 1)
  BY <1>2, <1>3, KeepsBefore DEF ScopesOf
<1>4. ScopesOf(n + 1) = Tally(stack', {"scope"}, n)
  <2>1. Before(n + 1)' = SubSeq(stack', 1, n)
    BY <1>1 DEF Before
  <2> QED
    BY <1>2, <2>1 DEF ScopesOf, Scopes, Tally
<1>5. ASSUME Adds(n)
      PROVE  /\ n + 1 = Len(stack') /\ n + 1 \in 0 .. Len(stack') /\ n \in 0 .. Len(stack')
             /\ Scopes(stack') = Tally(stack', {"scope"}, n + 1)
  <2>1. Len(stack') = n + 1 /\ n + 1 \in 0 .. Len(stack') /\ n \in 0 .. Len(stack')
    BY <1>1, <1>5 DEF Adds
  <2>2. SubSeq(stack', 1, n + 1) = stack'
    BY <1>1, <2>1, SubSeqFull
  <2> QED
    BY <2>1, <2>2 DEF Scopes, Tally
<1>6. ASSUME Adds(n), stack'[n + 1].kind # "scope"
      PROVE  Scopes(stack') = ScopesOf(n + 1)
  <2>1. \A i \in n + 1 .. n + 1 : stack'[i].kind \notin {"scope"}
    BY <1>1, <1>6
  <2>2. n <= n + 1
    BY <1>1
  <2> QED
    BY <1>1, <1>4, <1>5, <1>6, <2>1, <2>2, TallySound
<1>7. ASSUME Adds(n), stack'[n + 1].kind = "scope"
      PROVE  Scopes(stack') = ScopesOf(n + 1) + 1
  <2>1. n <= n + 1
    BY <1>1
  <2> QED
    BY <1>1, <1>4, <1>5, <1>7, <2>1, TallySound
<1>8. ScopesOf(n + 1) \in Nat
  <2>1. n + 1 \in 1 .. Len(stack) + 1 /\ n + 1 <= n + 1
    BY <1>1
  <2> QED
    BY <2>1, Nesting
<1>9. ASSUME \A i \in n + 1 .. Len(stack) : stack[i].kind # "scope"
      PROVE  ScopesOf(n + 1) = Scopes(stack)
  <2>1. n + 1 \in 1 .. Len(stack) + 1 /\ Len(stack) + 1 \in 1 .. Len(stack) + 1 /\ n + 1 <= Len(stack) + 1
        /\ Len(stack) + 1 - 1 = Len(stack)
    BY <1>1
  <2>2. \A b \in n + 1 .. Len(stack) + 1 - 1 : stack[b].kind # "scope"
    BY <1>9, <2>1
  <2>3. PICK p \in 1 .. Len(stack) + 1 : p = n + 1
    BY <2>1
  <2>4. PICK q \in 1 .. Len(stack) + 1 : q = Len(stack) + 1
    BY <2>1
  <2>5. p <= q /\ \A b \in p .. q - 1 : stack[b].kind # "scope"
    BY <2>1, <2>2, <2>3, <2>4
  <2>6. ScopesOf(p) = ScopesOf(q)
    BY <2>5, Nesting
  <2>7. ScopesOf(Len(stack) + 1) = Scopes(stack)
    BY Innermost
  <2> QED
    BY <2>3, <2>4, <2>6, <2>7
<1> QED
  BY <1>3, <1>6, <1>7, <1>8, <1>9

(***************************************************************************)
(* Steps that leave the blocks, or enter one                               *)
(***************************************************************************)
\* A step that leaves the blocks, the handlers and the shields.
LEMMA Unmoved ==
  ASSUME Structured, IInv, outcome = "running",
         UNCHANGED <<stack, handlers, shields, outcome>>,
         thrown' \in Errors \cup {"none"}, cancelled' \in BOOLEAN, scopes' \in Nat, ScopesOK'
  PROVE  IInv' /\ RunsCleanup
<1>1. Rooted' /\ CallbacksOK' /\ ExitsOK'
  BY Here DEF IInv, Rooted, CallbacksOK, ExitsOK, Before, ScopesOf
<1>2. HandlersMatch'
  BY DEF IInv, HandlersMatch, Before
<1>3. ShieldsOK'
  BY DEF IInv, ShieldsOK, Has, Before, FrameOf, DepthOf
<1>4. Types'
  BY DEF IInv, Types, UnwindingTypeOK
<1>5. RunsCleanup
  BY DEF RunsCleanup, RunsFinally, Stays, CallsRelease, Positions, WithBodies
<1> QED
  BY <1>1, <1>2, <1>3, <1>4, <1>5 DEF IInv

\* A step that enters a block.
LEMMA Enter ==
  ASSUME Structured, IInv, Running, Room, NEW b \in Block, stack' = Append(stack, b),
         b.kind \notin {"cleanup", "finally"},
         b.kind = "callback" => b.scopes = scopes,
         scopes' = IF b.kind = "scope" THEN scopes + 1 ELSE scopes,
         IF b.kind = "try"
         THEN handlers' = Append(handlers,
                [fin |-> b.fin, at |-> Len(stack) + 1, frame |-> Frames(stack) - 1,
                 depth |-> Depth(stack), scopes |-> scopes])
         ELSE handlers' = handlers,
         UNCHANGED <<shields, thrown, outcome, cancelled>>
  PROVE  IInv' /\ RunsCleanup
<1> DEFINE n == Len(stack)
<1>1. /\ stack \in Seq(Block) /\ handlers \in Seq(HandlerRecord) /\ shields \in Seq(Shield)
      /\ HandlersMatch /\ ShieldsOK /\ scopes = Scopes(stack) /\ scopes \in Nat
      /\ n \in Nat /\ n >= 1 /\ n <= MaxBlocks /\ MaxBlocks \in Nat /\ outcome = "running"
      /\ thrown \in Errors \cup {"none"}
  BY Here DEF Running, Room
<1>2. SubSeq(stack, 1, n) = stack /\ n \in 0 .. Len(stack)
  BY <1>1, SubSeqFull
<1>3. Keeps(n) /\ Adds(n) /\ stack'[n + 1] = b
  BY <1>1, <1>2, KeepsPut
<1>4. /\ FrameOf(n + 1) = Frames(stack) - 1 /\ DepthOf(n + 1) = Depth(stack)
      /\ ScopesOf(n + 1) = scopes /\ FrameOf(n + 1) \in Int /\ DepthOf(n + 1) \in Nat
  <2>1. n + 1 \in 1 .. Len(stack) + 1
    BY <1>1
  <2> QED
    BY <1>1, <2>1, Innermost, Nesting
<1>5. \A i \in n + 1 .. Len(stack) : FALSE
  BY <1>1
<1>6. n + 1 <= MaxBlocks + 1
  BY <1>1
<1> HIDE DEF n
<1>7. Len(stack') <= MaxBlocks + 1
  BY <1>3, <1>6 DEF Adds
<1>8. HandlersMatch' /\ handlers' \in Seq(HandlerRecord)
  <2>1. CASE b.kind = "try"
    <3>1. PICK h : h = [fin |-> b.fin, at |-> n + 1, frame |-> FrameOf(n + 1),
                        depth |-> DepthOf(n + 1), scopes |-> ScopesOf(n + 1)]
      OBVIOUS
    <3>2. h \in HandlerRecord
      BY <1>1, <1>4, <2>1, <3>1, BlockFields DEF HandlerRecord
    <3>3. handlers' = Append(handlers, h)
      BY <1>4, <2>1, <3>1 DEF n
    <3> QED
      BY <1>1, <1>3, <2>1, <3>1, <3>2, <3>3, HandlersPush DEF n
  <2>2. CASE b.kind # "try"
    BY <1>1, <1>3, <1>5, <2>2, HandlersStay
  <2> QED
    BY <2>1, <2>2
<1>9. ShieldsOK' /\ shields' \in Seq(Shield)
  BY <1>1, <1>3, <1>5, ShieldsStay
<1>10. scopes' \in Nat /\ scopes' = Scopes(stack')
  <2>1. CASE b.kind = "scope"
    <3>1. Scopes(stack') = ScopesOf(n + 1) + 1
      BY <1>1, <1>3, <2>1, ScopesKept
    <3> QED
      BY <1>1, <1>4, <2>1, <3>1
  <2>2. CASE b.kind # "scope"
    BY <1>1, <1>3, <1>4, <2>2, ScopesKept
  <2> QED
    BY <2>1, <2>2
<1>11. ScopesOK'
  BY <1>10 DEF ScopesOK
<1>12. IInv'
  BY <1>1, <1>3, <1>4, <1>7, <1>8, <1>9, <1>10, <1>11, StepSound
<1>13. RunsCleanup
  BY <1>1, <1>3, <1>5, CleanupSound
<1> QED
  BY <1>12, <1>13

LEMMA CancelledHere ==
  ASSUME Structured, IInv, Running, thrown' \in Errors \cup {"none"},
         UNCHANGED <<stack, handlers, shields, scopes, outcome, cancelled>>
  PROVE  IInv' /\ RunsCleanup
<1>1. scopes = Scopes(stack) /\ scopes \in Nat /\ cancelled \in BOOLEAN /\ outcome = "running"
  BY Here DEF Running
<1>2. ScopesOK'
  BY <1>1 DEF ScopesOK
<1> QED
  BY <1>1, <1>2, Unmoved

LEMMA TryCatchStep ==
  ASSUME Structured, IInv, Running, UNCHANGED cancelled,
         NEW fin \in {"none"} \cup Fin, handle_try_catch(fin)
  PROVE  IInv' /\ RunsCleanup
<1>1. fin \in {"none", "falls"}
  BY Here
<1>2. PICK b \in Block : b = Try(fin) /\ b.kind = "try" /\ b.fin = fin
  BY <1>1, NewBlocks
<1>3. /\ Room /\ stack' = Append(stack, b) /\ UNCHANGED <<shields, scopes, thrown, outcome>>
      /\ handlers' = Append(handlers,
           [fin |-> b.fin, at |-> Len(stack) + 1, frame |-> Frames(stack) - 1,
            depth |-> Depth(stack), scopes |-> scopes])
  BY <1>2 DEF handle_try_catch
<1> QED
  BY <1>2, <1>3, Enter

LEMMA EnterLoopStep ==
  ASSUME Structured, IInv, Running, UNCHANGED cancelled, EnterLoop
  PROVE  IInv' /\ RunsCleanup
<1>1. PICK b \in Block : b = Loop /\ b.kind = "loop"
  BY NewBlocks
<1>2. Room /\ stack' = Append(stack, b) /\ UNCHANGED <<handlers, shields, scopes, thrown, outcome>>
  BY <1>1 DEF EnterLoop
<1> QED
  BY <1>1, <1>2, Enter

LEMMA LoopStep ==
  ASSUME Structured, IInv, Running, UNCHANGED cancelled, handle_loop
  PROVE  IInv' /\ RunsCleanup
<1>1. /\ UNCHANGED <<stack, handlers, shields, scopes, outcome>>
      /\ thrown' = "cancel" \/ thrown' = "none"
  BY DEF handle_loop, check_cancellation, Running
<1> QED
  BY <1>1, CancelledHere DEF Errors

LEMMA ScopeBeginStep ==
  ASSUME Structured, IInv, Running, UNCHANGED cancelled, handle_task_scope_begin
  PROVE  IInv' /\ RunsCleanup
<1>1. PICK b \in Block : b = TaskScopeBlock /\ b.kind = "scope"
  BY NewBlocks
<1>2. /\ Room /\ stack' = Append(stack, b) /\ scopes' = scopes + 1
      /\ UNCHANGED <<handlers, shields, thrown, outcome>>
  BY <1>1 DEF handle_task_scope_begin
<1> QED
  BY <1>1, <1>2, Enter

LEMMA CallStep ==
  ASSUME Structured, IInv, Running, UNCHANGED cancelled, call_function
  PROVE  IInv' /\ RunsCleanup
<1>1. CASE StopsHere(shields)
  <2>1. thrown' = "cancel" /\ UNCHANGED <<stack, handlers, shields, scopes, outcome>>
    BY <1>1 DEF call_function, check_cancellation
  <2> QED
    BY <2>1, CancelledHere DEF Errors
<1>2. CASE ~StopsHere(shields)
  <2>1. PICK b \in Block : b = Function /\ b.kind = "call"
    BY NewBlocks
  <2>2. Room /\ stack' = Append(stack, b) /\ UNCHANGED <<handlers, shields, scopes, thrown, outcome>>
    BY <1>2, <2>1 DEF call_function, check_cancellation
  <2> QED
    BY <2>1, <2>2, Enter
<1> QED
  BY <1>1, <1>2

\* What a built-in does after a callback: it enters a release call, or nothing.
LEMMA AfterSound ==
  ASSUME NEW b \in Block, b.kind = "callback", NEW e \in Errors \cup {"none"}, NEW sh
  PROVE  LET r == After(b, e, sh)
         IN /\ r.thrown \in Errors \cup {"none"}
            /\ r.next = <<>> \/ (/\ r.next = <<Callback("release", e, b.scopes)>>
                                 /\ Callback("release", e, b.scopes) \in Block
                                 /\ Callback("release", e, b.scopes).kind = "callback"
                                 /\ Callback("release", e, b.scopes).native = "release"
                                 /\ Callback("release", e, b.scopes).scopes = b.scopes)
            /\ b.native = "with" => cancelled \/ r.next # <<>>
<1>1. /\ b.native \in {"task", "each", "map", "with", "release"}
      /\ b.pending \in Errors \cup {"none"} /\ b.scopes \in Nat
  BY BlockFields
<1>2. LET c == Callback("release", e, b.scopes)
      IN c \in Block /\ c.kind = "callback" /\ c.native = "release" /\ c.scopes = b.scopes
  <2>1. \A v \in {"task", "each", "map", "with", "release"}, n \in Nat :
          LET c == Callback(v, e, n)
          IN c \in Block /\ c.kind = "callback" /\ c.native = v /\ c.scopes = n
    BY NewBlocks
  <2>2. \A n \in Nat :
          LET c == Callback("release", e, n)
          IN c \in Block /\ c.kind = "callback" /\ c.native = "release" /\ c.scopes = n
    BY <2>1
  <2> QED
    BY <1>1, <2>2
<1>3. CASE b.native = "with" /\ ~StopsHere(sh)
  <2>1. After(b, e, sh) = [next |-> <<Callback("release", e, b.scopes)>>, thrown |-> "none"]
    BY <1>3 DEF After
  <2> QED
    BY <1>2, <2>1
<1>4. CASE b.native = "with" /\ StopsHere(sh)
  <2>1. After(b, e, sh) = [next |-> <<>>, thrown |-> IF e = "none" THEN "cancel" ELSE e]
    BY <1>4 DEF After
  <2> QED
    BY <1>4, <2>1 DEF Errors, StopsHere
<1>5. CASE b.native # "with"
  <2>1. \/ After(b, e, sh) = [next |-> <<>>, thrown |-> b.pending]
        \/ After(b, e, sh) = [next |-> <<>>, thrown |-> "none"]
        \/ After(b, e, sh) = [next |-> <<>>, thrown |-> e]
    <3>1. CASE b.native = "release" /\ b.pending # "none"
      BY <1>5, <3>1 DEF After
    <3>2. CASE b.native = "map" /\ e # "exit"
      BY <1>5, <3>2 DEF After
    <3>3. CASE ~(b.native = "release" /\ b.pending # "none") /\ ~(b.native = "map" /\ e # "exit")
      BY <1>5, <3>3 DEF After
    <3> QED
      BY <3>1, <3>2, <3>3
  <2> QED
    BY <1>1, <1>5, <2>1
<1> QED
  BY <1>3, <1>4, <1>5

LEMMA NativeStep ==
  ASSUME Structured, IInv, Running, UNCHANGED cancelled,
         NEW native \in {"each", "map", "with"}, vm_native_callable(native)
  PROVE  IInv' /\ RunsCleanup
<1>1. scopes \in Nat
  BY Here
<1>2. PICK b \in Block : /\ b = Callback(native, "none", scopes) /\ b.kind = "callback"
                         /\ b.scopes = scopes
  <2>1. LET c == Callback(native, "none", scopes)
        IN c \in Block /\ c.kind = "callback" /\ c.scopes = scopes
    BY <1>1, NewBlocks
  <2> QED
    BY <2>1
<1>3. CASE StopsHere(shields)
  <2>1. /\ thrown' = After(b, "cancel", shields).thrown
        /\ UNCHANGED <<stack, handlers, shields, scopes, outcome>>
    BY <1>2, <1>3 DEF vm_native_callable
  <2>2. After(b, "cancel", shields).thrown \in Errors \cup {"none"}
    BY <1>2, AfterSound DEF Errors
  <2> QED
    BY <2>1, <2>2, CancelledHere
<1>4. CASE ~StopsHere(shields)
  <2>1. Room /\ stack' = Append(stack, b) /\ UNCHANGED <<handlers, shields, scopes, thrown, outcome>>
    BY <1>2, <1>4 DEF vm_native_callable
  <2> QED
    BY <1>2, <2>1, Enter
<1> QED
  BY <1>3, <1>4

LEMMA ThrowStep ==
  ASSUME Structured, IInv, Running, UNCHANGED cancelled, Throw
  PROVE  IInv' /\ RunsCleanup
BY CancelledHere DEF Throw

LEMMA CancelStep ==
  ASSUME Structured, IInv, Cancel
  PROVE  IInv' /\ RunsCleanup
<1>1. /\ outcome = "running" /\ cancelled' = TRUE
      /\ UNCHANGED <<stack, handlers, shields, scopes, thrown, outcome>>
  BY DEF Cancel
<1>2. scopes \in Nat /\ thrown \in Errors \cup {"none"}
  BY Here
<1>3. ScopesOK'
  BY <1>1 DEF IInv, ScopesOK, Top
<1> QED
  BY <1>1, <1>2, <1>3, Unmoved

(***************************************************************************)
(* Steps that leave the innermost block                                    *)
(***************************************************************************)
LEMMA TopSays ==
  ASSUME Structured, IInv, outcome = "running", NEW n, n = Len(stack) - 1
  PROVE  /\ n \in 0 .. Len(stack) /\ n \in Nat /\ n + 1 = Len(stack) /\ n + 1 \in DOMAIN stack
         /\ Front(stack) = SubSeq(stack, 1, n) /\ Top = stack[n + 1] /\ Top \in Block
         /\ Top.kind # "callback" => n >= 1
         /\ \A i \in n + 1 .. Len(stack) : i = n + 1
         /\ n + 1 <= MaxBlocks + 1 /\ MaxBlocks \in Nat
<1>1. /\ stack \in Seq(Block) /\ Len(stack) >= 1 /\ stack # <<>> /\ stack[1].kind = "callback"
      /\ Len(stack) \in Nat /\ DOMAIN stack = 1 .. Len(stack) /\ Len(stack) <= MaxBlocks + 1
      /\ MaxBlocks \in Nat
  BY Here
<1>2. n \in 0 .. Len(stack) /\ n \in Nat /\ n + 1 = Len(stack) /\ n + 1 \in DOMAIN stack
      /\ \A i \in n + 1 .. Len(stack) : i = n + 1
  BY <1>1
<1>3. Top = stack[n + 1] /\ Top \in Block
  BY <1>1, <1>2, Innermost
<1>4. Front(stack) = SubSeq(stack, 1, n)
  BY DEF Front
<1>5. Top.kind # "callback" => n >= 1
  <2>1. n = 0 => n + 1 = 1
    OBVIOUS
  <2> QED
    BY <1>1, <1>2, <1>3, <2>1
<1> QED
  BY <1>1, <1>2, <1>3, <1>4, <1>5

LEMMA TryEndStep ==
  ASSUME Structured, IInv, Running, UNCHANGED cancelled, compile_try_end
  PROVE  IInv' /\ RunsCleanup
<1>1. PICK n : n = Len(stack) - 1
  OBVIOUS
<1>2. /\ stack \in Seq(Block) /\ handlers \in Seq(HandlerRecord) /\ shields \in Seq(Shield)
      /\ HandlersMatch /\ ShieldsOK /\ scopes = Scopes(stack) /\ scopes \in Nat
      /\ thrown \in Errors \cup {"none"} /\ outcome = "running"
      /\ Len(stack) \in Nat /\ DOMAIN stack = 1 .. Len(stack)
  BY Here DEF Running
<1>3. /\ Top.kind = "try" /\ handlers' = TryEnd(1) /\ UNCHANGED <<shields, scopes, thrown, outcome>>
      /\ stack' = IF Top.fin = "none" THEN Front(stack)
                  ELSE Append(Front(stack), Finally(Top.fin, "none", 0))
  BY DEF compile_try_end
<1>4. /\ n \in 0 .. Len(stack) /\ n \in Nat /\ n + 1 = Len(stack) /\ n + 1 \in DOMAIN stack
      /\ Front(stack) = SubSeq(stack, 1, n) /\ Top = stack[n + 1] /\ Top \in Block /\ n >= 1
      /\ \A i \in n + 1 .. Len(stack) : i = n + 1
      /\ n + 1 <= MaxBlocks + 1 /\ MaxBlocks \in Nat
  BY <1>1, <1>2, <1>3, TopSays
<1>5. Top.fin \in {"none", "falls"}
  BY <1>3, <1>4, BlockFields
<1>6. /\ Keeps(n)
      /\ Adds(n) => stack'[n + 1].kind = "finally" /\ stack'[n + 1].exit = "none"
      /\ Top.fin # "none" => Adds(n)
  <2>1. CASE Top.fin = "none"
    BY <1>2, <1>3, <1>4, <2>1, KeepsCut
  <2>2. CASE Top.fin # "none"
    <3>1. Top.fin = "falls"
      BY <1>5, <2>2
    <3>2. PICK b \in Block : b = Finally("falls", "none", 0) /\ b.kind = "finally" /\ b.exit = "none"
      BY NewBlocks
    <3>3. stack' = Append(SubSeq(stack, 1, n), b)
      BY <1>3, <1>4, <3>1, <3>2
    <3> QED
      BY <1>2, <1>4, <3>2, <3>3, KeepsPut
  <2> QED
    BY <2>1, <2>2
<1>7. HandlersMatch' /\ handlers' \in Seq(HandlerRecord)
  <2>1. PICK k \in 0 .. Len(handlers) : CutAt(k, n)
    BY <1>2, <1>4, CutExists
  <2>2. {i \in Positions(stack, {"try"}) : i > n} = {n + 1}
    BY <1>2, <1>3, <1>4 DEF Positions
  <2>3. Cardinality({n + 1}) = 1
    BY FS_Singleton
  <2>4. TryEnd(Cardinality({n + 1})) = SubSeq(handlers, 1, k)
    BY <1>2, <1>4, <2>1, <2>2, TryEndCut
  <2>5. handlers' = SubSeq(handlers, 1, k)
    BY <1>3, <2>3, <2>4
  <2> QED
    BY <1>2, <1>6, <2>1, <2>5, HandlersCut
<1>8. ShieldsOK' /\ shields' \in Seq(Shield)
  <2>1. \A i \in n + 1 .. Len(stack), j \in DOMAIN shields : ~Guards(stack, i, shields[j])
    BY <1>3, <1>4 DEF Guards
  <2> QED
    BY <1>2, <1>3, <1>6, <2>1, ShieldsStay
<1>9. scopes' \in Nat /\ scopes' = Scopes(stack')
  <2>1. \A i \in n + 1 .. Len(stack) : stack[i].kind # "scope"
    BY <1>3, <1>4
  <2>2. ScopesOf(n + 1) = Scopes(stack)
    BY <1>2, <1>6, <2>1, ScopesKept
  <2>3. Scopes(stack') = ScopesOf(n + 1)
    BY <1>2, <1>6, ScopesKept
  <2> QED
    BY <1>2, <1>3, <2>2, <2>3
<1>10. ScopesOK'
  BY <1>9 DEF ScopesOK
<1>11. Len(stack') <= MaxBlocks + 1
  BY <1>4, <1>6 DEF Keeps
<1>12. IInv'
  BY <1>2, <1>3, <1>4, <1>6, <1>7, <1>8, <1>9, <1>10, <1>11, StepSound
<1>13. RunsCleanup
  BY <1>2, <1>3, <1>4, <1>6, CleanupSound
<1> QED
  BY <1>12, <1>13

\* A block without a handler, a shield or a clean-up of its own.
LEMMA Leave ==
  ASSUME Structured, IInv, outcome = "running", UNCHANGED <<cancelled, handlers, outcome>>,
         thrown = "none", Top.kind \in {"catch", "loop", "finally", "scope", "cleanup"},
         stack' = Front(stack), thrown' \in Errors \cup {"none"},
         IF Top.kind = "cleanup"
         THEN shields' = end_cancel_shields_from(Frames(stack) - 1, Depth(stack) - 1)
         ELSE shields' = shields,
         Top.kind = "finally" => Top.exit # "return",
         scopes' = IF Top.kind = "scope" THEN scopes - 1 ELSE scopes
  PROVE  IInv' /\ RunsCleanup
<1>1. PICK n : n = Len(stack) - 1
  OBVIOUS
<1>2. /\ stack \in Seq(Block) /\ handlers \in Seq(HandlerRecord) /\ shields \in Seq(Shield)
      /\ HandlersMatch /\ ShieldsOK /\ scopes = Scopes(stack) /\ scopes \in Nat
      /\ Len(stack) \in Nat /\ DOMAIN stack = 1 .. Len(stack)
  BY Here
<1>3. /\ n \in 0 .. Len(stack) /\ n \in Nat /\ n + 1 = Len(stack) /\ n + 1 \in DOMAIN stack
      /\ Front(stack) = SubSeq(stack, 1, n) /\ Top = stack[n + 1] /\ Top \in Block /\ n >= 1
      /\ \A i \in n + 1 .. Len(stack) : i = n + 1
      /\ n + 1 <= MaxBlocks + 1 /\ MaxBlocks \in Nat
  BY <1>1, <1>2, TopSays
<1>4. Keeps(n) /\ ~Adds(n)
  BY <1>2, <1>3, KeepsCut
<1>5. HandlersMatch' /\ handlers' \in Seq(HandlerRecord)
  <2>1. \A i \in n + 1 .. Len(stack) : stack[i].kind # "try"
    BY <1>3
  <2> QED
    BY <1>2, <1>4, <2>1, HandlersStay
<1>6. ShieldsOK' /\ shields' \in Seq(Shield)
  <2>1. CASE Top.kind # "cleanup"
    <3>1. \A i \in n + 1 .. Len(stack), j \in DOMAIN shields : ~Guards(stack, i, shields[j])
      BY <1>3, <2>1 DEF Guards
    <3> QED
      BY <1>2, <1>4, <2>1, <3>1, ShieldsStay
  <2>2. CASE Top.kind = "cleanup"
    <3>1. /\ FrameOf(n + 1) \in Int /\ DepthOf(n + 1) \in Nat
          /\ FrameOf(n + 1 + 1) = FrameOf(n + 1) /\ DepthOf(n + 1 + 1) = DepthOf(n + 1) + 1
      <4>1. stack[n + 1].kind = "cleanup" /\ stack[n + 1].kind \notin Activation
        BY <1>3, <2>2 DEF Activation
      <4> QED
        BY <1>2, <1>3, <4>1, OneBlock
    <3>2. FrameOf(n + 1 + 1) = Frames(stack) - 1 /\ DepthOf(n + 1 + 1) = Depth(stack)
      BY <1>2, <1>3, Innermost
    <3>3. Depth(stack) - 1 = DepthOf(n + 1)
      BY <3>1, <3>2
    <3>4. shields' = end_cancel_shields_from(FrameOf(n + 1), DepthOf(n + 1))
      BY <2>2, <3>1, <3>2, <3>3
    <3>5. n = n + 1 - 1
      BY <1>3
    <3>6. PICK p \in DOMAIN stack : p = n + 1
      BY <1>3
    <3>7. n = p - 1
      BY <1>3, <3>6
    <3>8. FrameOf(p) = FrameOf(n + 1) /\ DepthOf(p) = DepthOf(n + 1)
      BY <3>6
    <3>9. shields' = end_cancel_shields_from(FrameOf(p), DepthOf(p))
      BY <3>4, <3>8
    <3> QED
      BY <1>2, <1>4, <3>7, <3>9, ShieldsFrom
  <2> QED
    BY <2>1, <2>2
<1>7. scopes' \in Nat /\ scopes' = Scopes(stack')
  <2>0. Scopes(stack') = ScopesOf(n + 1) /\ ScopesOf(n + 1) \in Nat
    BY <1>2, <1>4, ScopesKept
  <2>1. CASE Top.kind # "scope"
    <3>1. \A i \in n + 1 .. Len(stack) : stack[i].kind # "scope"
      BY <1>3, <2>1
    <3>2. ScopesOf(n + 1) = Scopes(stack)
      BY <1>2, <1>4, <3>1, ScopesKept
    <3> QED
      BY <1>2, <2>0, <2>1, <3>2
  <2>2. CASE Top.kind = "scope"
    <3>1. ScopesOf(n + 1 + 1) = ScopesOf(n + 1) + 1
      BY <1>2, <1>3, <2>2, OneBlock
    <3>2. ScopesOf(n + 1 + 1) = Scopes(stack)
      BY <1>2, <1>3, Innermost
    <3> QED
      BY <1>2, <2>0, <2>2, <3>1, <3>2
  <2> QED
    BY <2>1, <2>2
<1>8. ScopesOK'
  BY <1>7 DEF ScopesOK
<1>9. Len(stack') <= MaxBlocks + 1
  BY <1>3, <1>4 DEF Keeps
<1>10. IInv'
  BY <1>3, <1>4, <1>5, <1>6, <1>7, <1>8, <1>9, StepSound
<1>11. RunsCleanup
  <2>1. \A i \in n + 1 .. Len(stack) : stack[i].kind # "try" /\ stack[i].kind # "callback"
    BY <1>3
  <2> QED
    BY <1>2, <1>4, <2>1, CleanupSound
<1> QED
  BY <1>10, <1>11

LEMMA EndBlockStep ==
  ASSUME Structured, IInv, Running, UNCHANGED cancelled, EndBlock
  PROVE  IInv' /\ RunsCleanup
<1>1. /\ Top \in {Catch, Loop, Finally("falls", "none", 0)} /\ stack' = Front(stack)
      /\ UNCHANGED <<handlers, shields, scopes, thrown, outcome>>
  BY DEF EndBlock
<1>2. Top.kind \in {"catch", "loop", "finally"} /\ (Top.kind = "finally" => Top.exit = "none")
  BY <1>1 DEF Catch, Loop, Finally
<1> QED
  BY <1>1, <1>2, Leave DEF Running

LEMMA ScopeEndStep ==
  ASSUME Structured, IInv, Running, UNCHANGED cancelled, handle_task_scope_end
  PROVE  IInv' /\ RunsCleanup
<1>1. Top = TaskScopeBlock /\ Top.kind = "scope" /\ scopes' = scopes - 1 /\ UNCHANGED <<handlers, shields, outcome>>
  BY DEF handle_task_scope_end, TaskScopeBlock
<1>2. CASE stack' = Front(stack) /\ UNCHANGED thrown
  BY <1>1, <1>2, Leave DEF Running
<1>3. CASE thrown' = "error" /\ UNCHANGED stack
  <2>1. /\ stack \in Seq(Block) /\ scopes = Scopes(stack) /\ scopes \in Nat /\ stack # <<>>
        /\ Len(stack) \in Nat /\ Len(stack) >= 1 /\ cancelled \in BOOLEAN
    BY Here DEF Running
  <2>2. scopes - 1 \in Nat
    <3>1. Len(stack) \in DOMAIN stack /\ stack[Len(stack)].kind = "scope"
      BY <1>1, <2>1, Innermost
    <3>2. ScopesOf(Len(stack)) \in Nat /\ ScopesOf(Len(stack) + 1) = ScopesOf(Len(stack)) + 1
      BY <2>1, <3>1, OneBlock
    <3> QED
      BY <2>1, <3>2, Innermost
  <2>3. ScopesOK'
    <3>1. Scopes(stack') = scopes' + 1 /\ stack' # <<>> /\ Top' = Top /\ thrown' # "none"
      BY <1>1, <1>3, <2>1 DEF Top
    <3> QED
      BY <1>1, <3>1 DEF ScopesOK
  <2> QED
    BY <1>1, <1>3, <2>1, <2>2, <2>3, Unmoved DEF Running, Errors
<1> QED
  BY <1>1, <1>2, <1>3 DEF handle_task_scope_end

LEMMA RethrowStep ==
  ASSUME Structured, IInv, Running, UNCHANGED cancelled, op_rethrow
  PROVE  IInv' /\ RunsCleanup
<1>1. /\ Top.kind = "cleanup" /\ stack' = Front(stack) /\ thrown' = Top.error
      /\ shields' = end_cancel_shields_from(Frames(stack) - 1, Depth(stack) - 1)
      /\ UNCHANGED <<handlers, scopes, outcome>>
  BY DEF op_rethrow
<1>2. Top \in Block
  BY Here, Innermost DEF Running
<1>3. thrown' \in Errors \cup {"none"}
  BY <1>1, <1>2, BlockFields
<1> QED
  BY <1>1, <1>3, Leave DEF Running

(***************************************************************************)
(* The current frame, and what an exit leaves                              *)
(***************************************************************************)
LEMMA MaxUnique ==
  ASSUME NEW S \in SUBSET Nat, NEW x \in S, \A y \in S : y <= x
  PROVE  Max(S) = x
<1>1. \A y \in S : x >= y
  OBVIOUS
<1>2. Max(S) \in S /\ \A y \in S : Max(S) >= y
  BY <1>1 DEF Max
<1>3. Max(S) \in Nat /\ x \in Nat /\ Max(S) <= x /\ Max(S) >= x
  BY <1>2
<1> QED
  BY <1>3

\* The innermost of the blocks of some kinds.
LEMMA LastOfKinds ==
  ASSUME NEW s \in Seq(Block), NEW kinds, NEW b \in DOMAIN s, s[b].kind \in kinds
  PROVE  /\ Max(Positions(s, kinds)) \in DOMAIN s /\ b <= Max(Positions(s, kinds))
         /\ s[Max(Positions(s, kinds))].kind \in kinds
         /\ \A i \in Max(Positions(s, kinds)) + 1 .. Len(s) : s[i].kind \notin kinds
<1>1. Len(s) \in Nat /\ DOMAIN s = 1 .. Len(s)
  OBVIOUS
<1>2. Positions(s, kinds) \in SUBSET (0 .. Len(s)) /\ b \in Positions(s, kinds)
  BY <1>1 DEF Positions
<1>3. /\ Max(Positions(s, kinds)) \in Positions(s, kinds)
      /\ \A y \in Positions(s, kinds) : y <= Max(Positions(s, kinds))
  BY <1>1, <1>2, MaxSound
<1>4. Max(Positions(s, kinds)) \in DOMAIN s /\ s[Max(Positions(s, kinds))].kind \in kinds
  BY <1>3 DEF Positions
<1>5. ASSUME NEW i \in Max(Positions(s, kinds)) + 1 .. Len(s), s[i].kind \in kinds
      PROVE  FALSE
  <2>1. i \in DOMAIN s
    BY <1>1, <1>4
  <2>2. i \in Positions(s, kinds)
    BY <1>5, <2>1 DEF Positions
  <2> QED
    BY <1>1, <1>3, <1>4, <2>2
<1> QED
  BY <1>2, <1>3, <1>4, <1>5

Exits == {"return", "break", "continue"}

\* Where an exit leads, in the current frame.
LEMMA TargetSound ==
  ASSUME NEW s \in Seq(Block), Len(s) >= 1, s[1].kind = "callback",
         NEW exit \in Exits, exit # "return" => Loops(s) # {}
  PROVE  /\ Frame(s) \in DOMAIN s /\ Frame(s) >= 1 /\ s[Frame(s)].kind \in Activation
         /\ \A i \in Frame(s) + 1 .. Len(s) : s[i].kind \notin Activation
         /\ Target(s, exit) \in DOMAIN s
         /\ exit = "return" => Target(s, exit) = Frame(s)
         /\ exit # "return" => Target(s, exit) > Frame(s) /\ s[Target(s, exit)].kind = "loop"
                               /\ Target(s, exit) \in Loops(s)
                               /\ \A i \in Loops(s) : i <= Target(s, exit)
<1>1. Len(s) \in Nat /\ DOMAIN s = 1 .. Len(s) /\ 1 \in DOMAIN s /\ s[1].kind \in Activation
  BY DEF Activation
<1>2. /\ Frame(s) \in DOMAIN s /\ Frame(s) >= 1 /\ s[Frame(s)].kind \in Activation
      /\ \A i \in Frame(s) + 1 .. Len(s) : s[i].kind \notin Activation
  <2>1. /\ Frame(s) \in DOMAIN s /\ 1 <= Frame(s) /\ s[Frame(s)].kind \in Activation
        /\ \A i \in Frame(s) + 1 .. Len(s) : s[i].kind \notin Activation
    BY <1>1, LastOfKinds DEF Frame
  <2> QED
    BY <1>1, <2>1
<1>3. CASE exit = "return"
  BY <1>2, <1>3 DEF Target
<1>4. CASE exit # "return"
  <2>1. Loops(s) \in SUBSET (0 .. Len(s)) /\ Loops(s) # {}
    BY <1>1, <1>4 DEF Loops, Positions
  <2>2. Max(Loops(s)) \in Loops(s) /\ \A i \in Loops(s) : i <= Max(Loops(s))
    BY <1>1, <2>1, MaxSound
  <2>3. Target(s, exit) = Max(Loops(s))
    BY <1>4 DEF Target
  <2>4. Target(s, exit) \in Loops(s)
    BY <2>2, <2>3
  <2>5. Target(s, exit) \in DOMAIN s /\ Target(s, exit) > Frame(s) /\ s[Target(s, exit)].kind = "loop"
    BY <2>4 DEF Loops, Positions
  <2> QED
    BY <1>2, <1>4, <2>2, <2>3, <2>4, <2>5
<1> QED
  BY <1>3, <1>4

\* The blocks around the target are left the same way from inside it.
LEMMA LeftByPrefix ==
  ASSUME NEW s \in Seq(Block), Len(s) >= 1, s[1].kind = "callback",
         NEW exit \in Exits, LeftBy(exit, s), NEW m \in Target(s, exit) .. Len(s)
  PROVE  LeftBy(exit, SubSeq(s, 1, m))
<1> DEFINE r == SubSeq(s, 1, m)
<1>0. exit # "return" => Loops(s) # {}
  BY DEF LeftBy
<1>1. /\ Frame(s) \in DOMAIN s /\ Frame(s) >= 1 /\ s[Frame(s)].kind \in Activation
      /\ \A i \in Frame(s) + 1 .. Len(s) : s[i].kind \notin Activation
      /\ Target(s, exit) \in DOMAIN s
      /\ exit = "return" => Target(s, exit) = Frame(s)
      /\ exit # "return" => Target(s, exit) > Frame(s) /\ s[Target(s, exit)].kind = "loop"
                            /\ Target(s, exit) \in Loops(s)
                            /\ \A i \in Loops(s) : i <= Target(s, exit)
  BY <1>0, TargetSound
<1>2. /\ Len(s) \in Nat /\ DOMAIN s = 1 .. Len(s) /\ m \in 0 .. Len(s) /\ m \in Nat
      /\ Frame(s) \in 1 .. m /\ Target(s, exit) \in 1 .. m
  <2>1. Len(s) \in Nat /\ DOMAIN s = 1 .. Len(s)
    OBVIOUS
  <2>2. Frame(s) <= Target(s, exit)
    BY <1>1, <2>1 DEF Exits
  <2> QED
    BY <1>1, <2>1, <2>2
<1>3. /\ r \in Seq(Block) /\ Len(r) = m
      /\ \A i \in 1 .. m : r[i] = s[i]
  BY <1>2, PrefixSound
<1>4. \A kinds : Positions(r, kinds) = {i \in 1 .. m : s[i].kind \in kinds}
  BY <1>2, PrefixPositions
<1> HIDE DEF r
<1>5. Frame(r) = Frame(s)
  <2>1. Positions(r, Activation) \in SUBSET Nat /\ Frame(s) \in Positions(r, Activation)
    BY <1>1, <1>2, <1>4
  <2>2. ASSUME NEW y \in Positions(r, Activation)
        PROVE  y <= Frame(s)
    <3>1. y \in 1 .. m /\ s[y].kind \in Activation
      BY <1>4
    <3>2. y \in DOMAIN s
      BY <1>2, <3>1
    <3>3. y \notin Frame(s) + 1 .. Len(s)
      BY <1>1, <3>1
    <3> QED
      BY <1>2, <3>2, <3>3
  <2> QED
    BY <2>1, <2>2, MaxUnique DEF Frame
<1>6. Loops(r) = {i \in Loops(s) : i <= m}
  <2>1. Loops(r) = {i \in 1 .. m : s[i].kind \in {"loop"} /\ i > Frame(s)}
    BY <1>4, <1>5 DEF Loops
  <2>2. Loops(s) = {i \in 1 .. Len(s) : s[i].kind \in {"loop"} /\ i > Frame(s)}
    BY <1>2 DEF Loops, Positions
  <2> QED
    BY <1>2, <2>1, <2>2
<1>7. Target(r, exit) = Target(s, exit)
  <2>1. CASE exit = "return"
    BY <1>5, <2>1 DEF Target
  <2>2. CASE exit # "return"
    <3>1. Loops(r) \in SUBSET Nat /\ Target(s, exit) \in Loops(r)
      <4>1. Loops(s) \in SUBSET Nat
        BY <1>2 DEF Loops, Positions
      <4> QED
        BY <1>1, <1>2, <1>6, <2>2, <4>1
    <3>2. \A y \in Loops(r) : y <= Target(s, exit)
      BY <1>1, <1>6, <2>2
    <3>3. Max(Loops(r)) = Target(s, exit)
      BY <3>1, <3>2, MaxUnique
    <3> QED
      BY <2>2, <3>3 DEF Target
  <2> QED
    BY <2>1, <2>2
<1>8. exit # "return" => Loops(r) # {}
  BY <1>1, <1>2, <1>6
<1>9. ASSUME NEW i \in Target(r, exit) + 1 .. Len(r)
      PROVE  /\ r[i].kind # "scope"
             /\ exit # "return" =>
                  /\ r[i].kind # "cleanup"
                  /\ r[i].kind = "finally" => r[i].exit # "return"
  <2>1. i \in Target(s, exit) + 1 .. Len(s) /\ i \in 1 .. m
    BY <1>2, <1>3, <1>7
  <2>2. r[i] = s[i]
    BY <1>3, <2>1
  <2> QED
    BY <2>1, <2>2 DEF LeftBy
<1>10. LeftBy(exit, r)
  BY <1>8, <1>9 DEF LeftBy
<1> QED
  BY <1>10 DEF r

(***************************************************************************)
(* Leaving a frame                                                         *)
(***************************************************************************)
\* A callback ends, and with it every block it is in: its native goes on in the
\* blocks around it, or calls the release function in its place.
LEMMA CallbackLeft ==
  ASSUME Structured, IInv, outcome = "running",
         NEW n \in Nat, n >= 1, n < Len(stack), stack[n + 1].kind = "callback",
         NEW s, SubSeq(s, 1, n) = SubSeq(stack, 1, n), s[n + 1] = stack[n + 1],
         NEW e \in Errors \cup {"none"}, LeaveCallback(s, n, e)
  PROVE  /\ Keeps(n) /\ ShieldsOK' /\ shields' \in Seq(Shield)
         /\ thrown' \in Errors \cup {"none"}
         /\ Adds(n) => /\ stack'[n + 1].kind = "callback" /\ stack'[n + 1].native = "release"
                       /\ stack'[n + 1].scopes = ScopesOf(n + 1)
         /\ stack[n + 1].native = "with" => cancelled \/ Adds(n)
<1>1. /\ stack \in Seq(Block) /\ shields \in Seq(Shield) /\ ShieldsOK /\ CallbacksOK
      /\ Len(stack) \in Nat /\ DOMAIN stack = 1 .. Len(stack)
  BY Here
<1>2. n \in 0 .. Len(stack) /\ n + 1 \in DOMAIN stack
  BY <1>1
<1>3. PICK b \in Block : b = stack[n + 1]
  BY <1>1, <1>2, ElementOfSeq
<1>4. b.kind = "callback" /\ b.scopes = ScopesOf(n + 1)
  <2>1. n + 1 \in Positions(stack, {"callback"})
    BY <1>2 DEF Positions
  <2>2. stack[n + 1].scopes = ScopesOf(n + 1)
    BY <1>1, <2>1 DEF CallbacksOK
  <2> QED
    BY <1>3, <2>2
<1>5. PICK r : r = After(b, e, shields')
  OBVIOUS
<1>6. stack' = SubSeq(stack, 1, n) \o r.next /\ thrown' = r.thrown
      /\ shields' = discard_frames_from(shields, Frames(SubSeq(stack, 1, n)))
  BY <1>3, <1>5 DEF LeaveCallback
<1>7. PICK c : c = Callback("release", e, b.scopes)
  OBVIOUS
<1>8. /\ r.thrown \in Errors \cup {"none"}
      /\ r.next = <<>> \/ (/\ r.next = <<c>> /\ c \in Block /\ c.kind = "callback"
                           /\ c.native = "release" /\ c.scopes = b.scopes)
      /\ b.native = "with" => cancelled \/ r.next # <<>>
  BY <1>4, <1>5, <1>7, AfterSound
<1>9. SubSeq(stack, 1, n) \in Seq(Block)
  BY <1>1, <1>2, PrefixSound
<1>10. /\ Keeps(n)
       /\ Adds(n) => r.next = <<c>> /\ stack'[n + 1] = c
       /\ r.next # <<>> => Adds(n)
  <2>1. CASE r.next = <<>>
    <3>1. stack' = SubSeq(stack, 1, n)
      BY <1>6, <1>9, <2>1
    <3>2. Keeps(n) /\ ~Adds(n)
      BY <1>1, <1>2, <3>1, KeepsCut
    <3> QED
      BY <2>1, <3>2
  <2>2. CASE r.next # <<>>
    <3>1. r.next = <<c>> /\ c \in Block
      BY <1>8, <2>2
    <3>2. stack' = Append(SubSeq(stack, 1, n), c)
      BY <1>6, <1>9, <3>1, AppendIsConcat
    <3>3. Keeps(n) /\ Adds(n) /\ stack'[n + 1] = c
      BY <1>1, <1>2, <3>1, <3>2, KeepsPut
    <3> QED
      BY <3>1, <3>3
  <2> QED
    BY <2>1, <2>2
<1>11. Adds(n) => /\ stack'[n + 1].kind = "callback" /\ stack'[n + 1].native = "release"
                  /\ stack'[n + 1].scopes = ScopesOf(n + 1)
  <2> SUFFICES ASSUME Adds(n)
               PROVE  /\ stack'[n + 1].kind = "callback" /\ stack'[n + 1].native = "release"
                      /\ stack'[n + 1].scopes = ScopesOf(n + 1)
    OBVIOUS
  <2>1. r.next = <<c>> /\ stack'[n + 1] = c
    BY <1>10
  <2>2. r.next # <<>>
    BY <2>1
  <2>3. c.kind = "callback" /\ c.native = "release" /\ c.scopes = b.scopes
    BY <1>8, <2>2
  <2> QED
    BY <1>4, <2>1, <2>3
<1>12. ShieldsOK' /\ shields' \in Seq(Shield)
  <2>1. PICK p \in DOMAIN stack : p = n + 1
    BY <1>2
  <2>2. p \in {n, n + 1} /\ stack[p].kind \in Activation
    BY <2>1 DEF Activation
  <2>3. p - 1 = n
    BY <2>1
  <2>4. shields' = discard_frames_from(shields, Frames(SubSeq(stack, 1, p - 1)))
    BY <1>6, <2>3
  <2>5. Adds(n) /\ stack'[n + 1].kind = "cleanup" => ~stack'[n + 1].shielded
    BY <1>11
  <2> QED
    BY <1>1, <1>10, <2>2, <2>4, <2>5, ShieldsFrame
<1> QED
  BY <1>3, <1>6, <1>8, <1>10, <1>11, <1>12

\* A frame is left, and with it every block it is in: the task ends, a function
\* returns or a callback ends.
LEMMA FrameLeft ==
  ASSUME Structured, IInv, outcome = "running", UNCHANGED cancelled,
         NEW n \in Nat, n < Len(stack), stack[n + 1].kind \in Activation,
         NEW k, CutAt(k, n), handlers' = SubSeq(handlers, 1, k), scopes' = ScopesOf(n + 1),
         \A i \in n + 1 .. Len(stack) : stack[i].kind = "try" => stack[i].fin = "none" \/ thrown = "exit",
         \A i \in n + 2 .. Len(stack) : stack[i].kind # "callback",
         \/ /\ n = 0 /\ stack' = <<>> /\ shields' = <<>> /\ thrown' = "none"
            /\ outcome' \in {"value", "failed", "cancelled"}
         \/ /\ n > 0 /\ stack[n + 1].kind = "call" /\ stack' = SubSeq(stack, 1, n)
            /\ shields' = discard_frames_from(shields, Frames(SubSeq(stack, 1, n)))
            /\ UNCHANGED <<thrown, outcome>>
         \/ /\ n > 0 /\ stack[n + 1].kind = "callback" /\ UNCHANGED outcome
            /\ \E s, e : /\ SubSeq(s, 1, n) = SubSeq(stack, 1, n) /\ s[n + 1] = stack[n + 1]
                         /\ e \in Errors \cup {"none"} /\ LeaveCallback(s, n, e)
  PROVE  IInv' /\ RunsCleanup
<1>1. /\ stack \in Seq(Block) /\ handlers \in Seq(HandlerRecord) /\ shields \in Seq(Shield)
      /\ HandlersMatch /\ ShieldsOK /\ CallbacksOK /\ ExitsOK
      /\ Len(stack) \in Nat /\ DOMAIN stack = 1 .. Len(stack) /\ Len(stack) <= MaxBlocks + 1
      /\ MaxBlocks \in Nat /\ thrown \in Errors \cup {"none"} /\ cancelled \in BOOLEAN
      /\ stack[1].kind = "callback" /\ stack[1].native = "task"
  BY Here
<1>2. n \in 0 .. Len(stack) /\ n + 1 \in DOMAIN stack
  BY <1>1
<1>3. CASE n = 0
  <2>1. /\ stack' = <<>> /\ shields' = <<>> /\ thrown' = "none"
        /\ outcome' \in {"value", "failed", "cancelled"}
    BY <1>3
  <2>2. SubSeq(stack, 1, n) = <<>>
    <3>1. SubSeq(stack, 1, n) \in Seq(Block) /\ Len(SubSeq(stack, 1, n)) = 0
      BY <1>1, <1>2, <1>3, PrefixSound
    <3> QED
      BY <3>1, EmptySeq
  <2>3. Keeps(n) /\ ~Adds(n)
    BY <1>1, <1>2, <2>1, <2>2, KeepsCut
  <2>4. HandlersMatch' /\ handlers' \in Seq(HandlerRecord)
    BY <1>1, <2>3, HandlersCut
  <2>5. handlers' = <<>>
    <3>1. handlers' # <<>> => 1 \in DOMAIN handlers'
      BY <2>4, EmptySeq
    <3>2. \A j \in DOMAIN handlers' : handlers'[j].at \in DOMAIN stack'
      BY <2>4 DEF HandlersMatch, Positions
    <3> QED
      BY <2>1, <3>1, <3>2
  <2>6. ShieldsOK'
    BY <2>1 DEF ShieldsOK, Positions
  <2>7. CallbacksOK' /\ ExitsOK'
    BY <2>1 DEF CallbacksOK, ExitsOK, Positions
  <2>8. scopes' \in Nat /\ scopes' = Scopes(stack')
    BY <1>1, <2>3, ScopesKept
  <2>9. ScopesOK'
    BY <2>8 DEF ScopesOK
  <2>10. Types'
    <3>1. UnwindingTypeOK'
      BY <1>1, <2>1, <2>5, <2>8 DEF UnwindingTypeOK
    <3>2. stack' \in Seq(Block) /\ shields' \in Seq(Shield)
      BY <2>1
    <3> QED
      BY <2>4, <3>1, <3>2 DEF Types
  <2>11. Rooted'
    BY <2>1 DEF Rooted
  <2>12. IInv'
    BY <2>4, <2>6, <2>7, <2>9, <2>10, <2>11 DEF IInv
  <2>13. RunsCleanup
    <3>1. ASSUME NEW i \in n + 1 .. Len(stack)
          PROVE  stack[i].kind = "callback" => stack[i].native # "with"
      BY <1>1, <1>3
    <3> QED
      BY <1>1, <2>3, <3>1, CleanupSound
  <2> QED
    BY <2>12, <2>13
<1>4. CASE n > 0
  <2>1. n >= 1 /\ outcome' = outcome
    BY <1>4
  <2>2. /\ Keeps(n) /\ ShieldsOK' /\ shields' \in Seq(Shield)
        /\ thrown' \in Errors \cup {"none"}
        /\ Adds(n) => /\ stack'[n + 1].kind = "callback" /\ stack'[n + 1].native = "release"
                      /\ stack'[n + 1].scopes = ScopesOf(n + 1)
        /\ stack[n + 1].kind = "callback" /\ stack[n + 1].native = "with" => cancelled \/ Adds(n)
    <3>1. CASE stack[n + 1].kind = "call"
      <4>1. /\ stack' = SubSeq(stack, 1, n) /\ thrown' = thrown
            /\ shields' = discard_frames_from(shields, Frames(SubSeq(stack, 1, n)))
        BY <1>4, <3>1
      <4>2. Keeps(n) /\ ~Adds(n)
        BY <1>1, <1>2, <4>1, KeepsCut
      <4>3. PICK p \in DOMAIN stack : p = n + 1
        BY <1>2
      <4>4. p \in {n, n + 1} /\ stack[p].kind \in Activation /\ p - 1 = n
        BY <4>3 DEF Activation
      <4>5. shields' = discard_frames_from(shields, Frames(SubSeq(stack, 1, p - 1)))
        BY <4>1, <4>4
      <4>6. ShieldsOK' /\ shields' \in Seq(Shield)
        BY <1>1, <4>2, <4>4, <4>5, ShieldsFrame
      <4> QED
        BY <1>1, <3>1, <4>1, <4>2, <4>6
    <3>2. CASE stack[n + 1].kind # "call"
      <4>1. stack[n + 1].kind = "callback"
        BY <3>2 DEF Activation
      <4>2. PICK s, e : /\ SubSeq(s, 1, n) = SubSeq(stack, 1, n) /\ s[n + 1] = stack[n + 1]
                        /\ e \in Errors \cup {"none"} /\ LeaveCallback(s, n, e)
        BY <1>4, <4>1
      <4> QED
        BY <2>1, <4>1, <4>2, CallbackLeft
    <3> QED
      BY <3>1, <3>2
  <2>3. HandlersMatch' /\ handlers' \in Seq(HandlerRecord)
    BY <1>1, <2>2, HandlersCut
  <2>4. scopes' \in Nat /\ scopes' = Scopes(stack')
    BY <1>1, <2>2, ScopesKept
  <2>5. ScopesOK'
    BY <2>4 DEF ScopesOK
  <2>6. Len(stack') <= MaxBlocks + 1
    BY <1>1, <2>2 DEF Keeps
  <2>7. IInv'
    BY <2>1, <2>2, <2>3, <2>4, <2>5, <2>6, StepSound
  <2>8. RunsCleanup
    <3>1. ASSUME NEW i \in n + 1 .. Len(stack)
          PROVE  /\ stack[i].kind = "try" /\ stack[i].fin # "none" => thrown = "exit"
                 /\ stack[i].kind = "callback" /\ stack[i].native = "with" =>
                      \/ cancelled
                      \/ /\ i = n + 1 /\ Adds(n)
                         /\ stack'[n + 1].kind = "callback" /\ stack'[n + 1].native = "release"
      <4>1. i = n + 1 \/ i \in n + 2 .. Len(stack)
        BY <1>1
      <4> QED
        BY <2>2, <4>1
    <3> QED
      BY <1>1, <2>2, <3>1, CleanupSound
  <2> QED
    BY <2>7, <2>8
<1> QED
  BY <1>3, <1>4

(***************************************************************************)
(* return, break and continue                                              *)
(***************************************************************************)
\* s is the nesting that an exit leaves: all of it, or, when a finally that
\* delayed the exit has ended, what is around that finally.
Leaves(s, m, exit) ==
  /\ m \in 1 .. Len(stack) /\ s = SubSeq(stack, 1, m) /\ exit \in Exits /\ LeftBy(exit, s)
  /\ \A i \in m + 1 .. Len(stack) : stack[i].kind = "finally" /\ stack[i].exit = exit

\* What an exit may meet on its way.
LEMMA LeavesSays ==
  ASSUME Structured, IInv, Running, NEW s, NEW m, NEW exit, Leaves(s, m, exit),
         NEW t, t = Target(s, exit)
  PROVE  /\ s \in Seq(Block) /\ Len(s) = m /\ m \in Nat /\ m >= 1 /\ m <= Len(stack)
         /\ s[1].kind = "callback" /\ exit \in Exits /\ LeftBy(exit, s)
         /\ \A q \in 0 .. m : SubSeq(s, 1, q) = SubSeq(stack, 1, q)
         /\ \A i \in 1 .. m : s[i] = stack[i]
         /\ t \in Nat /\ t >= 1 /\ t <= m /\ t \in DOMAIN stack
         /\ exit = "return" => t = Frame(s) /\ stack[t].kind \in Activation
         /\ exit # "return" => t > 1 /\ stack[t].kind = "loop"
         /\ \A i \in t + 1 .. Len(stack) : /\ stack[i].kind \notin Activation
                                           /\ stack[i].kind # "callback" /\ stack[i].kind # "scope"
         /\ \A i \in t + 1 .. Len(stack) : \A x : Guards(stack, i, x) => exit = "return"
         /\ Positions(s, {"try"}) = Positions(stack, {"try"})
<1>1. /\ stack \in Seq(Block) /\ Len(stack) \in Nat /\ DOMAIN stack = 1 .. Len(stack)
      /\ stack[1].kind = "callback"
  BY Here DEF Running
<1>2. /\ m \in 1 .. Len(stack) /\ s = SubSeq(stack, 1, m) /\ exit \in Exits /\ LeftBy(exit, s)
      /\ \A i \in m + 1 .. Len(stack) : stack[i].kind = "finally" /\ stack[i].exit = exit
  BY DEF Leaves
<1>3. m \in 0 .. Len(stack) /\ m \in Nat /\ m >= 1 /\ m <= Len(stack)
  BY <1>1, <1>2
<1>4. /\ s \in Seq(Block) /\ Len(s) = m /\ \A i \in 1 .. m : s[i] = stack[i]
      /\ \A q \in 0 .. m : SubSeq(s, 1, q) = SubSeq(stack, 1, q)
  BY <1>1, <1>2, <1>3, PrefixSound
<1>5. s[1].kind = "callback" /\ Len(s) >= 1
  BY <1>1, <1>3, <1>4
<1>6. exit # "return" => Loops(s) # {}
  BY <1>2 DEF LeftBy
<1>7. /\ Frame(s) \in DOMAIN s /\ Frame(s) >= 1 /\ s[Frame(s)].kind \in Activation
      /\ \A i \in Frame(s) + 1 .. Len(s) : s[i].kind \notin Activation
      /\ t \in DOMAIN s
      /\ exit = "return" => t = Frame(s)
      /\ exit # "return" => t > Frame(s) /\ s[t].kind = "loop"
  BY <1>2, <1>4, <1>5, <1>6, TargetSound
<1>8. DOMAIN s = 1 .. m
  BY <1>4
<1>9. t \in 1 .. m /\ Frame(s) \in 1 .. m /\ Frame(s) <= t
  BY <1>3, <1>7, <1>8
<1>10. /\ t \in Nat /\ t >= 1 /\ t <= m /\ t \in DOMAIN stack
       /\ exit = "return" => t = Frame(s) /\ stack[t].kind \in Activation
       /\ exit # "return" => t > 1 /\ stack[t].kind = "loop"
  BY <1>1, <1>3, <1>4, <1>7, <1>9
<1>11. ASSUME NEW i \in t + 1 .. Len(stack)
       PROVE  /\ stack[i].kind \notin Activation
              /\ stack[i].kind # "callback" /\ stack[i].kind # "scope"
              /\ \A x : Guards(stack, i, x) => exit = "return"
  <2>1. CASE i > m
    <3>1. i \in m + 1 .. Len(stack)
      BY <1>3, <2>1
    <3>2. stack[i].kind = "finally" /\ stack[i].exit = exit
      BY <1>2, <3>1
    <3> QED
      BY <3>2 DEF Activation, Guards
  <2>2. CASE i <= m
    <3>1. i \in t + 1 .. m /\ i \in Frame(s) + 1 .. m /\ i \in 1 .. m
      BY <1>1, <1>3, <1>9, <2>2
    <3>2. stack[i] = s[i] /\ s[i].kind \notin Activation
      BY <1>4, <1>7, <3>1
    <3>3. /\ s[i].kind # "scope"
          /\ exit # "return" => /\ s[i].kind # "cleanup"
                                /\ s[i].kind = "finally" => s[i].exit # "return"
      BY <1>2, <1>4, <3>1 DEF LeftBy
    <3> QED
      BY <3>2, <3>3 DEF Activation, Guards
  <2> QED
    BY <1>1, <1>3, <1>9, <2>1, <2>2
<1>12. Positions(s, {"try"}) = Positions(stack, {"try"})
  <2>1. Positions(s, {"try"}) = {i \in 1 .. m : stack[i].kind \in {"try"}}
    BY <1>1, <1>2, <1>3, PrefixPositions
  <2>2. \A i \in DOMAIN stack : stack[i].kind \in {"try"} => i \in 1 .. m
    BY <1>1, <1>2, <1>3
  <2>3. 1 .. m \subseteq DOMAIN stack
    BY <1>1, <1>3
  <2> QED
    BY <2>1, <2>2, <2>3 DEF Positions
<1> QED
  BY <1>2, <1>3, <1>4, <1>5, <1>10, <1>11, <1>12

\* The innermost finally on the way runs first, and delays the exit.
LEMMA ExitDelayed ==
  ASSUME Structured, IInv, Running, UNCHANGED <<cancelled, shields, scopes, thrown, outcome>>,
         NEW s, NEW m, NEW exit, Leaves(s, m, exit),
         NEW stop \in DOMAIN stack, stop > Target(s, exit),
         stack[stop].kind = "try", stack[stop].fin # "none",
         \A i \in Positions(stack, {"try"}) : i > Target(s, exit) /\ stack[i].fin # "none" => i <= stop,
         NEW held \in Nat,
         stack' = Append(SubSeq(stack, 1, stop - 1), Finally(stack[stop].fin, exit, held)),
         handlers' = TryEnd(Cardinality({i \in Positions(stack, {"try"}) : i >= stop}))
  PROVE  IInv' /\ RunsCleanup
<1>1. /\ stack \in Seq(Block) /\ handlers \in Seq(HandlerRecord) /\ shields \in Seq(Shield)
      /\ HandlersMatch /\ ShieldsOK /\ scopes = Scopes(stack) /\ scopes \in Nat
      /\ Len(stack) \in Nat /\ DOMAIN stack = 1 .. Len(stack) /\ Len(stack) <= MaxBlocks + 1
      /\ MaxBlocks \in Nat /\ thrown = "none" /\ outcome = "running"
  BY Here DEF Running
<1>2. PICK t : t = Target(s, exit)
  OBVIOUS
<1>3. /\ s \in Seq(Block) /\ Len(s) = m /\ m \in Nat /\ m >= 1 /\ m <= Len(stack)
      /\ s[1].kind = "callback" /\ exit \in Exits /\ LeftBy(exit, s)
      /\ \A q \in 0 .. m : SubSeq(s, 1, q) = SubSeq(stack, 1, q)
      /\ t \in Nat /\ t >= 1 /\ t <= m
      /\ \A i \in t + 1 .. Len(stack) : /\ stack[i].kind \notin Activation
                                        /\ stack[i].kind # "callback" /\ stack[i].kind # "scope"
      /\ \A i \in t + 1 .. Len(stack) : \A x : Guards(stack, i, x) => exit = "return"
      /\ Positions(s, {"try"}) = Positions(stack, {"try"})
  <2>1. /\ s \in Seq(Block) /\ Len(s) = m /\ m \in Nat /\ m >= 1 /\ m <= Len(stack)
        /\ s[1].kind = "callback" /\ exit \in Exits /\ LeftBy(exit, s)
        /\ \A q \in 0 .. m : SubSeq(s, 1, q) = SubSeq(stack, 1, q)
        /\ t \in Nat /\ t >= 1 /\ t <= m
        /\ Positions(s, {"try"}) = Positions(stack, {"try"})
    BY <1>2, LeavesSays
  <2>2. \A i \in t + 1 .. Len(stack) : /\ stack[i].kind \notin Activation
                                       /\ stack[i].kind # "callback" /\ stack[i].kind # "scope"
    BY <1>2, LeavesSays
  <2>3. \A i \in t + 1 .. Len(stack) : \A x : Guards(stack, i, x) => exit = "return"
    BY <1>2, LeavesSays
  <2> QED
    BY <2>1, <2>2, <2>3
<1>4. PICK n : n = stop - 1
  OBVIOUS
<1>5. /\ n \in Nat /\ n >= 1 /\ n >= t /\ n + 1 = stop /\ n \in 0 .. Len(stack)
      /\ n + 1 <= Len(stack) /\ n + 1 <= m /\ n \in t .. m
      /\ \A i \in n + 1 .. Len(stack) : i \in t + 1 .. Len(stack) /\ i >= stop /\ i \in DOMAIN stack
  <2>1. stop \in Positions(s, {"try"})
    BY <1>3 DEF Positions
  <2>2. stop \in 1 .. m /\ stop > t /\ m \in Nat /\ t \in Nat /\ t >= 1
    BY <1>2, <1>3, <2>1 DEF Positions
  <2>3. /\ n \in Nat /\ n >= 1 /\ n >= t /\ n + 1 = stop /\ n + 1 <= m /\ n \in t .. m
    BY <1>4, <2>2
  <2>4. n \in 0 .. Len(stack) /\ n + 1 <= Len(stack)
    BY <1>1, <1>3, <2>3
  <2>5. ASSUME NEW i \in n + 1 .. Len(stack)
        PROVE  i \in t + 1 .. Len(stack) /\ i >= stop /\ i \in DOMAIN stack
    <3>1. Len(stack) \in Nat /\ i \in Int /\ i >= stop /\ i <= Len(stack) /\ stop \in Nat
      BY <1>1, <2>2, <2>3
    <3>2. i >= 1 /\ i >= t + 1
      BY <2>2, <3>1
    <3> QED
      BY <1>1, <2>2, <3>1, <3>2
  <2> QED
    BY <2>3, <2>4, <2>5
<1>6. PICK f \in Block : /\ f = Finally(stack[stop].fin, exit, held)
                         /\ f.kind = "finally" /\ f.exit = exit
  <2>1. stack[stop] \in Block
    BY <1>1, ElementOfSeq
  <2>2. stack[stop].fin = "falls"
    BY <2>1, BlockFields
  <2>3. exit \in {"none", "return", "break", "continue"}
    BY <1>3 DEF Exits
  <2> QED
    BY <2>2, <2>3, NewBlocks
<1>7. Keeps(n) /\ Adds(n) /\ stack'[n + 1] = f
  <2>1. stack' = Append(SubSeq(stack, 1, n), f)
    BY <1>4, <1>6
  <2> QED
    BY <1>1, <1>5, <2>1, KeepsPut
<1>8. HandlersMatch' /\ handlers' \in Seq(HandlerRecord)
  <2>1. PICK k \in 0 .. Len(handlers) : CutAt(k, n)
    BY <1>1, <1>5, CutExists
  <2>2. {i \in Positions(stack, {"try"}) : i >= stop} = {i \in Positions(stack, {"try"}) : i > n}
    <3>1. \A i \in Positions(stack, {"try"}) : i >= stop <=> i > n
      BY <1>1, <1>5 DEF Positions
    <3> QED
      BY <3>1
  <2>3. handlers' = SubSeq(handlers, 1, k)
    BY <1>1, <1>5, <2>1, <2>2, TryEndCut
  <2>4. stack'[n + 1].kind # "try"
    BY <1>6, <1>7
  <2> QED
    BY <1>1, <1>7, <2>1, <2>3, <2>4, HandlersCut
<1>9. ShieldsOK' /\ shields' \in Seq(Shield)
  <2>1. ASSUME NEW i \in n + 1 .. Len(stack), NEW j \in DOMAIN shields, Guards(stack, i, shields[j])
        PROVE  Guards(stack', n + 1, shields[j])
    <3>1. exit = "return"
      BY <1>3, <1>5, <2>1
    <3>2. i \in DOMAIN stack /\ i \in 1 .. Len(stack) + 1 /\ n + 1 \in 1 .. Len(stack) + 1 /\ n + 1 <= i
      BY <1>1, <1>5
    <3>3. /\ shields[j].frame = FrameOf(i) /\ shields[j].depth >= DepthOf(i)
      BY <1>1, <2>1, <3>2, GuardsSay
    <3>4. shields[j].depth \in Nat
      BY <1>1, ShieldsSay
    <3>5. \A b \in n + 1 .. i - 1 : stack[b].kind \notin Activation
      <4>1. \A b \in n + 1 .. i - 1 : b \in n + 1 .. Len(stack)
        BY <1>1, <1>5, <3>2
      <4>2. \A b \in n + 1 .. Len(stack) : b \in t + 1 .. Len(stack)
        BY <1>5
      <4> QED
        BY <1>3, <4>1, <4>2
    <3>6. /\ DepthOf(n + 1) \in Nat /\ DepthOf(i) \in Nat
          /\ FrameOf(n + 1) = FrameOf(i) /\ DepthOf(n + 1) <= DepthOf(i)
      <4>1. PICK p \in 1 .. Len(stack) + 1 : p = n + 1
        BY <3>2
      <4>2. p <= i /\ \A b \in p .. i - 1 : stack[b].kind \notin Activation
        BY <3>2, <3>5, <4>1
      <4>3. /\ DepthOf(p) \in Nat /\ FrameOf(p) = FrameOf(i) /\ DepthOf(p) <= DepthOf(i)
        BY <1>1, <3>2, <4>2, Nesting
      <4>4. DepthOf(i) \in Nat
        BY <1>1, <3>2, Nesting
      <4> QED
        BY <4>1, <4>3, <4>4
    <3>7. shields[j].frame = FrameOf(n + 1) /\ shields[j].depth >= DepthOf(n + 1)
      BY <3>3, <3>4, <3>6
    <3>8. \A q \in 1 .. n + 1 : Before(q)' = Before(q)
      BY <1>1, <1>7, KeepsBefore
    <3>9. PICK p \in 1 .. n + 1 : p = n + 1
      BY <1>5
    <3>10. SubSeq(stack', 1, p - 1) = SubSeq(stack, 1, p - 1)
      BY <3>8 DEF Before
    <3>11. shields[j].frame = Frames(SubSeq(stack', 1, p - 1)) - 1
           /\ shields[j].depth >= Depth(SubSeq(stack', 1, p - 1))
      BY <3>7, <3>9, <3>10 DEF FrameOf, DepthOf, Before
    <3>12. stack'[p].kind = "finally" /\ stack'[p].exit = "return"
      BY <1>6, <1>7, <3>1, <3>9
    <3> QED
      BY <3>9, <3>11, <3>12 DEF Guards
  <2>2. stack'[n + 1].kind # "cleanup"
    BY <1>6, <1>7
  <2> QED
    BY <1>1, <1>7, <2>1, <2>2, ShieldsStay
<1>10. LeftBy(exit, SubSeq(stack, 1, n))
  <2>1. LeftBy(exit, SubSeq(s, 1, n))
    <3>1. n \in Target(s, exit) .. Len(s)
      BY <1>2, <1>3, <1>5
    <3> QED
      BY <1>3, <3>1, LeftByPrefix
  <2>2. n \in 0 .. m
    BY <1>3, <1>5
  <2>3. SubSeq(s, 1, n) = SubSeq(stack, 1, n)
    BY <1>3, <2>2
  <2> QED
    BY <2>1, <2>3
<1>11. scopes' = Scopes(stack') /\ scopes' \in Nat
  <2>1. stack'[n + 1].kind # "scope"
    BY <1>6, <1>7
  <2>2. \A i \in n + 1 .. Len(stack) : stack[i].kind # "scope"
    BY <1>3, <1>5
  <2>3. Scopes(stack') = ScopesOf(n + 1) /\ ScopesOf(n + 1) = Scopes(stack)
    BY <1>1, <1>7, <2>1, <2>2, ScopesKept
  <2> QED
    BY <1>1, <2>3
<1>12. IInv'
  <2>1. ScopesOK'
    BY <1>11 DEF ScopesOK
  <2>2. Len(stack') <= MaxBlocks + 1
    BY <1>1, <1>5, <1>7 DEF Adds
  <2>3. stack'[n + 1].kind # "callback" /\ stack'[n + 1].exit = exit
    BY <1>6, <1>7
  <2>4. thrown' \in Errors \cup {"none"}
    BY <1>1
  <2> QED
    BY <1>1, <1>5, <1>7, <1>8, <1>9, <1>10, <1>11, <2>1, <2>2, <2>3, <2>4, StepSound
<1>13. RunsCleanup
  <2>1. ASSUME NEW i \in n + 1 .. Len(stack), stack[i].kind = "try", stack[i].fin # "none"
        PROVE  i = n + 1 /\ Adds(n) /\ stack'[n + 1].kind \in {"cleanup", "finally"}
    <3>1. i \in Positions(stack, {"try"}) /\ i > t
      BY <1>3, <1>5, <2>1 DEF Positions
    <3>2. i <= stop
      BY <1>2, <2>1, <3>1
    <3> QED
      BY <1>1, <1>5, <1>6, <1>7, <3>2
  <2>2. \A i \in n + 1 .. Len(stack) : stack[i].kind # "callback"
    BY <1>3, <1>5
  <2> QED
    BY <1>1, <1>7, <2>1, <2>2, CleanupSound
<1> QED
  BY <1>12, <1>13

\* Without a finally on the way, break and continue reach their loop.
LEMMA ExitLoop ==
  ASSUME Structured, IInv, Running, UNCHANGED <<cancelled, shields, scopes, outcome>>,
         NEW s, NEW m, NEW exit, Leaves(s, m, exit), exit # "return",
         \A i \in Positions(stack, {"try"}) : i > Target(s, exit) => stack[i].fin = "none",
         NEW n, n \in {Target(s, exit) - 1, Target(s, exit)},
         stack' = SubSeq(stack, 1, n), thrown' \in Errors \cup {"none"},
         handlers' = TryEnd(Cardinality({i \in Positions(stack, {"try"}) : i > Target(s, exit)}))
  PROVE  IInv' /\ RunsCleanup
<1>1. /\ stack \in Seq(Block) /\ handlers \in Seq(HandlerRecord) /\ shields \in Seq(Shield)
      /\ HandlersMatch /\ ShieldsOK /\ scopes = Scopes(stack) /\ scopes \in Nat
      /\ Len(stack) \in Nat /\ DOMAIN stack = 1 .. Len(stack) /\ Len(stack) <= MaxBlocks + 1
      /\ MaxBlocks \in Nat /\ thrown = "none" /\ outcome = "running"
  BY Here DEF Running
<1>2. PICK t : t = Target(s, exit)
  OBVIOUS
<1>3. /\ m \in Nat /\ m <= Len(stack)
      /\ t \in Nat /\ t <= m /\ t > 1 /\ stack[t].kind = "loop"
      /\ \A i \in t + 1 .. Len(stack) : /\ stack[i].kind \notin Activation
                                        /\ stack[i].kind # "callback" /\ stack[i].kind # "scope"
      /\ \A i \in t + 1 .. Len(stack) : \A x : Guards(stack, i, x) => exit = "return"
  BY <1>2, LeavesSays
<1>4. /\ n \in Nat /\ n >= 1 /\ n \in 0 .. Len(stack) /\ n <= Len(stack)
  BY <1>1, <1>2, <1>3
<1>5. ASSUME NEW i \in n + 1 .. Len(stack)
      PROVE  (i = t /\ stack[i].kind = "loop") \/ i \in t + 1 .. Len(stack)
  BY <1>1, <1>2, <1>3
<1>6. Keeps(n) /\ ~Adds(n)
  BY <1>1, <1>4, KeepsCut
<1>7. HandlersMatch' /\ handlers' \in Seq(HandlerRecord)
  <2>1. PICK k \in 0 .. Len(handlers) : CutAt(k, n)
    BY <1>1, <1>4, CutExists
  <2>2. {i \in Positions(stack, {"try"}) : i > t} = {i \in Positions(stack, {"try"}) : i > n}
    <3>1. ASSUME NEW i \in Positions(stack, {"try"})
          PROVE  i > t <=> i > n
      <4>1. i \in 1 .. Len(stack) /\ stack[i].kind = "try"
        BY <1>1 DEF Positions
      <4>2. i # t
        BY <1>3, <4>1
      <4> QED
        BY <1>1, <1>2, <1>3, <4>1, <4>2
    <3> QED
      BY <3>1
  <2>3. handlers' = SubSeq(handlers, 1, k)
    BY <1>1, <1>2, <1>4, <2>1, <2>2, TryEndCut
  <2> QED
    BY <1>1, <1>6, <2>1, <2>3, HandlersCut
<1>8. ShieldsOK' /\ shields' \in Seq(Shield)
  <2>1. ASSUME NEW i \in n + 1 .. Len(stack), NEW j \in DOMAIN shields
        PROVE  ~Guards(stack, i, shields[j])
    <3>1. stack[i].kind = "loop" => ~Guards(stack, i, shields[j])
      BY DEF Guards
    <3> QED
      BY <1>3, <1>5, <3>1
  <2> QED
    BY <1>1, <1>6, <2>1, ShieldsStay
<1>9. scopes' = Scopes(stack') /\ scopes' \in Nat
  <2>1. \A i \in n + 1 .. Len(stack) : stack[i].kind # "scope"
    BY <1>3, <1>5
  <2>2. Scopes(stack') = ScopesOf(n + 1) /\ ScopesOf(n + 1) = Scopes(stack)
    BY <1>1, <1>6, <2>1, ScopesKept
  <2> QED
    BY <1>1, <2>2
<1>10. IInv'
  <2>1. ScopesOK'
    BY <1>9 DEF ScopesOK
  <2>2. Len(stack') <= MaxBlocks + 1
    BY <1>1, <1>4, <1>6 DEF Keeps
  <2> QED
    BY <1>1, <1>4, <1>6, <1>7, <1>8, <1>9, <2>1, <2>2, StepSound
<1>11. RunsCleanup
  <2>1. ASSUME NEW i \in n + 1 .. Len(stack)
        PROVE  /\ stack[i].kind = "try" => stack[i].fin = "none"
               /\ stack[i].kind # "callback"
    <3>1. stack[i].kind = "try" => i \in Positions(stack, {"try"}) /\ i > t
      BY <1>1, <1>3, <1>5 DEF Positions
    <3> QED
      BY <1>2, <1>3, <1>5, <3>1
  <2> QED
    BY <1>1, <1>6, <2>1, CleanupSound
<1> QED
  BY <1>10, <1>11

\* Without a finally on the way, return leaves its frame.
LEMMA ExitReturn ==
  ASSUME Structured, IInv, Running, UNCHANGED cancelled,
         NEW s, NEW m, Leaves(s, m, "return"),
         \A i \in Positions(stack, {"try"}) : i > Target(s, "return") => stack[i].fin = "none",
         NEW hs,
         hs = TryEnd(Cardinality({i \in Positions(stack, {"try"}) : i > Target(s, "return")})),
         complete_return(s, hs)
  PROVE  IInv' /\ RunsCleanup
<1>1. /\ stack \in Seq(Block) /\ handlers \in Seq(HandlerRecord) /\ HandlersMatch
      /\ scopes = Scopes(stack) /\ scopes \in Nat
      /\ Len(stack) \in Nat /\ DOMAIN stack = 1 .. Len(stack)
      /\ thrown = "none" /\ outcome = "running"
  BY Here DEF Running
<1>2. PICK t : t = Target(s, "return")
  OBVIOUS
<1>3. /\ m \in Nat /\ m <= Len(stack)
      /\ \A q \in 0 .. m : SubSeq(s, 1, q) = SubSeq(stack, 1, q)
      /\ \A i \in 1 .. m : s[i] = stack[i]
      /\ t \in Nat /\ t >= 1 /\ t <= m /\ t = Frame(s) /\ stack[t].kind \in Activation
      /\ \A i \in t + 1 .. Len(stack) : /\ stack[i].kind \notin Activation
                                        /\ stack[i].kind # "callback" /\ stack[i].kind # "scope"
  BY <1>2, LeavesSays
<1>4. PICK n : n = t - 1
  OBVIOUS
<1>5. /\ n \in Nat /\ n < Len(stack) /\ n + 1 = t /\ n \in 0 .. m /\ t \in 1 .. m /\ n + 2 = t + 1
  BY <1>1, <1>3, <1>4
<1>6. SubSeq(s, 1, n) = SubSeq(stack, 1, n) /\ s[n + 1] = stack[n + 1] /\ Frame(s) - 1 = n
  BY <1>3, <1>4, <1>5
<1>7. PICK k \in 0 .. Len(handlers) : CutAt(k, n)
  BY <1>1, <1>5, CutExists
<1>8. PICK k0 \in 0 .. Len(handlers) : CutAt(k0, t)
  BY <1>1, <1>3, CutExists
<1>9. hs = SubSeq(handlers, 1, k0)
  BY <1>1, <1>2, <1>3, <1>8, TryEndCut
<1>10. k0 \in k .. Len(handlers)
  <2>1. Len(handlers) \in Nat /\ DOMAIN handlers = 1 .. Len(handlers)
    BY <1>1
  <2>2. ASSUME k >= 1
        PROVE  k <= k0
    <3>1. k \in DOMAIN handlers
      BY <2>1, <2>2
    <3>2. handlers[k].at <= n
      BY <3>1, <1>7, <2>1 DEF CutAt
    <3>3. handlers[k].at \in Nat
      BY <1>1, <3>1, HandlersSay
    <3>4. handlers[k].at <= t
      BY <1>5, <3>2, <3>3
    <3> QED
      BY <3>1, <3>4, <1>8 DEF CutAt
  <2> QED
    BY <2>1, <2>2
<1>11. /\ handlers' = discard_frames_from(hs, Frames(SubSeq(stack, 1, n)))
       /\ scopes' = scopes
       /\ \/ n = 0 /\ stack' = <<>> /\ shields' = <<>> /\ outcome' = "value" /\ thrown' = thrown
          \/ /\ n > 0 /\ stack[n + 1].kind = "call"
             /\ stack' = SubSeq(stack, 1, n)
             /\ shields' = discard_frames_from(shields, Frames(SubSeq(stack, 1, n)))
             /\ UNCHANGED <<thrown, outcome>>
          \/ /\ n > 0 /\ stack[n + 1].kind # "call"
             /\ LeaveCallback(s, n, "none") /\ UNCHANGED outcome
  <2>1. /\ handlers' = discard_frames_from(hs, Frames(SubSeq(s, 1, n))) /\ scopes' = scopes
        /\ CASE n = 0 ->
                  stack' = <<>> /\ shields' = <<>> /\ outcome' = "value" /\ UNCHANGED thrown
             [] n > 0 /\ s[n + 1].kind = "call" ->
                  /\ stack' = SubSeq(s, 1, n)
                  /\ shields' = discard_frames_from(shields, Frames(stack'))
                  /\ UNCHANGED <<thrown, outcome>>
             [] OTHER -> LeaveCallback(s, n, "none") /\ UNCHANGED outcome
    BY <1>6 DEF complete_return
  <2>2. CASE n = 0
    BY <1>6, <2>1, <2>2
  <2>3. CASE n > 0 /\ stack[n + 1].kind = "call"
    <3>1. /\ stack' = SubSeq(s, 1, n)
          /\ shields' = discard_frames_from(shields, Frames(stack'))
          /\ UNCHANGED <<thrown, outcome>>
      BY <1>5, <1>6, <2>1, <2>3
    <3>2. Frames(stack') = Frames(SubSeq(stack, 1, n))
      BY <1>6, <3>1
    <3> QED
      BY <1>6, <2>1, <2>3, <3>1, <3>2
  <2>4. CASE n > 0 /\ stack[n + 1].kind # "call"
    BY <1>5, <1>6, <2>1, <2>4
  <2> QED
    BY <1>5, <2>2, <2>3, <2>4
<1>12. handlers' = SubSeq(handlers, 1, k)
  <2>1. stack[n + 1].kind \in Activation
    BY <1>3, <1>5
  <2>2. discard_frames_from(SubSeq(handlers, 1, k0), Frames(SubSeq(stack, 1, n))) = SubSeq(handlers, 1, k)
    BY <1>1, <1>5, <1>7, <1>10, <2>1, DiscardHandlers
  <2> QED
    BY <1>9, <1>11, <2>2
<1>13. scopes' = ScopesOf(n + 1)
  <2>1. PICK p \in 1 .. Len(stack) + 1 : p = n + 1
    BY <1>1, <1>5
  <2>2. PICK q \in 1 .. Len(stack) + 1 : q = Len(stack) + 1
    BY <1>1
  <2>3. \A b \in p .. q - 1 : stack[b].kind # "scope"
    <3>1. stack[t].kind # "scope"
      BY <1>3 DEF Activation
    <3>2. \A b \in p .. q - 1 : b = t \/ b \in t + 1 .. Len(stack)
      BY <1>1, <1>5, <2>1, <2>2
    <3> QED
      BY <1>3, <3>1, <3>2
  <2>4. ScopesOf(p) = ScopesOf(q)
    <3>1. p <= q
      BY <1>1, <1>5, <2>1, <2>2
    <3> QED
      BY <1>1, <2>3, <3>1, Nesting
  <2>5. ScopesOf(q) = Scopes(stack)
    BY <1>1, <2>2, Innermost
  <2> QED
    BY <1>1, <1>11, <2>1, <2>4, <2>5
<1>14. ASSUME NEW i \in n + 1 .. Len(stack), stack[i].kind = "try"
       PROVE  stack[i].fin = "none"
  <2>1. i # t
    BY <1>3, <1>14 DEF Activation
  <2>2. i > t /\ i \in DOMAIN stack
    BY <1>1, <1>5, <2>1
  <2>3. i \in Positions(stack, {"try"})
    BY <1>14, <2>2 DEF Positions
  <2> QED
    BY <1>2, <2>2, <2>3
<1>15. \A i \in n + 2 .. Len(stack) : stack[i].kind # "callback"
  BY <1>3, <1>5
<1>16. stack[n + 1].kind \in Activation
  BY <1>3, <1>5
<1>17. \/ /\ n = 0 /\ stack' = <<>> /\ shields' = <<>> /\ thrown' = "none"
          /\ outcome' \in {"value", "failed", "cancelled"}
       \/ /\ n > 0 /\ stack[n + 1].kind = "call" /\ stack' = SubSeq(stack, 1, n)
          /\ shields' = discard_frames_from(shields, Frames(SubSeq(stack, 1, n)))
          /\ UNCHANGED <<thrown, outcome>>
       \/ /\ n > 0 /\ stack[n + 1].kind = "callback" /\ UNCHANGED outcome
          /\ \E r, e : /\ SubSeq(r, 1, n) = SubSeq(stack, 1, n) /\ r[n + 1] = stack[n + 1]
                       /\ e \in Errors \cup {"none"} /\ LeaveCallback(r, n, e)
  <2>1. CASE n = 0
    BY <1>1, <1>11, <2>1
  <2>2. CASE n > 0 /\ stack[n + 1].kind = "call"
    BY <1>11, <2>2
  <2>3. CASE n > 0 /\ stack[n + 1].kind # "call"
    <3>1. stack[n + 1].kind = "callback"
      BY <1>16, <2>3 DEF Activation
    <3>2. LeaveCallback(s, n, "none") /\ UNCHANGED outcome
      BY <1>11, <2>3
    <3>3. \E r, e : /\ SubSeq(r, 1, n) = SubSeq(stack, 1, n) /\ r[n + 1] = stack[n + 1]
                    /\ e \in Errors \cup {"none"} /\ LeaveCallback(r, n, e)
      BY <1>6, <3>2
    <3> QED
      BY <2>3, <3>1, <3>2, <3>3
  <2> QED
    BY <1>5, <2>1, <2>2, <2>3
<1> QED
  BY <1>1, <1>5, <1>7, <1>12, <1>13, <1>14, <1>15, <1>16, <1>17, FrameLeft

\* The way out of the blocks, whatever the exit.
LEMMA ExitSound ==
  ASSUME Structured, IInv, Running, UNCHANGED cancelled,
         NEW s, NEW m, NEW exit, Leaves(s, m, exit),
         NEW depth \in Nat, depth >= Depth(stack), Exit(s, exit, depth)
  PROVE  IInv' /\ RunsCleanup
<1>1. /\ stack \in Seq(Block) /\ Len(stack) \in Nat /\ DOMAIN stack = 1 .. Len(stack)
      /\ thrown = "none"
  BY Here DEF Running
<1>2. PICK t : t = Target(s, exit)
  OBVIOUS
<1>3. /\ s \in Seq(Block) /\ Len(s) = m /\ m \in Nat /\ m >= 1 /\ m <= Len(stack) /\ exit \in Exits
      /\ \A q \in 0 .. m : SubSeq(s, 1, q) = SubSeq(stack, 1, q)
      /\ \A i \in 1 .. m : s[i] = stack[i]
      /\ t \in Nat /\ t >= 1 /\ t <= m
      /\ Positions(s, {"try"}) = Positions(stack, {"try"})
      /\ exit # "return" => t > 1
  BY <1>2, LeavesSays
<1>4. PICK tries : tries = {i \in Positions(stack, {"try"}) : i > t}
  OBVIOUS
<1>5. PICK finals : finals = {i \in tries : s[i].fin # "none"}
  OBVIOUS
<1>6. PICK stop : stop = Max({t} \cup finals)
  OBVIOUS
<1>7. PICK hs : hs = TryEnd(Cardinality({i \in tries : i >= stop}))
  OBVIOUS
<1>8. (CASE finals # {} ->
            /\ stack' = Append(SubSeq(s, 1, stop - 1),
                          Finally(s[stop].fin, exit, depth - Depth(SubSeq(s, 1, stop - 1))))
            /\ handlers' = hs
            /\ UNCHANGED <<shields, scopes, thrown, outcome>>
       [] finals = {} /\ exit = "return" -> complete_return(s, hs)
       [] finals = {} /\ exit = "break" ->
            /\ stack' = SubSeq(s, 1, t - 1) /\ handlers' = hs
            /\ UNCHANGED <<shields, scopes, thrown, outcome>>
       [] finals = {} /\ exit = "continue" ->
            /\ stack' = SubSeq(s, 1, t) /\ handlers' = hs
            /\ thrown' = IF StopsHere(shields) THEN "cancel" ELSE "none"
            /\ UNCHANGED <<shields, scopes, outcome>>)
  BY <1>2, <1>3, <1>4, <1>5, <1>6, <1>7 DEF Exit
<1>9. tries \subseteq 1 .. m
  BY <1>3, <1>4 DEF Positions
<1>10. \A i \in tries : i \in finals <=> stack[i].fin # "none"
  BY <1>3, <1>5, <1>9
<1>11. CASE finals # {}
  <2>1. stop \in finals /\ \A i \in finals : i <= stop
    <3>1. {t} \cup finals \in SUBSET (0 .. m)
      <4>1. t \in 0 .. m /\ 1 .. m \subseteq 0 .. m
        BY <1>3
      <4>2. finals \subseteq 1 .. m
        BY <1>5, <1>9
      <4> QED
        BY <4>1, <4>2
    <3>2. stop \in {t} \cup finals /\ \A i \in {t} \cup finals : i <= stop
      BY <1>3, <1>6, <3>1, MaxSound
    <3>3. PICK i \in finals : TRUE
      BY <1>11
    <3>4. i > t /\ i <= stop /\ i \in Nat /\ stop \in Nat
      BY <1>3, <1>4, <1>5, <1>9, <3>1, <3>2, <3>3
    <3> QED
      BY <1>3, <3>2, <3>4
  <2>2. /\ stop \in DOMAIN stack /\ stop > t /\ stop \in 1 .. m
        /\ stack[stop].kind = "try" /\ stack[stop].fin # "none"
    <3>1. stop \in tries
      BY <1>5, <2>1
    <3>2. stop \in Positions(stack, {"try"}) /\ stop > t
      BY <1>4, <3>1
    <3> QED
      BY <1>9, <1>10, <2>1, <3>1, <3>2 DEF Positions
  <2>3. \A i \in Positions(stack, {"try"}) : i > t /\ stack[i].fin # "none" => i <= stop
    BY <1>4, <1>10, <2>1
  <2>4. PICK n : n = stop - 1
    OBVIOUS
  <2>5. n \in 0 .. m /\ n \in 0 .. Len(stack) /\ n + 1 = stop
    BY <1>1, <1>3, <2>2, <2>4
  <2>6. PICK held : held = depth - Depth(SubSeq(stack, 1, n))
    OBVIOUS
  <2>7. held \in Nat
    <3>1. Len(stack) \in 0 .. Len(stack)
      BY <1>1
    <3>2. PICK q \in 0 .. Len(stack) : q = Len(stack)
      BY <3>1
    <3>3. n <= q
      BY <1>1, <2>5, <3>2
    <3>4. /\ Depth(SubSeq(stack, 1, n)) \in Nat /\ Depth(SubSeq(stack, 1, q)) \in Nat
          /\ Depth(SubSeq(stack, 1, n)) <= Depth(SubSeq(stack, 1, q))
      BY <1>1, <2>5, <3>3, DepthSound
    <3>5. Depth(SubSeq(stack, 1, q)) = Depth(stack)
      <4>1. SubSeq(stack, 1, q) = stack
        BY <1>1, <3>2
      <4> QED
        BY <4>1
    <3> QED
      BY <2>6, <3>4, <3>5
  <2>8. /\ stack' = Append(SubSeq(stack, 1, stop - 1), Finally(stack[stop].fin, exit, held))
        /\ UNCHANGED <<shields, scopes, thrown, outcome>>
    <3>1. SubSeq(s, 1, n) = SubSeq(stack, 1, n) /\ s[stop] = stack[stop]
      BY <1>3, <2>2, <2>5
    <3> QED
      BY <1>8, <1>11, <2>4, <2>6, <3>1
  <2>9. handlers' = TryEnd(Cardinality({i \in Positions(stack, {"try"}) : i >= stop}))
    <3>1. \A i \in Positions(stack, {"try"}) : i >= stop => i \in tries
      <4>1. ASSUME NEW i \in Positions(stack, {"try"}), i >= stop
            PROVE  i > t
        <5>1. i \in Nat
          BY <1>1, <4>1 DEF Positions
        <5> QED
          BY <1>3, <2>2, <4>1, <5>1
      <4> QED
        BY <1>4, <4>1
    <3>2. {i \in tries : i >= stop} = {i \in Positions(stack, {"try"}) : i >= stop}
      BY <1>4, <3>1
    <3>3. handlers' = hs
      BY <1>8, <1>11
    <3> QED
      BY <1>7, <3>2, <3>3
  <2> QED
    BY <1>2, <2>2, <2>3, <2>7, <2>8, <2>9, ExitDelayed
<1>12. CASE finals = {}
  <2>1. \A i \in Positions(stack, {"try"}) : i > t => stack[i].fin = "none"
    BY <1>4, <1>10, <1>12
  <2>2. stop = t
    <3>1. {t} \in SUBSET Nat /\ {t} \cup finals = {t}
      BY <1>3, <1>12
    <3>2. Max({t}) = t
      <4>1. \A S \in SUBSET Nat : \A x \in S : (\A y \in S : y <= x) => Max(S) = x
        BY MaxUnique
      <4>2. \A y \in {t} : y <= t
        BY <1>3
      <4> QED
        BY <3>1, <4>1, <4>2
    <3> QED
      BY <1>6, <3>1, <3>2
  <2>3. {i \in tries : i >= stop} = {i \in Positions(stack, {"try"}) : i > t}
    <3>1. \A i \in tries : i >= t
      BY <1>3, <1>4, <1>9
    <3> QED
      BY <1>4, <2>2, <3>1
  <2>4. hs = TryEnd(Cardinality({i \in Positions(stack, {"try"}) : i > t}))
    BY <1>7, <2>3
  <2>5. CASE exit = "return"
    <3>1. complete_return(s, hs)
      BY <1>8, <1>12, <2>5
    <3> QED
      BY <1>2, <2>1, <2>4, <2>5, <3>1, ExitReturn
  <2>6. CASE exit = "break"
    <3>1. PICK n : n = t - 1
      OBVIOUS
    <3>2. stack' = SubSeq(s, 1, n) /\ handlers' = hs /\ UNCHANGED <<shields, scopes, thrown, outcome>>
      BY <1>8, <1>12, <2>6, <3>1
    <3>3. n \in 0 .. m
      BY <1>3, <3>1
    <3>4. stack' = SubSeq(stack, 1, n)
      BY <1>3, <3>2, <3>3
    <3>5. thrown' \in Errors \cup {"none"} /\ exit # "return" /\ n \in {t - 1, t}
      BY <1>1, <2>6, <3>1, <3>2
    <3> QED
      BY <1>2, <2>1, <2>4, <3>2, <3>4, <3>5, ExitLoop
  <2>7. CASE exit = "continue"
    <3>1. /\ stack' = SubSeq(s, 1, t) /\ handlers' = hs /\ UNCHANGED <<shields, scopes, outcome>>
          /\ thrown' \in {"cancel", "none"}
      BY <1>8, <1>12, <2>7
    <3>2. t \in 0 .. m
      BY <1>3
    <3>3. stack' = SubSeq(stack, 1, t)
      BY <1>3, <3>1, <3>2
    <3>4. thrown' \in Errors \cup {"none"} /\ exit # "return" /\ t \in {t - 1, t}
      BY <2>7, <3>1 DEF Errors
    <3> QED
      BY <1>2, <2>1, <2>4, <3>1, <3>3, <3>4, ExitLoop
  <2> QED
    BY <1>3, <2>5, <2>6, <2>7 DEF Exits
<1> QED
  BY <1>11, <1>12

\* What a program may leave, the compiler can.
LEMMA MayLeaveSays ==
  ASSUME Structured, IInv, Running, NEW exit \in Exits, MayLeave(exit)
  PROVE  Leaves(stack, Len(stack), exit) /\ Depth(stack) \in Nat
<1>1. /\ stack \in Seq(Block) /\ Len(stack) \in Nat /\ DOMAIN stack = 1 .. Len(stack)
      /\ Len(stack) >= 1
  BY Here DEF Running
<1>2. PICK m : m = Len(stack)
  OBVIOUS
<1>3. stack = SubSeq(stack, 1, m)
  BY <1>1, <1>2
<1>4. LeftBy(exit, stack)
  <2>1. ~ScopeExits /\ ~FinallyExits
    BY DEF Structured
  <2> QED
    BY <2>1 DEF MayLeave, LeftBy
<1>5. m \in 1 .. Len(stack) /\ m + 1 .. Len(stack) = {}
  BY <1>1, <1>2
<1>6. Leaves(stack, m, exit)
  BY <1>3, <1>4, <1>5 DEF Leaves
<1>7. Len(stack) + 1 \in 1 .. Len(stack) + 1
  BY <1>1
<1>8. DepthOf(Len(stack) + 1) = Depth(stack)
  BY <1>1, Innermost
<1>9. Depth(stack) \in Nat
  BY <1>1, <1>7, <1>8, Nesting
<1> QED
  BY <1>2, <1>6, <1>9

LEMMA CompileExitStep ==
  ASSUME Structured, IInv, Running, UNCHANGED cancelled,
         NEW exit \in Exits, compile_exit(exit)
  PROVE  IInv' /\ RunsCleanup
<1>1. Leaves(stack, Len(stack), exit) /\ Depth(stack) \in Nat
  BY MayLeaveSays DEF compile_exit
<1>2. PICK depth : depth = Depth(stack) + IF exit = "return" THEN 1 ELSE 0
  OBVIOUS
<1>3. depth \in Nat /\ depth >= Depth(stack)
  BY <1>1, <1>2
<1>4. Exit(stack, exit, depth)
  BY <1>2 DEF compile_exit
<1> QED
  BY <1>1, <1>3, <1>4, ExitSound

LEMMA ResumeExitStep ==
  ASSUME Structured, IInv, Running, UNCHANGED cancelled, resume_exit
  PROVE  IInv' /\ RunsCleanup
<1>1. /\ stack \in Seq(Block) /\ Len(stack) \in Nat /\ DOMAIN stack = 1 .. Len(stack)
      /\ ExitsOK /\ outcome = "running"
  BY Here DEF Running
<1>2. PICK m : m = Len(stack) - 1
  OBVIOUS
<1>3. /\ m \in 0 .. Len(stack) /\ m + 1 = Len(stack) /\ m + 1 \in DOMAIN stack
      /\ Front(stack) = SubSeq(stack, 1, m) /\ Top = stack[m + 1] /\ Top \in Block
      /\ Top.kind # "callback" => m >= 1
      /\ \A i \in m + 1 .. Len(stack) : i = m + 1
  BY <1>1, <1>2, TopSays
<1>4. Top.kind = "finally" /\ Top.exit # "none" /\ Exit(Front(stack), Top.exit, Depth(stack))
  BY DEF resume_exit
<1>5. PICK s : s = SubSeq(stack, 1, m)
  OBVIOUS
<1>6. PICK exit : exit = Top.exit
  OBVIOUS
<1>7. exit \in Exits
  BY <1>3, <1>4, <1>6, BlockFields DEF Exits
<1>8. LeftBy(exit, s)
  <2>1. PICK p \in DOMAIN stack : p = m + 1
    BY <1>3
  <2>2. p \in Positions(stack, {"finally"}) /\ stack[p].exit = exit /\ exit # "none"
    BY <1>3, <1>4, <1>6, <2>1 DEF Positions
  <2>3. LeftBy(exit, Before(p))
    BY <1>1, <2>2 DEF ExitsOK
  <2>4. p - 1 = m
    BY <1>3, <2>1
  <2> QED
    BY <1>5, <2>3, <2>4 DEF Before
<1>9. Leaves(s, m, exit)
  <2>1. m \in 1 .. Len(stack)
    BY <1>1, <1>3, <1>4
  <2> QED
    BY <1>3, <1>4, <1>5, <1>6, <1>7, <1>8, <2>1 DEF Leaves
<1>10. Depth(stack) \in Nat
  <2>1. Len(stack) + 1 \in 1 .. Len(stack) + 1
    BY <1>1
  <2>2. DepthOf(Len(stack) + 1) = Depth(stack)
    BY <1>1, Innermost
  <2> QED
    BY <1>1, <2>1, <2>2, Nesting
<1>11. PICK depth \in Nat : depth = Depth(stack)
  BY <1>10
<1>12. Exit(s, exit, depth)
  BY <1>3, <1>4, <1>5, <1>6, <1>11
<1>13. depth >= Depth(stack)
  BY <1>10, <1>11
<1> QED
  BY <1>9, <1>12, <1>13, ExitSound

LEMMA TailCallStep ==
  ASSUME Structured, IInv, Running, UNCHANGED cancelled, handle_tail_call
  PROVE  IInv' /\ RunsCleanup
<1>1. /\ stack \in Seq(Block) /\ handlers \in Seq(HandlerRecord) /\ shields \in Seq(Shield)
      /\ HandlersMatch /\ ShieldsOK /\ scopes = Scopes(stack) /\ scopes \in Nat
      /\ Len(stack) \in Nat /\ DOMAIN stack = 1 .. Len(stack) /\ Len(stack) <= MaxBlocks + 1
      /\ MaxBlocks \in Nat /\ thrown \in Errors \cup {"none"} /\ outcome = "running"
  BY Here DEF Running
<1>2. PICK t : t = Frame(stack)
  OBVIOUS
<1>3. t = Target(stack, "return")
  BY <1>2 DEF Target
<1>4. /\ t \in Nat /\ t >= 1 /\ t <= Len(stack) /\ t \in DOMAIN stack /\ stack[t].kind \in Activation
      /\ \A i \in t + 1 .. Len(stack) : /\ stack[i].kind \notin Activation
                                        /\ stack[i].kind # "callback" /\ stack[i].kind # "scope"
  <2>1. Leaves(stack, Len(stack), "return")
    BY MayLeaveSays DEF handle_tail_call, Exits
  <2> QED
    BY <1>3, <2>1, LeavesSays
<1>5. \A i \in Positions(stack, {"try"}) : i < t
  BY <1>2 DEF handle_tail_call
<1>6. CASE StopsHere(shields)
  <2>1. thrown' = "cancel" /\ UNCHANGED <<stack, handlers, shields, scopes, outcome>>
    BY <1>6 DEF handle_tail_call, check_cancellation
  <2>2. thrown' \in Errors \cup {"none"}
    BY <2>1 DEF Errors
  <2> QED
    BY <2>1, <2>2, CancelledHere
<1>7. CASE ~StopsHere(shields)
  <2>1. /\ stack' = SubSeq(stack, 1, t)
        /\ handlers' = discard_frames_from(handlers, Frames(stack) - 1)
        /\ shields' = discard_frames_from(shields, Frames(stack) - 1)
        /\ UNCHANGED <<scopes, thrown, outcome>>
    BY <1>2, <1>7 DEF handle_tail_call, check_cancellation
  <2>2. PICK n : n = t - 1
    OBVIOUS
  <2>3. /\ n \in Nat /\ n + 1 = t /\ n < Len(stack) /\ t \in 0 .. Len(stack) /\ t - 1 = n
    BY <1>1, <1>4, <2>2
  <2>4. Frames(stack) - 1 = Frames(SubSeq(stack, 1, n))
    <3>1. FrameOf(t) \in Int /\ FrameOf(t + 1) = FrameOf(t) + 1
      BY <1>1, <1>4, OneBlock
    <3>2. FrameOf(Len(stack) + 1) = Frames(stack) - 1
      BY <1>1, Innermost
    <3>3. FrameOf(t + 1) = FrameOf(Len(stack) + 1)
      <4>1. PICK p \in 1 .. Len(stack) + 1 : p = t + 1
        BY <1>1, <1>4
      <4>2. PICK q \in 1 .. Len(stack) + 1 : q = Len(stack) + 1
        BY <1>1
      <4>3. p <= q /\ \A b \in p .. q - 1 : b \in t + 1 .. Len(stack)
        BY <1>1, <1>4, <4>1, <4>2
      <4>4. FrameOf(p) = FrameOf(q)
        BY <1>1, <1>4, <4>3, Nesting
      <4> QED
        BY <4>1, <4>2, <4>4
    <3>4. Frames(SubSeq(stack, 1, n)) = FrameOf(n + 1) + 1
      BY <1>1, <1>4, <2>3, FramesAbove
    <3>5. FrameOf(n + 1) = FrameOf(t)
      BY <2>3
    <3> QED
      BY <3>1, <3>2, <3>3, <3>4, <3>5
  <2>5. Keeps(t) /\ ~Adds(t)
    BY <1>1, <2>1, <2>3, KeepsCut
  <2>6. HandlersMatch' /\ handlers' \in Seq(HandlerRecord)
    <3>1. PICK k : k = Len(handlers)
      OBVIOUS
    <3>2. k \in 0 .. Len(handlers) /\ k \in k .. Len(handlers) /\ SubSeq(handlers, 1, k) = handlers
      BY <1>1, <3>1
    <3>3. CutAt(k, n)
      <4>1. ASSUME NEW j \in DOMAIN handlers
            PROVE  j <= k /\ handlers[j].at <= n
        <5>1. handlers[j].at \in Positions(stack, {"try"})
          BY <1>1 DEF HandlersMatch
        <5>2. handlers[j].at < t /\ handlers[j].at \in Nat
          BY <1>1, <1>5, <5>1 DEF Positions
        <5>3. j \in 1 .. Len(handlers)
          BY <1>1
        <5> QED
          BY <1>1, <2>3, <3>1, <5>2, <5>3
      <4> QED
        BY <3>2, <4>1 DEF CutAt
    <3>4. stack[n + 1].kind \in Activation
      BY <1>4, <2>3
    <3>5. discard_frames_from(SubSeq(handlers, 1, k), Frames(SubSeq(stack, 1, n))) = SubSeq(handlers, 1, k)
      BY <1>1, <2>3, <3>2, <3>3, <3>4, DiscardHandlers
    <3>6. handlers' = handlers
      BY <2>1, <2>4, <3>2, <3>5
    <3>7. \A i \in t + 1 .. Len(stack) : stack[i].kind # "try"
      <4>1. \A i \in t + 1 .. Len(stack) : i \in DOMAIN stack /\ ~(i < t)
        BY <1>1, <1>4
      <4> QED
        BY <1>5, <4>1 DEF Positions
    <3> QED
      BY <1>1, <2>5, <3>6, <3>7, HandlersStay
  <2>7. ShieldsOK' /\ shields' \in Seq(Shield)
    <3>1. shields' = discard_frames_from(shields, Frames(SubSeq(stack, 1, t - 1)))
      BY <2>1, <2>3, <2>4
    <3> QED
      BY <1>1, <1>4, <2>5, <3>1, ShieldsFrame
  <2>8. scopes' = Scopes(stack') /\ scopes' \in Nat
    <3>1. Scopes(stack') = ScopesOf(t + 1) /\ ScopesOf(t + 1) = Scopes(stack)
      BY <1>1, <1>4, <2>5, ScopesKept
    <3> QED
      BY <1>1, <2>1, <3>1
  <2>9. IInv'
    <3>1. ScopesOK'
      BY <2>8 DEF ScopesOK
    <3>2. Len(stack') <= MaxBlocks + 1
      BY <1>1, <1>4, <2>5 DEF Keeps, Adds
    <3> QED
      BY <1>1, <1>4, <2>1, <2>5, <2>6, <2>7, <2>8, <3>1, <3>2, StepSound
  <2>10. RunsCleanup
    <3>1. ASSUME NEW i \in t + 1 .. Len(stack)
          PROVE  stack[i].kind # "try" /\ stack[i].kind # "callback"
      <4>1. i \in DOMAIN stack /\ ~(i < t)
        BY <1>1, <1>4
      <4> QED
        BY <1>4, <1>5, <4>1 DEF Positions
    <3> QED
      BY <1>1, <2>5, <3>1, CleanupSound
  <2> QED
    BY <2>9, <2>10
<1> QED
  BY <1>6, <1>7

(***************************************************************************)
(* Exceptions                                                              *)
(***************************************************************************)
\* An exception unwinds the innermost activation of run(): the handlers it may
\* resume at are those inside it, every handler is valid, and it passes by no
\* finally without a reason.
LEMMA UnwindSays ==
  ASSUME Structured, IInv, thrown # "none", NEW R, R = RunBase
  PROVE  /\ R \in DOMAIN stack /\ stack[R].kind = "callback"
         /\ \A i \in R + 1 .. Len(stack) : stack[i].kind # "callback"
         /\ ScopesOf(R) \in Nat /\ ScopesOf(R) <= scopes
         /\ \A j \in DOMAIN handlers : is_valid_handler(handlers[j]) /\ handlers[j].scopes <= scopes
         /\ \A j \in Usable : j \in DOMAIN handlers /\ handlers[j].at > R
         /\ \A j \in DOMAIN handlers :
              handlers[j].at > R /\ handlers[j].fin # "none" => thrown = "exit" \/ j \in Usable
<1>1. /\ stack \in Seq(Block) /\ handlers \in Seq(HandlerRecord) /\ HandlersMatch
      /\ Len(stack) \in Nat /\ DOMAIN stack = 1 .. Len(stack)
      /\ thrown \in Errors /\ Len(stack) >= 1 /\ stack[1].kind = "callback" /\ scopes \in Nat
  BY Here
<1>2. /\ R \in DOMAIN stack /\ stack[R].kind = "callback"
      /\ \A i \in R + 1 .. Len(stack) : stack[i].kind # "callback"
  <2>1. 1 \in DOMAIN stack /\ stack[1].kind \in {"callback"}
    BY <1>1
  <2>2. /\ R \in DOMAIN stack /\ stack[R].kind \in {"callback"}
        /\ \A i \in R + 1 .. Len(stack) : stack[i].kind \notin {"callback"}
    BY <1>1, <2>1, LastOfKinds DEF RunBase
  <2> QED
    BY <2>2
<1>3. PICK q \in 1 .. Len(stack) + 1 : q = Len(stack) + 1
  BY <1>1
<1>4. FrameOf(q) = Frames(stack) - 1 /\ DepthOf(q) = Depth(stack) /\ ScopesOf(q) = Scopes(stack)
  BY <1>1, <1>3, Innermost
<1>5. ASSUME NEW p \in DOMAIN stack
      PROVE  /\ FrameOf(p) \in Int /\ DepthOf(p) \in Nat /\ ScopesOf(p) \in Nat
             /\ FrameOf(p) <= FrameOf(q) /\ DepthOf(p) <= DepthOf(q) /\ ScopesOf(p) <= ScopesOf(q)
             /\ FrameOf(q) \in Int /\ DepthOf(q) \in Nat /\ ScopesOf(q) \in Nat
  <2>1. p \in 1 .. Len(stack) + 1 /\ p <= q
    BY <1>1, <1>3
  <2>2. q <= q
    BY <1>1, <1>3
  <2> QED
    BY <1>1, <2>1, <2>2, Nesting
<1>6. ASSUME NEW p \in DOMAIN stack, stack[p].kind # "scope"
      PROVE  ScopesOf(p) \in Nat /\ ScopesOf(p) <= scopes
  <2>1. CASE scopes = Scopes(stack)
    BY <1>4, <1>5, <2>1
  <2>2. CASE Top.kind = "scope" /\ scopes + 1 = Scopes(stack)
    <3>1. PICK l \in DOMAIN stack : l = Len(stack)
      BY <1>1
    <3>2. stack[l].kind = "scope" /\ l + 1 = q
      BY <1>1, <1>3, <2>2, <3>1, Innermost
    <3>3. p <= l /\ p < q
      BY <1>1, <1>3, <3>1
    <3>4. ScopesOf(p) <= ScopesOf(l) /\ ScopesOf(p) \in Nat
      <4>1. p \in 1 .. Len(stack) + 1 /\ l \in 1 .. Len(stack) + 1
        BY <1>1
      <4> QED
        BY <1>1, <3>3, <4>1, Nesting
    <3>5. ScopesOf(l + 1) = ScopesOf(l) + 1 /\ ScopesOf(l) \in Nat
      BY <1>1, <3>2, OneBlock
    <3> QED
      BY <1>1, <1>4, <2>2, <3>2, <3>4, <3>5
  <2> QED
    BY <2>1, <2>2 DEF IInv, ScopesOK
<1>7. ScopesOf(R) \in Nat /\ ScopesOf(R) <= scopes
  BY <1>2, <1>6
<1>8. ASSUME NEW j \in DOMAIN handlers
      PROVE  /\ handlers[j].at \in DOMAIN stack /\ stack[handlers[j].at].kind = "try"
             /\ handlers[j].fin = stack[handlers[j].at].fin
             /\ handlers[j].frame = FrameOf(handlers[j].at)
             /\ handlers[j].depth = DepthOf(handlers[j].at)
             /\ handlers[j].scopes = ScopesOf(handlers[j].at)
             /\ handlers[j].fin \in {"none", "falls"}
  BY <1>1, HandlersSay
<1>9. ASSUME NEW j \in DOMAIN handlers
      PROVE  is_valid_handler(handlers[j]) /\ handlers[j].scopes <= scopes
  <2>1. PICK p \in DOMAIN stack : p = handlers[j].at
    BY <1>8
  <2>2. /\ stack[p].kind = "try" /\ handlers[j].frame = FrameOf(p)
        /\ handlers[j].depth = DepthOf(p) /\ handlers[j].scopes = ScopesOf(p)
    BY <1>8, <2>1
  <2>3. ScopesOf(p) \in Nat /\ ScopesOf(p) <= scopes
    BY <1>6, <2>2
  <2>4. /\ FrameOf(p) \in Int /\ FrameOf(p) <= FrameOf(q) /\ DepthOf(p) <= DepthOf(q)
        /\ FrameOf(q) \in Int
    BY <1>5
  <2>5. Frames(stack) = FrameOf(q) + 1
    <3>1. Frames(stack) \in Nat
      <4>1. IsFiniteSet(Positions(SubSeq(stack, 1, Len(stack)), Activation))
        <5>1. Len(stack) \in 0 .. Len(stack)
          BY <1>1
        <5> QED
          BY <1>1, <5>1, PrefixPositions
      <4>2. SubSeq(stack, 1, Len(stack)) = stack
        <5>1. Before(Len(stack) + 1) = stack /\ Len(stack) + 1 - 1 = Len(stack)
          BY <1>1, Innermost
        <5> QED
          BY <5>1 DEF Before
      <4> QED
        BY <4>1, <4>2, FS_CardinalityType DEF Frames
    <3> QED
      BY <1>4, <3>1
  <2> QED
    BY <1>4, <2>2, <2>3, <2>4, <2>5 DEF is_valid_handler
<1>10. ASSUME NEW j \in DOMAIN handlers
       PROVE  j \in has_handler_for <=> handlers[j].at > R
  <2>1. PICK p \in DOMAIN stack : p = handlers[j].at
    BY <1>8
  <2>2. stack[p].kind = "try" /\ handlers[j].frame = FrameOf(p)
    BY <1>8, <2>1
  <2>3. PICK r \in 1 .. Len(stack) + 1 : r = R + 1
    BY <1>1, <1>2
  <2>4. Frames(SubSeq(stack, 1, R)) - 1 = FrameOf(r)
    <3>1. r - 1 = R
      BY <1>1, <1>2, <2>3
    <3> QED
      BY <3>1 DEF FrameOf, Before
  <2>5. j \in has_handler_for <=> FrameOf(p) >= FrameOf(r)
    BY <1>2, <2>2, <2>4 DEF has_handler_for
  <2>6. p \in 1 .. Len(stack) + 1 /\ p \in Nat /\ R \in Nat /\ r \in Nat /\ p # R
    BY <1>1, <1>2, <2>2, <2>3
  <2>7. CASE p > R
    <3>1. r <= p
      BY <2>3, <2>6, <2>7
    <3>2. FrameOf(r) <= FrameOf(p) /\ FrameOf(r) \in Int
      BY <1>1, <2>6, <3>1, Nesting
    <3> QED
      BY <1>5, <2>1, <2>5, <2>7, <3>2
  <2>8. CASE p < R
    <3>1. p <= r /\ R \in p .. r - 1 /\ stack[R].kind \in Activation
      BY <1>2, <2>3, <2>6, <2>8 DEF Activation
    <3>2. FrameOf(p) < FrameOf(r)
      BY <1>1, <2>6, <3>1, Nesting
    <3>3. FrameOf(r) \in Int
      <4>1. r <= r
        BY <2>6
      <4> QED
        BY <1>1, <4>1, Nesting
    <3> QED
      BY <1>5, <2>1, <2>5, <2>6, <2>8, <3>2, <3>3
  <2> QED
    BY <2>6, <2>7, <2>8
<1>11. ASSUME NEW j \in Usable
       PROVE  j \in DOMAIN handlers /\ handlers[j].at > R
  <2>1. j \in has_handler_for
    BY DEF Usable
  <2>2. j \in DOMAIN handlers
    BY <2>1 DEF has_handler_for
  <2> QED
    BY <1>10, <2>1, <2>2
<1>12. ASSUME NEW j \in DOMAIN handlers, handlers[j].at > R, handlers[j].fin # "none"
       PROVE  thrown = "exit" \/ j \in Usable
  <2>1. j \in has_handler_for
    BY <1>10, <1>12
  <2>2. is_cleanup(handlers[j])
    BY <1>8, <1>12 DEF is_cleanup
  <2>3. CASE thrown = "error"
    BY <2>1, <2>3 DEF Usable
  <2>4. CASE thrown = "cancel"
    BY <2>1, <2>2, <2>4 DEF Usable
  <2> QED
    BY <1>1, <2>3, <2>4 DEF Errors
<1> QED
  BY <1>2, <1>7, <1>9, <1>11, <1>12

\* The handler an exception resumes at is the innermost usable one, if any.
LEMMA HandlerSays ==
  ASSUME Structured, IInv, thrown # "none"
  PROVE  /\ Caught => Handler \in Usable /\ \A j \in Usable : j <= Handler
         /\ ~Caught => Usable = {}
<1>1. PICK R : R = RunBase
  OBVIOUS
<1>2. /\ \A j \in DOMAIN handlers : is_valid_handler(handlers[j])
      /\ \A j \in Usable : j \in DOMAIN handlers
  BY <1>1, UnwindSays
<1>3. Len(handlers) \in Nat /\ DOMAIN handlers = 1 .. Len(handlers)
  BY Here
<1>4. PICK U : U = {0} \cup Usable
  OBVIOUS
<1>5. U \in SUBSET (0 .. Len(handlers)) /\ U # {}
  <2>1. 0 \in 0 .. Len(handlers) /\ \A j \in DOMAIN handlers : j \in 0 .. Len(handlers)
    BY <1>3
  <2> QED
    BY <1>2, <1>4, <2>1
<1>6. Max(U) \in U /\ \A j \in U : j <= Max(U)
  BY <1>3, <1>5, MaxSound
<1>7. Handler = Max(U)
  BY <1>4 DEF Handler
<1>8. ASSUME Caught
      PROVE  Handler \in Usable /\ \A j \in Usable : j <= Handler
  <2>1. Handler # 0
    BY <1>8 DEF Caught
  <2> QED
    BY <1>4, <1>6, <1>7, <2>1
<1>9. ASSUME ~Caught, NEW j \in Usable
      PROVE  FALSE
  <2>1. j \in 1 .. Len(handlers) /\ j <= Handler
    BY <1>2, <1>3, <1>4, <1>6, <1>7
  <2>2. Handler \in 0 .. Len(handlers)
    BY <1>5, <1>6, <1>7
  <2>3. Handler # 0
    BY <1>3, <2>1, <2>2
  <2>4. Handler \in DOMAIN handlers
    BY <1>3, <2>2, <2>3
  <2>5. Caught
    BY <1>2, <2>3, <2>4 DEF Caught
  <2> QED
    BY <1>9, <2>5
<1> QED
  BY <1>8, <1>9

LEMMA HandleExceptionStep ==
  ASSUME Structured, IInv, thrown # "none", UNCHANGED cancelled, handle_exception
  PROVE  IInv' /\ RunsCleanup
<1>1. /\ stack \in Seq(Block) /\ handlers \in Seq(HandlerRecord) /\ shields \in Seq(Shield)
      /\ HandlersMatch /\ ShieldsOK /\ scopes \in Nat /\ outcome = "running"
      /\ Len(stack) \in Nat /\ DOMAIN stack = 1 .. Len(stack) /\ Len(stack) <= MaxBlocks + 1
      /\ MaxBlocks \in Nat /\ thrown \in Errors /\ cancelled \in BOOLEAN
  BY Here
<1>2. PICK R : R = RunBase
  OBVIOUS
<1>3. /\ R \in DOMAIN stack
      /\ \A i \in R + 1 .. Len(stack) : stack[i].kind # "callback"
      /\ \A j \in DOMAIN handlers : handlers[j].scopes <= scopes
      /\ \A j \in Usable : j \in DOMAIN handlers /\ handlers[j].at > R
      /\ \A j \in DOMAIN handlers :
           handlers[j].at > R /\ handlers[j].fin # "none" => thrown = "exit" \/ j \in Usable
  BY <1>2, UnwindSays
<1>4. PICK j : j = Handler
  OBVIOUS
<1>5. j \in Usable /\ (\A l \in Usable : l <= j) /\ j \in DOMAIN handlers /\ handlers[j].at > R
  BY <1>3, <1>4, HandlerSays DEF handle_exception
<1>6. PICK p \in DOMAIN stack : p = handlers[j].at
  BY <1>1, <1>5, HandlersSay
<1>7. /\ stack[p].kind = "try" /\ handlers[j].fin = stack[p].fin /\ handlers[j].fin \in {"none", "falls"}
      /\ handlers[j].frame = FrameOf(p) /\ handlers[j].depth = DepthOf(p)
      /\ handlers[j].scopes = ScopesOf(p)
  BY <1>1, <1>5, <1>6, HandlersSay
<1>8. PICK shielded \in BOOLEAN : shielded = (cancelled /\ handlers[j].fin = "falls")
  BY <1>1
<1>9. PICK b : b = IF handlers[j].fin = "none" THEN Catch ELSE Cleanup("falls", thrown, shielded)
  OBVIOUS
<1>10. /\ b \in Block
       /\ handlers[j].fin = "none" => b.kind = "catch"
       /\ handlers[j].fin # "none" => b.kind = "cleanup" /\ b.shielded = shielded
  <2>1. Catch \in Block /\ Catch.kind = "catch"
    BY NewBlocks
  <2>2. LET c == Cleanup("falls", thrown, shielded)
        IN c \in Block /\ c.kind = "cleanup" /\ c.shielded = shielded
    BY <1>1, NewBlocks
  <2> QED
    BY <1>9, <2>1, <2>2
<1>11. PICK n : n = p - 1
  OBVIOUS
<1>12. /\ n \in Nat /\ n >= 1 /\ n + 1 = p /\ n \in 0 .. Len(stack) /\ n + 1 <= Len(stack)
       /\ \A i \in n + 1 .. Len(stack) : i \in R + 1 .. Len(stack) /\ i \in DOMAIN stack /\ i >= p
  <2>1. p > R /\ p \in Nat /\ R \in Nat /\ R >= 1 /\ p <= Len(stack)
    BY <1>1, <1>3, <1>5, <1>6
  <2>2. /\ n \in Nat /\ n >= 1 /\ n + 1 = p /\ n \in 0 .. Len(stack) /\ n + 1 <= Len(stack)
    BY <1>1, <1>11, <2>1
  <2>3. ASSUME NEW i \in n + 1 .. Len(stack)
        PROVE  i \in R + 1 .. Len(stack) /\ i \in DOMAIN stack /\ i >= p
    BY <1>1, <2>1, <2>2
  <2> QED
    BY <2>2, <2>3
<1>13. PICK kept : kept = end_cancel_shields_from(FrameOf(p), DepthOf(p))
  OBVIOUS
<1>14. /\ handlers' = SubSeq(handlers, 1, j - 1)
       /\ scopes' = Min({ScopesOf(p), scopes})
       /\ stack' = Append(SubSeq(stack, 1, n), b)
       /\ shields' = IF shielded THEN Append(kept, [frame |-> FrameOf(p), depth |-> DepthOf(p)]) ELSE kept
       /\ thrown' = "none" /\ outcome' = outcome
  BY <1>4, <1>6, <1>7, <1>8, <1>9, <1>11, <1>13
     DEF handle_exception, is_cleanup, unwind_task_scopes_to
<1>15. Keeps(n) /\ Adds(n) /\ stack'[n + 1] = b
  BY <1>1, <1>10, <1>12, <1>14, KeepsPut
<1>16. HandlersMatch' /\ handlers' \in Seq(HandlerRecord)
  <2>1. Len(handlers) \in Nat /\ DOMAIN handlers = 1 .. Len(handlers)
    BY <1>1
  <2>2. PICK k : k = j - 1
    OBVIOUS
  <2>3. k \in 0 .. Len(handlers)
    BY <1>5, <2>1, <2>2
  <2>4. ASSUME NEW l \in DOMAIN handlers
        PROVE  l <= k <=> handlers[l].at <= n
    <3>1. handlers[l].at \in Nat /\ handlers[j].at \in Nat
      BY <1>1, <1>5, HandlersSay
    <3>2. l < j => handlers[l].at < handlers[j].at
      BY <1>1, <1>5, HandlersSay
    <3>3. j < l => handlers[j].at < handlers[l].at
      BY <1>1, <1>5, HandlersSay
    <3>4. l \in Nat /\ j \in Nat
      BY <1>5, <2>1
    <3>5. CASE l < j
      <4>1. handlers[l].at < p
        BY <1>6, <3>2, <3>5
      <4> QED
        BY <1>6, <1>12, <2>2, <3>1, <3>4, <3>5, <4>1
    <3>6. CASE l = j
      <4>1. ~(l <= k) /\ ~(handlers[l].at <= n)
        BY <1>6, <1>12, <2>2, <3>1, <3>4, <3>6
      <4> QED
        BY <4>1
    <3>7. CASE l > j
      <4>1. p < handlers[l].at
        BY <1>6, <3>3, <3>7
      <4> QED
        BY <1>6, <1>12, <2>2, <3>1, <3>4, <3>7, <4>1
    <3> QED
      BY <3>4, <3>5, <3>6, <3>7
  <2>5. CutAt(k, n)
    BY <2>3, <2>4 DEF CutAt
  <2>6. handlers' = SubSeq(handlers, 1, k) /\ stack'[n + 1].kind # "try"
    BY <1>7, <1>10, <1>14, <1>15, <2>2
  <2> QED
    BY <1>1, <1>15, <2>5, <2>6, HandlersCut
<1>17. ShieldsOK' /\ shields' \in Seq(Shield)
  <2>1. n = p - 1 /\ stack'[p] = b
    BY <1>11, <1>12, <1>15
  <2>2. CASE shielded
    <3>1. b.kind = "cleanup" /\ b.shielded
      BY <1>7, <1>8, <1>10, <2>2
    <3>2. PICK x : x = [frame |-> FrameOf(p), depth |-> DepthOf(p)]
      OBVIOUS
    <3>3. shields' = Append(end_cancel_shields_from(FrameOf(p), DepthOf(p)), x)
      BY <1>13, <1>14, <2>2, <3>2
    <3>4. stack'[p].kind = "cleanup" /\ stack'[p].shielded
      BY <2>1, <3>1
    <3> QED
      BY <1>1, <1>15, <2>1, <3>2, <3>3, <3>4, ShieldsPush
  <2>3. CASE ~shielded
    <3>1. stack'[n + 1].kind = "cleanup" => ~stack'[n + 1].shielded
      BY <1>7, <1>10, <1>15, <2>3
    <3>2. shields' = end_cancel_shields_from(FrameOf(p), DepthOf(p))
      BY <1>13, <1>14, <2>3
    <3> QED
      BY <1>1, <1>15, <2>1, <3>1, <3>2, ShieldsFrom
  <2> QED
    BY <2>2, <2>3
<1>18. scopes' = Scopes(stack') /\ scopes' \in Nat
  <2>1. ScopesOf(p) \in Nat
    BY <1>1, OneBlock
  <2>2. ScopesOf(p) <= scopes
    BY <1>3, <1>5, <1>7
  <2>3. scopes' = ScopesOf(p)
    BY <1>1, <1>14, <2>1, <2>2, MinOfTwo
  <2>4. stack'[n + 1].kind # "scope"
    BY <1>7, <1>10, <1>15
  <2>5. Scopes(stack') = ScopesOf(n + 1)
    BY <1>1, <1>15, <2>4, ScopesKept
  <2> QED
    BY <1>12, <2>1, <2>3, <2>5
<1>19. IInv'
  <2>1. ScopesOK'
    BY <1>18 DEF ScopesOK
  <2>2. Len(stack') <= MaxBlocks + 1
    BY <1>1, <1>12, <1>15 DEF Adds
  <2>3. stack'[n + 1].kind # "callback" /\ stack'[n + 1].kind # "finally"
    BY <1>7, <1>10, <1>15
  <2>4. thrown' \in Errors \cup {"none"}
    BY <1>14
  <2> QED
    BY <1>1, <1>12, <1>14, <1>15, <1>16, <1>17, <1>18, <2>1, <2>2, <2>3, <2>4, StepSound
<1>20. RunsCleanup
  <2>1. ASSUME NEW i \in n + 1 .. Len(stack), stack[i].kind = "try", stack[i].fin # "none",
               thrown # "exit"
        PROVE  i = n + 1 /\ Adds(n) /\ stack'[n + 1].kind \in {"cleanup", "finally"}
    <3>1. i \in DOMAIN stack /\ i > R /\ i >= p
      BY <1>1, <1>3, <1>12
    <3>2. PICK l \in DOMAIN handlers : handlers[l].at = i
      BY <1>1, <2>1, <3>1, HandlersSay
    <3>3. handlers[l].fin = stack[i].fin
      BY <1>1, <3>2, HandlersSay
    <3>4. l \in Usable
      BY <1>3, <2>1, <3>1, <3>2, <3>3
    <3>5. l <= j
      BY <1>5, <3>4
    <3>6. Len(handlers) \in Nat /\ DOMAIN handlers = 1 .. Len(handlers)
      BY <1>1
    <3>7. l < j => handlers[l].at < handlers[j].at
      BY <1>1, <1>5, <3>2, HandlersSay
    <3>8. l = j
      BY <1>1, <1>5, <1>6, <3>1, <3>2, <3>5, <3>6, <3>7
    <3>9. i = p
      BY <1>6, <3>2, <3>8
    <3> QED
      BY <1>7, <1>10, <1>12, <1>15, <2>1, <3>9
  <2>2. \A i \in n + 1 .. Len(stack) : stack[i].kind # "callback"
    BY <1>3, <1>12
  <2> QED
    BY <1>1, <1>15, <2>1, <2>2, CleanupSound
<1> QED
  BY <1>19, <1>20

LEMMA LeaveRunStep ==
  ASSUME Structured, IInv, thrown # "none", UNCHANGED cancelled, LeaveRun
  PROVE  IInv' /\ RunsCleanup
<1>1. /\ stack \in Seq(Block) /\ handlers \in Seq(HandlerRecord)
      /\ HandlersMatch /\ CallbacksOK /\ scopes \in Nat /\ outcome = "running"
      /\ Len(stack) \in Nat /\ DOMAIN stack = 1 .. Len(stack)
      /\ thrown \in Errors
  BY Here
<1>2. PICK R : R = RunBase
  OBVIOUS
<1>3. /\ R \in DOMAIN stack /\ stack[R].kind = "callback"
      /\ \A i \in R + 1 .. Len(stack) : stack[i].kind # "callback"
      /\ ScopesOf(R) \in Nat /\ ScopesOf(R) <= scopes
      /\ \A j \in DOMAIN handlers :
           handlers[j].at > R /\ handlers[j].fin # "none" => thrown = "exit" \/ j \in Usable
  BY <1>2, UnwindSays
<1>4. Usable = {}
  BY HandlerSays DEF LeaveRun
<1>5. PICK n : n = R - 1
  OBVIOUS
<1>6. n \in Nat /\ n + 1 = R /\ n < Len(stack) /\ n + 2 = R + 1
  BY <1>1, <1>3, <1>5
<1>7. PICK k \in 0 .. Len(handlers) : CutAt(k, n)
  BY <1>1, <1>6, CutExists
<1>8. stack[n + 1].kind = "callback" /\ stack[n + 1].kind \in Activation
  BY <1>3, <1>6 DEF Activation
<1>9. /\ scopes' = Min({stack[R].scopes, scopes})
      /\ handlers' = discard_frames_from(handlers, Frames(SubSeq(stack, 1, n)))
      /\ IF n = 0
         THEN /\ stack' = <<>> /\ shields' = <<>> /\ thrown' = "none"
              /\ outcome' \in {"failed", "cancelled"}
         ELSE LeaveCallback(stack, n, thrown) /\ UNCHANGED outcome
  BY <1>2, <1>5 DEF LeaveRun, unwind_task_scopes_to
<1>10. scopes' = ScopesOf(n + 1)
  <2>1. stack[R].scopes = ScopesOf(R)
    <3>1. R \in Positions(stack, {"callback"})
      BY <1>3 DEF Positions
    <3> QED
      BY <1>1, <3>1 DEF CallbacksOK
  <2>2. Min({ScopesOf(R), scopes}) = ScopesOf(R)
    BY <1>1, <1>3, MinOfTwo
  <2> QED
    BY <1>6, <1>9, <2>1, <2>2
<1>11. handlers' = SubSeq(handlers, 1, k)
  <2>1. PICK m : m = Len(handlers)
    OBVIOUS
  <2>2. m \in k .. Len(handlers) /\ SubSeq(handlers, 1, m) = handlers
    BY <1>1, <2>1
  <2>3. discard_frames_from(SubSeq(handlers, 1, m), Frames(SubSeq(stack, 1, n))) = SubSeq(handlers, 1, k)
    BY <1>1, <1>6, <1>7, <1>8, <2>2, DiscardHandlers
  <2> QED
    BY <1>9, <2>2, <2>3
<1>12. ASSUME NEW i \in n + 1 .. Len(stack), stack[i].kind = "try"
       PROVE  stack[i].fin = "none" \/ thrown = "exit"
  <2>1. i # R /\ i \in DOMAIN stack /\ i > R
    BY <1>1, <1>3, <1>6, <1>12
  <2>2. PICK l \in DOMAIN handlers : handlers[l].at = i
    BY <1>1, <1>12, <2>1, HandlersSay
  <2>3. handlers[l].fin = stack[i].fin
    BY <1>1, <2>2, HandlersSay
  <2> QED
    BY <1>3, <1>4, <2>1, <2>2, <2>3
<1>13. \A i \in n + 2 .. Len(stack) : stack[i].kind # "callback"
  BY <1>3, <1>6
<1>14. \/ /\ n = 0 /\ stack' = <<>> /\ shields' = <<>> /\ thrown' = "none"
          /\ outcome' \in {"value", "failed", "cancelled"}
       \/ /\ n > 0 /\ stack[n + 1].kind = "callback" /\ UNCHANGED outcome
          /\ \E r, e : /\ SubSeq(r, 1, n) = SubSeq(stack, 1, n) /\ r[n + 1] = stack[n + 1]
                       /\ e \in Errors \cup {"none"} /\ LeaveCallback(r, n, e)
  <2>1. CASE n = 0
    BY <1>9, <2>1
  <2>2. CASE n # 0
    <3>1. LeaveCallback(stack, n, thrown) /\ UNCHANGED outcome /\ thrown \in Errors \cup {"none"}
      BY <1>1, <1>9, <2>2
    <3>2. \E r, e : /\ SubSeq(r, 1, n) = SubSeq(stack, 1, n) /\ r[n + 1] = stack[n + 1]
                    /\ e \in Errors \cup {"none"} /\ LeaveCallback(r, n, e)
      BY <3>1
    <3> QED
      BY <1>6, <1>8, <2>2, <3>1, <3>2
  <2> QED
    BY <2>1, <2>2
<1> QED
  BY <1>1, <1>6, <1>7, <1>8, <1>10, <1>11, <1>12, <1>13, <1>14, FrameLeft

(***************************************************************************)
(* The theorems                                                            *)
(***************************************************************************)
LEMMA InitSound ==
  ASSUME Structured, UnwindingInit
  PROVE  IInv
<1>1. PICK b \in Block : b = Callback("task", "none", 0) /\ b.kind = "callback"
                         /\ b.native = "task" /\ b.scopes = 0
  BY NewBlocks
<1>2. /\ stack = <<b>> /\ handlers = <<>> /\ shields = <<>> /\ scopes = 0
      /\ cancelled = FALSE /\ thrown = "none" /\ outcome = "running"
  BY <1>1 DEF UnwindingInit
<1>3. stack \in Seq(Block) /\ Len(stack) = 1 /\ DOMAIN stack = {1} /\ stack[1] = b
  BY <1>2
<1>4. \A kinds : Positions(stack, kinds) = {i \in {1} : b.kind \in kinds}
  BY <1>3 DEF Positions
<1>5. Positions(stack, {"try"}) = {} /\ Positions(stack, {"scope"}) = {}
      /\ Positions(stack, {"finally"}) = {} /\ Positions(stack, {"cleanup"}) = {}
  BY <1>1, <1>4
<1>6. Scopes(stack) = 0
  BY <1>5, FS_EmptySet DEF Scopes
<1>7. ScopesOf(1) = 0
  <2>1. PICK p \in DOMAIN stack : p = 1
    BY <1>3
  <2>2. ScopesOf(p + 1) = ScopesOf(p) /\ ScopesOf(p) \in Nat
    BY <1>1, <1>3, <2>1, OneBlock
  <2>3. ScopesOf(Len(stack) + 1) = Scopes(stack)
    BY <1>3, Innermost
  <2> QED
    BY <1>3, <1>6, <2>1, <2>2, <2>3
<1>8. CallbacksOK
  BY <1>1, <1>3, <1>4, <1>7 DEF CallbacksOK
<1>9. HandlersMatch
  BY <1>2, <1>5 DEF HandlersMatch
<1>10. ShieldsOK
  BY <1>2, <1>5 DEF ShieldsOK
<1>11. ScopesOK /\ ExitsOK
  BY <1>2, <1>5, <1>6 DEF ScopesOK, ExitsOK
<1>12. Rooted
  BY <1>1, <1>2, <1>3 DEF Rooted
<1>13. Types
  <2>1. \A i \in DOMAIN stack : stack[i].kind = "callback"
    BY <1>1, <1>3
  <2>2. UnwindingTypeOK
    <3>1. Len(stack) <= MaxBlocks + 1
      BY <1>3 DEF Structured
    <3>2. \A i \in DOMAIN stack : stack[i].kind \in
            {"try", "catch", "cleanup", "finally", "loop", "scope", "call", "callback"}
      BY <2>1
    <3>3. scopes \in Nat /\ cancelled \in BOOLEAN /\ thrown \in Errors \cup {"none"}
      BY <1>2
    <3> QED
      BY <1>2, <3>1, <3>2, <3>3 DEF UnwindingTypeOK
  <2>3. handlers \in Seq(HandlerRecord) /\ shields \in Seq(Shield)
    BY <1>2
  <2> QED
    BY <1>3, <2>2, <2>3 DEF Types
<1> QED
  BY <1>8, <1>9, <1>10, <1>11, <1>12, <1>13 DEF IInv

LEMMA NextSound ==
  ASSUME Structured, IInv, UnwindingNext
  PROVE  IInv' /\ RunsCleanup
<1>1. CASE Running /\ Step /\ UNCHANGED cancelled
  <2>1. {"return", "break", "continue"} = Exits
    BY DEF Exits
  <2>2. CASE \E fin \in {"none"} \cup Fin : handle_try_catch(fin)
    BY <1>1, <2>2, TryCatchStep
  <2>3. CASE compile_try_end
    BY <1>1, <2>3, TryEndStep
  <2>4. CASE EnterLoop
    BY <1>1, <2>4, EnterLoopStep
  <2>5. CASE handle_loop
    BY <1>1, <2>5, LoopStep
  <2>6. CASE EndBlock
    BY <1>1, <2>6, EndBlockStep
  <2>7. CASE handle_task_scope_begin
    BY <1>1, <2>7, ScopeBeginStep
  <2>8. CASE handle_task_scope_end
    BY <1>1, <2>8, ScopeEndStep
  <2>9. CASE op_rethrow
    BY <1>1, <2>9, RethrowStep
  <2>10. CASE call_function
    BY <1>1, <2>10, CallStep
  <2>11. CASE \E native \in {"each", "map", "with"} : vm_native_callable(native)
    BY <1>1, <2>11, NativeStep
  <2>12. CASE \E exit \in {"return", "break", "continue"} : compile_exit(exit)
    BY <1>1, <2>1, <2>12, CompileExitStep
  <2>13. CASE resume_exit
    BY <1>1, <2>13, ResumeExitStep
  <2>14. CASE handle_tail_call
    BY <1>1, <2>14, TailCallStep
  <2>15. CASE Throw
    BY <1>1, <2>15, ThrowStep
  <2> QED
    BY <1>1, <2>2, <2>3, <2>4, <2>5, <2>6, <2>7, <2>8, <2>9, <2>10, <2>11, <2>12, <2>13, <2>14,
       <2>15 DEF Step
<1>2. CASE thrown # "none" /\ Unwind /\ UNCHANGED cancelled
  <2>1. CASE handle_exception
    BY <1>2, <2>1, HandleExceptionStep
  <2>2. CASE LeaveRun
    BY <1>2, <2>2, LeaveRunStep
  <2> QED
    BY <1>2, <2>1, <2>2 DEF Unwind
<1>3. CASE Cancel
  BY <1>3, CancelStep
<1> QED
  BY <1>1, <1>2, <1>3 DEF UnwindingNext

LEMMA StutterSound ==
  ASSUME IInv, UNCHANGED unwinding_vars
  PROVE  IInv'
<1>1. UNCHANGED <<stack, handlers, shields, scopes, cancelled, thrown, outcome>>
  BY DEF unwinding_vars
<1>2. Types' /\ Rooted'
  BY <1>1 DEF IInv, Types, UnwindingTypeOK, Rooted
<1>3. CallbacksOK' /\ ExitsOK'
  BY <1>1 DEF IInv, CallbacksOK, ExitsOK, Before, ScopesOf
<1>4. HandlersMatch'
  BY <1>1 DEF IInv, HandlersMatch, Before
<1>5. ShieldsOK'
  BY <1>1 DEF IInv, ShieldsOK, Has, Before, FrameOf, DepthOf
<1>6. ScopesOK'
  BY <1>1 DEF IInv, ScopesOK, Top
<1> QED
  BY <1>2, <1>3, <1>4, <1>5, <1>6 DEF IInv

LEMMA InvariantSays ==
  ASSUME IInv
  PROVE  VmMatchesProgram
<1>1. UnwindingTypeOK /\ HandlersMatch /\ ShieldsOK /\ ScopesOK
  BY DEF IInv, Types
<1>2. ShieldsMatch
  <2>1. ASSUME NEW i \in Positions(stack, {"cleanup"}), stack[i].shielded
        PROVE  [frame |-> Frames(Before(i)) - 1, depth |-> Depth(Before(i))] \in Range(shields)
    <3>1. Has([frame |-> FrameOf(i), depth |-> DepthOf(i)])
      BY <1>1, <2>1 DEF ShieldsOK
    <3>2. PICK j \in DOMAIN shields : shields[j] = [frame |-> FrameOf(i), depth |-> DepthOf(i)]
      BY <3>1 DEF Has
    <3> QED
      BY <3>2 DEF Range, FrameOf, DepthOf
  <2>2. ASSUME NEW x \in Range(shields)
        PROVE  \/ \E i \in Positions(stack, {"cleanup"}) :
                    stack[i].shielded /\ x = [frame |-> Frames(Before(i)) - 1, depth |-> Depth(Before(i))]
               \/ \E i \in Positions(stack, {"finally"}) :
                    stack[i].exit = "return" /\ x.frame = Frames(Before(i)) - 1
    <3>1. PICK j \in DOMAIN shields : shields[j] = x
      BY DEF Range
    <3>2. PICK i \in DOMAIN stack : Guards(stack, i, x)
      BY <1>1, <3>1 DEF ShieldsOK
    <3>3. stack[i].kind = "cleanup" => i \in Positions(stack, {"cleanup"})
      BY DEF Positions
    <3>4. stack[i].kind = "finally" => i \in Positions(stack, {"finally"})
      BY DEF Positions
    <3> QED
      BY <3>2, <3>3, <3>4 DEF Guards, Before
  <2> QED
    BY <2>1, <2>2 DEF ShieldsMatch
<1>3. ScopesMatch
  BY <1>1 DEF ScopesOK, ScopesMatch, Scopes
<1> QED
  BY <1>1, <1>2, <1>3 DEF VmMatchesProgram

(* However the task reached the block it is in, through exits, errors,      *)
(* callbacks into the VM and a cancellation at any time, the handlers,      *)
(* shields and task scopes of the VM (VMExceptionManager, task_scopes) are  *)
(* those of the blocks around it: no Op::TryEnd took the handler of another *)
(* block, no cancellation shield outlived its finally and no scope its      *)
(* block.                                                                   *)
THEOREM VmFollowsTheProgram == Structured => (UnwindingSpec => []VmMatchesProgram)
<1> SUFFICES ASSUME Structured PROVE UnwindingSpec => []VmMatchesProgram
  OBVIOUS
<1>1. UnwindingInit => IInv
  BY InitSound
<1>2. IInv /\ [UnwindingNext]_unwinding_vars => IInv'
  BY NextSound, StutterSound
<1>3. IInv => VmMatchesProgram
  BY InvariantSays
<1> QED
  BY <1>1, <1>2, <1>3, PTL DEF UnwindingSpec

(* A try block with a finally is left only into that finally, and the body  *)
(* of Resource.with only into the release function unless the task is       *)
(* cancelled, whatever leaves them (compile_return, break_stmt,             *)
(* handle_exception, handle_cancellation, call_release).                    *)
THEOREM NoCleanupIsSkipped == Structured => (UnwindingSpec => CleanupRuns)
<1> SUFFICES ASSUME Structured PROVE UnwindingSpec => CleanupRuns
  OBVIOUS
<1>1. UnwindingInit => IInv
  BY InitSound
<1>2. IInv /\ [UnwindingNext]_unwinding_vars => IInv' /\ [RunsCleanup]_unwinding_vars
  BY NextSound, StutterSound
<1> QED
  BY <1>1, <1>2, PTL DEF UnwindingSpec, CleanupRuns
=============================================================================
