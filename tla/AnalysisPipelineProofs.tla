----------------------- MODULE AnalysisPipelineProofs -----------------------
(***************************************************************************)
(* What the language server's pipeline promises for any documents, texts,  *)
(* include graph, cache size and number of messages: a text that is        *)
(* skipped has its result in the cache, no edit is forgotten and a worker  *)
(* that sleeps has nothing to do.                                          *)
(***************************************************************************)
EXTENDS AnalysisPipeline, SequenceTheorems, TLAPS

-----------------------------------------------------------------------------
(* What the main thread has left to do.  The steps that name a document    *)
(* name one, and every insertion has its signal behind it.                 *)
Named == {"insert", "force", "dependents", "publish", "load"}
Steps == {s \in Step : s.op \in Named => s.uri \in Uri}

Inserts(s) == {s[n].uri : n \in {m \in DOMAIN s : s[m].op = "insert"}}
Signals(s) == \E n \in DOMAIN s : s[n].op \in {"signal", "notify"}
TodoOK(s) ==
  /\ s \in Seq(Steps)
  /\ \A n \in 1 .. Len(s) : s[n].op = "insert" =>
       \E m \in 1 .. Len(s) : n < m /\ s[m].op = "signal"

LEMMA TodoConcat ==
  ASSUME NEW s, TodoOK(s), NEW t, TodoOK(t)
  PROVE  /\ TodoOK(s \o t)
         /\ Inserts(s \o t) = Inserts(s) \cup Inserts(t)
         /\ Signals(s \o t) <=> Signals(s) \/ Signals(t)
<1>. DEFINE r == s \o t
<1>1. /\ s \in Seq(Steps) /\ t \in Seq(Steps) /\ Len(s) \in Nat /\ Len(t) \in Nat
      /\ DOMAIN s = 1 .. Len(s) /\ DOMAIN t = 1 .. Len(t)
  BY LenProperties DEF TodoOK
<1>2. /\ r \in Seq(Steps) /\ Len(r) = Len(s) + Len(t)
      /\ \A i \in 1 .. Len(s) : i \in 1 .. Len(r) /\ r[i] = s[i]
      /\ \A i \in 1 .. Len(t) : Len(s) + i \in 1 .. Len(r) /\ r[Len(s) + i] = t[i]
      /\ DOMAIN r = 1 .. Len(r)
  BY <1>1, ConcatProperties, LenProperties
<1>. HIDE DEF r
<1>3. ASSUME NEW i \in 1 .. Len(r)
      PROVE  \/ i \in 1 .. Len(s) /\ r[i] = s[i]
             \/ \E k \in 1 .. Len(t) : i = Len(s) + k /\ r[i] = t[k]
  <2>1. CASE i <= Len(s) BY <1>1, <1>2, <2>1
  <2>2. CASE ~(i <= Len(s))
    <3>1. i - Len(s) \in 1 .. Len(t) /\ i = Len(s) + (i - Len(s)) BY <1>1, <1>2, <2>2
    <3>2. QED BY <1>2, <3>1
  <2>3. QED BY <2>1, <2>2
<1>4. TodoOK(r)
  <2> SUFFICES ASSUME NEW i \in 1 .. Len(r), r[i].op = "insert"
               PROVE  \E m \in 1 .. Len(r) : i < m /\ r[m].op = "signal"
    BY <1>2 DEF TodoOK
  <2>1. CASE i \in 1 .. Len(s) /\ r[i] = s[i]
    <3>1. PICK m \in 1 .. Len(s) : i < m /\ s[m].op = "signal" BY <2>1 DEF TodoOK
    <3>2. QED BY <1>2, <3>1
  <2>2. ASSUME NEW k \in 1 .. Len(t), i = Len(s) + k, r[i] = t[k]
        PROVE  \E m \in 1 .. Len(r) : i < m /\ r[m].op = "signal"
    <3>1. PICK m \in 1 .. Len(t) : k < m /\ t[m].op = "signal" BY <2>2 DEF TodoOK
    <3>2. Len(s) + m \in 1 .. Len(r) /\ r[Len(s) + m].op = "signal" BY <1>2, <3>1
    <3>3. i < Len(s) + m BY <1>1, <2>2, <3>1
    <3>4. QED BY <3>2, <3>3
  <2>3. QED BY <1>3, <2>1, <2>2
<1>5. Inserts(r) = Inserts(s) \cup Inserts(t)
  <2>1. ASSUME NEW x
        PROVE  (\E n \in 1 .. Len(r) : r[n].op = "insert" /\ r[n].uri = x)
                 <=> \/ \E n \in 1 .. Len(s) : s[n].op = "insert" /\ s[n].uri = x
                     \/ \E n \in 1 .. Len(t) : t[n].op = "insert" /\ t[n].uri = x
    <3>1. ASSUME NEW n \in 1 .. Len(r), r[n].op = "insert", r[n].uri = x
          PROVE  \/ \E k \in 1 .. Len(s) : s[k].op = "insert" /\ s[k].uri = x
                 \/ \E k \in 1 .. Len(t) : t[k].op = "insert" /\ t[k].uri = x
      BY <1>3, <3>1
    <3>2. ASSUME NEW n \in 1 .. Len(s), s[n].op = "insert", s[n].uri = x
          PROVE  \E k \in 1 .. Len(r) : r[k].op = "insert" /\ r[k].uri = x
      BY <1>2, <3>2
    <3>3. ASSUME NEW n \in 1 .. Len(t), t[n].op = "insert", t[n].uri = x
          PROVE  \E k \in 1 .. Len(r) : r[k].op = "insert" /\ r[k].uri = x
      BY <1>2, <3>3
    <3>4. QED BY <3>1, <3>2, <3>3
  <2>2. \A x : x \in Inserts(r) <=> x \in Inserts(s) \/ x \in Inserts(t)
    <3>1. ASSUME NEW x
          PROVE  /\ x \in Inserts(r)
                      <=> \E n \in 1 .. Len(r) : r[n].op = "insert" /\ r[n].uri = x
                 /\ x \in Inserts(s)
                      <=> \E n \in 1 .. Len(s) : s[n].op = "insert" /\ s[n].uri = x
                 /\ x \in Inserts(t)
                      <=> \E n \in 1 .. Len(t) : t[n].op = "insert" /\ t[n].uri = x
      BY <1>1, <1>2 DEF Inserts
    <3>2. QED BY <2>1, <3>1
  <2>3. QED BY <2>2
<1>6. Signals(r) <=> Signals(s) \/ Signals(t)
  BY <1>1, <1>2, <1>3 DEF Signals
<1>7. QED BY <1>4, <1>5, <1>6 DEF r

LEMMA TodoEmpty == TodoOK(<<>>) /\ Inserts(<<>>) = {} /\ ~Signals(<<>>)
<1>1. <<>> \in Seq(Steps) /\ Len(<<>>) = 0 BY EmptySeq
<1>2. DOMAIN <<>> = {} OBVIOUS
<1>3. QED BY <1>1, <1>2 DEF TodoOK, Inserts, Signals

LEMMA TodoOne ==
  ASSUME NEW x \in Steps, x.op # "insert"
  PROVE  TodoOK(<<x>>) /\ Inserts(<<x>>) = {}
<1>1. <<x>> \in Seq(Steps) /\ Len(<<x>>) = 1 /\ DOMAIN <<x>> = 1 .. 1 /\ <<x>>[1] = x
  OBVIOUS
<1>2. QED BY <1>1 DEF TodoOK, Inserts

LEMMA TodoTail ==
  ASSUME NEW s, TodoOK(s), s # <<>>
  PROVE  /\ TodoOK(Tail(s)) /\ Head(s) \in Steps
         /\ Inserts(s) = Inserts(Tail(s))
                           \cup (IF Head(s).op = "insert" THEN {Head(s).uri} ELSE {})
         /\ Signals(s) <=> Signals(Tail(s)) \/ Head(s).op \in {"signal", "notify"}
         /\ Head(s).op = "insert" => Signals(Tail(s))
<1>. DEFINE r == Tail(s)
<1>1. /\ s \in Seq(Steps) /\ Len(s) \in Nat \ {0} /\ DOMAIN s = 1 .. Len(s)
      /\ Head(s) \in Steps /\ Head(s) = s[1]
  BY HeadTailProperties, LenProperties, EmptySeq DEF TodoOK
<1>2. /\ r \in Seq(Steps) /\ Len(r) = Len(s) - 1 /\ DOMAIN r = 1 .. Len(r)
      /\ \A i \in 1 .. Len(r) : i + 1 \in 1 .. Len(s) /\ r[i] = s[i + 1]
  BY <1>1, HeadTailProperties, LenProperties
<1>. HIDE DEF r
<1>3. ASSUME NEW i \in 1 .. Len(s)
      PROVE  i = 1 \/ \E k \in 1 .. Len(r) : i = k + 1 /\ s[i] = r[k]
  <2>1. CASE i # 1
    <3>1. i - 1 \in 1 .. Len(r) /\ i = (i - 1) + 1 BY <1>1, <1>2, <2>1
    <3>2. QED BY <1>2, <3>1
  <2>2. QED BY <2>1
<1>4. TodoOK(r)
  <2> SUFFICES ASSUME NEW k \in 1 .. Len(r), r[k].op = "insert"
               PROVE  \E m \in 1 .. Len(r) : k < m /\ r[m].op = "signal"
    BY <1>2 DEF TodoOK
  <2>1. PICK m \in 1 .. Len(s) : k + 1 < m /\ s[m].op = "signal"
    BY <1>2 DEF TodoOK
  <2>2. PICK l \in 1 .. Len(r) : m = l + 1 /\ s[m] = r[l] BY <1>3, <2>1
  <2>3. QED BY <2>1, <2>2
<1>5. 1 \in 1 .. Len(s) BY <1>1
<1>6. Inserts(s) = Inserts(r) \cup (IF s[1].op = "insert" THEN {s[1].uri} ELSE {})
  <2>1. ASSUME NEW x
        PROVE  (\E n \in 1 .. Len(s) : s[n].op = "insert" /\ s[n].uri = x)
                 <=> \/ \E n \in 1 .. Len(r) : r[n].op = "insert" /\ r[n].uri = x
                     \/ s[1].op = "insert" /\ s[1].uri = x
    BY <1>2, <1>3, <1>5
  <2>2. \A x : x \in Inserts(s)
                 <=> x \in Inserts(r) \/ (s[1].op = "insert" /\ s[1].uri = x)
    <3>1. ASSUME NEW x
          PROVE  /\ x \in Inserts(r)
                      <=> \E n \in 1 .. Len(r) : r[n].op = "insert" /\ r[n].uri = x
                 /\ x \in Inserts(s)
                      <=> \E n \in 1 .. Len(s) : s[n].op = "insert" /\ s[n].uri = x
      BY <1>1, <1>2 DEF Inserts
    <3>2. QED BY <2>1, <3>1
  <2>3. QED BY <2>2
<1>7. Signals(s) <=> Signals(r) \/ s[1].op \in {"signal", "notify"}
  BY <1>1, <1>2, <1>3, <1>5 DEF Signals
<1>8. s[1].op = "insert" => Signals(r)
  <2> SUFFICES ASSUME s[1].op = "insert" PROVE Signals(r) OBVIOUS
  <2>1. PICK m \in 1 .. Len(s) : 1 < m /\ s[m].op = "signal" BY <1>5 DEF TodoOK
  <2>2. PICK l \in 1 .. Len(r) : s[m] = r[l] BY <1>3, <2>1
  <2>3. QED BY <1>2, <2>1, <2>2 DEF Signals
<1>9. QED BY <1>1, <1>4, <1>6, <1>7, <1>8 DEF r

LEMMA StepTypes ==
  /\ \A op \in {"insert", "force", "signal", "dependents", "load"}, u \in Uri :
       Do(op, u) \in Steps /\ Do(op, u).op = op /\ Do(op, u).uri = u
  /\ \A op \in {"notify", "join", "ended"} :
       Do(op, None) \in Steps /\ Do(op, None).op = op
  /\ \A u \in Uri, d \in Text : Publish(u, d) \in Steps /\ Publish(u, d).op = "publish"
  /\ \A op \in {"schedule", "schedule_forced"}, us \in SUBSET Uri :
       DoAll(op, us) \in Steps /\ DoAll(op, us).op = op
BY DEF Do, Publish, DoAll, Steps, Step, Named, Text

(* schedule_analysis: an insertion and its signal.                         *)
LEMMA Scheduling ==
  ASSUME NEW u \in Uri, NEW f
  PROVE  /\ TodoOK(schedule_analysis(u, f))
         /\ Inserts(schedule_analysis(u, f)) = {u}
         /\ Signals(schedule_analysis(u, f))
<1>1. PICK i \in Steps : i = Do("insert", u) /\ i.op = "insert" /\ i.uri = u BY StepTypes
<1>2. PICK m \in Steps : m = Do("force", u) /\ m.op = "force" BY StepTypes
<1>3. PICK s \in Steps : s = Do("signal", u) /\ s.op = "signal" BY StepTypes
<1>0. PICK q : q = schedule_analysis(u, f) OBVIOUS
<1>4. \/ /\ q \in Seq(Steps) /\ Len(q) = 3 /\ DOMAIN q = 1 .. 3
         /\ q[1] = i /\ q[2] = m /\ q[3] = s
      \/ /\ q \in Seq(Steps) /\ Len(q) = 2 /\ DOMAIN q = 1 .. 2
         /\ q[1] = i /\ q[2] = s
  <2>1. /\ <<i>> \in Seq(Steps) /\ Len(<<i>>) = 1 /\ <<i>>[1] = i
        /\ <<m>> \in Seq(Steps) /\ Len(<<m>>) = 1 /\ <<m>>[1] = m
        /\ <<s>> \in Seq(Steps) /\ Len(<<s>>) = 1 /\ <<s>>[1] = s
        /\ <<>> \in Seq(Steps) /\ Len(<<>>) = 0
    OBVIOUS
  <2>2. CASE f /\ OnSave
    <3>1. PICK a : a = <<i>> \o <<m>> OBVIOUS
    <3>2. q = a \o <<s>> BY <1>0, <1>1, <1>2, <1>3, <2>2, <3>1 DEF schedule_analysis
    <3>3. a \in Seq(Steps) /\ Len(a) = 2 /\ a[1] = i /\ a[2] = m
      BY <2>1, <3>1, ConcatProperties
    <3>4. q \in Seq(Steps) /\ Len(q) = 3 /\ q[1] = i /\ q[2] = m /\ q[3] = s
      BY SMTT(30), <2>1, <3>2, <3>3, ConcatProperties
    <3>5. QED BY <3>4, LenProperties
  <2>3. CASE ~(f /\ OnSave)
    <3>1. PICK a : a = <<i>> \o <<>> OBVIOUS
    <3>2. q = a \o <<s>> BY <1>0, <1>1, <1>2, <1>3, <2>3, <3>1 DEF schedule_analysis
    <3>3. a \in Seq(Steps) /\ Len(a) = 1 /\ a[1] = i
      BY <2>1, <3>1, ConcatProperties
    <3>4. q \in Seq(Steps) /\ Len(q) = 2 /\ q[1] = i /\ q[2] = s
      BY <2>1, <3>2, <3>3, ConcatProperties
    <3>5. QED BY <3>4, LenProperties
  <2>4. QED BY <2>2, <2>3
<1>5. TodoOK(q) /\ Signals(q) BY <1>1, <1>2, <1>3, <1>4 DEF TodoOK, Signals
<1>6. \A x : x \in Inserts(q) <=> x = u
  BY <1>1, <1>2, <1>3, <1>4 DEF Inserts
<1>7. QED BY <1>0, <1>5, <1>6

-----------------------------------------------------------------------------
(* The inductive invariant.                                                *)
DocStates == [tracked : BOOLEAN, content : Text, hash : Text, background : BOOLEAN]

DocsOK ==
  /\ docs \in [Uri -> DocStates]
  /\ \A u \in Uri : ~docs[u].tracked => docs[u] = Untracked

StoresOK ==
  /\ cache \in [Uri -> Text]
  /\ included \in [Uri -> [Uri -> Text]]
  /\ dependents \in [Uri -> SUBSET Uri]

SharedOK ==
  /\ pending \subseteq Uri /\ force \subseteq Uri
  /\ cancel_flag \in BOOLEAN /\ running \in BOOLEAN /\ mutex \in BOOLEAN
  /\ disk \in [Uri -> Text]
  /\ published \in [Uri -> Text \cup {Error}]
  /\ messages \in 0 .. MaxMessages

(* The worker holds a document from the snapshot to the commit, has looked *)
(* at its whole batch before it asks for another one, lets go of           *)
(* state_mutex only asleep and ends only when the server does.             *)
Flights == [uri : Uri \cup {None}, text : Text, inc : [Uri -> Text],
            out : Uri \cup {None}]
InHand == {"snapshot", "analyze", "cancelled", "failed", "commit"}
AtRest == {"loop", "lock", "doze", "sleep", "debounce", "stopped"}

WorkerOK ==
  /\ wpc \in WorkerPcs
  /\ batch \subseteq Uri /\ rest \subseteq batch
  /\ cur \in Flights
  /\ to_publish \subseteq Uri /\ failed \subseteq Uri
  /\ wpc \in InHand \cup {"publish", "send"} => cur.uri \in Uri
  /\ wpc = "send" => cur.out \in Uri
  /\ wpc \in AtRest => rest = {}
  /\ wpc = "doze" => mutex /\ pending = {}
  /\ wpc = "stopped" => ~running

Unstranded == wpc = "sleep" /\ running /\ pending # {} => Signals(todo)

IInv ==
  /\ DocsOK /\ StoresOK /\ SharedOK /\ TodoOK(todo) /\ WorkerOK
  /\ SkippedIsCached /\ NoLostEdit /\ Unstranded

LEMMA ScheduledNow ==
  Scheduled = pending \cup rest \cup Inserts(todo)
                \cup (IF wpc \in InHand THEN {cur.uri} ELSE {})
BY DEF Scheduled, Inserts, InHand

-----------------------------------------------------------------------------
(* A message: what its handler leaves to do, and what it does to the       *)
(* documents.                                                              *)
SameText(u) ==
  /\ docs'[u].tracked = docs[u].tracked /\ docs'[u].hash = docs[u].hash
  /\ docs'[u].content = docs[u].content

(* A text that changed is to be inserted among the pending ones, and       *)
(* only a document that is dropped leaves them.                            *)
Handled ==
  /\ docs' \in [Uri -> DocStates]
  /\ \A u \in Uri : ~docs'[u].tracked => docs'[u] = Untracked
  /\ \A u \in Uri : SameText(u) \/ ~docs'[u].tracked \/ u \in Inserts(todo')
  /\ \A u \in Uri : docs'[u].hash # None => docs'[u].hash = docs[u].hash /\ cache'[u] = cache[u]
  /\ \A u \in pending : u \in pending' \/ ~docs'[u].tracked
  /\ pending' \subseteq pending
  /\ TodoOK(todo')

LEMMA OpenHandled ==
  ASSUME IInv, NEW u \in Uri, NEW text \in Content,
         handle_did_open(u, text) \/ handle_did_change(u, text)
  PROVE  Handled
<1>1. /\ docs \in [Uri -> DocStates] /\ cache \in [Uri -> Text]
      /\ \A v \in Uri : ~docs[v].tracked => docs[v] = Untracked
      /\ todo = <<>> /\ cache' = cache /\ pending' = pending
  BY DEF IInv, DocsOK, StoresOK, handle_did_open, handle_did_change, Receive
<1>2. CASE handle_did_open(u, text) /\ docs[u].tracked /\ docs[u].content = text
  <2>1. PICK n : n = [docs[u] EXCEPT !.background = FALSE] OBVIOUS
  <2>2. docs[u] \in DocStates BY <1>1
  <2>3. n \in DocStates /\ n.tracked = docs[u].tracked /\ n.hash = docs[u].hash
        /\ n.content = docs[u].content
    BY <2>1, <2>2 DEF DocStates
  <2>4. docs' = [docs EXCEPT ![u] = n]
        /\ todo' = (IF cache[u] # None THEN <<Publish(u, cache[u])>> ELSE <<>>)
    BY <1>1, <1>2, <2>1 DEF handle_did_open
  <2>5. TodoOK(todo') BY <1>1, <2>4, StepTypes, TodoOne, TodoEmpty
  <2>6. docs' \in [Uri -> DocStates] /\ docs'[u] = n
        /\ \A v \in Uri \ {u} : docs'[v] = docs[v]
    BY <1>1, <2>3, <2>4
  <2>7. QED BY <1>1, <1>2, <2>3, <2>5, <2>6 DEF Handled, SameText
<1>3. CASE docs' = docs /\ todo' = todo
  <2>1. TodoOK(todo') BY <1>3 DEF IInv
  <2>2. QED BY <1>1, <1>3, <2>1 DEF Handled, SameText
<1>4. ASSUME NEW n \in DocStates, n.tracked, n.hash = docs[u].hash,
             docs' = [docs EXCEPT ![u] = n],
             NEW f, todo' = schedule_analysis(u, f)
      PROVE  Handled
  <2>1. TodoOK(todo') /\ u \in Inserts(todo') BY <1>4, Scheduling
  <2>2. docs' \in [Uri -> DocStates] /\ docs'[u] = n
        /\ \A v \in Uri \ {u} : docs'[v] = docs[v]
    BY <1>1, <1>4
  <2>3. QED BY <1>1, <1>4, <2>1, <2>2 DEF Handled, SameText
<1>5. CASE handle_did_open(u, text) /\ ~(docs[u].tracked /\ docs[u].content = text)
  <2>1. PICK n : n = [docs[u] EXCEPT !.tracked = TRUE, !.content = text, !.background = FALSE]
    OBVIOUS
  <2>2. docs[u] \in DocStates BY <1>1
  <2>3. n \in DocStates /\ n.tracked /\ n.hash = docs[u].hash
    BY <2>1, <2>2 DEF DocStates, Text
  <2>4. docs' = [docs EXCEPT ![u] = n] /\ todo' = schedule_analysis(u, TRUE)
    BY <1>1, <1>5, <2>1 DEF handle_did_open
  <2>5. QED BY <1>4, <2>3, <2>4
<1>6. CASE handle_did_change(u, text) /\ docs[u].tracked
  <2>1. PICK n : n = [docs[u] EXCEPT !.content = text] OBVIOUS
  <2>2. docs[u] \in DocStates BY <1>1
  <2>3. n \in DocStates /\ n.tracked /\ n.hash = docs[u].hash
    BY <1>6, <2>1, <2>2 DEF DocStates, Text
  <2>4. docs' = [docs EXCEPT ![u] = n] /\ todo' = schedule_analysis(u, FALSE)
    BY <1>1, <1>6, <2>1 DEF handle_did_change
  <2>5. QED BY <1>4, <2>3, <2>4
<1>7. QED BY <1>2, <1>3, <1>5, <1>6 DEF handle_did_change

LEMMA CloseHandled ==
  ASSUME IInv, NEW u \in Uri, handle_did_close(u)
  PROVE  Handled
<1>1. /\ docs \in [Uri -> DocStates]
      /\ \A v \in Uri : ~docs[v].tracked => docs[v] = Untracked
  BY DEF IInv, DocsOK
<1>2. /\ docs' = [docs EXCEPT ![u] = Untracked] /\ cache' = [cache EXCEPT ![u] = None]
      /\ pending' = pending \ {u}
      /\ todo' = <<Publish(u, None)>>
                   \o (IF u \in Workspace THEN <<Do("load", u)>> ELSE <<>>)
  BY DEF handle_did_close
<1>3. Untracked \in DocStates /\ ~Untracked.tracked /\ Untracked.hash = None
  BY DEF Untracked, DocStates, Text
<1>4. TodoOK(todo')
  <2>1. TodoOK(<<Publish(u, None)>>) /\ TodoOK(<<Do("load", u)>>) /\ TodoOK(<<>>)
    BY StepTypes, TodoOne, TodoEmpty DEF Text
  <2>2. QED BY <1>2, <2>1, TodoConcat
<1>5. docs' \in [Uri -> DocStates] /\ docs'[u] = Untracked
      /\ \A v \in Uri \ {u} : docs'[v] = docs[v] /\ cache'[v] = cache[v]
  BY <1>1, <1>2, <1>3 DEF IInv, StoresOK
<1>6. QED BY <1>1, <1>2, <1>3, <1>4, <1>5 DEF Handled, SameText

LEMMA WatchedHandled ==
  ASSUME IInv, NEW u \in Uri, NEW text \in Text, handle_did_change_watched_file(u, text)
  PROVE  Handled
<1>1. /\ docs \in [Uri -> DocStates] /\ dependents[u] \in SUBSET Uri
      /\ \A v \in Uri : ~docs[v].tracked => docs[v] = Untracked
  BY DEF IInv, DocsOK, StoresOK
<1>2. /\ docs' = IF docs[u].background THEN [docs EXCEPT ![u] = Untracked] ELSE docs
      /\ cache' = cache \/ (docs[u].background /\ cache' = [cache EXCEPT ![u] = None])
      /\ pending' = pending
      /\ todo' = (IF text # None /\ ~IsOpen(u) THEN <<Do("load", u)>> ELSE <<>>)
                   \o <<DoAll("schedule_forced", dependents[u])>>
  BY DEF handle_did_change_watched_file
<1>3. Untracked \in DocStates /\ ~Untracked.tracked /\ Untracked.hash = None
  BY DEF Untracked, DocStates, Text
<1>4. TodoOK(todo')
  <2>1. TodoOK(<<DoAll("schedule_forced", dependents[u])>>) /\ TodoOK(<<Do("load", u)>>)
        /\ TodoOK(<<>>)
    BY <1>1, StepTypes, TodoOne, TodoEmpty
  <2>2. QED BY <1>2, <2>1, TodoConcat
<1>5. /\ docs' \in [Uri -> DocStates]
      /\ docs'[u] = docs[u] \/ docs'[u] = Untracked
      /\ docs'[u] = docs[u] => docs'[u] = Untracked \/ cache' = cache
      /\ \A v \in Uri \ {u} : docs'[v] = docs[v] /\ cache'[v] = cache[v]
  BY <1>1, <1>2, <1>3 DEF IInv, StoresOK
<1>6. QED BY <1>1, <1>2, <1>3, <1>4, <1>5 DEF Handled, SameText

LEMMA MessageHandled ==
  ASSUME IInv, Message \/ run_ends
  PROVE  Handled
<1>1. CASE \E u \in Uri, text \in Content : handle_did_open(u, text) \/ handle_did_change(u, text)
  BY <1>1, OpenHandled
<1>2. CASE \E u \in Uri : handle_did_close(u) BY <1>2, CloseHandled
<1>3. CASE \E u \in Uri, text \in Text : handle_did_change_watched_file(u, text)
  BY <1>3, WatchedHandled
<1>4. ASSUME docs' = docs, cache' = cache, pending' = pending, TodoOK(todo') PROVE Handled
  BY <1>4 DEF IInv, DocsOK, Handled, SameText
<1>5. ASSUME NEW u \in Uri, handle_did_save(u) PROVE Handled
  <2>1. TodoOK(schedule_analysis(u, TRUE)) /\ TodoOK(<<>>) /\ TodoOK(<<Do("dependents", u)>>)
    BY Scheduling, StepTypes, TodoOne, TodoEmpty
  <2>2. todo' = (IF OnSave THEN schedule_analysis(u, TRUE) ELSE <<>>) \o <<Do("dependents", u)>>
    BY <1>5 DEF handle_did_save
  <2>3. TodoOK(todo') BY <2>1, <2>2, TodoConcat
  <2>4. QED BY <1>4, <1>5, <2>3 DEF handle_did_save, store
<1>6. CASE cancel_request
  <2>1. TodoOK(todo') BY <1>6 DEF IInv, cancel_request
  <2>2. QED BY <1>4, <1>6, <2>1 DEF cancel_request, store
<1>7. CASE handle_shutdown
  <2>1. TodoOK(todo') BY <1>7, StepTypes, TodoOne DEF handle_shutdown
  <2>2. QED BY <1>4, <1>7, <2>1 DEF handle_shutdown, store
<1>8. CASE run_ends
  <2>1. Do("notify", None) \in Steps /\ Do("join", None) \in Steps
        /\ Do("notify", None).op = "notify" /\ Do("join", None).op = "join"
    BY StepTypes
  <2>2. TodoOK(<<Do("notify", None), Do("join", None)>>)
    BY <2>1 DEF TodoOK
  <2>3. TodoOK(todo') BY <1>8, <2>2 DEF run_ends
  <2>4. QED BY <1>4, <1>8, <2>3 DEF run_ends, store
<1>9. QED BY <1>1, <1>2, <1>3, <1>5, <1>6, <1>7, <1>8 DEF Message

LEMMA ScheduledIs ==
  /\ Scheduled = pending \cup rest \cup Inserts(todo)
                   \cup (IF wpc \in InHand THEN {cur.uri} ELSE {})
  /\ Scheduled' = pending' \cup rest' \cup Inserts(todo')
                    \cup (IF wpc' \in InHand THEN {cur'.uri} ELSE {})
<1>1. (Scheduled = pending \cup rest \cup Inserts(todo)
        \cup (IF wpc \in InHand THEN {cur.uri} ELSE {}))'
  BY ScheduledNow, PTL
<1>2. QED BY <1>1, ScheduledNow

(* What no message touches.                                                *)
Received ==
  /\ todo = <<>> /\ (messages' = messages \/ messages' = messages + 1)
  /\ messages' # messages => messages < MaxMessages
  /\ UNCHANGED <<wpc, batch, rest, cur, to_publish, failed, force, mutex, published>>
  /\ running' => running
  /\ running' \in BOOLEAN /\ cancel_flag' \in BOOLEAN

LEMMA MessageOK ==
  ASSUME IInv, Message \/ run_ends
  PROVE  IInv'
<1>0. Handled BY MessageHandled
<1>11. Received
  <2>0. running \in BOOLEAN /\ cancel_flag \in BOOLEAN BY DEF IInv, SharedOK
  <2>1. ASSUME NEW u \in Uri, NEW text \in Content, handle_did_open(u, text) PROVE Received
    BY <2>0, <2>1 DEF handle_did_open, Receive, worker, Received
  <2>2. ASSUME NEW u \in Uri, NEW text \in Content, handle_did_change(u, text) PROVE Received
    BY <2>0, <2>2 DEF handle_did_change, Receive, worker, Received
  <2>3. ASSUME NEW u \in Uri, handle_did_save(u) PROVE Received
    BY <2>0, <2>3 DEF handle_did_save, Receive, worker, Received
  <2>4. ASSUME NEW u \in Uri, handle_did_close(u) PROVE Received
    BY <2>0, <2>4 DEF handle_did_close, Receive, worker, Received
  <2>5. ASSUME NEW u \in Uri, NEW text \in Text, handle_did_change_watched_file(u, text)
        PROVE  Received
    BY <2>0, <2>5 DEF handle_did_change_watched_file, Receive, worker, Received
  <2>6. CASE cancel_request
    BY <2>0, <2>6 DEF cancel_request, Receive, worker, Received
  <2>7. CASE handle_shutdown
    BY <2>0, <2>7 DEF handle_shutdown, Receive, worker, Received
  <2>8. CASE run_ends
    BY <2>0, <2>8 DEF run_ends, worker, Received
  <2>9. QED BY <2>1, <2>2, <2>3, <2>4, <2>5, <2>6, <2>7, <2>8 DEF Message
<1>1. /\ todo = <<>> /\ (messages' = messages \/ messages' = messages + 1)
      /\ messages' # messages => messages < MaxMessages
      /\ UNCHANGED <<wpc, batch, rest, cur, to_publish, failed, force, mutex, published>>
      /\ running' => running
      /\ running' \in BOOLEAN /\ cancel_flag' \in BOOLEAN
  BY <1>11 DEF Received
<1>2. DocsOK' BY <1>0 DEF Handled, DocsOK
<1>3. StoresOK' /\ disk' \in [Uri -> Text]
  <2>0. /\ StoresOK /\ disk \in [Uri -> Text] /\ docs \in [Uri -> DocStates]
        /\ None \in Text /\ NoIncludes \in [Uri -> Text] /\ Content \subseteq Text
    BY DEF IInv, SharedOK, DocsOK, NoIncludes, Text
  <2>1. ASSUME UNCHANGED <<cache, included, dependents, disk>>
        PROVE  StoresOK' /\ disk' \in [Uri -> Text]
    BY <2>0, <2>1 DEF StoresOK
  <2>2. ASSUME NEW u \in Uri, handle_did_close(u)
        PROVE  StoresOK' /\ disk' \in [Uri -> Text]
    BY <2>0, <2>2 DEF StoresOK, handle_did_close
  <2>3. ASSUME NEW u \in Uri, NEW text \in Text, handle_did_change_watched_file(u, text)
        PROVE  StoresOK' /\ disk' \in [Uri -> Text]
    BY <2>0, <2>3 DEF StoresOK, handle_did_change_watched_file
  <2>4. ASSUME NEW u \in Uri, handle_did_save(u)
        PROVE  StoresOK' /\ disk' \in [Uri -> Text]
    <3>1. docs[u].content \in Text BY <2>0 DEF DocStates
    <3>2. QED BY <2>0, <2>4, <3>1 DEF StoresOK, handle_did_save, store
  <2>5. CASE \/ \E u \in Uri, text \in Content :
                  handle_did_open(u, text) \/ handle_did_change(u, text)
             \/ cancel_request \/ handle_shutdown \/ run_ends
    BY <2>1, <2>5 DEF handle_did_open, handle_did_change, cancel_request,
       handle_shutdown, run_ends, store
  <2>6. QED BY <2>2, <2>3, <2>4, <2>5 DEF Message
<1>4. SharedOK'
  <2>1. messages' \in 0 .. MaxMessages
    BY <1>1, PipelineAssumption DEF IInv, SharedOK
  <2>2. QED BY <1>0, <1>1, <1>3, <2>1 DEF Handled, IInv, SharedOK
<1>5. TodoOK(todo)' BY <1>0 DEF Handled
<1>6. WorkerOK' BY <1>0, <1>1 DEF IInv, WorkerOK, Handled
<1>7. SkippedIsCached' BY <1>0 DEF Handled, IInv, SkippedIsCached
<1>8. NoLostEdit'
  <2> SUFFICES ASSUME running', NEW u \in Uri, docs'[u].tracked,
                      docs'[u].hash # docs'[u].content
               PROVE  u \in Scheduled' \/ u \in failed'
    BY DEF NoLostEdit
  <2>1. CASE u \in Inserts(todo') BY <2>1, ScheduledIs
  <2>2. CASE SameText(u)
    <3>1. u \in Scheduled \/ u \in failed BY <1>1, <2>2 DEF IInv, NoLostEdit, SameText
    <3>2. u \in pending => u \in pending' BY <1>0 DEF Handled
    <3>3. Inserts(todo) = {} BY <1>1, TodoEmpty
    <3>4. QED BY <1>1, <3>1, <3>2, <3>3, ScheduledIs
  <2>3. QED BY <1>0, <2>1, <2>2 DEF Handled
<1>9. Unstranded'
  <2>1. ~Signals(todo) BY <1>1, TodoEmpty
  <2>2. QED BY <1>0, <1>1, <2>1 DEF IInv, Unstranded, Handled
<1>10. QED BY <1>2, <1>3, <1>4, <1>5, <1>6, <1>7, <1>8, <1>9 DEF IInv

-----------------------------------------------------------------------------
(* The main thread's other steps: a document that is loaded is scheduled,  *)
(* a URI to insert is inserted, and a worker that sleeps over pending ones *)
(* is still to be signalled.                                               *)
Moved ==
  /\ UNCHANGED <<batch, rest, cur, to_publish, failed, running, messages, mutex,
                 cache, included, dependents, disk>>
  /\ wpc' = wpc \/ (wpc = "sleep" /\ wpc' = "lock")
  /\ TodoOK(todo')
  /\ pending' \subseteq Uri /\ pending \subseteq pending'
  /\ pending' # pending => ~mutex
  /\ running => Inserts(todo) \subseteq pending' \cup Inserts(todo')
  /\ Signals(todo) \/ pending' # pending => Signals(todo') \/ wpc' # "sleep"
  /\ docs' \in [Uri -> DocStates]
  /\ \A u \in Uri : \/ docs'[u] = docs[u]
                    \/ docs'[u].tracked /\ docs'[u].hash = None /\ u \in Inserts(todo')
  /\ force' \subseteq Uri /\ cancel_flag' \in BOOLEAN
  /\ published' \in [Uri -> Text \cup {Error}]

LEMMA MovedOK ==
  ASSUME IInv, Moved
  PROVE  IInv'
<1>1. DocsOK' /\ StoresOK' /\ SharedOK' /\ TodoOK(todo)'
  <2>1. DocsOK' BY DEF Moved, IInv, DocsOK
  <2>2. StoresOK' BY DEF Moved, IInv, StoresOK
  <2>3. SharedOK' BY DEF Moved, IInv, SharedOK
  <2>4. QED BY <2>1, <2>2, <2>3 DEF Moved
<1>2. WorkerOK'
  <2>1. /\ wpc' \in WorkerPcs
        /\ wpc' \in InHand \cup {"publish", "send"} => wpc' = wpc
        /\ wpc' \in {"doze", "stopped", "send"} => wpc' = wpc
        /\ wpc' \in AtRest => wpc \in AtRest
    BY DEF Moved, IInv, WorkerOK, WorkerPcs, InHand, AtRest
  <2>2. UNCHANGED <<batch, rest, cur, to_publish, failed, running, mutex>>
        /\ (pending' # pending => ~mutex)
    BY DEF Moved
  <2>3. WorkerOK BY DEF IInv
  <2>4. wpc' = "doze" => mutex' /\ pending' = {} BY <2>1, <2>2, <2>3 DEF WorkerOK
  <2>5. wpc' = "stopped" => ~running' BY <2>1, <2>2, <2>3 DEF WorkerOK
  <2>6. /\ wpc' \in InHand \cup {"publish", "send"} => cur'.uri \in Uri
        /\ wpc' = "send" => cur'.out \in Uri
        /\ wpc' \in AtRest => rest' = {}
    BY <2>1, <2>2, <2>3 DEF WorkerOK
  <2>7. QED BY <2>1, <2>2, <2>3, <2>4, <2>5, <2>6 DEF WorkerOK
<1>3. SkippedIsCached' BY DEF Moved, IInv, SkippedIsCached
<1>4. NoLostEdit'
  <2> SUFFICES ASSUME running', NEW u \in Uri, docs'[u].tracked,
                      docs'[u].hash # docs'[u].content
               PROVE  u \in Scheduled' \/ u \in failed'
    BY DEF NoLostEdit
  <2>1. CASE u \in Inserts(todo') BY <2>1, ScheduledIs
  <2>2. CASE docs'[u] = docs[u]
    <3>1. u \in Scheduled \/ u \in failed BY <2>2 DEF Moved, IInv, NoLostEdit
    <3>2. wpc \in InHand => wpc' = wpc BY DEF Moved, InHand
    <3>3. u \in Inserts(todo) => u \in pending' \cup Inserts(todo') BY DEF Moved
    <3>4. QED BY <3>1, <3>2, <3>3, ScheduledIs DEF Moved
  <2>3. QED BY <2>1, <2>2 DEF Moved
<1>5. Unstranded' BY DEF Moved, IInv, Unstranded
<1>6. QED BY <1>1, <1>2, <1>3, <1>4, <1>5 DEF IInv

LEMMA MainStepOK ==
  ASSUME IInv, MainStep
  PROVE  IInv'
<1>1. /\ TodoOK(todo) /\ docs \in [Uri -> DocStates] /\ pending \subseteq Uri
      /\ force \subseteq Uri /\ cancel_flag \in BOOLEAN /\ disk \in [Uri -> Text]
      /\ published \in [Uri -> Text \cup {Error}] /\ dependents \in [Uri -> SUBSET Uri]
  BY DEF IInv, DocsOK, SharedOK, StoresOK
<1>2. ASSUME todo # <<>>
      PROVE  /\ TodoOK(Tail(todo)) /\ Head(todo) \in Steps
             /\ Inserts(todo) = Inserts(Tail(todo))
                  \cup (IF Head(todo).op = "insert" THEN {Head(todo).uri} ELSE {})
             /\ Signals(todo) <=>
                  Signals(Tail(todo)) \/ Head(todo).op \in {"signal", "notify"}
             /\ Head(todo).op = "insert" => Signals(Tail(todo))
  BY <1>1, <1>2, TodoTail
<1>3. CASE insert_pending
  <2>1. Head(todo).uri \in Uri BY <1>2, <1>3 DEF insert_pending, At, Steps, Named
  <2>2. QED BY <1>1, <1>2, <1>3, <2>1, MovedOK
    DEF insert_pending, At, uri, Moved, store, worker
<1>4. CASE mark_force
  <2>1. Head(todo).uri \in Uri BY <1>2, <1>4 DEF mark_force, At, Steps, Named
  <2>2. QED BY <1>1, <1>2, <1>4, <2>1, MovedOK
    DEF mark_force, At, uri, Moved, store, worker
<1>5. CASE signal
  BY <1>1, <1>2, <1>5, MovedOK DEF signal, At, Wake, Moved, store
<1>6. CASE notify
  BY <1>1, <1>2, <1>6, MovedOK DEF notify, At, Wake, Moved, store
<1>7. CASE look_up_dependents
  <2>1. Head(todo).uri \in Uri BY <1>2, <1>7 DEF look_up_dependents, At, Steps, Named
  <2>2. PICK d : d = <<DoAll("schedule", dependents[Head(todo).uri])>> OBVIOUS
  <2>3. TodoOK(d) BY <1>1, <2>1, <2>2, StepTypes, TodoOne
  <2>4. todo' = d \o Tail(todo) BY <1>7, <2>2 DEF look_up_dependents, uri
  <2>5. /\ TodoOK(todo') /\ Inserts(todo') = Inserts(d) \cup Inserts(Tail(todo))
        /\ Signals(todo') <=> Signals(d) \/ Signals(Tail(todo))
    BY <1>2, <1>7, <2>3, <2>4, TodoConcat DEF look_up_dependents, At
  <2>6. QED BY <1>1, <1>2, <1>7, <2>5, MovedOK
    DEF look_up_dependents, At, Moved, store, worker
<1>8. CASE schedule_each
  <2>1. /\ todo # <<>> /\ Head(todo).op \in {"schedule", "schedule_forced"}
        /\ Head(todo).uris \in SUBSET Uri
    BY <1>2, <1>8 DEF schedule_each, At, Steps, Step
  <2>2. CASE todo' = Tail(todo)
    BY <1>1, <1>2, <1>8, <2>1, <2>2, MovedOK DEF schedule_each, Moved, store, worker
  <2>3. ASSUME NEW u \in Head(todo).uris, NEW f,
               todo' = schedule_analysis(u, f)
                         \o <<DoAll(Head(todo).op, Head(todo).uris \ {u})>> \o Tail(todo)
        PROVE  IInv'
    <3>1. PICK s : s = schedule_analysis(u, f) OBVIOUS
    <3>2. PICK d : d = <<DoAll(Head(todo).op, Head(todo).uris \ {u})>> OBVIOUS
    <3>3. TodoOK(d)
      <4>1. Head(todo).uris \ {u} \in SUBSET Uri BY <2>1
      <4>2. QED BY <2>1, <3>2, <4>1, StepTypes, TodoOne
    <3>4. TodoOK(s) BY <2>1, <3>1, Scheduling
    <3>5. PICK r : r = s \o d OBVIOUS
    <3>6. TodoOK(r) BY <3>3, <3>4, <3>5, TodoConcat
    <3>7. todo' = r \o Tail(todo) BY <2>3, <3>1, <3>2, <3>5
    <3>8. /\ TodoOK(todo') /\ Inserts(todo') = Inserts(r) \cup Inserts(Tail(todo))
          /\ Signals(todo') <=> Signals(r) \/ Signals(Tail(todo))
      BY <1>2, <2>1, <3>6, <3>7, TodoConcat
    <3>9. QED BY <1>1, <1>2, <1>8, <2>1, <3>8, MovedOK
      DEF schedule_each, Moved, store, worker
  <2>4. QED BY <1>8, <2>2, <2>3 DEF schedule_each
<1>9. CASE publish_diagnostics
  <2>1. Head(todo).uri \in Uri /\ Head(todo).diag \in Text \cup {Error}
    BY <1>2, <1>9 DEF publish_diagnostics, At, Steps, Step, Named
  <2>2. published' \in [Uri -> Text \cup {Error}]
    BY <1>1, <1>9, <2>1 DEF publish_diagnostics, uri
  <2>3. QED BY <1>1, <1>2, <1>9, <2>2, MovedOK
    DEF publish_diagnostics, At, Moved, store, worker
<1>10. CASE load_background_file
  <2>1. Head(todo).uri \in Uri BY <1>2, <1>10 DEF load_background_file, At, Steps, Named
  <2>2. PICK u \in Uri : u = Head(todo).uri BY <2>1
  <2>3. CASE docs' = docs /\ todo' = Tail(todo)
    BY <1>1, <1>2, <1>10, <2>3, MovedOK
    DEF load_background_file, At, Moved, store, worker
  <2>4. CASE /\ docs' = [docs EXCEPT ![u] = [tracked |-> TRUE, content |-> disk[u],
                                             hash |-> None, background |-> TRUE]]
             /\ todo' = schedule_analysis(u, FALSE) \o Tail(todo)
    <3>1. PICK s : s = schedule_analysis(u, FALSE) OBVIOUS
    <3>2. TodoOK(s) /\ Inserts(s) = {u} BY <3>1, Scheduling
    <3>3. todo' = s \o Tail(todo) BY <2>4, <3>1
    <3>4. /\ TodoOK(todo') /\ Inserts(todo') = Inserts(s) \cup Inserts(Tail(todo))
          /\ Signals(todo') <=> Signals(s) \/ Signals(Tail(todo))
      BY <1>2, <1>10, <3>2, <3>3, TodoConcat DEF load_background_file, At
    <3>5. PICK n : n = [tracked |-> TRUE, content |-> disk[u], hash |-> None,
                        background |-> TRUE]
      OBVIOUS
    <3>6. n \in DocStates /\ n.tracked /\ n.hash = None
      BY <1>1, <3>5 DEF DocStates, Text
    <3>7. docs' \in [Uri -> DocStates] /\ docs'[u] = n
          /\ \A v \in Uri \ {u} : docs'[v] = docs[v]
      BY <1>1, <2>4, <3>5, <3>6
    <3>8. QED BY <1>1, <1>2, <1>10, <3>2, <3>4, <3>6, <3>7, MovedOK
      DEF load_background_file, At, Moved, store, worker
  <2>5. QED BY <1>10, <2>2, <2>3, <2>4 DEF load_background_file, uri
<1>11. CASE join
  <2>1. TodoOK(todo') BY <1>11, StepTypes, TodoOne DEF join
  <2>2. ~running BY <1>11 DEF join, IInv, WorkerOK
  <2>3. QED BY <1>1, <1>11, <2>1, <2>2, MovedOK DEF join, Moved, store, worker
<1>12. QED
  BY <1>3, <1>4, <1>5, <1>6, <1>7, <1>8, <1>9, <1>10, <1>11 DEF MainStep

-----------------------------------------------------------------------------
(* The worker's steps that leave the documents and the cache alone: what   *)
(* was pending, collected, in hand or had failed still is, unless its text *)
(* is the one analysed last, and nobody falls asleep over a pending URI.   *)
Held ==
  pending \cup rest \cup failed \cup (IF wpc \in InHand THEN {cur.uri} ELSE {})
Settled(u) == ~docs[u].tracked \/ docs[u].hash = docs[u].content

Walked ==
  /\ UNCHANGED <<docs, cache, included, dependents, todo, disk, messages, running>>
  /\ WorkerOK'
  /\ pending' \subseteq Uri /\ force' \subseteq Uri
  /\ cancel_flag' \in BOOLEAN /\ mutex' \in BOOLEAN
  /\ published' \in [Uri -> Text \cup {Error}]
  /\ running => \A u \in Held : u \in Held' \/ Settled(u)
  /\ wpc' = "sleep" => pending' = {}

LEMMA WalkedOK ==
  ASSUME IInv, Walked
  PROVE  IInv'
<1>1. DocsOK' BY DEF Walked, IInv, DocsOK
<1>2. StoresOK' BY DEF Walked, IInv, StoresOK
<1>3. SharedOK' BY DEF Walked, IInv, SharedOK
<1>4. TodoOK(todo)' BY DEF Walked, IInv
<1>5. SkippedIsCached' BY DEF Walked, IInv, SkippedIsCached
<1>6. NoLostEdit'
  <2> SUFFICES ASSUME running', NEW u \in Uri, docs'[u].tracked,
                      docs'[u].hash # docs'[u].content
               PROVE  u \in Scheduled' \/ u \in failed'
    BY DEF NoLostEdit
  <2>1. running /\ ~Settled(u) BY DEF Walked, Settled
  <2>2. u \in Held \/ u \in Inserts(todo)
    BY <2>1, ScheduledIs DEF IInv, NoLostEdit, Settled, Held
  <2>3. u \in Held' \/ u \in Inserts(todo') BY <2>1, <2>2 DEF Walked
  <2>4. QED BY <2>3, ScheduledIs DEF Held
<1>7. Unstranded' BY DEF Walked, Unstranded
<1>8. QED BY <1>1, <1>2, <1>3, <1>4, <1>5, <1>6, <1>7 DEF IInv, Walked

LEMMA WaitOK ==
  ASSUME IInv, \/ analysis_worker \/ wait_for_work \/ fall_asleep
               \/ SpuriousWakeup \/ collect \/ reset_cancel_flag
  PROVE  IInv'
<1>1. /\ WorkerOK /\ pending \subseteq Uri /\ force \subseteq Uri
      /\ cancel_flag \in BOOLEAN /\ mutex \in BOOLEAN
      /\ published \in [Uri -> Text \cup {Error}]
  BY DEF IInv, SharedOK
<1>2. CASE analysis_worker
  <2>1. WorkerOK'
    BY <1>1, <1>2 DEF analysis_worker, WorkerOK, WorkerPcs, InHand, AtRest
  <2>2. Held' = Held BY <1>2 DEF analysis_worker, Held, InHand
  <2>3. QED BY <1>1, <1>2, <2>1, <2>2, WalkedOK DEF analysis_worker, Walked, store, main
<1>3. CASE wait_for_work
  <2>1. WorkerOK'
    BY <1>1, <1>3 DEF wait_for_work, WorkerOK, WorkerPcs, InHand, AtRest
  <2>2. Held' = Held BY <1>3 DEF wait_for_work, Held, InHand
  <2>3. QED BY <1>1, <1>3, <2>1, <2>2, WalkedOK DEF wait_for_work, Walked, store, main
<1>4. CASE fall_asleep
  <2>1. WorkerOK'
    BY <1>1, <1>4 DEF fall_asleep, WorkerOK, WorkerPcs, InHand, AtRest
  <2>2. Held' = Held BY <1>4 DEF fall_asleep, Held, InHand
  <2>3. pending = {} BY <1>1, <1>4 DEF fall_asleep, WorkerOK
  <2>4. QED BY <1>1, <1>4, <2>1, <2>2, <2>3, WalkedOK DEF fall_asleep, Walked, store, main
<1>5. CASE SpuriousWakeup
  <2>1. WorkerOK'
    BY <1>1, <1>5 DEF SpuriousWakeup, WorkerOK, WorkerPcs, InHand, AtRest
  <2>2. Held' = Held BY <1>5 DEF SpuriousWakeup, Held, InHand
  <2>3. QED BY <1>1, <1>5, <2>1, <2>2, WalkedOK DEF SpuriousWakeup, Walked, store, main
<1>6. CASE collect
  <2>1. WorkerOK'
    BY <1>1, <1>6 DEF collect, WorkerOK, WorkerPcs, InHand, AtRest
  <2>2. Held' = Held BY <1>1, <1>6 DEF collect, Held, InHand, WorkerOK, AtRest
  <2>3. QED BY <1>1, <1>6, <2>1, <2>2, WalkedOK DEF collect, Walked, store, main
<1>7. CASE reset_cancel_flag
  <2>1. WorkerOK'
    BY <1>1, <1>7 DEF reset_cancel_flag, WorkerOK, WorkerPcs, InHand, AtRest
  <2>2. Held' = Held BY <1>7 DEF reset_cancel_flag, Held, InHand
  <2>3. QED BY <1>1, <1>7, <2>1, <2>2, WalkedOK DEF reset_cancel_flag, Walked, store, main
<1>8. QED BY <1>2, <1>3, <1>4, <1>5, <1>6, <1>7

LEMMA FlightTypes ==
  /\ Idle \in Flights
  /\ \A u \in Uri : [Idle EXCEPT !.uri = u] \in Flights /\ [Idle EXCEPT !.uri = u].uri = u
  /\ \A f \in Flights :
       /\ f.text \in Text /\ f.inc \in [Uri -> Text]
       /\ \A text \in Text : /\ [f EXCEPT !.text = text] \in Flights
                             /\ [f EXCEPT !.text = text].uri = f.uri
       /\ \A inc \in [Uri -> Text] : /\ [f EXCEPT !.inc = inc] \in Flights
                                     /\ [f EXCEPT !.inc = inc].uri = f.uri
       /\ \A u \in Uri \cup {None} : /\ [f EXCEPT !.out = u] \in Flights
                                     /\ [f EXCEPT !.out = u].uri = f.uri
                                     /\ [f EXCEPT !.out = u].out = u
BY DEF Flights, Idle, NoIncludes, Text

LEMMA LookOK ==
  ASSUME IInv, next_uri \/ snapshot \/ analyze
  PROVE  IInv'
<1>1. /\ WorkerOK /\ pending \subseteq Uri /\ force \subseteq Uri
      /\ cancel_flag \in BOOLEAN /\ mutex \in BOOLEAN
      /\ published \in [Uri -> Text \cup {Error}]
      /\ docs \in [Uri -> DocStates] /\ disk \in [Uri -> Text]
  BY DEF IInv, SharedOK, DocsOK
<1>2. CASE next_uri
  <2>1. CASE wpc' = "loop" /\ rest' = {} /\ cur' = cur
    <3>1. WorkerOK'
      BY <1>1, <1>2, <2>1 DEF next_uri, WorkerOK, WorkerPcs, InHand, AtRest
    <3>2. pending' \subseteq Uri BY <1>1, <1>2 DEF next_uri, WorkerOK
    <3>3. running => Held \subseteq Held'
      BY <1>1, <1>2, <2>1 DEF next_uri, Held, InHand, WorkerOK
    <3>4. QED BY <1>1, <1>2, <2>1, <3>1, <3>2, <3>3, WalkedOK
      DEF next_uri, Walked, store, main
  <2>2. ASSUME NEW u \in rest, wpc' = "snapshot", rest' = rest \ {u},
               cur' = [Idle EXCEPT !.uri = u], pending' = pending
        PROVE  IInv'
    <3>1. u \in Uri BY <1>1 DEF WorkerOK
    <3>2. cur' \in Flights /\ cur'.uri = u BY <2>2, <3>1, FlightTypes
    <3>3. WorkerOK'
      BY <1>1, <1>2, <2>2, <3>1, <3>2
      DEF next_uri, WorkerOK, WorkerPcs, InHand, AtRest
    <3>4. Held \subseteq Held' BY <1>2, <2>2, <3>2 DEF next_uri, Held, InHand
    <3>5. QED BY <1>1, <1>2, <2>2, <3>3, <3>4, WalkedOK DEF next_uri, Walked, store, main
  <2>3. QED BY <1>2, <2>1, <2>2 DEF next_uri
<1>3. CASE snapshot
  <2>1. PICK u \in Uri : u = cur.uri BY <1>1, <1>3 DEF snapshot, WorkerOK, InHand
  <2>2. docs[u].content \in Text BY <1>1 DEF DocStates
  <2>3. CASE Settled(u) /\ wpc' = "next" /\ cur' = Idle
    <3>1. WorkerOK'
      BY <1>1, <1>3, <2>3, FlightTypes DEF snapshot, WorkerOK, WorkerPcs, InHand, AtRest
    <3>2. \A v \in Held : v \in Held' \/ Settled(v)
      BY <1>3, <2>1, <2>3 DEF snapshot, Held, InHand
    <3>3. QED BY <1>1, <1>3, <2>3, <3>1, <3>2, WalkedOK DEF snapshot, Walked, store, main
  <2>4. CASE wpc' = "analyze" /\ cur' = [cur EXCEPT !.text = docs[u].content]
    <3>1. cur' \in Flights /\ cur'.uri = u
      BY <1>1, <2>1, <2>2, <2>4, FlightTypes DEF WorkerOK
    <3>2. WorkerOK'
      BY <1>1, <1>3, <2>4, <3>1 DEF snapshot, WorkerOK, WorkerPcs, InHand, AtRest
    <3>3. \A v \in Held : v \in Held'
      BY <1>3, <2>1, <2>4, <3>1 DEF snapshot, Held, InHand
    <3>4. QED BY <1>1, <1>3, <2>4, <3>2, <3>3, WalkedOK DEF snapshot, Walked, store, main
  <2>5. QED BY <1>3, <2>1, <2>3, <2>4 DEF snapshot, Settled
<1>4. CASE analyze
  <2>1. cur.uri \in Uri /\ cur \in Flights BY <1>1, <1>4 DEF analyze, WorkerOK, InHand
  <2>2. PICK inc \in [Uri -> Text] :
          inc = [f \in Uri |-> IF f \in Includes[cur.uri] THEN disk[f] ELSE None]
    BY <1>1 DEF Text
  <2>3. cur' \in Flights /\ cur'.uri = cur.uri
    <3>1. cur' = [cur EXCEPT !.inc = inc] \/ cur' = cur BY <1>4, <2>2 DEF analyze
    <3>2. [cur EXCEPT !.inc = inc] \in Flights /\ [cur EXCEPT !.inc = inc].uri = cur.uri
      BY <2>1 DEF Flights
    <3>3. QED BY <2>1, <3>1, <3>2
  <2>4. WorkerOK'
    BY <1>1, <1>4, <2>1, <2>3 DEF analyze, WorkerOK, WorkerPcs, InHand, AtRest
  <2>5. Held' = Held BY <1>4, <2>3 DEF analyze, Held, InHand
  <2>6. QED BY <1>1, <1>4, <2>4, <2>5, WalkedOK DEF analyze, Walked, store, main
<1>5. QED BY <1>2, <1>3, <1>4

LEMMA FinishOK ==
  ASSUME IInv, \/ reschedule_cancelled \/ publish_error_diagnostic
               \/ publish_committed_diagnostics \/ send_diagnostics
  PROVE  IInv'
<1>1. /\ WorkerOK /\ pending \subseteq Uri /\ force \subseteq Uri
      /\ cancel_flag \in BOOLEAN /\ mutex \in BOOLEAN
      /\ published \in [Uri -> Text \cup {Error}]
  BY DEF IInv, SharedOK
<1>2. CASE reschedule_cancelled
  <2>1. cur.uri \in Uri BY <1>1, <1>2 DEF reschedule_cancelled, WorkerOK, InHand
  <2>2. WorkerOK'
    BY <1>1, <1>2, FlightTypes
    DEF reschedule_cancelled, WorkerOK, WorkerPcs, InHand, AtRest
  <2>3. Held \subseteq Held' BY <1>2 DEF reschedule_cancelled, Held, InHand
  <2>4. QED BY <1>1, <1>2, <2>1, <2>2, <2>3, WalkedOK
    DEF reschedule_cancelled, Walked, store, main
<1>3. CASE publish_error_diagnostic
  <2>1. cur.uri \in Uri BY <1>1, <1>3 DEF publish_error_diagnostic, WorkerOK, InHand
  <2>2. WorkerOK'
    BY <1>1, <1>3, <2>1, FlightTypes
    DEF publish_error_diagnostic, WorkerOK, WorkerPcs, InHand, AtRest
  <2>3. Held \subseteq Held' BY <1>3 DEF publish_error_diagnostic, Held, InHand
  <2>4. published' \in [Uri -> Text \cup {Error}]
    BY <1>1, <1>3 DEF publish_error_diagnostic
  <2>5. QED BY <1>1, <1>3, <2>2, <2>3, <2>4, WalkedOK
    DEF publish_error_diagnostic, Walked, store, main
<1>4. CASE publish_committed_diagnostics
  <2>1. cur.uri \in Uri /\ cur \in Flights
    BY <1>1, <1>4 DEF publish_committed_diagnostics, WorkerOK, InHand
  <2>2. force' \subseteq Uri BY <1>1, <1>4 DEF publish_committed_diagnostics
  <2>3. Held \subseteq Held' BY <1>4 DEF publish_committed_diagnostics, Held, InHand
  <2>4. CASE wpc' = "next" /\ cur' = Idle /\ to_publish' = to_publish
    <3>1. WorkerOK'
      BY <1>1, <1>4, <2>4, FlightTypes
      DEF publish_committed_diagnostics, WorkerOK, WorkerPcs, InHand, AtRest
    <3>2. QED BY <1>1, <1>4, <2>2, <2>3, <2>4, <3>1, WalkedOK
      DEF publish_committed_diagnostics, Walked, store, main
  <2>5. ASSUME NEW u \in to_publish, to_publish' = to_publish \ {u},
               \/ wpc' = wpc /\ cur' = cur
               \/ wpc' = "send" /\ cur' = [cur EXCEPT !.out = u]
        PROVE  IInv'
    <3>1. u \in Uri /\ wpc = "publish"
      BY <1>1, <1>4 DEF publish_committed_diagnostics, WorkerOK
    <3>2. cur' \in Flights /\ cur'.uri = cur.uri /\ (wpc' = "send" => cur'.out = u)
      <4>1. /\ [cur EXCEPT !.out = u] \in Flights
            /\ [cur EXCEPT !.out = u].uri = cur.uri /\ [cur EXCEPT !.out = u].out = u
        BY <2>1, <3>1 DEF Flights
      <4>2. QED BY <2>1, <2>5, <3>1, <4>1
    <3>3. WorkerOK'
      BY <1>1, <1>4, <2>1, <2>5, <3>1, <3>2
      DEF publish_committed_diagnostics, WorkerOK, WorkerPcs, InHand, AtRest
    <3>4. wpc' # "sleep" BY <2>5, <3>1
    <3>5. QED BY <1>1, <1>4, <2>2, <2>3, <3>3, <3>4, WalkedOK
      DEF publish_committed_diagnostics, Walked, store, main
  <2>6. QED BY <1>4, <2>4, <2>5 DEF publish_committed_diagnostics
<1>5. CASE send_diagnostics
  <2>1. cur.uri \in Uri /\ cur.out \in Uri /\ cur \in Flights
    BY <1>1, <1>5 DEF send_diagnostics, WorkerOK
  <2>2. cur.text \in Text /\ cur.inc[cur.out] \in Text BY <2>1, FlightTypes
  <2>3. published' \in [Uri -> Text \cup {Error}]
    BY <1>1, <1>5, <2>2 DEF send_diagnostics
  <2>4. cur' \in Flights /\ cur'.uri = cur.uri
    BY <1>5, <2>1, FlightTypes DEF send_diagnostics
  <2>5. WorkerOK'
    BY <1>1, <1>5, <2>1, <2>4 DEF send_diagnostics, WorkerOK, WorkerPcs, InHand, AtRest
  <2>6. Held \subseteq Held' BY <1>5 DEF send_diagnostics, Held, InHand
  <2>7. QED BY <1>1, <1>5, <2>3, <2>5, <2>6, WalkedOK
    DEF send_diagnostics, Walked, store, main
<1>6. QED BY <1>2, <1>3, <1>4, <1>5

-----------------------------------------------------------------------------
(* The commit: the hash set is that of the result put into the cache, and  *)
(* what is evicted for it belongs to no document of the store.             *)
Committed(u, filled, E) ==
  /\ docs' = [docs EXCEPT ![u].hash = cur.text]
  /\ dependents' = [f \in Uri |-> IF f \in Includes[u]
                      THEN dependents[f] \cup {u} ELSE dependents[f]]
  /\ cache' = [v \in Uri |-> IF v \in E THEN None ELSE filled[v]]
  /\ included' = [v \in Uri |-> IF v \in E THEN NoIncludes
                    ELSE IF v = u THEN cur.inc ELSE included[v]]
  /\ wpc' = "publish"
  /\ to_publish' = {u} \cup {f \in Includes[u] : cur.inc[f] \in Faulty}
  /\ UNCHANGED <<pending, cur>>

LEMMA CommitOK ==
  ASSUME IInv, commit_to_cache
  PROVE  IInv'
<1>1. /\ DocsOK /\ StoresOK /\ SharedOK /\ WorkerOK /\ wpc = "commit"
      /\ UNCHANGED <<force, cancel_flag, running, mutex, batch, rest, published,
                     failed, todo, disk, messages>>
  BY DEF IInv, commit_to_cache, main
<1>2. PICK u \in Uri : u = cur.uri BY <1>1 DEF WorkerOK, InHand
<1>3. cur \in Flights /\ cur.text \in Text /\ cur.inc \in [Uri -> Text]
  BY <1>1, FlightTypes DEF WorkerOK
<1>4. ASSUME wpc' = "next", cur' = Idle, UNCHANGED <<store, to_publish>>,
             \/ pending' = pending /\ ~docs[u].tracked
             \/ pending' = pending \cup {u}
      PROVE  IInv'
  <2>1. WorkerOK'
    BY <1>1, <1>4, FlightTypes DEF WorkerOK, WorkerPcs, InHand, AtRest
  <2>2. \A v \in Held : v \in Held' \/ Settled(v)
    BY <1>1, <1>2, <1>4 DEF Held, InHand, Settled
  <2>3. pending' \subseteq Uri BY <1>1, <1>4 DEF SharedOK
  <2>4. QED BY <1>1, <1>4, <2>1, <2>2, <2>3, WalkedOK DEF Walked, store, SharedOK
<1>5. ASSUME docs[u].tracked, docs[u].content = cur.text,
             NEW filled, filled = [cache EXCEPT ![u] = cur.text],
             NEW E, E \in evict_stale_cache_entries(filled),
             Committed(u, filled, E)
      PROVE  IInv'
  <2>0. /\ docs[u].content = cur.text /\ docs[u].tracked
        /\ filled = [cache EXCEPT ![u] = cur.text]
        /\ E \in evict_stale_cache_entries(filled)
        /\ docs' = [docs EXCEPT ![u].hash = cur.text]
        /\ dependents' = [f \in Uri |-> IF f \in Includes[u]
                            THEN dependents[f] \cup {u} ELSE dependents[f]]
        /\ cache' = [v \in Uri |-> IF v \in E THEN None ELSE filled[v]]
        /\ included' = [v \in Uri |-> IF v \in E THEN NoIncludes
                          ELSE IF v = u THEN cur.inc ELSE included[v]]
        /\ wpc' = "publish"
        /\ to_publish' = {u} \cup {f \in Includes[u] : cur.inc[f] \in Faulty}
        /\ UNCHANGED <<pending, cur>>
    BY <1>5 DEF Committed
  <2>1. PICK n : n = [docs[u] EXCEPT !.hash = cur.text] OBVIOUS
  <2>2. docs[u] \in DocStates /\ docs \in [Uri -> DocStates] BY <1>1 DEF DocsOK
  <2>3. /\ n \in DocStates /\ n.tracked /\ n.hash = cur.text /\ n.content = cur.text
    BY <1>3, <2>0, <2>1, <2>2 DEF DocStates
  <2>4. docs' = [docs EXCEPT ![u] = n] BY <2>0, <2>1, <2>2
  <2>5. /\ docs' \in [Uri -> DocStates] /\ docs'[u] = n
        /\ \A v \in Uri \ {u} : docs'[v] = docs[v]
    BY <2>2, <2>3, <2>4
  <2>6. DocsOK' BY <1>1, <2>3, <2>5 DEF DocsOK
  <2>7. filled \in [Uri -> Text] /\ filled[u] = cur.text
        /\ \A v \in Uri \ {u} : filled[v] = cache[v]
    BY <1>1, <1>3, <2>0 DEF StoresOK
  <2>8. \A v \in E : v \in Uri /\ ~docs[v].tracked
    BY <2>0 DEF evict_stale_cache_entries
  <2>9. StoresOK'
    <3>1. cache' \in [Uri -> Text] BY <2>0, <2>7 DEF Text
    <3>2. NoIncludes \in [Uri -> Text] BY DEF NoIncludes, Text
    <3>3. included' \in [Uri -> [Uri -> Text]] BY <1>1, <1>3, <2>0, <3>2 DEF StoresOK
    <3>4. dependents' \in [Uri -> SUBSET Uri] BY <1>1, <2>0 DEF StoresOK
    <3>5. QED BY <3>1, <3>3, <3>4 DEF StoresOK
  <2>10. SharedOK' BY <1>1, <2>0 DEF SharedOK
  <2>11. WorkerOK'
    <3>1. to_publish' \subseteq Uri BY <2>0, PipelineAssumption
    <3>2. QED BY <1>1, <1>2, <2>0, <3>1 DEF WorkerOK, WorkerPcs, InHand, AtRest
  <2>12. SkippedIsCached'
    <3> SUFFICES ASSUME NEW v \in Uri, docs'[v].hash # None
                 PROVE  cache'[v] = docs'[v].hash
      BY DEF SkippedIsCached
    <3>1. CASE v = u BY <2>0, <2>3, <2>5, <2>7, <2>8, <3>1
    <3>2. CASE v # u
      <4>1. docs[v].hash # None /\ docs'[v] = docs[v] BY <2>5, <3>2
      <4>2. docs[v].tracked BY <1>1, <4>1 DEF DocsOK, Untracked
      <4>3. cache'[v] = cache[v] BY <2>0, <2>7, <2>8, <3>2, <4>2
      <4>4. QED BY <4>1, <4>3 DEF IInv, SkippedIsCached
    <3>3. QED BY <3>1, <3>2
  <2>13. NoLostEdit'
    <3> SUFFICES ASSUME running', NEW v \in Uri, docs'[v].tracked,
                        docs'[v].hash # docs'[v].content
                 PROVE  v \in Scheduled' \/ v \in failed'
      BY DEF NoLostEdit
    <3>1. v # u BY <2>3, <2>5
    <3>2. docs'[v] = docs[v] BY <2>5, <3>1
    <3>3. v \in Scheduled \/ v \in failed BY <1>1, <3>2 DEF IInv, NoLostEdit
    <3>4. QED BY <1>1, <1>2, <2>0, <3>1, <3>3, ScheduledIs DEF InHand
  <2>14. Unstranded' BY <2>0 DEF Unstranded
  <2>15. TodoOK(todo)' BY <1>1 DEF IInv
  <2>16. QED BY <2>6, <2>9, <2>10, <2>11, <2>12, <2>13, <2>14, <2>15 DEF IInv
<1>6. CASE ~docs[u].tracked \/ docs[u].content # cur.text
  BY <1>2, <1>4, <1>6 DEF commit_to_cache
<1>7. CASE docs[u].tracked /\ docs[u].content = cur.text
  <2>1. PICK E \in evict_stale_cache_entries([cache EXCEPT ![cur.uri] = cur.text]) :
          Committed(cur.uri, [cache EXCEPT ![cur.uri] = cur.text], E)
    <3>1. docs[cur.uri].tracked /\ docs[cur.uri].content = cur.text BY <1>2, <1>7
    <3>2. QED BY <3>1 DEF commit_to_cache, Committed
  <2>2. PICK filled : filled = [cache EXCEPT ![cur.uri] = cur.text] OBVIOUS
  <2>3. filled = [cache EXCEPT ![u] = cur.text] BY <1>2, <2>2
  <2>4. E \in evict_stale_cache_entries(filled) /\ Committed(u, filled, E)
    BY <1>2, <2>1, <2>2
  <2>5. QED BY <1>5, <1>7, <2>3, <2>4
<1>8. QED BY <1>6, <1>7

-----------------------------------------------------------------------------
LEMMA Initially == ASSUME Init PROVE IInv
<1>1. DocsOK BY DEF Init, DocsOK, DocStates, Untracked, Text
<1>2. StoresOK BY DEF Init, StoresOK, NoIncludes, Text
<1>3. SharedOK
  <2>1. Content \subseteq Text /\ None \in Text BY DEF Text
  <2>2. disk \in [Uri -> Text] BY <2>1 DEF Init
  <2>3. published \in [Uri -> Text \cup {Error}] BY <2>1 DEF Init
  <2>4. messages \in 0 .. MaxMessages BY PipelineAssumption DEF Init
  <2>5. QED BY <2>2, <2>3, <2>4 DEF Init, SharedOK
<1>4. TodoOK(todo) BY TodoEmpty DEF Init
<1>5. WorkerOK BY FlightTypes DEF Init, WorkerOK, WorkerPcs, InHand, AtRest
<1>6. SkippedIsCached BY DEF Init, SkippedIsCached, Untracked
<1>7. NoLostEdit BY DEF Init, NoLostEdit, Untracked
<1>8. Unstranded BY DEF Init, Unstranded
<1>9. QED BY <1>1, <1>2, <1>3, <1>4, <1>5, <1>6, <1>7, <1>8 DEF IInv

LEMMA Invariance == Spec => []IInv
<1>1. Init => IInv BY Initially
<1>2. IInv /\ [Next]_vars => IInv'
  <2> SUFFICES ASSUME IInv, [Next]_vars PROVE IInv' OBVIOUS
  <2>1. CASE Message \/ run_ends BY <2>1, MessageOK
  <2>2. CASE MainStep BY <2>2, MainStepOK
  <2>3. CASE WorkerStep \/ SpuriousWakeup
    BY <2>3, WaitOK, LookOK, FinishOK, CommitOK DEF WorkerStep
  <2>4. CASE UNCHANGED vars
    <3>1. DocsOK' BY <2>4 DEF IInv, DocsOK, vars, store
    <3>2. StoresOK' BY <2>4 DEF IInv, StoresOK, vars, store
    <3>3. SharedOK' BY <2>4 DEF IInv, SharedOK, vars
    <3>4. TodoOK(todo)' BY <2>4 DEF IInv, vars
    <3>5. WorkerOK' BY <2>4 DEF IInv, WorkerOK, vars, worker
    <3>6. SkippedIsCached' BY <2>4 DEF IInv, SkippedIsCached, vars, store
    <3>7. NoLostEdit'
      BY <2>4, ScheduledIs DEF IInv, NoLostEdit, vars, store, worker
    <3>8. Unstranded' BY <2>4 DEF IInv, Unstranded, vars, worker
    <3>9. QED BY <3>1, <3>2, <3>3, <3>4, <3>5, <3>6, <3>7, <3>8 DEF IInv
  <2>5. QED BY <2>1, <2>2, <2>3, <2>4 DEF Next
<1>3. QED BY <1>1, <1>2, PTL DEF Spec

(* analyze_single_uri never skips a document whose cached result is        *)
(* missing or of another text, whatever was closed, reloaded or evicted    *)
(* meanwhile, for any documents and any cache size.                        *)
THEOREM SkippedCached == Spec => []SkippedIsCached
<1>1. IInv => SkippedIsCached BY DEF IInv
<1>2. QED BY <1>1, Invariance, PTL

(* Every edit is scheduled, in the worker's hands or failed, and a worker  *)
(* that waits on analysis_cv_ with work pending is about to be signalled,  *)
(* for any documents, includes and messages.                               *)
THEOREM EditsKept == Spec => []EditsAccounted
<1>1. IInv => TypeOK
  <2> SUFFICES ASSUME IInv PROVE TypeOK OBVIOUS
  <2>1. todo \in Seq(Step)
    <3>1. Steps \subseteq Step BY DEF Steps
    <3>2. todo \in Seq(Steps) BY DEF IInv, TodoOK
    <3>3. QED BY <3>1, <3>2, SeqDef
  <2>2. QED
    BY <2>1 DEF IInv, DocsOK, StoresOK, SharedOK, WorkerOK, DocStates, Flights, TypeOK
<1>2. IInv => NoLostEdit /\ WorkerNotStranded
  BY DEF IInv, Unstranded, Signals, WorkerNotStranded
<1>3. QED BY <1>1, <1>2, Invariance, PTL DEF EditsAccounted
=============================================================================
