------------------------- MODULE KeyValueStoreProofs -------------------------
(***************************************************************************)
(* What the file behind KeyValueStore promises for any number of clients,  *)
(* keys and values and any limits: the directory is sound at every moment, *)
(* and every operation is one atomic step on the file.                     *)
(***************************************************************************)
EXTENDS KeyValueStore, Integers, FiniteSetTheorems, TLAPS

(* A set that gains a member counts one more.                              *)
LEMMA CountAdd ==
  ASSUME NEW S, NEW R, NEW x, IsFiniteSet(S), x \notin S, R = S \cup {x}
  PROVE  IsFiniteSet(R) /\ Cardinality(R) = Cardinality(S) + 1
         /\ Cardinality(S) \in Nat
BY FS_AddElement, FS_CardinalityType

(* A set that loses a member counts one less.                              *)
LEMMA CountRemove ==
  ASSUME NEW S, NEW R, NEW x, IsFiniteSet(S), x \in S, R = S \ {x}
  PROVE  IsFiniteSet(R) /\ Cardinality(R) = Cardinality(S) - 1
         /\ Cardinality(S) \in Nat
BY FS_RemoveElement, FS_CardinalityType

(* A subset counts no more than its set.                                   *)
LEMMA CountSubset ==
  ASSUME NEW S, NEW R, IsFiniteSet(S), R \subseteq S
  PROVE  IsFiniteSet(R) /\ Cardinality(R) <= Cardinality(S)
         /\ Cardinality(R) \in Nat /\ Cardinality(S) \in Nat
BY FS_Subset, FS_CardinalityType

(* A writer that has made its temporary file and not yet renamed it.       *)
Active == Writing \ {"create"}

(* The operation a client is in, against the place it is at.               *)
CallsOK ==
  \A c \in Client :
    /\ pc[c] = "idle" <=> op[c] = "none"
    /\ pc[c] \in {"exists", "read"} <=> op[c] \in Loads
    /\ op[c] = "commit" => intx[c]
    /\ intx[c] => store[c].open

(* Every writer has a temporary file of its own, which nobody has given up *)
(* and which, once it was flushed, is the whole store of the writer.       *)
TempsOK ==
  /\ \A c \in Client :
       /\ pc[c] \notin Active => temp[c] = 0
       /\ pc[c] \in Active => temp[c] \in DOMAIN temps \ orphans
       /\ pc[c] \in {"close", "rename"} =>
            temps[temp[c]] = [data |-> store[c].entries, whole |-> TRUE]
  /\ \A c, d \in Client :
       c # d /\ pc[c] \in Active /\ pc[d] \in Active => temp[c] # temp[d]

(* A store a transaction may fall back to is within the limit.             *)
OrigOK == \A c \in Client : Cardinality(Keys(orig[c].entries)) <= MaxEntries

FileOK == ~file.present => file = Absent

Creating == {c \in Client : pc[c] = "create"}

(* A name is taken by a call: the counter runs ahead of none.              *)
CounterOK == Cardinality(Creating) + counter <= calls

(* The inductive invariant.                                                *)
IInv ==
  /\ TypeOK /\ TargetWhole
  /\ CallsOK /\ TempsOK /\ OrigOK /\ FileOK /\ CounterOK /\ TempsAccounted

-----------------------------------------------------------------------------
(* The keys of a store are finitely many, and those of the empty one none. *)
LEMMA KeysFinite ==
  ASSUME NEW d
  PROVE  IsFiniteSet(Keys(d)) /\ Cardinality(Keys(d)) \in Nat
BY KeyAssumption, FS_Subset, FS_CardinalityType DEF Keys

LEMMA KeysOfEmpty ==
  Empty \in Entries /\ Cardinality(Keys(Empty)) <= MaxEntries
<1>1. Keys(Empty) = {} BY DEF Keys, Empty
<1>2. QED BY <1>1, FS_EmptySet, LimitAssumption DEF Empty, Entries

(* How many clients are about to take a name.                              *)
LEMMA CreatingFinite ==
  IsFiniteSet(Creating) /\ Cardinality(Creating) \in Nat
BY ClientAssumption, FS_Subset, FS_CardinalityType DEF Creating

(* Init.                                                                   *)
LEMMA InitInvariant == Init => IInv
<1> SUFFICES ASSUME Init PROVE IInv OBVIOUS
<1>. USE DEF Init
<1>1. Empty \in Entries /\ Closed.entries = Empty
  BY KeysOfEmpty DEF Closed
<1>2. TypeOK
  <2>1. file \in [present : BOOLEAN, data : Entries, whole : BOOLEAN, damaged : BOOLEAN]
    <3>1. CASE file = Absent BY <1>1, <3>1 DEF Absent
    <3>2. CASE file # Absent BY <3>2
    <3>3. QED BY <3>1, <3>2
  <2>2. temps = <<>> /\ DOMAIN temps = {} OBVIOUS
  <2>3. store = [c \in Client |-> Closed]
        /\ store \in [Client -> [open : BOOLEAN, ro : BOOLEAN, entries : Entries]]
    BY <1>1 DEF Closed
  <2>4. QED
    BY <1>1, <2>1, <2>2, <2>3, KeysOfEmpty, LimitAssumption DEF TypeOK, Name
<1>3. CallsOK BY DEF CallsOK, Loads
<1>4. TempsOK BY DEF TempsOK, Active, Writing
<1>5. OrigOK BY <1>1, KeysOfEmpty DEF OrigOK
<1>6. FileOK /\ TargetWhole
  <2>1. CASE file = Absent BY <2>1 DEF FileOK, TargetWhole, Absent
  <2>2. CASE file # Absent BY <2>2 DEF FileOK, TargetWhole
  <2>3. QED BY <2>1, <2>2
<1>7. CounterOK
  <2>1. Creating = {} BY DEF Creating
  <2>2. QED BY <2>1, FS_EmptySet DEF CounterOK
<1>8. TempsAccounted BY DEF TempsAccounted
<1>9. QED BY <1>2, <1>3, <1>4, <1>5, <1>6, <1>7, <1>8 DEF IInv

(* open, open_read_only, reload, save and commit begin.                    *)
LEMMA CallStep ==
  ASSUME IInv, NEW c \in Client, NEW o \in Loads \cup Writes, Call(c, o),
         o = "commit" => intx[c]
  PROVE  IInv'
<1>. USE DEF Call
<1>1. TypeOK' BY LimitAssumption DEF IInv, TypeOK, Loads, Writes, Writing
<1>2. CallsOK' BY DEF IInv, TypeOK, CallsOK, Loads, Writes
<1>3. TempsOK' BY DEF IInv, TypeOK, TempsOK, Active, Writing
<1>4. OrigOK' /\ FileOK' /\ TargetWhole'
  BY DEF IInv, OrigOK, FileOK, TargetWhole, Absent
<1>5. CounterOK'
  <2>1. \/ Creating' = Creating
        \/ Creating' = Creating \cup {c} /\ c \notin Creating
    BY DEF IInv, TypeOK, Creating
  <2>2. Cardinality(Creating') <= Cardinality(Creating) + 1
    BY <2>1, CreatingFinite, CountAdd
  <2>3. Cardinality(Creating') \in Nat
    BY <2>1, CreatingFinite, CountAdd
  <2>4. QED
    BY <2>2, <2>3, CreatingFinite DEF IInv, TypeOK, CounterOK, Name
<1>6. TempsAccounted' BY DEF IInv, TypeOK, TempsAccounted, Writing
<1>7. QED BY <1>1, <1>2, <1>3, <1>4, <1>5, <1>6 DEF IInv

(* A fault is counted.                                                     *)
LEMMA FaultCounted ==
  ASSUME TypeOK, Fault \/ UNCHANGED faults
  PROVE  faults' \in 0 .. MaxFaults
BY LimitAssumption DEF TypeOK, Fault

(* Return: the transaction ends with the call that commits it, and only     *)
(* with that one.                                                          *)
LEMMA ReturnEffect ==
  ASSUME TypeOK, NEW c \in Client, Return(c)
  PROVE  /\ op[c] # "commit" => UNCHANGED <<orig, intx>>
         /\ op[c] = "commit" =>
              /\ orig' = [orig EXCEPT ![c] = Closed]
              /\ intx' = [intx EXCEPT ![c] = FALSE]
         /\ pc' = [pc EXCEPT ![c] = "idle"]
         /\ op' = [op EXCEPT ![c] = "none"]
         /\ temp' = [temp EXCEPT ![c] = 0]
<1>. USE DEF Return
<1>1. CASE op[c] = "commit"
  <2>1. (intx[c] /\ op[c] # "commit") = FALSE BY <1>1
  <2>2. QED BY <1>1, <2>1
<1>2. CASE op[c] # "commit"
  <2>1. (intx[c] /\ op[c] # "commit") = intx[c] BY <1>2 DEF TypeOK
  <2>2. intx' = [intx EXCEPT ![c] = intx[c]] BY <2>1, Zenon
  <2>3. intx' = intx BY <2>2 DEF TypeOK
  <2>4. orig' = orig BY <1>2 DEF TypeOK
  <2>5. QED BY <1>2, <2>3, <2>4
<1>3. QED BY <1>1, <1>2

(* exists, read_store: the load goes on, or ends with a store within the   *)
(* limits or with none.                                                    *)
LEMMA LoadStep ==
  ASSUME IInv, NEW c \in Client, pc[c] \in {"exists", "read"},
         Fault \/ UNCHANGED faults,
         UNCHANGED <<file, temps, counter, orphans, calls>>,
         \/ pc' = [pc EXCEPT ![c] = "read"] /\ UNCHANGED <<op, store, orig, intx, temp>>
         \/ ReturnFailure(c)
         \/ \E d \in Entries : Cardinality(Keys(d)) <= MaxEntries /\ Loaded(c, d)
  PROVE  IInv'
<1>1. faults' \in 0 .. MaxFaults BY FaultCounted DEF IInv
<1>2. op[c] \in Loads /\ op[c] # "commit" BY DEF IInv, CallsOK, Loads
<1>3. \/ Return(c)
      \/ UNCHANGED <<op, store, orig, intx, temp>> /\ pc' = [pc EXCEPT ![c] = "read"]
  BY DEF ReturnFailure, Loaded
<1>4. UNCHANGED <<orig, intx>>
  BY <1>2, <1>3, ReturnEffect DEF IInv
<1>5. UNCHANGED temp
  <2>1. temp[c] = 0 BY DEF IInv, TempsOK, Active, Writing
  <2>2. temp' = temp \/ temp' = [temp EXCEPT ![c] = 0]
    BY <1>3, ReturnEffect DEF IInv
  <2>3. QED BY <2>1, <2>2 DEF IInv, TypeOK
<1>6. \/ pc' = [pc EXCEPT ![c] = "read"] /\ op' = op
      \/ pc' = [pc EXCEPT ![c] = "idle"] /\ op' = [op EXCEPT ![c] = "none"]
  BY <1>3, ReturnEffect DEF IInv
<1>7. \/ UNCHANGED store
      \/ \E d \in Entries, r \in BOOLEAN :
           /\ Cardinality(Keys(d)) <= MaxEntries
           /\ store' = [store EXCEPT ![c] = [open |-> TRUE, ro |-> r, entries |-> d]]
  <2>1. CASE ReturnFailure(c) BY <1>2, <2>1 DEF IInv, TypeOK, ReturnFailure
  <2>2. ASSUME NEW d \in Entries, Cardinality(Keys(d)) <= MaxEntries, Loaded(c, d)
        PROVE  \E r \in BOOLEAN :
                 store' = [store EXCEPT ![c] = [open |-> TRUE, ro |-> r, entries |-> d]]
    <3>1. CASE op[c] = "reload"
      <4>1. store[c].ro \in BOOLEAN BY DEF IInv, TypeOK
      <4>2. QED BY <2>2, <3>1, <4>1 DEF Loaded
    <3>2. CASE op[c] # "reload"
      BY <2>2, <3>2 DEF Loaded
    <3>3. QED BY <3>1, <3>2
  <2>3. QED BY <2>1, <2>2
<1>8. TypeOK'
  <2>1. store' \in [Client -> [open : BOOLEAN, ro : BOOLEAN, entries : Entries]]
    <3>1. ASSUME NEW d \in Entries, NEW r \in BOOLEAN,
                 store' = [store EXCEPT ![c] = [open |-> TRUE, ro |-> r, entries |-> d]]
          PROVE  store' \in [Client -> [open : BOOLEAN, ro : BOOLEAN, entries : Entries]]
      BY <3>1 DEF IInv, TypeOK
    <3>2. QED BY <1>7, <3>1 DEF IInv, TypeOK
  <2>2. \A d \in Client : Cardinality(Keys(store'[d].entries)) <= MaxEntries
    BY SMTT(30), <1>7 DEF IInv, TypeOK
  <2>3. QED
    BY <1>1, <1>4, <1>5, <1>6, <2>1, <2>2 DEF IInv, TypeOK, Loads, Writing
<1>9. CallsOK'
  BY <1>2, <1>4, <1>6, <1>7 DEF IInv, TypeOK, CallsOK, Loads
<1>10. TempsOK'
  <2>1. pc'[c] \notin Active /\ pc[c] \notin Active
    BY <1>6 DEF IInv, TypeOK, Active, Writing
  <2>2. \A d \in Client \ {c} : pc'[d] = pc[d] /\ store'[d] = store[d]
    BY <1>6, <1>7 DEF IInv, TypeOK
  <2>3. QED BY ZenonT(40), <1>5, <2>1, <2>2 DEF IInv, TempsOK, Active, Writing
<1>11. OrigOK' /\ FileOK' /\ TargetWhole'
  BY <1>4 DEF IInv, OrigOK, FileOK, TargetWhole, Absent
<1>12. CounterOK'
  <2>1. Creating' = Creating BY <1>6 DEF IInv, TypeOK, Creating
  <2>2. QED BY <2>1 DEF IInv, CounterOK
<1>13. TempsAccounted'
  BY <1>5, <1>6 DEF IInv, TypeOK, TempsAccounted, Writing
<1>14. QED BY <1>8, <1>9, <1>10, <1>11, <1>12, <1>13 DEF IInv

LEMMA ExistsAndReadStep ==
  ASSUME IInv, NEW c \in Client, exists(c) \/ read_store(c)
  PROVE  IInv'
<1>1. Empty \in Entries /\ Cardinality(Keys(Empty)) <= MaxEntries BY KeysOfEmpty
<1>2. file.data \in Entries BY DEF IInv, TypeOK
<1>3. CASE exists(c) BY <1>1, <1>3, LoadStep DEF exists
<1>4. CASE read_store(c)
  BY <1>2, <1>4, LoadStep DEF read_store, read_failed, Readable
<1>5. QED BY <1>3, <1>4

-----------------------------------------------------------------------------
(* A failed call: the store is the one the program had, or the one the     *)
(* transaction started from.                                               *)
LEMMA FailureEffect ==
  ASSUME IInv, NEW c \in Client, ReturnFailure(c)
  PROVE  /\ store' \in [Client -> [open : BOOLEAN, ro : BOOLEAN, entries : Entries]]
         /\ \A d \in Client : Cardinality(Keys(store'[d].entries)) <= MaxEntries
         /\ orig' \in [Client -> [open : BOOLEAN, ro : BOOLEAN, entries : Entries]]
         /\ OrigOK'
         /\ intx' \in [Client -> BOOLEAN]
         /\ \A d \in Client \ {c} : store'[d] = store[d] /\ intx'[d] = intx[d]
         /\ intx'[c] => store'[c].open
<1>1. CASE op[c] = "commit"
  <2>1. /\ orig' = [orig EXCEPT ![c] = Closed]
        /\ intx' = [intx EXCEPT ![c] = FALSE]
    BY <1>1, ReturnEffect DEF IInv, ReturnFailure
  <2>2. store' = [store EXCEPT ![c] = orig[c]]
    BY <1>1 DEF ReturnFailure
  <2>3. Closed \in [open : BOOLEAN, ro : BOOLEAN, entries : Entries]
        /\ Cardinality(Keys(Closed.entries)) <= MaxEntries
    BY KeysOfEmpty DEF Closed
  <2>4. QED BY <2>1, <2>2, <2>3 DEF IInv, TypeOK, OrigOK
<1>2. CASE op[c] # "commit"
  <2>1. UNCHANGED <<orig, intx>>
    BY <1>2, ReturnEffect DEF IInv, ReturnFailure
  <2>2. UNCHANGED store
    BY <1>2 DEF ReturnFailure, IInv, TypeOK
  <2>3. QED BY <2>1, <2>2 DEF IInv, TypeOK, OrigOK, CallsOK
<1>3. QED BY <1>1, <1>2

(* create: the counter never runs ahead of the calls.                      *)
LEMMA CreateCounts ==
  ASSUME IInv, NEW c \in Client, create(c)
  PROVE  counter' \in Name /\ CounterOK'
<1>1. c \in Creating BY DEF create, Creating
<1>2. pc' = [pc EXCEPT ![c] = "write"] \/ pc' = [pc EXCEPT ![c] = "idle"]
  BY ReturnEffect DEF create, IInv, ReturnFailure
<1>3. Creating' = Creating \ {c} BY <1>2 DEF IInv, TypeOK, Creating
<1>4. Cardinality(Creating') = Cardinality(Creating) - 1
      /\ Cardinality(Creating) \in Nat /\ Cardinality(Creating') \in Nat
  BY <1>1, <1>3, CreatingFinite, CountRemove, FS_CardinalityType
<1>5. counter' = counter + 1 /\ calls' = calls BY DEF create
<1>6. QED BY <1>4, <1>5, LimitAssumption DEF IInv, TypeOK, CounterOK, Name

(* create: a new name, or a failed call.                                   *)
LEMMA CreateStep ==
  ASSUME IInv, NEW c \in Client, create(c)
  PROVE  IInv'
<1>. DEFINE n == counter + 1
<1>1. counter' = n /\ counter' \in Name /\ CounterOK' BY CreateCounts DEF create
<1>2. n \notin DOMAIN temps /\ n \in Nat /\ counter \in Nat BY DEF IInv, TypeOK, Name
<1>3. UNCHANGED <<file, orphans, calls>> BY DEF create
<1>4. FileOK' /\ TargetWhole' BY <1>3 DEF IInv, FileOK, TargetWhole, Absent
<1>5. op[c] \in Writes /\ op[c] # "none" BY DEF create, IInv, TypeOK, CallsOK, Loads, Writes
<1>6. ASSUME temps' = [m \in DOMAIN temps \cup {n} |->
                         IF m = n THEN [data |-> Empty, whole |-> FALSE] ELSE temps[m]],
             temp' = [temp EXCEPT ![c] = n],
             pc' = [pc EXCEPT ![c] = "write"],
             UNCHANGED <<op, store, orig, intx, faults>>
      PROVE  IInv'
  <2>1. DOMAIN temps' = DOMAIN temps \cup {n}
        /\ temps'[n] = [data |-> Empty, whole |-> FALSE]
        /\ \A m \in DOMAIN temps : temps'[m] = temps[m]
    BY <1>2, <1>6
  <2>2. TypeOK'
    <3>1. [data |-> Empty, whole |-> FALSE] \in [data : Entries, whole : BOOLEAN]
      BY KeysOfEmpty
    <3>2. \A m \in DOMAIN temps' : temps'[m] \in [data : Entries, whole : BOOLEAN]
      BY <2>1, <3>1 DEF IInv, TypeOK
    <3>3. DOMAIN temps' \subseteq 1 .. counter' /\ orphans' \subseteq DOMAIN temps'
      BY <1>1, <1>2, <1>3, <2>1 DEF IInv, TypeOK
    <3>4. temp' \in [Client -> Name] /\ pc' \in [Client -> {"idle", "exists", "read"} \cup Writing]
      BY <1>1, <1>6 DEF IInv, TypeOK, Writing
    <3>5. QED BY <1>1, <1>3, <1>6, <3>2, <3>3, <3>4 DEF IInv, TypeOK
  <2>3. CallsOK' BY <1>5, <1>6 DEF create, IInv, TypeOK, CallsOK, Loads, Writes
  <2>4. TempsOK'
    <3>1. pc'[c] = "write" /\ temp'[c] = n BY <1>6 DEF IInv, TypeOK
    <3>2. \A d \in Client \ {c} : pc'[d] = pc[d] /\ temp'[d] = temp[d]
      BY <1>6 DEF IInv, TypeOK
    <3>3. n \in DOMAIN temps' \ orphans' BY <1>2, <1>3, <2>1 DEF IInv, TypeOK
    <3>4. \A d \in Client \ {c} : pc[d] \in Active => temp'[d] \in DOMAIN temps /\ temp'[d] # n
      <4>1. \A d \in Client : pc[d] \in Active => temp[d] \in DOMAIN temps
        BY DEF IInv, TempsOK
      <4>2. QED BY <1>2, <3>2, <4>1
    <3>5. ASSUME NEW d \in Client \ {c}
          PROVE  /\ pc'[d] \notin Active => temp'[d] = 0
                 /\ pc'[d] \in Active => temp'[d] \in DOMAIN temps' \ orphans'
                 /\ pc'[d] \in {"close", "rename"} =>
                      temps'[temp'[d]] = [data |-> store'[d].entries, whole |-> TRUE]
      <4>1. store' = store /\ orphans' = orphans BY <1>3, <1>6
      <4>2. pc[d] \in {"close", "rename"} => pc[d] \in Active BY DEF Active, Writing
      <4>3. QED BY <2>1, <3>2, <3>4, <4>1, <4>2 DEF IInv, TempsOK
    <3>6. \A d, e \in Client : d # e /\ pc'[d] \in Active /\ pc'[e] \in Active => temp'[d] # temp'[e]
      <4>1. TempsOK BY DEF IInv
      <4>2. \A d, e \in Client \ {c} : d # e /\ pc'[d] \in Active /\ pc'[e] \in Active
              => temp'[d] # temp'[e]
        BY <3>2, <4>1 DEF TempsOK
      <4>3. \A d \in Client \ {c} : pc'[d] \in Active => temp'[d] # temp'[c]
        BY <3>1, <3>2, <3>4
      <4>4. QED BY <4>2, <4>3
    <3>7. QED BY <3>1, <3>3, <3>5, <3>6 DEF TempsOK, Active, Writing
  <2>5. OrigOK' BY <1>6 DEF IInv, OrigOK
  <2>6. TempsAccounted'
    <3>1. pc'[c] \in Writing \ {"create"} /\ temp'[c] = n
      BY <1>6 DEF IInv, TypeOK, Writing
    <3>2. \A d \in Client : pc[d] \in Writing \ {"create"} =>
            pc'[d] = pc[d] /\ temp'[d] = temp[d]
      BY <1>6 DEF create, IInv, TypeOK
    <3>3. QED BY <1>3, <2>1, <3>1, <3>2 DEF IInv, TempsAccounted
  <2>7. QED BY <1>1, <1>4, <2>2, <2>3, <2>4, <2>5, <2>6 DEF IInv
<1>7. ASSUME Fault, ReturnFailure(c), UNCHANGED temps PROVE IInv'
  <2>1. /\ pc' = [pc EXCEPT ![c] = "idle"]
        /\ op' = [op EXCEPT ![c] = "none"]
        /\ temp' = [temp EXCEPT ![c] = 0]
    BY <1>7, ReturnEffect DEF IInv, ReturnFailure
  <2>2. temp' = temp
    <3>1. temp[c] = 0 BY DEF create, IInv, TempsOK, Active, Writing
    <3>2. QED BY <2>1, <3>1 DEF IInv, TypeOK
  <2>3. faults' \in 0 .. MaxFaults BY <1>7, FaultCounted DEF IInv
  <2>4. TypeOK'
    <3>1. /\ store' \in [Client -> [open : BOOLEAN, ro : BOOLEAN, entries : Entries]]
          /\ \A d \in Client : Cardinality(Keys(store'[d].entries)) <= MaxEntries
          /\ orig' \in [Client -> [open : BOOLEAN, ro : BOOLEAN, entries : Entries]]
          /\ intx' \in [Client -> BOOLEAN]
      BY <1>7, FailureEffect
    <3>2. /\ pc' \in [Client -> {"idle", "exists", "read"} \cup Writing]
          /\ op' \in [Client -> {"none"} \cup Loads \cup Writes]
      BY <2>1 DEF IInv, TypeOK
    <3>3. DOMAIN temps' \subseteq 1 .. counter'
      BY <1>1, <1>2, <1>7 DEF IInv, TypeOK
    <3>4. QED BY <1>1, <1>3, <1>7, <2>2, <2>3, <3>1, <3>2, <3>3 DEF IInv, TypeOK
  <2>5. CallsOK' BY <1>7, <2>1, FailureEffect DEF IInv, TypeOK, CallsOK, Loads, Writes
  <2>6. TempsOK'
    <3>1. pc'[c] \notin Active BY <2>1 DEF IInv, TypeOK, Active, Writing
    <3>2. \A d \in Client \ {c} : pc'[d] = pc[d] /\ store'[d] = store[d]
      BY <1>7, <2>1, FailureEffect DEF IInv, TypeOK
    <3>3. pc[c] \notin Active BY DEF create, Active
    <3>4. QED BY ZenonT(40), <1>3, <1>7, <2>2, <3>1, <3>2, <3>3 DEF IInv, TempsOK, Active, Writing
  <2>7. OrigOK' BY <1>7, FailureEffect
  <2>8. TempsAccounted'
    <3>1. \A d \in Client : pc[d] \in Writing \ {"create"} => pc'[d] = pc[d]
      BY <2>1 DEF create, IInv, TypeOK
    <3>2. QED BY <1>3, <1>7, <2>2, <3>1 DEF IInv, TempsAccounted
  <2>9. QED BY <1>1, <1>4, <2>4, <2>5, <2>6, <2>7, <2>8 DEF IInv
<1>8. QED BY <1>6, <1>7 DEF create, unique_temp_path

(* The writer goes on: nothing but its place changes, and its own          *)
(* temporary file.                                                         *)
LEMMA ProgressStep ==
  ASSUME IInv, NEW c \in Client, pc[c] \in {"write", "flush", "close"},
         NEW l \in {"flush", "close", "rename"}, pc' = [pc EXCEPT ![c] = l],
         DOMAIN temps' = DOMAIN temps,
         \A m \in DOMAIN temps \ {temp[c]} : temps'[m] = temps[m],
         temps'[temp[c]] \in [data : Entries, whole : BOOLEAN],
         l # "flush" =>
           temps'[temp[c]] = [data |-> store[c].entries, whole |-> TRUE],
         UNCHANGED <<file, counter, store, orig, intx, op, temp, orphans, faults, calls>>
  PROVE  IInv'
<1>1. temp[c] \in DOMAIN temps /\ DOMAIN temps' = DOMAIN temps
  BY DEF IInv, TempsOK, Active, Writing
<1>2. \A m \in DOMAIN temps \ {temp[c]} : temps'[m] = temps[m]
  OBVIOUS
<1>3. \A d \in Client \ {c} : pc'[d] = pc[d] BY DEF IInv, TypeOK
<1>4. pc'[c] = l /\ pc[c] \in Active /\ l \in Active BY DEF IInv, TypeOK, Active, Writing
<1>5. TypeOK'
  <2>1. \A m \in DOMAIN temps' : temps'[m] \in [data : Entries, whole : BOOLEAN]
    BY <1>1, <1>2 DEF IInv, TypeOK
  <2>2. pc' \in [Client -> {"idle", "exists", "read"} \cup Writing]
    BY DEF IInv, TypeOK, Writing
  <2>3. QED BY <1>1, <2>1, <2>2 DEF IInv, TypeOK
<1>6. CallsOK'
  <2>1. op[c] # "none" /\ op[c] \notin Loads BY DEF IInv, CallsOK
  <2>2. QED BY <1>3, <1>4, <2>1 DEF IInv, CallsOK
<1>7. TempsOK'
  <2>1. ASSUME NEW d \in Client \ {c}
        PROVE  /\ pc[d] \in Active => temp[d] # temp[c]
               /\ pc[d] \in {"close", "rename"} =>
                    temps[temp[d]] = [data |-> store[d].entries, whole |-> TRUE]
               /\ pc[d] \notin Active => temp[d] = 0
               /\ pc[d] \in Active => temp[d] \in DOMAIN temps \ orphans
               /\ pc[d] \in {"close", "rename"} => pc[d] \in Active
    BY <1>4 DEF IInv, TempsOK, Active, Writing
  <2>2. \A d \in Client \ {c} : pc'[d] \in {"close", "rename"} =>
          temps'[temp'[d]] = [data |-> store'[d].entries, whole |-> TRUE]
    BY <1>2, <1>3, <2>1
  <2>3. temp[c] \in DOMAIN temps \ orphans BY <1>4 DEF IInv, TempsOK
  <2>4. \A d, e \in Client :
          d # e /\ pc'[d] \in Active /\ pc'[e] \in Active => temp'[d] # temp'[e]
    BY <1>3, <1>4 DEF IInv, TempsOK
  <2>5. l \in {"close", "rename"} =>
          temps'[temp[c]] = [data |-> store[c].entries, whole |-> TRUE]
    BY <1>2
  <2>6. QED BY <1>1, <1>3, <1>4, <2>1, <2>2, <2>3, <2>4, <2>5 DEF TempsOK
<1>8. OrigOK' /\ FileOK' /\ TargetWhole'
  BY DEF IInv, OrigOK, FileOK, TargetWhole, Absent
<1>9. CounterOK'
  <2>1. Creating' = Creating BY <1>3, <1>4 DEF IInv, Creating, Active
  <2>2. QED BY <2>1 DEF IInv, CounterOK
<1>10. TempsAccounted'
  BY <1>1, <1>3, <1>4 DEF IInv, TempsAccounted, Active
<1>11. QED BY <1>5, <1>6, <1>7, <1>8, <1>9, <1>10 DEF IInv

(* The call of a writer ends: its temporary file is removed, renamed or    *)
(* given up, and no other writer's.                                        *)
LEMMA WriterEnds ==
  ASSUME IInv, NEW c \in Client, pc[c] \in Active,
         \/ ReturnFailure(c) /\ discard_temp(temp[c])
         \/ /\ Return(c) /\ UNCHANGED <<store, orphans>>
            /\ temps' = [m \in DOMAIN temps \ {temp[c]} |-> temps[m]],
         Fault \/ UNCHANGED faults,
         UNCHANGED <<counter, calls>>,
         file' \in [present : BOOLEAN, data : Entries, whole : BOOLEAN, damaged : BOOLEAN],
         FileOK', TargetWhole'
  PROVE  IInv'
<1>. DEFINE t == temp[c]
<1>1. /\ pc' = [pc EXCEPT ![c] = "idle"]
      /\ op' = [op EXCEPT ![c] = "none"]
      /\ temp' = [temp EXCEPT ![c] = 0]
  BY ReturnEffect DEF IInv, ReturnFailure
<1>2. /\ store' \in [Client -> [open : BOOLEAN, ro : BOOLEAN, entries : Entries]]
      /\ \A d \in Client : Cardinality(Keys(store'[d].entries)) <= MaxEntries
      /\ orig' \in [Client -> [open : BOOLEAN, ro : BOOLEAN, entries : Entries]]
      /\ OrigOK'
      /\ intx' \in [Client -> BOOLEAN]
      /\ \A d \in Client \ {c} : store'[d] = store[d] /\ intx'[d] = intx[d]
      /\ intx'[c] => store'[c].open
  <2>1. CASE ReturnFailure(c) BY <2>1, FailureEffect
  <2>2. CASE Return(c) /\ UNCHANGED store
    <3>1. CASE op[c] = "commit"
      <4>1. /\ orig' = [orig EXCEPT ![c] = Closed]
            /\ intx' = [intx EXCEPT ![c] = FALSE]
        BY <2>2, <3>1, ReturnEffect DEF IInv
      <4>2. Closed \in [open : BOOLEAN, ro : BOOLEAN, entries : Entries]
            /\ Cardinality(Keys(Closed.entries)) <= MaxEntries
        BY KeysOfEmpty DEF Closed
      <4>3. QED BY <2>2, <4>1, <4>2 DEF IInv, TypeOK, OrigOK
    <3>2. CASE op[c] # "commit"
      <4>1. UNCHANGED <<orig, intx>> BY <2>2, <3>2, ReturnEffect DEF IInv
      <4>2. QED BY <2>2, <4>1 DEF IInv, TypeOK, OrigOK, CallsOK
    <3>3. QED BY <3>1, <3>2
  <2>3. QED BY <2>1, <2>2
<1>3. t \in DOMAIN temps \ orphans /\ orphans \subseteq DOMAIN temps
  BY DEF IInv, TypeOK, TempsOK
<1>4. /\ DOMAIN temps' \subseteq DOMAIN temps
      /\ \A m \in DOMAIN temps' : temps'[m] = temps[m]
      /\ orphans' \subseteq DOMAIN temps'
      /\ DOMAIN temps' \ orphans' = (DOMAIN temps \ orphans) \ {t}
  BY <1>3 DEF discard_temp
<1>5. /\ \A d \in Client \ {c} : pc'[d] = pc[d] /\ op'[d] = op[d] /\ temp'[d] = temp[d]
      /\ pc'[c] = "idle" /\ op'[c] = "none" /\ temp'[c] = 0
  BY <1>1 DEF IInv, TypeOK
<1>6. TypeOK'
  <2>1. faults' \in 0 .. MaxFaults BY FaultCounted DEF IInv
  <2>2. /\ pc' \in [Client -> {"idle", "exists", "read"} \cup Writing]
        /\ op' \in [Client -> {"none"} \cup Loads \cup Writes]
        /\ temp' \in [Client -> Name]
    BY <1>1, LimitAssumption DEF IInv, TypeOK, Name
  <2>3. DOMAIN temps' \subseteq 1 .. counter'
        /\ \A m \in DOMAIN temps' : temps'[m] \in [data : Entries, whole : BOOLEAN]
    BY <1>4 DEF IInv, TypeOK
  <2>4. QED BY <1>2, <1>4, <2>1, <2>2, <2>3 DEF IInv, TypeOK
<1>7. CallsOK' BY <1>2, <1>5 DEF IInv, CallsOK, Loads
<1>8. TempsOK'
  <2>1. ASSUME NEW d \in Client \ {c}, pc[d] \in Active
        PROVE  temp[d] \in DOMAIN temps' \ orphans'
    <3>1. temp[d] # t /\ temp[d] \in DOMAIN temps \ orphans BY <2>1 DEF IInv, TempsOK
    <3>2. QED BY <1>4, <3>1
  <2>2. ASSUME NEW d \in Client \ {c}, pc[d] \in {"close", "rename"}
        PROVE  temps'[temp[d]] = [data |-> store[d].entries, whole |-> TRUE]
    <3>1. pc[d] \in Active BY <2>2 DEF Active, Writing
    <3>2. temps'[temp[d]] = temps[temp[d]] BY <1>4, <2>1, <3>1
    <3>3. QED BY <2>2, <3>2 DEF IInv, TempsOK
  <2>3. \A d \in Client : pc[d] \notin Active => temp[d] = 0
    BY DEF IInv, TempsOK
  <2>4. \A d, e \in Client :
          d # e /\ pc[d] \in Active /\ pc[e] \in Active => temp[d] # temp[e]
    BY DEF IInv, TempsOK
  <2>5. "idle" \notin Active BY DEF Active, Writing
  <2>6. \A d \in Client :
          /\ pc'[d] \notin Active => temp'[d] = 0
          /\ pc'[d] \in Active => temp'[d] \in DOMAIN temps' \ orphans'
    BY <1>5, <2>1, <2>3, <2>5
  <2>7. \A d \in Client : pc'[d] \in {"close", "rename"} =>
          temps'[temp'[d]] = [data |-> store'[d].entries, whole |-> TRUE]
    BY <1>2, <1>5, <2>2
  <2>8. \A d, e \in Client :
          d # e /\ pc'[d] \in Active /\ pc'[e] \in Active => temp'[d] # temp'[e]
    BY <1>5, <2>4, <2>5
  <2>9. QED BY <2>6, <2>7, <2>8 DEF TempsOK
<1>9. CounterOK'
  <2>1. Creating' = Creating BY <1>5 DEF Creating, Active
  <2>2. QED BY <2>1 DEF IInv, CounterOK
<1>10. TempsAccounted'
  <2>1. ASSUME NEW m \in DOMAIN temps', m \notin orphans'
        PROVE  \E d \in Client : pc'[d] \in Active /\ m = temp'[d]
    <3>1. m \in DOMAIN temps \ orphans /\ m # t BY <1>4, <2>1
    <3>2. PICK d \in Client : pc[d] \in Active /\ m = temp[d]
      BY <3>1 DEF IInv, TempsAccounted, Active
    <3>3. QED BY <1>5, <3>1, <3>2
  <2>2. QED BY <2>1 DEF TempsAccounted, Active
<1>11. QED BY <1>2, <1>6, <1>7, <1>8, <1>9, <1>10 DEF IInv

(* Put: the temporary file of the writer gets its new contents.            *)
LEMMA PutEffect ==
  ASSUME IInv, NEW c \in Client, pc[c] \in Active,
         NEW d \in Entries, NEW w \in BOOLEAN, Put(temp[c], d, w)
  PROVE  /\ DOMAIN temps' = DOMAIN temps
         /\ temps'[temp[c]] = [data |-> d, whole |-> w]
         /\ \A m \in DOMAIN temps \ {temp[c]} : temps'[m] = temps[m]
<1>1. temp[c] \in DOMAIN temps BY DEF IInv, TempsOK
<1>2. QED BY <1>1 DEF Put

(* write, flush, close, rename.                                            *)
LEMMA WriterStep ==
  ASSUME IInv, NEW c \in Client, write(c) \/ flush(c) \/ close(c) \/ rename(c)
  PROVE  IInv'
<1>. pc[c] \in Active BY DEF write, flush, close, rename, Active, Writing
<1>. DEFINE Rest == UNCHANGED <<file, counter, store, orig, intx, op, temp, orphans, faults, calls>>
<1>. store[c].entries \in Entries BY DEF IInv, TypeOK
<1>1. CASE write(c)
  <2>1. PICK s \in SUBSET Keys(store[c].entries) :
          Put(temp[c], [k \in Key |-> IF k \in s THEN store[c].entries[k] ELSE NoVal], FALSE)
    BY <1>1 DEF write
  <2>. DEFINE d == [k \in Key |-> IF k \in s THEN store[c].entries[k] ELSE NoVal]
  <2>2. d \in Entries BY DEF Entries, Keys
  <2>. HIDE DEF d
  <2>3. /\ DOMAIN temps' = DOMAIN temps
        /\ \A m \in DOMAIN temps \ {temp[c]} : temps'[m] = temps[m]
        /\ temps'[temp[c]] = [data |-> d, whole |-> FALSE]
    BY <2>1, <2>2, PutEffect DEF d
  <2>4. [data |-> d, whole |-> FALSE] \in [data : Entries, whole : BOOLEAN] BY <2>2
  <2>5. pc[c] = "write" /\ pc' = [pc EXCEPT ![c] = "flush"] /\ Rest
    BY <1>1 DEF write
  <2>6. QED BY <2>3, <2>4, <2>5, ProgressStep
<1>. DEFINE r == [data |-> store[c].entries, whole |-> TRUE]
<1>. r \in [data : Entries, whole : BOOLEAN] OBVIOUS
<1>2. ASSUME pc[c] = "flush", Put(temp[c], store[c].entries, TRUE),
             pc' = [pc EXCEPT ![c] = "close"], Rest
      PROVE  IInv'
  <2>1. /\ DOMAIN temps' = DOMAIN temps
        /\ \A m \in DOMAIN temps \ {temp[c]} : temps'[m] = temps[m]
        /\ temps'[temp[c]] = r
    BY <1>2, PutEffect
  <2>2. QED BY <1>2, <2>1, ProgressStep
<1>3. ASSUME pc[c] = "close", pc' = [pc EXCEPT ![c] = "rename"], UNCHANGED temps, Rest
      PROVE  IInv'
  <2>1. temps[temp[c]] = r BY <1>3 DEF IInv, TempsOK
  <2>2. QED BY <1>3, <2>1, ProgressStep
<1>4. ASSUME GiveUp(c), Fault, UNCHANGED <<file, counter, calls>> PROVE IInv'
  <2>1. file' \in [present : BOOLEAN, data : Entries, whole : BOOLEAN, damaged : BOOLEAN]
        /\ FileOK' /\ TargetWhole'
    BY <1>4 DEF IInv, TypeOK, FileOK, TargetWhole, Absent
  <2>2. QED BY <1>4, <2>1, WriterEnds DEF GiveUp
<1>5. CASE rename(c) /\ ~(rename_failed(c) /\ Fault)
  <2>1. temps[temp[c]] = [data |-> store[c].entries, whole |-> TRUE]
        /\ store[c].entries \in Entries /\ pc[c] \in Active
    BY <1>5 DEF IInv, TypeOK, TempsOK, rename, Active, Writing
  <2>2. file' = [present |-> TRUE, damaged |-> FALSE,
                 data |-> store[c].entries, whole |-> TRUE]
    BY <1>5, <2>1 DEF rename
  <2>3. file' \in [present : BOOLEAN, data : Entries, whole : BOOLEAN, damaged : BOOLEAN]
        /\ FileOK' /\ TargetWhole'
    BY <2>1, <2>2 DEF FileOK, TargetWhole
  <2>4. QED BY <1>5, <2>1, <2>3, WriterEnds DEF rename
<1>6. CASE flush(c) BY <1>2, <1>4, <1>6 DEF flush
<1>7. CASE close(c) BY <1>3, <1>4, <1>7 DEF close
<1>8. CASE rename(c)
  <2>1. CASE rename_failed(c) /\ Fault
    BY <1>4, <1>8, <2>1 DEF rename, rename_failed
  <2>2. CASE ~(rename_failed(c) /\ Fault)
    BY <1>5, <1>8, <2>2
  <2>3. QED BY <2>1, <2>2
<1>9. QED BY <1>1, <1>6, <1>7, <1>8

-----------------------------------------------------------------------------
(* A step of a client that is in no file operation, in its memory only.    *)
LEMMA MemoryStep ==
  ASSUME IInv, NEW c \in Client, pc[c] = "idle",
         store' \in [Client -> [open : BOOLEAN, ro : BOOLEAN, entries : Entries]],
         orig' \in [Client -> [open : BOOLEAN, ro : BOOLEAN, entries : Entries]],
         intx' \in [Client -> BOOLEAN],
         \A d \in Client \ {c} :
           store'[d] = store[d] /\ orig'[d] = orig[d] /\ intx'[d] = intx[d],
         Cardinality(Keys(store'[c].entries)) <= MaxEntries,
         Cardinality(Keys(orig'[c].entries)) <= MaxEntries,
         intx'[c] => store'[c].open,
         UNCHANGED <<file, temps, counter, pc, op, temp, orphans, calls, faults>>
  PROVE  IInv'
<1>1. TypeOK' BY DEF IInv, TypeOK
<1>2. CallsOK' BY DEF IInv, CallsOK
<1>3. TempsOK'
  <2>1. \A d \in Client : pc[d] \in {"close", "rename"} => store'[d] = store[d] OBVIOUS
  <2>2. \A d \in Client : pc'[d] \in {"close", "rename"} =>
          temps'[temp'[d]] = [data |-> store'[d].entries, whole |-> TRUE]
    BY <2>1 DEF IInv, TempsOK
  <2>3. \A d \in Client :
          /\ pc'[d] \notin Active => temp'[d] = 0
          /\ pc'[d] \in Active => temp'[d] \in DOMAIN temps' \ orphans'
    BY DEF IInv, TempsOK
  <2>4. \A d, e \in Client :
          d # e /\ pc'[d] \in Active /\ pc'[e] \in Active => temp'[d] # temp'[e]
    BY DEF IInv, TempsOK
  <2>5. QED BY <2>2, <2>3, <2>4 DEF TempsOK
<1>4. OrigOK' BY DEF IInv, OrigOK
<1>5. FileOK' /\ TargetWhole' BY DEF IInv, FileOK, TargetWhole, Absent
<1>6. CounterOK' BY DEF IInv, CounterOK, Creating
<1>7. TempsAccounted' BY DEF IInv, TempsAccounted
<1>8. QED BY <1>1, <1>2, <1>3, <1>4, <1>5, <1>6, <1>7 DEF IInv

(* mutate_store with entries within the limit.                             *)
LEMMA MutateStoreStep ==
  ASSUME IInv, NEW c \in Client, NEW d \in Entries,
         Cardinality(Keys(d)) <= MaxEntries, mutate_store(c, d)
  PROVE  IInv'
<1>1. /\ store' = [store EXCEPT ![c].entries = d]
      /\ UNCHANGED <<file, temps, counter, orig, intx, pc, op, temp, orphans, faults, calls>>
      /\ pc[c] = "idle"
  BY DEF mutate_store
<1>2. store \in [Client -> [open : BOOLEAN, ro : BOOLEAN, entries : Entries]]
  BY DEF IInv, TypeOK
<1>3. /\ store' \in [Client -> [open : BOOLEAN, ro : BOOLEAN, entries : Entries]]
      /\ \A e \in Client \ {c} : store'[e] = store[e]
      /\ store'[c].entries = d /\ store'[c].open = store[c].open
  BY <1>1, <1>2
<1>4. intx'[c] => store'[c].open BY <1>1, <1>3 DEF IInv, CallsOK
<1>5. orig \in [Client -> [open : BOOLEAN, ro : BOOLEAN, entries : Entries]]
      /\ intx \in [Client -> BOOLEAN]
      /\ Cardinality(Keys(orig[c].entries)) <= MaxEntries
  BY DEF IInv, TypeOK, OrigOK
<1>6. QED BY <1>1, <1>3, <1>4, <1>5, MemoryStep

LEMMA MutateStep ==
  ASSUME IInv, NEW c \in Client, Mutate(c)
  PROVE  IInv'
<1>. DEFINE e == store[c].entries
<1>1. e \in Entries /\ Cardinality(Keys(e)) <= MaxEntries BY DEF IInv, TypeOK
<1>2. CASE set_many(c)
  <2>1. PICK d \in Entries :
          /\ WithinLimit(e, d)
          /\ mutate_store(c, [k \in Key |-> IF d[k] # NoVal THEN d[k] ELSE e[k]])
    BY <1>2 DEF set_many
  <2>. DEFINE f == [k \in Key |-> IF d[k] # NoVal THEN d[k] ELSE e[k]]
  <2>2. f \in Entries BY <1>1 DEF Entries
  <2>3. Keys(f) = Keys(e) \cup Keys(d) BY DEF Keys
  <2>4. Cardinality(Keys(f)) <= MaxEntries BY <2>1, <2>3 DEF WithinLimit
  <2>. HIDE DEF f
  <2>5. QED BY <2>1, <2>2, <2>4, MutateStoreStep DEF f
<1>3. CASE remove(c)
  <2>1. PICK k \in Keys(e) : mutate_store(c, [e EXCEPT ![k] = NoVal])
    BY <1>3 DEF remove
  <2>. DEFINE f == [e EXCEPT ![k] = NoVal]
  <2>2. f \in Entries BY <1>1 DEF Entries
  <2>3. Keys(f) \subseteq Keys(e) BY <1>1 DEF Keys, Entries
  <2>4. Cardinality(Keys(f)) <= MaxEntries
    <3>1. Cardinality(Keys(f)) <= Cardinality(Keys(e))
      BY <2>3, KeysFinite, CountSubset
    <3>2. Cardinality(Keys(f)) \in Nat /\ Cardinality(Keys(e)) \in Nat BY KeysFinite
    <3>3. QED BY <1>1, <3>1, <3>2, LimitAssumption
  <2>. HIDE DEF f
  <2>5. QED BY <2>1, <2>2, <2>4, MutateStoreStep DEF f
<1>4. CASE clear(c) BY <1>4, KeysOfEmpty, MutateStoreStep DEF clear
<1>5. QED BY <1>2, <1>3, <1>4 DEF Mutate

(* transaction, rollback, the commit of a read-only store.                 *)
LEMMA TransactionStep ==
  ASSUME IInv, NEW c \in Client,
         \/ transaction(c)
         \/ rollback(c)
         \/ commit(c) /\ store[c].ro
  PROVE  IInv'
<1>1. /\ store \in [Client -> [open : BOOLEAN, ro : BOOLEAN, entries : Entries]]
      /\ orig \in [Client -> [open : BOOLEAN, ro : BOOLEAN, entries : Entries]]
      /\ intx \in [Client -> BOOLEAN]
      /\ Cardinality(Keys(store[c].entries)) <= MaxEntries
      /\ Cardinality(Keys(orig[c].entries)) <= MaxEntries
      /\ intx[c] => store[c].open
  BY DEF IInv, TypeOK, OrigOK, CallsOK
<1>2. /\ Closed \in [open : BOOLEAN, ro : BOOLEAN, entries : Entries]
      /\ Cardinality(Keys(Closed.entries)) <= MaxEntries
  BY KeysOfEmpty DEF Closed
<1>3. CASE transaction(c) BY <1>1, <1>3, MemoryStep DEF transaction
<1>4. CASE rollback(c) BY <1>1, <1>2, <1>4, MemoryStep DEF rollback
<1>5. CASE commit(c) /\ store[c].ro BY ZenonT(40), <1>1, <1>2, <1>5, MemoryStep DEF commit
<1>6. QED BY <1>3, <1>4, <1>5

(* remove() of the file, and the damage from outside.                      *)
LEMMA FileStep ==
  ASSUME IInv, damage \/ \E c \in Client : destroy(c)
  PROVE  IInv'
<1>1. /\ file' \in [present : BOOLEAN, data : Entries, whole : BOOLEAN, damaged : BOOLEAN]
      /\ FileOK' /\ TargetWhole'
  <2>1. CASE damage
    BY <2>1 DEF damage, IInv, TypeOK, FileOK, TargetWhole
  <2>2. ASSUME NEW c \in Client, destroy(c) 
        PROVE  /\ file' \in [present : BOOLEAN, data : Entries, whole : BOOLEAN, damaged : BOOLEAN]
               /\ FileOK' /\ TargetWhole'
    BY <2>2, KeysOfEmpty DEF destroy, Absent, FileOK, TargetWhole
  <2>3. QED BY <2>1, <2>2
<1>2. /\ UNCHANGED <<temps, counter, store, orig, intx, pc, op, temp, orphans, calls>>
      /\ Fault \/ UNCHANGED faults
  BY DEF damage, destroy
<1>3. TypeOK'
  <2>1. faults' \in 0 .. MaxFaults BY <1>2, FaultCounted DEF IInv
  <2>2. QED BY <1>1, <1>2, <2>1 DEF IInv, TypeOK
<1>4. CallsOK' /\ TempsOK' /\ OrigOK' /\ CounterOK' /\ TempsAccounted'
  BY <1>2 DEF IInv, CallsOK, TempsOK, OrigOK, CounterOK, Creating, TempsAccounted
<1>5. QED BY <1>1, <1>3, <1>4 DEF IInv

(* The process of a client dies: what it leaves is an orphan.              *)
LEMMA CrashStep ==
  ASSUME IInv, NEW c \in Client, crash(c)
  PROVE  IInv'
<1>. USE DEF crash
<1>1. /\ Closed \in [open : BOOLEAN, ro : BOOLEAN, entries : Entries]
      /\ Cardinality(Keys(Closed.entries)) <= MaxEntries
  BY KeysOfEmpty DEF Closed
<1>2. /\ \A d \in Client \ {c} :
           /\ pc'[d] = pc[d] /\ op'[d] = op[d] /\ temp'[d] = temp[d]
           /\ store'[d] = store[d] /\ intx'[d] = intx[d]
      /\ pc'[c] = "idle" /\ op'[c] = "none" /\ temp'[c] = 0 /\ intx'[c] = FALSE
  BY DEF IInv, TypeOK
<1>3. orphans' = orphans \cup ({temp[c]} \cap DOMAIN temps) /\ UNCHANGED temps
  OBVIOUS
<1>4. TypeOK'
  <2>1. faults' \in 0 .. MaxFaults BY FaultCounted DEF IInv
  <2>2. /\ pc' \in [Client -> {"idle", "exists", "read"} \cup Writing]
        /\ op' \in [Client -> {"none"} \cup Loads \cup Writes]
        /\ temp' \in [Client -> Name]
        /\ intx' \in [Client -> BOOLEAN]
    BY LimitAssumption DEF IInv, TypeOK, Name
  <2>3. /\ store' \in [Client -> [open : BOOLEAN, ro : BOOLEAN, entries : Entries]]
        /\ \A d \in Client : Cardinality(Keys(store'[d].entries)) <= MaxEntries
        /\ orig' \in [Client -> [open : BOOLEAN, ro : BOOLEAN, entries : Entries]]
    BY <1>1 DEF IInv, TypeOK
  <2>4. QED BY <1>3, <2>1, <2>2, <2>3 DEF IInv, TypeOK
<1>5. CallsOK' BY <1>2 DEF IInv, CallsOK, Loads
<1>6. TempsOK'
  <2>1. "idle" \notin Active BY DEF Active, Writing
  <2>2. ASSUME NEW d \in Client \ {c}, pc[d] \in Active
        PROVE  temp[d] \in DOMAIN temps' \ orphans'
    <3>1. temp[d] \in DOMAIN temps \ orphans BY <2>2 DEF IInv, TempsOK
    <3>2. temp[d] # temp[c]
      <4>1. CASE pc[c] \in Active BY <2>2, <4>1 DEF IInv, TempsOK
      <4>2. CASE pc[c] \notin Active
        <5>1. temp[c] = 0 BY <4>2 DEF IInv, TempsOK
        <5>2. 0 \notin DOMAIN temps BY DEF IInv, TypeOK, Name
        <5>3. QED BY <3>1, <5>1, <5>2
      <4>3. QED BY <4>1, <4>2
    <3>3. QED BY <1>3, <3>1, <3>2
  <2>3. \A d \in Client :
          /\ pc'[d] \notin Active => temp'[d] = 0
          /\ pc'[d] \in Active => temp'[d] \in DOMAIN temps' \ orphans'
    BY ZenonT(40), <1>2, <2>1, <2>2 DEF IInv, TempsOK
  <2>4. \A d \in Client : pc'[d] \in {"close", "rename"} =>
          temps'[temp'[d]] = [data |-> store'[d].entries, whole |-> TRUE]
    BY <1>2, <1>3 DEF IInv, TempsOK
  <2>5. \A d, e \in Client :
          d # e /\ pc'[d] \in Active /\ pc'[e] \in Active => temp'[d] # temp'[e]
    BY <1>2, <2>1 DEF IInv, TempsOK
  <2>6. QED BY <2>3, <2>4, <2>5 DEF TempsOK
<1>7. OrigOK' BY <1>1 DEF IInv, TypeOK, OrigOK
<1>8. FileOK' /\ TargetWhole' BY DEF IInv, FileOK, TargetWhole, Absent
<1>9. CounterOK'
  <2>1. Creating' \subseteq Creating BY <1>2 DEF Creating
  <2>2. Cardinality(Creating') <= Cardinality(Creating)
        /\ Cardinality(Creating') \in Nat /\ Cardinality(Creating) \in Nat
    BY <2>1, CreatingFinite, CountSubset
  <2>3. QED BY <2>2 DEF IInv, TypeOK, CounterOK, Name
<1>10. TempsAccounted'
  <2>1. ASSUME NEW m \in DOMAIN temps', m \notin orphans'
        PROVE  \E d \in Client : pc'[d] \in Active /\ m = temp'[d]
    <3>1. m \in DOMAIN temps \ orphans /\ m # temp[c] BY <1>3, <2>1
    <3>2. PICK d \in Client : pc[d] \in Active /\ m = temp[d]
      BY <3>1 DEF IInv, TempsAccounted, Active
    <3>3. QED BY <1>2, <3>1, <3>2
  <2>2. QED BY <2>1 DEF TempsAccounted, Active
<1>11. QED BY <1>4, <1>5, <1>6, <1>7, <1>8, <1>9, <1>10 DEF IInv

(* Every step of the program and of its environment.                       *)
LEMMA Step == IInv /\ [Next]_vars => IInv'
<1> SUFFICES ASSUME IInv, [Next]_vars PROVE IInv' OBVIOUS
<1>1. ASSUME NEW c \in Client, Load(c) PROVE IInv'
  <2>1. CASE open(c) \/ open_read_only(c) \/ reload(c)
    BY <2>1, CallStep DEF open, open_read_only, reload, Loads
  <2>2. CASE exists(c) \/ read_store(c) BY <2>2, ExistsAndReadStep
  <2>3. QED BY <1>1, <2>1, <2>2 DEF Load
<1>2. ASSUME NEW c \in Client, Transact(c) PROVE IInv'
  <2>1. CASE save(c) BY <2>1, CallStep DEF save, Writes
  <2>2. CASE commit(c) /\ ~store[c].ro BY <2>2, CallStep DEF commit, Writes
  <2>3. CASE transaction(c) \/ rollback(c) \/ (commit(c) /\ store[c].ro)
    BY <2>3, TransactionStep
  <2>4. QED BY <1>2, <2>1, <2>2, <2>3 DEF Transact
<1>3. ASSUME NEW c \in Client, Write(c) PROVE IInv'
  BY <1>3, CreateStep, WriterStep DEF Write
<1>4. CASE UNCHANGED vars
  <2>1. TypeOK' /\ TargetWhole' BY <1>4 DEF vars, IInv, TypeOK, TargetWhole
  <2>2. CallsOK' /\ TempsOK' /\ OrigOK' /\ FileOK' /\ CounterOK' /\ TempsAccounted'
    BY <1>4 DEF vars, IInv, CallsOK, TempsOK, OrigOK, FileOK, Absent, CounterOK,
                Creating, TempsAccounted
  <2>3. QED BY <2>1, <2>2 DEF IInv
<1>5. QED BY <1>1, <1>2, <1>3, <1>4, MutateStep, FileStep, CrashStep DEF Next

LEMMA Invariance == Spec => []IInv
BY InitInvariant, Step, PTL DEF Spec

(* At every moment the target is missing or whole, every temporary file is *)
(* accounted for and no store is larger than its limit: whatever fails,    *)
(* whoever dies, and however many write at once (write_store).             *)
THEOREM Soundness == Spec => []DirectorySound
<1>1. IInv => DirectorySound BY DEF IInv, DirectorySound
<1>2. QED BY <1>1, Invariance, PTL

-----------------------------------------------------------------------------
(* The refinement: what an observer of the abstract store sees.            *)
FileSeen == [present |-> file.present, data |-> file.data, readable |-> Readable(file)]
CallSeen == [c \in Client |-> IF op[c] = "none" THEN "idle" ELSE op[c]]

(* The operators of the two modules agree.                                 *)
LEMMA SameOperators ==
  /\ Abstract!Entries = Entries
  /\ Abstract!Empty = Empty
  /\ Abstract!Closed = Closed
BY DEF Abstract!Entries, Abstract!Empty, Abstract!Closed, Entries, Empty, Closed

LEMMA SeenUnchanged ==
  /\ UNCHANGED file => UNCHANGED FileSeen
  /\ UNCHANGED op => UNCHANGED CallSeen
BY DEF FileSeen, CallSeen, Readable, Keys

LEMMA ReadableBoolean == Readable(file) \in BOOLEAN /\ Readable(file)' \in BOOLEAN
BY DEF Readable

LEMMA CallSeenAt ==
  ASSUME TypeOK, NEW c \in Client
  PROVE  /\ CallSeen[c] = IF op[c] = "none" THEN "idle" ELSE op[c]
         /\ \A o : op' = [op EXCEPT ![c] = o] =>
              CallSeen' = [CallSeen EXCEPT ![c] = IF o = "none" THEN "idle" ELSE o]
BY DEF TypeOK, CallSeen

LEMMA InitRefines == Init => Abstract!Init
<1> SUFFICES ASSUME Init PROVE Abstract!Init OBVIOUS
<1>. USE DEF Init
<1>1. FileSeen \in {Abstract!Absent} \cup
        [present : {TRUE}, data : Abstract!Entries, readable : BOOLEAN]
  <2>1. CASE file = Absent
    BY <2>1, SameOperators DEF FileSeen, Absent, Abstract!Absent, Readable
  <2>2. CASE file # Absent
    <3>1. file.present = TRUE /\ file.data \in Entries BY <2>2
    <3>2. QED BY <3>1, SameOperators, ReadableBoolean DEF FileSeen
  <2>3. QED BY <2>1, <2>2
<1>2. CallSeen = [c \in Client |-> "idle"] BY DEF CallSeen
<1>3. QED BY <1>1, <1>2, SameOperators DEF Abstract!Init, FileSeen, CallSeen

(* A call ends, and with it the transaction it commits.                    *)
LEMMA ReturnRefines ==
  ASSUME IInv, NEW c \in Client, Return(c), pc[c] # "idle"
  PROVE  /\ CallSeen[c] = op[c] /\ CallSeen[c] # "idle"
         /\ CallSeen' = [CallSeen EXCEPT ![c] = "idle"]
         /\ Abstract!EndCommit(c)
<1>1. op[c] # "none" /\ op[c] # "idle"
  BY DEF IInv, TypeOK, CallsOK, Loads, Writes
<1>2. CallSeen[c] = op[c] /\ CallSeen[c] # "idle"
  BY <1>1, CallSeenAt DEF IInv
<1>3. CallSeen' = [CallSeen EXCEPT ![c] = "idle"]
  BY ReturnEffect, CallSeenAt DEF IInv
<1>4. Abstract!EndCommit(c)
  BY <1>2, ReturnEffect, SameOperators DEF IInv, Abstract!EndCommit, CallSeen
<1>5. QED BY <1>2, <1>3, <1>4

LEMMA FailureRefines ==
  ASSUME IInv, NEW c \in Client, ReturnFailure(c), pc[c] # "idle", UNCHANGED file
  PROVE  Abstract!Fail(c)
<1>1. Return(c) BY DEF ReturnFailure
<1>2. store' = [store EXCEPT ![c] = IF CallSeen[c] = "commit" THEN orig[c] ELSE @]
  BY <1>1, ReturnRefines DEF ReturnFailure
<1>3. QED
  BY <1>1, <1>2, ReturnRefines, SeenUnchanged DEF Abstract!Fail, FileSeen, CallSeen

LEMMA CallRefines ==
  ASSUME IInv, NEW c \in Client, NEW o \in Loads \cup Writes, Call(c, o),
         o \in Writes \cup {"reload"} => store[c].open,
         o \in Writes => ~store[c].ro,
         o = "commit" => intx[c]
  PROVE  Abstract!Call(c)
<1>1. op[c] = "none" BY DEF Call, IInv, CallsOK
<1>2. CallSeen[c] = "idle" BY <1>1, CallSeenAt DEF IInv
<1>3. CallSeen' = [CallSeen EXCEPT ![c] = o]
  BY CallSeenAt DEF Call, IInv, Loads, Writes
<1>4. UNCHANGED FileSeen BY SeenUnchanged DEF Call
<1>5. o \in {"open", "open_read_only", "reload", "save", "commit"}
  BY DEF Loads, Writes
<1>6. QED
  BY <1>2, <1>3, <1>4, <1>5 DEF Abstract!Call, FileSeen, CallSeen, Call, Loads, Writes

LEMMA LoadRefines ==
  ASSUME IInv, NEW c \in Client, pc[c] \in {"exists", "read"}, Loaded(c, file.data),
         \/ Readable(file)
         \/ ~file.present /\ op[c] # "open_read_only",
         UNCHANGED file
  PROVE  Abstract!Load(c)
<1>1. Return(c) BY DEF Loaded
<1>2. CallSeen[c] = op[c] /\ op[c] \in Loads /\ op[c] # "commit"
  BY <1>1, ReturnRefines DEF IInv, CallsOK, Loads
<1>3. UNCHANGED <<orig, intx>> BY <1>1, <1>2, ReturnEffect DEF IInv
<1>4. CallSeen' = [CallSeen EXCEPT ![c] = "idle"] BY <1>1, ReturnRefines
<1>5. FileSeen' = FileSeen BY SeenUnchanged
<1>6. \/ FileSeen.present /\ FileSeen.readable
      \/ ~FileSeen.present /\ CallSeen[c] # "open_read_only"
  BY <1>2 DEF FileSeen, Readable
<1>7. store' = [store EXCEPT ![c] =
        [open |-> TRUE, entries |-> FileSeen.data,
         ro |-> IF CallSeen[c] = "reload" THEN @.ro ELSE CallSeen[c] = "open_read_only"]]
  BY <1>2 DEF Loaded, FileSeen
<1>8. QED
  BY <1>2, <1>3, <1>4, <1>5, <1>6, <1>7 DEF Abstract!Load, FileSeen, CallSeen, Loads

Stutter == UNCHANGED <<FileSeen, store, orig, intx, CallSeen>>

(* open, open_read_only and reload: the query and the read.                *)
LEMMA LoadStepRefines ==
  ASSUME IInv, NEW c \in Client, Load(c)
  PROVE  Abstract!Call(c) \/ Abstract!Load(c) \/ Abstract!Fail(c) \/ Stutter
<1>1. CASE open(c) \/ open_read_only(c) \/ reload(c)
  <2>1. CASE open(c) BY <2>1, CallRefines DEF open, Loads, Writes
  <2>2. CASE open_read_only(c) BY <2>2, CallRefines DEF open_read_only, Loads, Writes
  <2>3. CASE reload(c) BY <2>3, CallRefines DEF reload, Loads, Writes
  <2>4. QED BY <1>1, <2>1, <2>2, <2>3
<1>2. CASE exists(c)
  <2>1. pc[c] = "exists" /\ UNCHANGED file BY <1>2 DEF exists
  <2>2. CASE ~file.present /\ op[c] # "open_read_only" /\ Loaded(c, Empty)
    <3>1. file.data = Empty BY <2>2 DEF IInv, FileOK, Absent
    <3>2. QED BY <2>1, <2>2, <3>1, LoadRefines
  <2>3. CASE ReturnFailure(c) BY <2>1, <2>3, FailureRefines
  <2>4. CASE UNCHANGED <<op, store, orig, intx>>
    BY <2>1, <2>4, SeenUnchanged DEF Stutter
  <2>5. QED BY <1>2, <2>2, <2>3, <2>4 DEF exists
<1>3. CASE read_store(c)
  <2>1. pc[c] = "read" /\ UNCHANGED file BY <1>3 DEF read_store
  <2>2. CASE Readable(file) /\ Loaded(c, file.data) BY <2>1, <2>2, LoadRefines
  <2>3. CASE ReturnFailure(c) BY <2>1, <2>3, FailureRefines
  <2>4. QED BY <1>3, <2>2, <2>3 DEF read_store, read_failed
<1>4. QED BY <1>1, <1>2, <1>3 DEF Load

(* The changes of a store in memory.                                       *)
LEMMA MutateStoreRefines ==
  ASSUME IInv, NEW c \in Client, NEW d \in Entries, mutate_store(c, d)
  PROVE  Abstract!Mutate(c)
<1>1. CallSeen[c] = "idle"
  BY CallSeenAt DEF IInv, CallsOK, mutate_store
<1>2. d \in Abstract!Entries BY SameOperators
<1>3. QED
  BY <1>1, <1>2, SeenUnchanged DEF mutate_store, Abstract!Mutate, FileSeen, CallSeen

LEMMA MutateRefines ==
  ASSUME IInv, NEW c \in Client, Mutate(c)
  PROVE  Abstract!Mutate(c)
<1>1. store[c].entries \in Entries BY DEF IInv, TypeOK
<1>2. \E d \in Entries : mutate_store(c, d)
  <2>1. CASE set_many(c)
    <3>1. \A d \in Entries :
            [k \in Key |-> IF d[k] # NoVal THEN d[k] ELSE store[c].entries[k]] \in Entries
      BY <1>1 DEF Entries
    <3>2. QED BY <2>1, <3>1 DEF set_many
  <2>2. CASE remove(c)
    <3>1. \A k : [store[c].entries EXCEPT ![k] = NoVal] \in Entries
      BY <1>1 DEF Entries
    <3>2. QED BY <2>2, <3>1 DEF remove
  <2>3. CASE clear(c) BY <2>3, KeysOfEmpty DEF clear
  <2>4. QED BY <2>1, <2>2, <2>3 DEF Mutate
<1>3. QED BY <1>2, MutateStoreRefines

(* save, and the transaction up to its commit.                             *)
LEMMA TransactRefines ==
  ASSUME IInv, NEW c \in Client, Transact(c)
  PROVE  \/ Abstract!Call(c) \/ Abstract!Begin(c) \/ Abstract!Rollback(c)
         \/ Abstract!CommitReadOnly(c)
<1>1. CASE save(c) BY <1>1, CallRefines DEF save, Writes
<1>2. CASE commit(c) /\ ~store[c].ro
  <2>1. store[c].open BY <1>2 DEF commit, IInv, CallsOK
  <2>2. QED BY <1>2, <2>1, CallRefines DEF commit, Writes
<1>3. CASE UNCHANGED <<file, op>> /\ pc[c] = "idle"
  <2>1. CallSeen[c] = "idle" /\ UNCHANGED <<FileSeen, CallSeen>>
    BY <1>3, CallSeenAt, SeenUnchanged DEF IInv, CallsOK
  <2>2. CASE transaction(c)
    BY <2>1, <2>2 DEF transaction, Abstract!Begin, FileSeen, CallSeen
  <2>3. CASE rollback(c)
    BY <2>1, <2>3, SameOperators DEF rollback, Abstract!Rollback, FileSeen, CallSeen
  <2>4. CASE commit(c) /\ store[c].ro
    BY <2>1, <2>4, SameOperators DEF commit, Abstract!CommitReadOnly, FileSeen, CallSeen
  <2>5. QED BY <1>1, <1>2, <2>2, <2>3, <2>4 DEF Transact
<1>4. QED BY <1>1, <1>2, <1>3 DEF Transact, transaction, rollback, commit

(* save and commit: only the rename is seen, or the failure.               *)
LEMMA WriteRefines ==
  ASSUME IInv, NEW c \in Client, Write(c)
  PROVE  Abstract!Replace(c) \/ Abstract!Fail(c) \/ Stutter
<1>1. pc[c] # "idle" BY DEF Write, create, write, flush, close, rename
<1>2. CASE ReturnFailure(c) /\ UNCHANGED file BY <1>1, <1>2, FailureRefines
<1>3. CASE UNCHANGED <<file, op, store, orig, intx>>
  BY <1>3, SeenUnchanged DEF Stutter
<1>4. CASE rename(c) /\ ~rename_failed(c)
  <2>1. temps[temp[c]] = [data |-> store[c].entries, whole |-> TRUE]
    BY <1>4 DEF rename, IInv, TempsOK
  <2>2. Return(c) /\ UNCHANGED store BY <1>4 DEF rename
  <2>3. file' = [present |-> TRUE, damaged |-> FALSE,
                 data |-> store[c].entries, whole |-> TRUE]
    BY <1>4, <2>1 DEF rename
  <2>4. FileSeen' \in [present : {TRUE}, data : {store[c].entries}, readable : BOOLEAN]
    BY <2>3, ReadableBoolean DEF FileSeen
  <2>5. CallSeen[c] \in {"save", "commit"}
    BY <1>4, <2>2, ReturnRefines DEF rename, IInv, TypeOK, CallsOK, Loads, Writes
  <2>6. QED
    BY <1>1, <2>2, <2>4, <2>5, ReturnRefines DEF Abstract!Replace, FileSeen, CallSeen
<1>5. CASE create(c) \/ write(c) BY <1>2, <1>3, <1>5 DEF create, write
<1>6. CASE flush(c) \/ close(c) BY <1>2, <1>3, <1>6 DEF flush, close, GiveUp
<1>7. CASE rename(c) BY <1>2, <1>4, <1>7 DEF rename, rename_failed, GiveUp
<1>8. QED BY <1>5, <1>6, <1>7 DEF Write

(* The file is removed, a process dies, the file is damaged or mended.     *)
LEMMA EnvironmentRefines ==
  IInv =>
    /\ \A c \in Client : destroy(c) => Abstract!Destroy(c)
    /\ \A c \in Client : crash(c) => Abstract!Crash(c)
    /\ damage => Abstract!Outside
<1>1. ASSUME IInv, NEW c \in Client, destroy(c) PROVE Abstract!Destroy(c)
  <2>1. CallSeen[c] = "idle" /\ UNCHANGED CallSeen
    BY <1>1, CallSeenAt, SeenUnchanged DEF IInv, CallsOK, destroy
  <2>2. FileSeen' = Abstract!Absent
    BY <1>1, SameOperators DEF destroy, FileSeen, Absent, Abstract!Absent, Readable
  <2>3. QED BY <1>1, <2>1, <2>2 DEF destroy, Abstract!Destroy, FileSeen, CallSeen
<1>2. ASSUME IInv, NEW c \in Client, crash(c) PROVE Abstract!Crash(c)
  <2>1. UNCHANGED FileSeen BY <1>2, SeenUnchanged DEF crash
  <2>2. CallSeen' = [CallSeen EXCEPT ![c] = "idle"]
    BY <1>2, CallSeenAt DEF IInv, crash
  <2>3. QED
    BY <1>2, <2>1, <2>2, SameOperators DEF crash, Abstract!Crash, FileSeen, CallSeen
<1>3. ASSUME IInv, damage PROVE Abstract!Outside
  <2>1. UNCHANGED CallSeen BY <1>3, SeenUnchanged DEF damage
  <2>2. FileSeen.present
        /\ FileSeen' \in [present : {TRUE}, data : {FileSeen.data}, readable : BOOLEAN]
    BY <1>3, ReadableBoolean DEF damage, IInv, TypeOK, FileSeen
  <2>3. QED BY <1>3, <2>1, <2>2 DEF damage, Abstract!Outside, FileSeen, CallSeen
<1>4. QED BY <1>1, <1>2, <1>3

LEMMA StepRefines ==
  ASSUME IInv, [Next]_vars
  PROVE  [Abstract!Next]_(Abstract!svars)
<1>1. ASSUME Stutter PROVE UNCHANGED Abstract!svars
  BY <1>1 DEF Stutter, Abstract!svars, FileSeen, CallSeen
<1>2. ASSUME NEW c \in Client,
             Load(c) \/ Mutate(c) \/ Transact(c) \/ Write(c) \/ destroy(c) \/ crash(c)
      PROVE  Abstract!Next \/ Stutter
  BY <1>2, LoadStepRefines, MutateRefines, TransactRefines, WriteRefines,
     EnvironmentRefines DEF Abstract!Next
<1>3. CASE damage BY <1>3, EnvironmentRefines DEF Abstract!Next
<1>4. ASSUME UNCHANGED vars PROVE Stutter
  <2>1. UNCHANGED file /\ UNCHANGED op /\ UNCHANGED <<store, orig, intx>>
    BY <1>4 DEF vars
  <2>2. QED BY <2>1, SeenUnchanged DEF Stutter
<1>5. QED BY <1>1, <1>2, <1>3, <1>4 DEF Next

(* Each operation is one atomic step on the file, as KeyValueStoreSpec     *)
(* says: a save replaces it or leaves it, a load sees one moment of it, an *)
(* unreadable file is never an empty store (read_store, write_store).      *)
THEOREM Refinement == Spec => ImplementsStoreSpec
<1>1. Init => Abstract!Init BY InitRefines
<1>2. IInv /\ [Next]_vars => [Abstract!Next]_(Abstract!svars) BY StepRefines
<1>3. QED BY <1>1, <1>2, Invariance, PTL DEF Spec, ImplementsStoreSpec, Abstract!Spec
=============================================================================
