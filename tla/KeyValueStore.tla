---------------------------- MODULE KeyValueStore ----------------------------
(***************************************************************************)
(* The file behind KeyValueStore: several tasks or processes (Client) open *)
(* stores on one path, change them in memory (copy on write) and write     *)
(* them back through a temporary file that is renamed over the target.     *)
(*                                                                         *)
(* Any file system call may fail and any process may die between two of    *)
(* them (at most MaxFaults times), and the file may be made unreadable     *)
(* from outside.  A store value never changes once it is built, so its     *)
(* mutex only delays: each client has its own reference and the mutex is   *)
(* left out.                                                               *)
(***************************************************************************)
EXTENDS Naturals, FiniteSets

CONSTANTS
  Client, Key, Val,
  NoVal,          \* "no entry under this key"
  MaxEntries,     \* ResourceLimits::max_dictionary_size
  MaxFileSize,    \* ResourceLimits::max_string_size, in entries
  MaxCalls,       \* bound: loads and writes of all clients
  MaxFaults       \* bound: failed calls, crashes and damage from outside

ASSUME ClientAssumption == IsFiniteSet(Client)

ASSUME KeyAssumption == IsFiniteSet(Key)

ASSUME LimitAssumption == MaxEntries \in Nat /\ MaxCalls \in Nat /\ MaxFaults \in Nat

VARIABLES
  file,     \* the target: [present, data, whole, damaged]
  temps,    \* the temporary files of the directory: name -> [data, whole]
  counter,  \* the process-wide counter in their names
  store,    \* store[c]: the store the program of c holds
  orig,     \* orig[c]: the store its transaction started from
  intx,     \* intx[c]: is c inside the body of a transaction?
  pc,       \* pc[c]: where c is in its file operation
  op,       \* op[c]: the operation
  temp,     \* temp[c]: its temp_path
  orphans,  \* the temporary files whose owner died or could not remove them
  calls,    \* the file operations called so far
  faults

vars == <<file, temps, counter, store, orig, intx, pc, op, temp, orphans, calls, faults>>

Entries == [Key -> Val \cup {NoVal}]
Empty == [k \in Key |-> NoVal]
Keys(d) == {k \in Key : d[k] # NoVal}
Closed == [open |-> FALSE, ro |-> FALSE, entries |-> Empty]
Absent == [present |-> FALSE, data |-> Empty, whole |-> TRUE, damaged |-> FALSE]
Name == 0 .. MaxCalls
Loads == {"open", "open_read_only", "reload"}
Writes == {"save", "commit"}
Writing == {"create", "write", "flush", "close", "rename"}

TypeOK ==
  /\ file \in [present : BOOLEAN, data : Entries, whole : BOOLEAN, damaged : BOOLEAN]
  /\ DOMAIN temps \subseteq 1 .. counter
  /\ \A n \in DOMAIN temps : temps[n] \in [data : Entries, whole : BOOLEAN]
  /\ counter \in Name
  /\ store \in [Client -> [open : BOOLEAN, ro : BOOLEAN, entries : Entries]]
  /\ \A c \in Client : Cardinality(Keys(store[c].entries)) <= MaxEntries
  /\ orig \in [Client -> [open : BOOLEAN, ro : BOOLEAN, entries : Entries]]
  /\ intx \in [Client -> BOOLEAN]
  /\ pc \in [Client -> {"idle", "exists", "read"} \cup Writing]
  /\ op \in [Client -> {"none"} \cup Loads \cup Writes]
  /\ temp \in [Client -> Name]
  /\ orphans \subseteq DOMAIN temps
  /\ calls \in 0 .. MaxCalls
  /\ faults \in 0 .. MaxFaults

\* The file may come from an interpreter with larger limits.
Init ==
  /\ file \in {Absent} \cup
       [present : {TRUE}, data : Entries, whole : {TRUE}, damaged : {FALSE}]
  /\ temps = <<>>
  /\ counter = 0
  /\ store = [c \in Client |-> Closed]
  /\ orig = store
  /\ intx = [c \in Client |-> FALSE]
  /\ pc = [c \in Client |-> "idle"]
  /\ op = [c \in Client |-> "none"]
  /\ temp = [c \in Client |-> 0]
  /\ orphans = {}
  /\ calls = 0
  /\ faults = 0

Fault == faults < MaxFaults /\ faults' = faults + 1

\* The call of c returns.  The store a transaction started from is forgotten
\* with the transaction.
Return(c) ==
  /\ pc' = [pc EXCEPT ![c] = "idle"]
  /\ op' = [op EXCEPT ![c] = "none"]
  /\ temp' = [temp EXCEPT ![c] = 0]
  /\ intx' = [intx EXCEPT ![c] = @ /\ op[c] # "commit"]
  /\ orig' = [orig EXCEPT ![c] = IF op[c] = "commit" THEN Closed ELSE @]

\* A failed commit returns no store: the program still has the one it
\* started from.
ReturnFailure(c) ==
  /\ Return(c)
  /\ store' = [store EXCEPT ![c] = IF op[c] = "commit" THEN orig[c] ELSE @]

(***************************************************************************)
(* open, open_read_only, reload                                            *)
(***************************************************************************)
Call(c, o) ==
  /\ pc[c] = "idle" /\ calls < MaxCalls
  /\ calls' = calls + 1
  /\ pc' = [pc EXCEPT ![c] = IF o \in Loads THEN "exists" ELSE "create"]
  /\ op' = [op EXCEPT ![c] = o]
  /\ UNCHANGED <<file, temps, counter, store, orig, intx, temp, orphans, faults>>

open(c) == Call(c, "open")

open_read_only(c) == Call(c, "open_read_only")

reload(c) == store[c].open /\ Call(c, "reload")

Loaded(c, d) ==
  /\ Return(c)
  /\ store' = [store EXCEPT ![c] =
       [open |-> TRUE, entries |-> d,
        ro |-> IF op[c] = "reload" THEN @.ro ELSE op[c] = "open_read_only"]]

\* A missing file is an empty store, unless it is opened read-only.
exists(c) ==
  /\ pc[c] = "exists"
  /\ \/ /\ ~file.present /\ op[c] # "open_read_only"
        /\ Loaded(c, Empty)
        /\ UNCHANGED faults
     \/ /\ ~file.present /\ op[c] = "open_read_only"
        /\ ReturnFailure(c)
        /\ UNCHANGED faults
     \/ /\ file.present
        /\ pc' = [pc EXCEPT ![c] = "read"]
        /\ UNCHANGED <<op, store, orig, intx, temp, faults>>
     \* The query itself fails: open and reload try to read, open_read_only fails.
     \/ /\ Fault
        /\ op[c] # "open_read_only"
        /\ pc' = [pc EXCEPT ![c] = "read"]
        /\ UNCHANGED <<op, store, orig, intx, temp>>
     \/ Fault /\ op[c] = "open_read_only" /\ ReturnFailure(c)
  /\ UNCHANGED <<file, temps, counter, orphans, calls>>

\* read_file_bounded, the check of the separators and the limits of
\* parse_store: can this file be read completely?  A file that was cut in the
\* middle of a record can.
Readable(f) ==
  /\ f.present /\ ~f.damaged
  /\ Cardinality(Keys(f.data)) <= MaxFileSize
  /\ Cardinality(Keys(f.data)) <= MaxEntries

\* As it used to be: an unreadable file is an empty store.
read_failed_as_empty(c) == Loaded(c, Empty)

\* Every failure to read is a failure of the call, never an empty store.
read_failed(c) == ReturnFailure(c)

read_store(c) ==
  /\ pc[c] = "read"
  /\ \/ Readable(file) /\ Loaded(c, file.data) /\ UNCHANGED faults
     \/ ~Readable(file) /\ read_failed(c) /\ UNCHANGED faults
     \/ Fault /\ read_failed(c)
  /\ UNCHANGED <<file, temps, counter, orphans, calls>>

(***************************************************************************)
(* set, set_many, update, remove, clear: a changed copy of the store       *)
(***************************************************************************)
mutate_store(c, d) ==
  /\ pc[c] = "idle" /\ store[c].open
  /\ ~store[c].ro
  /\ store' = [store EXCEPT ![c].entries = d]
  /\ UNCHANGED <<file, temps, counter, orig, intx, pc, op, temp, orphans, faults, calls>>

\* The entries of d under their keys; a store at its limit takes no new key
\* (the error leaves the body of a transaction and the program keeps its store).
WithinLimit(e, d) == Cardinality(Keys(e) \cup Keys(d)) <= MaxEntries

set_many(c) ==
  \E d \in Entries \ {Empty} :
    LET e == store[c].entries IN
    /\ WithinLimit(e, d)
    /\ mutate_store(c, [k \in Key |-> IF d[k] # NoVal THEN d[k] ELSE e[k]])

remove(c) ==
  \E k \in Keys(store[c].entries) :
    mutate_store(c, [store[c].entries EXCEPT ![k] = NoVal])

clear(c) == mutate_store(c, Empty)

(***************************************************************************)
(* save and the commit of a transaction: write_store                       *)
(***************************************************************************)
save(c) == store[c].open /\ ~store[c].ro /\ Call(c, "save")

transaction(c) ==
  /\ pc[c] = "idle" /\ store[c].open /\ ~intx[c]
  /\ intx' = [intx EXCEPT ![c] = TRUE]
  /\ orig' = [orig EXCEPT ![c] = store[c]]
  /\ UNCHANGED <<file, temps, counter, store, pc, op, temp, orphans, faults, calls>>

rollback(c) ==
  /\ pc[c] = "idle" /\ intx[c]
  /\ intx' = [intx EXCEPT ![c] = FALSE]
  /\ store' = [store EXCEPT ![c] = orig[c]]
  /\ orig' = [orig EXCEPT ![c] = Closed]
  /\ UNCHANGED <<file, temps, counter, pc, op, temp, orphans, faults, calls>>

commit(c) ==
  /\ intx[c]
  /\ \/ ~store[c].ro /\ Call(c, "commit")
     \/ /\ pc[c] = "idle" /\ store[c].ro
        /\ intx' = [intx EXCEPT ![c] = FALSE]
        /\ orig' = [orig EXCEPT ![c] = Closed]
        /\ UNCHANGED <<file, temps, counter, store, pc, op, temp, orphans, faults, calls>>

shared_temp_path(n) == 1

\* No other writer, in this process or in another, picks this name.
unique_temp_path(n) == n

\* Remove the temporary file n; the error of the removal is ignored.
discard_temp(n) ==
  \/ temps' = [m \in DOMAIN temps \ {n} |-> temps[m]] /\ UNCHANGED orphans
  \/ UNCHANGED temps /\ orphans' = orphans \cup {n}

\* std::ofstream file{temp_path}
create(c) ==
  /\ pc[c] = "create"
  /\ counter' = counter + 1
  /\ LET n == unique_temp_path(counter + 1) IN
     \/ /\ temps' = [m \in DOMAIN temps \cup {n} |->
                      IF m = n THEN [data |-> Empty, whole |-> FALSE] ELSE temps[m]]
        /\ temp' = [temp EXCEPT ![c] = n]
        /\ pc' = [pc EXCEPT ![c] = "write"]
        /\ UNCHANGED <<op, store, orig, intx, faults>>
     \/ Fault /\ ReturnFailure(c) /\ UNCHANGED temps
  /\ UNCHANGED <<file, orphans, calls>>

Put(n, d, w) == temps' = [temps EXCEPT ![n] = [data |-> d, whole |-> w]]

\* Some of the records reach the file before the others.
write(c) ==
  /\ pc[c] = "write"
  /\ \E s \in SUBSET Keys(store[c].entries) :
       /\ s # Keys(store[c].entries) \/ s = {}
       /\ Put(temp[c], [k \in Key |-> IF k \in s THEN store[c].entries[k] ELSE NoVal], FALSE)
  /\ pc' = [pc EXCEPT ![c] = "flush"]
  /\ UNCHANGED <<file, counter, store, orig, intx, op, temp, orphans, faults, calls>>

\* What follows a failed flush, close or rename.
GiveUp(c) == discard_temp(temp[c]) /\ ReturnFailure(c)

\* flush() reports whether everything was written.
flush(c) ==
  /\ pc[c] = "flush"
  /\ \/ /\ Put(temp[c], store[c].entries, TRUE)
        /\ pc' = [pc EXCEPT ![c] = "close"]
        /\ UNCHANGED <<op, store, orig, intx, temp, orphans, faults>>
     \/ Fault /\ GiveUp(c)
  /\ UNCHANGED <<file, counter, calls>>

close(c) ==
  /\ pc[c] = "close"
  /\ \/ /\ pc' = [pc EXCEPT ![c] = "rename"]
        /\ UNCHANGED <<temps, op, store, orig, intx, temp, orphans, faults>>
     \/ Fault /\ GiveUp(c)
  /\ UNCHANGED <<file, counter, calls>>

rename_failed(c) == GiveUp(c) /\ UNCHANGED file

\* fs::rename: the target becomes the temporary file in one step.
rename(c) ==
  /\ pc[c] = "rename"
  /\ \/ /\ temp[c] \in DOMAIN temps
        /\ file' = [present |-> TRUE, damaged |-> FALSE,
                    data |-> temps[temp[c]].data, whole |-> temps[temp[c]].whole]
        /\ temps' = [m \in DOMAIN temps \ {temp[c]} |-> temps[m]]
        /\ Return(c)
        /\ UNCHANGED <<store, orphans, faults>>
     \/ Fault /\ rename_failed(c)
  /\ UNCHANGED <<counter, calls>>

\* remove() of the backing file; it may fail and is fine with a missing file.
destroy(c) ==
  /\ pc[c] = "idle" /\ store[c].open
  /\ ~store[c].ro
  /\ file' = Absent
  /\ UNCHANGED <<temps, counter, store, orig, intx, pc, op, temp, orphans, faults, calls>>

(***************************************************************************)
(* The environment                                                         *)
(***************************************************************************)
\* The process of c dies: its memory is gone, its temporary file stays.
crash(c) ==
  /\ Fault
  /\ orphans' = orphans \cup ({temp[c]} \cap DOMAIN temps)
  /\ pc' = [pc EXCEPT ![c] = "idle"]
  /\ op' = [op EXCEPT ![c] = "none"]
  /\ store' = [store EXCEPT ![c] = Closed]
  /\ orig' = [orig EXCEPT ![c] = Closed]
  /\ intx' = [intx EXCEPT ![c] = FALSE]
  /\ temp' = [temp EXCEPT ![c] = 0]
  /\ UNCHANGED <<file, temps, counter, calls>>

damage ==
  /\ Fault
  /\ file.present
  /\ file' = [file EXCEPT !.damaged = ~@]
  /\ UNCHANGED <<temps, counter, store, orig, intx, pc, op, temp, orphans, calls>>

Load(c) == open(c) \/ open_read_only(c) \/ reload(c) \/ exists(c) \/ read_store(c)
Mutate(c) == set_many(c) \/ remove(c) \/ clear(c)
Transact(c) == save(c) \/ transaction(c) \/ rollback(c) \/ commit(c)
Write(c) == create(c) \/ write(c) \/ flush(c) \/ close(c) \/ rename(c)

Next ==
  \/ \E c \in Client : Load(c) \/ Mutate(c) \/ Transact(c) \/ Write(c) \/ destroy(c) \/ crash(c)
  \/ damage

Spec == Init /\ [][Next]_vars

(***************************************************************************)
(* Properties                                                              *)
(***************************************************************************)

\* write_store: whatever fails, whoever dies and however many writers there
\* are, the store file is missing or holds everything one save or commit wrote
\* ("a crash mid-copy would leave a truncated store - exactly what the
\* temp-and-rename dance exists to prevent").
TargetWhole == file.present => file.whole

\* write_store / discard_temp: a temporary file in the directory belongs to a
\* writer that is still at it, to a process that died in the middle of its
\* write, or could not be removed: no failure path forgets one.
TempsAccounted ==
  DOMAIN temps \subseteq
    orphans \cup {temp[c] : c \in {d \in Client : pc[d] \in Writing \ {"create"}}}

\* What a directory with a store may contain, at every moment.
DirectorySound == TypeOK /\ TargetWhole /\ TempsAccounted

Abstract == INSTANCE KeyValueStoreSpec WITH
  file <- [present |-> file.present, data |-> file.data, readable |-> Readable(file)],
  held <- store,
  call <- [c \in Client |-> IF op[c] = "none" THEN "idle" ELSE op[c]]

\* Each operation is one atomic step on the file: a save or commit replaces it
\* by the whole store or leaves it untouched, a load yields the contents of one
\* moment or fails, an unreadable file is never taken for an empty store (which
\* the next save would write over the data), a rollback undoes.
ImplementsStoreSpec == Abstract!Spec
=============================================================================
