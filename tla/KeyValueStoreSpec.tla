-------------------------- MODULE KeyValueStoreSpec --------------------------
(***************************************************************************)
(* What KeyValueStore promises about the file behind its stores: a save    *)
(* (or a commit) replaces the file by the whole store of the caller in one *)
(* step or does not touch it, a load yields exactly what the file holds or *)
(* fails, only a missing file is an empty store, and a rolled back         *)
(* transaction leaves both the store and the file as they were.            *)
(***************************************************************************)
CONSTANTS Client, Key, Val, NoVal

VARIABLES
  file,     \* [present, data, readable]: the file as a reader finds it
  held,     \* held[c]: the store the program of c holds: [open, ro, entries]
  orig,     \* orig[c]: the store the running transaction of c started from
  intx,     \* intx[c]: is c inside the body of a transaction?
  call      \* call[c]: the file operation c is in: "idle", "open",
            \* "open_read_only", "reload", "save" or "commit"

svars == <<file, held, orig, intx, call>>

Entries == [Key -> Val \cup {NoVal}]
Empty == [k \in Key |-> NoVal]
Closed == [open |-> FALSE, ro |-> FALSE, entries |-> Empty]
Absent == [present |-> FALSE, data |-> Empty, readable |-> FALSE]

Init ==
  /\ file \in {Absent} \cup [present : {TRUE}, data : Entries, readable : BOOLEAN]
  /\ held = [c \in Client |-> Closed]
  /\ orig = held
  /\ intx = [c \in Client |-> FALSE]
  /\ call = [c \in Client |-> "idle"]

Call(c) ==
  /\ call[c] = "idle"
  /\ \E op \in {"open", "open_read_only", "reload", "save", "commit"} :
       /\ op \in {"reload", "save", "commit"} => held[c].open
       /\ op \in {"save", "commit"} => ~held[c].ro
       /\ op = "commit" => intx[c]
       /\ call' = [call EXCEPT ![c] = op]
  /\ UNCHANGED <<file, held, orig, intx>>

\* A load sees the file of one moment, or nothing at all.
Load(c) ==
  /\ call[c] \in {"open", "open_read_only", "reload"}
  /\ \/ file.present /\ file.readable
     \/ ~file.present /\ call[c] # "open_read_only"
  /\ held' = [held EXCEPT ![c] =
       [open |-> TRUE, entries |-> file.data,
        ro |-> IF call[c] = "reload" THEN @.ro ELSE call[c] = "open_read_only"]]
  /\ call' = [call EXCEPT ![c] = "idle"]
  /\ UNCHANGED <<file, orig, intx>>

EndCommit(c) ==
  IF call[c] = "commit" THEN /\ intx' = [intx EXCEPT ![c] = FALSE]
                             /\ orig' = [orig EXCEPT ![c] = Closed]
                        ELSE UNCHANGED <<intx, orig>>

\* A save or a commit takes effect as a whole.
Replace(c) ==
  /\ call[c] \in {"save", "commit"}
  /\ file' \in [present : {TRUE}, data : {held[c].entries}, readable : BOOLEAN]
  /\ call' = [call EXCEPT ![c] = "idle"]
  /\ EndCommit(c)
  /\ UNCHANGED held

\* Or it fails: the file is untouched, a failed commit returns no store.
Fail(c) ==
  /\ call[c] # "idle"
  /\ call' = [call EXCEPT ![c] = "idle"]
  /\ held' = [held EXCEPT ![c] = IF call[c] = "commit" THEN orig[c] ELSE @]
  /\ EndCommit(c)
  /\ UNCHANGED file

\* set, remove, clear, set_many, update: in memory, never on a read-only store.
Mutate(c) ==
  /\ call[c] = "idle" /\ held[c].open /\ ~held[c].ro
  /\ \E d \in Entries : held' = [held EXCEPT ![c].entries = d]
  /\ UNCHANGED <<file, orig, intx, call>>

Begin(c) ==
  /\ call[c] = "idle" /\ held[c].open /\ ~intx[c]
  /\ intx' = [intx EXCEPT ![c] = TRUE]
  /\ orig' = [orig EXCEPT ![c] = held[c]]
  /\ UNCHANGED <<file, held, call>>

\* The body failed: the program goes on with the store it started from.
Rollback(c) ==
  /\ call[c] = "idle" /\ intx[c]
  /\ intx' = [intx EXCEPT ![c] = FALSE]
  /\ held' = [held EXCEPT ![c] = orig[c]]
  /\ orig' = [orig EXCEPT ![c] = Closed]
  /\ UNCHANGED <<file, call>>

\* The commit of a read-only store writes nothing.
CommitReadOnly(c) ==
  /\ call[c] = "idle" /\ intx[c] /\ held[c].ro
  /\ intx' = [intx EXCEPT ![c] = FALSE]
  /\ orig' = [orig EXCEPT ![c] = Closed]
  /\ UNCHANGED <<file, held, call>>

Destroy(c) ==
  /\ call[c] = "idle" /\ held[c].open /\ ~held[c].ro
  /\ file' = Absent
  /\ UNCHANGED <<held, orig, intx, call>>

\* The process dies; whatever it was doing, the file stays as it is.
Crash(c) ==
  /\ call' = [call EXCEPT ![c] = "idle"]
  /\ held' = [held EXCEPT ![c] = Closed]
  /\ orig' = [orig EXCEPT ![c] = Closed]
  /\ intx' = [intx EXCEPT ![c] = FALSE]
  /\ UNCHANGED file

\* Somebody outside takes away or gives back the permission to read, or
\* damages the text.
Outside ==
  /\ file.present
  /\ file' \in [present : {TRUE}, data : {file.data}, readable : BOOLEAN]
  /\ UNCHANGED <<held, orig, intx, call>>

Next ==
  \/ \E c \in Client :
       \/ Call(c) \/ Load(c) \/ Replace(c) \/ Fail(c) \/ Mutate(c) \/ Begin(c)
       \/ Rollback(c) \/ CommitReadOnly(c) \/ Destroy(c) \/ Crash(c)
  \/ Outside

Spec == Init /\ [][Next]_svars
=============================================================================
