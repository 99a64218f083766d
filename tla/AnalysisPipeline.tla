-------------------------- MODULE AnalysisPipeline --------------------------
(***************************************************************************)
(* The language server's document synchronisation and its background       *)
(* analysis (language-server/source: lsp_document_synchronizer.cpp,        *)
(* lsp_server_workspace.cpp, lsp_analysis_pipeline.cpp).                   *)
(*                                                                         *)
(* Two threads share the document store, the analysis cache and the set of *)
(* pending URIs.  The main thread handles one client message at a time; a  *)
(* handler takes state_mutex several times, so it is a locked first step   *)
(* and a list of steps still to do.  The worker collects, analyses and     *)
(* commits.  A text is its own hash; an analysis result is the text it was *)
(* made from and the files it included, as they were on disk.              *)
(***************************************************************************)
EXTENDS Integers, Sequences, FiniteSets

CONSTANTS
  Uri,              (* the documents                                       *)
  Content,          (* the texts                                           *)
  None,             (* no text: hash 0, a missing file, cleared            *)
  Error,            (* the diagnostic of an analysis that threw            *)
  Includes,         (* the files each document includes                    *)
  Faulty,           (* the texts an including file reports diagnostics in  *)
  Workspace,        (* the documents under a workspace root                *)
  OnSave,           (* the diagnostics_on_save setting                     *)
  MaxCache,         (* the analysis cache's max_entries_                   *)
  MaxMessages       (* bound of the model: messages and file changes       *)

ASSUME PipelineAssumption ==
  /\ IsFiniteSet(Uri)
  /\ Includes \in [Uri -> SUBSET Uri]
  /\ Faulty \subseteq Content
  /\ Workspace \subseteq Uri
  /\ OnSave \in BOOLEAN
  /\ None \notin Content /\ Error \notin Content /\ None # Error
  /\ MaxCache \in Nat
  /\ MaxMessages \in Nat

VARIABLES
  docs,        (* doc_store: DocumentState of each URI                     *)
  cache,       (* analysis_cache: the text each cached result was made of  *)
  included,    (* ... and what it read of the included files               *)
  dependents,  (* include_dependents_                                      *)
  pending,     (* pending_uris                                             *)
  force,       (* force_diagnostics_uris_                                  *)
  cancel_flag, (* analysis_cancel_flag                                     *)
  running,     (* running_                                                 *)
  mutex,       (* state_mutex is held by the worker, about to wait         *)
  todo,        (* what the main thread's current handler has left to do    *)
  wpc,         (* where the worker is                                      *)
  batch, rest, (* the URIs it collected, those it has not looked at        *)
  cur,         (* the analysis in flight: URI, text, included files, and   *)
               (* the URI whose diagnostics are on their way out           *)
  to_publish,  (* the URIs whose diagnostics it is to publish              *)
  disk,        (* the files                                                *)
  published,   (* the text of the last diagnostics sent for each URI       *)
  failed,      (* the URIs whose latest analysis threw (for the properties)*)
  messages     (* messages and file changes so far                         *)

store  == <<docs, cache, included, dependents>>
worker == <<wpc, batch, rest, cur, to_publish, failed>>
vars == <<store, pending, force, cancel_flag, running, mutex, todo, worker,
          disk, published, messages>>

Text == Content \cup {None}
Untracked == [tracked |-> FALSE, content |-> None, hash |-> None, background |-> FALSE]
NoIncludes == [u \in Uri |-> None]
Idle == [uri |-> None, text |-> None, inc |-> NoIncludes, out |-> None]

Step == [op : {"insert", "force", "signal", "dependents", "schedule",
               "schedule_forced", "publish", "load", "notify", "join", "ended"},
         uri : Uri \cup {None},      (* the document it is about            *)
         diag : Text \cup {Error},   (* what "publish" sends                *)
         uris : SUBSET Uri]          (* what "schedule" schedules           *)

WorkerPcs == {"loop", "lock", "doze", "sleep", "debounce", "reset", "next",
              "snapshot", "analyze", "failed", "cancelled", "commit",
              "publish", "send", "stopped"}

(* Type invariant.                                                         *)
TypeOK ==
  /\ docs \in [Uri -> [tracked : BOOLEAN, content : Text, hash : Text,
                       background : BOOLEAN]]
  /\ \A u \in Uri : ~docs[u].tracked => docs[u] = Untracked
  /\ cache \in [Uri -> Text]
  /\ included \in [Uri -> [Uri -> Text]]
  /\ dependents \in [Uri -> SUBSET Uri]
  /\ pending \subseteq Uri
  /\ force \subseteq Uri
  /\ cancel_flag \in BOOLEAN
  /\ running \in BOOLEAN
  /\ mutex \in BOOLEAN
  /\ todo \in Seq(Step)
  /\ wpc \in WorkerPcs
  /\ batch \subseteq Uri
  /\ rest \subseteq batch
  /\ cur \in [uri : Uri \cup {None}, text : Text, inc : [Uri -> Text],
              out : Uri \cup {None}]
  /\ to_publish \subseteq Uri
  /\ disk \in [Uri -> Text]
  /\ published \in [Uri -> Text \cup {Error}]
  /\ failed \subseteq Uri
  /\ messages \in 0..MaxMessages

Init ==
  /\ docs = [u \in Uri |-> Untracked]
  /\ cache = [u \in Uri |-> None]
  /\ included = [u \in Uri |-> NoIncludes]
  /\ dependents = [u \in Uri |-> {}]
  /\ pending = {}
  /\ force = {}
  /\ cancel_flag = FALSE
  /\ running = TRUE
  /\ mutex = FALSE
  /\ todo = <<>>
  /\ wpc = "loop"
  /\ batch = {} /\ rest = {}
  /\ cur = Idle
  /\ to_publish = {}
  /\ disk \in [Uri -> Content]
  /\ published = [u \in Uri |-> None]
  /\ failed = {}
  /\ messages = 0

IsOpen(u) == docs[u].tracked /\ ~docs[u].background

-----------------------------------------------------------------------------
(* The main thread: client messages.                                       *)

Do(op, u)      == [op |-> op, uri |-> u, diag |-> None, uris |-> {}]
Publish(u, d)  == [op |-> "publish", uri |-> u, diag |-> d, uris |-> {}]
DoAll(op, us)  == [op |-> op, uri |-> None, diag |-> None, uris |-> us]

(* schedule_analysis: the URI, the force mark, then the signal, each under *)
(* a lock of its own.                                                      *)
schedule_analysis(u, force_diagnostics) ==
  <<Do("insert", u)>>
    \o (IF force_diagnostics /\ OnSave THEN <<Do("force", u)>> ELSE <<>>)
    \o <<Do("signal", u)>>

(* The main loop takes the next message when it has handled the last one.  *)
Receive ==
  /\ todo = <<>>
  /\ messages < MaxMessages
  /\ messages' = messages + 1

(* didOpen, with the text of the editor's buffer.                          *)
handle_did_open(u, text) ==
  /\ Receive
  /\ ~mutex
  /\ ~IsOpen(u)
  /\ IF docs[u].tracked /\ docs[u].content = text
     THEN /\ docs' = [docs EXCEPT ![u].background = FALSE]
          /\ todo' = IF cache[u] # None THEN <<Publish(u, cache[u])>> ELSE <<>>
     ELSE /\ docs' = [docs EXCEPT ![u].tracked = TRUE, ![u].content = text,
                                  ![u].background = FALSE]
          /\ todo' = schedule_analysis(u, TRUE)
  /\ UNCHANGED <<cache, included, dependents, pending, force, cancel_flag,
                 running, mutex, worker, disk, published>>

(* didChange: ignored for a document that was never opened.                *)
handle_did_change(u, text) ==
  /\ Receive
  /\ ~mutex
  /\ ~docs[u].background
  /\ IF docs[u].tracked
     THEN /\ docs' = [docs EXCEPT ![u].content = text]
          /\ todo' = schedule_analysis(u, FALSE)
     ELSE UNCHANGED <<docs, todo>>
  /\ UNCHANGED <<cache, included, dependents, pending, force, cancel_flag,
                 running, mutex, worker, disk, published>>

(* The editor has written its buffer to disk.                              *)
handle_did_save(u) ==
  /\ Receive
  /\ IsOpen(u)
  /\ disk' = [disk EXCEPT ![u] = docs[u].content]
  /\ todo' = (IF OnSave THEN schedule_analysis(u, TRUE) ELSE <<>>)
               \o <<Do("dependents", u)>>
  /\ UNCHANGED <<store, pending, force, cancel_flag, running, mutex, worker,
                 published>>

handle_did_close(u) ==
  /\ Receive
  /\ ~mutex
  /\ IsOpen(u)
  /\ docs' = [docs EXCEPT ![u] = Untracked]
  /\ cache' = [cache EXCEPT ![u] = None]
  /\ included' = [included EXCEPT ![u] = NoIncludes]
  /\ pending' = pending \ {u}
  /\ dependents' = [f \in Uri |-> dependents[f] \ {u}]
  /\ todo' = <<Publish(u, None)>>
               \o (IF u \in Workspace THEN <<Do("load", u)>> ELSE <<>>)
  /\ UNCHANGED <<force, cancel_flag, running, mutex, worker, disk, published>>

(* handle_did_change_watched_files: a workspace file was changed or        *)
(* deleted by another program.  A background document is dropped; unless   *)
(* deleted it is loaded again, like a file not tracked yet.                *)
handle_did_change_watched_file(u, text) ==
  /\ Receive
  /\ ~mutex
  /\ u \in Workspace
  /\ disk' = [disk EXCEPT ![u] = text]
  /\ docs' = IF docs[u].background THEN [docs EXCEPT ![u] = Untracked] ELSE docs
  /\ IF text = None /\ docs[u].background
     THEN /\ cache' = [cache EXCEPT ![u] = None]
          /\ included' = [included EXCEPT ![u] = NoIncludes]
     ELSE UNCHANGED <<cache, included>>
  /\ todo' = (IF text # None /\ ~IsOpen(u) THEN <<Do("load", u)>> ELSE <<>>)
               \o <<DoAll("schedule_forced", dependents[u])>>
  /\ UNCHANGED <<dependents, pending, force, cancel_flag, running, mutex,
                 worker, published>>

(* $/cancelRequest also aborts the analysis in flight.                     *)
cancel_request ==
  /\ Receive
  /\ cancel_flag' = TRUE
  /\ UNCHANGED <<store, pending, force, running, mutex, todo, worker, disk,
                 published>>

(* handle_shutdown: running_ is cleared without state_mutex.               *)
handle_shutdown ==
  /\ Receive
  /\ running
  /\ running' = FALSE
  /\ todo' = <<Do("notify", None)>>
  /\ UNCHANGED <<store, pending, force, cancel_flag, mutex, worker, disk,
                 published>>

(* The end of run(), on "exit" or at end of input: running_ is cleared and *)
(* stop() notifies and joins.                                              *)
run_ends ==
  /\ todo = <<>>
  /\ running' = FALSE
  /\ todo' = <<Do("notify", None), Do("join", None)>>
  /\ UNCHANGED <<store, pending, force, cancel_flag, mutex, worker, disk,
                 published, messages>>

-----------------------------------------------------------------------------
(* The main thread: the steps of a handler after its first one.            *)

At(op) == todo # <<>> /\ Head(todo).op = op
uri == Head(todo).uri

insert_pending ==
  /\ At("insert")
  /\ ~mutex
  /\ pending' = pending \cup {uri}
  /\ todo' = Tail(todo)
  /\ UNCHANGED <<store, force, cancel_flag, running, mutex, worker, disk,
                 published, messages>>

mark_force ==
  /\ At("force")
  /\ force' = force \cup {uri}
  /\ todo' = Tail(todo)
  /\ UNCHANGED <<store, pending, cancel_flag, running, mutex, worker, disk,
                 published, messages>>

(* analysis_cv_.notify_one(): the worker is the only waiter.               *)
Wake == wpc' = IF wpc = "sleep" THEN "lock" ELSE wpc

signal ==
  /\ At("signal")
  /\ cancel_flag' = TRUE
  /\ Wake
  /\ todo' = Tail(todo)
  /\ UNCHANGED <<store, pending, force, running, mutex, batch, rest, cur,
                 to_publish, failed, disk, published, messages>>

(* handle_did_save looks up the dependents of the saved file, and each of  *)
(* them is scheduled.                                                      *)
look_up_dependents ==
  /\ At("dependents")
  /\ ~mutex
  /\ todo' = <<DoAll("schedule", dependents[uri])>> \o Tail(todo)
  /\ UNCHANGED <<store, pending, force, cancel_flag, running, mutex, worker,
                 disk, published, messages>>

schedule_each ==
  /\ At("schedule") \/ At("schedule_forced")
  /\ LET s == Head(todo) IN
     \/ /\ s.uris = {}
        /\ todo' = Tail(todo)
     \/ \E u \in s.uris :
          todo' = schedule_analysis(u, s.op = "schedule_forced")
                    \o <<DoAll(s.op, s.uris \ {u})>> \o Tail(todo)
  /\ UNCHANGED <<store, pending, force, cancel_flag, running, mutex, worker,
                 disk, published, messages>>

publish_diagnostics ==
  /\ At("publish")
  /\ published' = [published EXCEPT ![uri] = Head(todo).diag]
  /\ todo' = Tail(todo)
  /\ UNCHANGED <<store, pending, force, cancel_flag, running, mutex, worker,
                 disk, messages>>

load_background_file ==
  /\ At("load")
  /\ ~mutex
  /\ IF docs[uri].tracked \/ disk[uri] = None
     THEN /\ todo' = Tail(todo)
          /\ UNCHANGED docs
     ELSE /\ docs' = [docs EXCEPT ![uri] = [tracked |-> TRUE, content |-> disk[uri],
                                            hash |-> None, background |-> TRUE]]
          /\ todo' = schedule_analysis(uri, FALSE) \o Tail(todo)
  /\ UNCHANGED <<cache, included, dependents, pending, force, cancel_flag,
                 running, mutex, worker, disk, published, messages>>

notify ==
  /\ At("notify")
  /\ Wake
  /\ todo' = Tail(todo)
  /\ UNCHANGED <<store, pending, force, cancel_flag, running, mutex, batch,
                 rest, cur, to_publish, failed, disk, published, messages>>

join ==
  /\ At("join")
  /\ wpc = "stopped"
  /\ todo' = <<Do("ended", None)>>
  /\ UNCHANGED <<store, pending, force, cancel_flag, running, mutex, worker,
                 disk, published, messages>>

-----------------------------------------------------------------------------
(* The worker.                                                             *)

main == <<todo, disk, messages>>

analysis_worker ==
  /\ wpc = "loop"
  /\ wpc' = IF running THEN "lock" ELSE "stopped"
  /\ UNCHANGED <<store, pending, force, cancel_flag, running, mutex, batch,
                 rest, cur, to_publish, published, failed, main>>

(* debounce_and_collect: the predicate of the wait, with state_mutex held. *)
wait_for_work ==
  /\ wpc = "lock"
  /\ IF ~running THEN wpc' = "loop" /\ UNCHANGED mutex
     ELSE IF pending # {} THEN wpc' = "debounce" /\ UNCHANGED mutex
     ELSE wpc' = "doze" /\ mutex' = TRUE
  /\ UNCHANGED <<store, pending, force, cancel_flag, running, batch, rest,
                 cur, to_publish, published, failed, main>>

(* The wait registers the waiter and releases state_mutex.                 *)
fall_asleep ==
  /\ wpc = "doze"
  /\ wpc' = "sleep"
  /\ mutex' = FALSE
  /\ UNCHANGED <<store, pending, force, cancel_flag, running, batch, rest,
                 cur, to_publish, published, failed, main>>

SpuriousWakeup ==
  /\ wpc = "sleep"
  /\ wpc' = "lock"
  /\ UNCHANGED <<store, pending, force, cancel_flag, running, mutex, batch,
                 rest, cur, to_publish, published, failed, main>>

(* The debounce interval is over, or running_ was cleared.                 *)
collect ==
  /\ wpc = "debounce"
  /\ IF running
     THEN /\ batch' = pending /\ rest' = pending
          /\ pending' = {}
          /\ wpc' = IF pending = {} THEN "loop" ELSE "reset"
     ELSE wpc' = "loop" /\ UNCHANGED <<batch, rest, pending>>
  /\ UNCHANGED <<store, force, cancel_flag, running, mutex, cur, to_publish,
                 published, failed, main>>

reset_cancel_flag ==
  /\ wpc = "reset"
  /\ cancel_flag' = FALSE
  /\ wpc' = "next"
  /\ UNCHANGED <<store, pending, force, running, mutex, batch, rest, cur,
                 to_publish, published, failed, main>>

(* The loop over the collected URIs.  A raised cancel_flag puts all of     *)
(* them back, those already analysed included.                             *)
next_uri ==
  /\ wpc = "next"
  /\ IF rest = {} \/ ~running
     THEN wpc' = "loop" /\ rest' = {} /\ UNCHANGED <<pending, cur>>
     ELSE IF cancel_flag
     THEN wpc' = "loop" /\ rest' = {} /\ pending' = pending \cup batch /\ UNCHANGED cur
     ELSE \E u \in rest :
            /\ wpc' = "snapshot"
            /\ rest' = rest \ {u}
            /\ cur' = [Idle EXCEPT !.uri = u]
            /\ UNCHANGED pending
  /\ UNCHANGED <<store, force, cancel_flag, running, mutex, batch, to_publish,
                 published, failed, main>>

(* analyze_single_uri up to the analysis: nothing to do for a document     *)
(* that is gone or whose text is the one analysed last.                    *)
snapshot ==
  /\ wpc = "snapshot"
  /\ LET d == docs[cur.uri] IN
     IF ~d.tracked \/ d.hash = d.content
     THEN wpc' = "next" /\ cur' = Idle
     ELSE wpc' = "analyze" /\ cur' = [cur EXCEPT !.text = d.content]
  /\ failed' = failed \ {cur.uri}
  /\ UNCHANGED <<store, pending, force, cancel_flag, running, mutex, batch,
                 rest, to_publish, published, main>>

(* analyze(): the included files are read from disk.  It may notice the    *)
(* cancel_flag, and it may throw.                                          *)
analyze ==
  /\ wpc = "analyze"
  /\ \/ /\ cur' = [cur EXCEPT !.inc = [f \in Uri |->
                     IF f \in Includes[cur.uri] THEN disk[f] ELSE None]]
        /\ wpc' = "commit"
     \/ /\ cancel_flag
        /\ wpc' = "cancelled"
        /\ UNCHANGED cur
     \/ /\ wpc' = "failed"
        /\ UNCHANGED cur
  /\ UNCHANGED <<store, pending, force, cancel_flag, running, mutex, batch,
                 rest, to_publish, published, failed, main>>

(* Seeded fault: a cancelled analysis is dropped.                          *)
drop_cancelled ==
  /\ wpc = "cancelled"
  /\ wpc' = "next"
  /\ cur' = Idle
  /\ UNCHANGED <<store, pending, force, cancel_flag, running, mutex, batch,
                 rest, to_publish, published, failed, main>>

reschedule_cancelled ==
  /\ wpc = "cancelled"
  /\ pending' = pending \cup {cur.uri}
  /\ wpc' = "next"
  /\ cur' = Idle
  /\ UNCHANGED <<store, force, cancel_flag, running, mutex, batch, rest,
                 to_publish, published, failed, main>>

publish_error_diagnostic ==
  /\ wpc = "failed"
  /\ published' = [published EXCEPT ![cur.uri] = Error]
  /\ failed' = failed \cup {cur.uri}
  /\ wpc' = "next"
  /\ cur' = Idle
  /\ UNCHANGED <<store, pending, force, cancel_flag, running, mutex, batch,
                 rest, to_publish, main>>

(* Seeded fault: results of open documents are evicted too.                *)
evict_tracked(filled) ==
  LET Cached == {u \in Uri : filled[u] # None}
  IN {E \in SUBSET Cached :
        Cardinality(E) = IF Cardinality(Cached) > MaxCache
                         THEN Cardinality(Cached) - MaxCache ELSE 0}

(* evict_stale_cache_entries: results of documents that are not tracked    *)
(* go while there are more than MaxCache (which ones: the LRU order is not *)
(* modelled).                                                              *)
evict_stale_cache_entries(filled) ==
  LET Cached    == {u \in Uri : filled[u] # None}
      Evictable == {u \in Cached : ~docs[u].tracked}
      excess    == Cardinality(Cached) - MaxCache
  IN {E \in SUBSET Evictable :
        IF excess <= 0 THEN E = {}
        ELSE IF excess >= Cardinality(Evictable) THEN E = Evictable
        ELSE Cardinality(E) = excess}

(* commit_to_cache: the document may be gone or edited since the snapshot. *)
(* Its diagnostics, then those of the included files, are to be published. *)
commit_to_cache ==
  /\ wpc = "commit"
  /\ LET u == cur.uri IN
     IF ~docs[u].tracked
     THEN /\ wpc' = "next" /\ cur' = Idle
          /\ UNCHANGED <<store, pending, to_publish>>
     ELSE IF docs[u].content # cur.text
     THEN /\ wpc' = "next" /\ cur' = Idle
          /\ pending' = pending \cup {u}
          /\ UNCHANGED <<store, to_publish>>
     ELSE /\ docs' = [docs EXCEPT ![u].hash = cur.text]
          /\ dependents' = [f \in Uri |-> IF f \in Includes[u]
                              THEN dependents[f] \cup {u} ELSE dependents[f]]
          /\ LET filled == [cache EXCEPT ![u] = cur.text] IN
             \E E \in evict_stale_cache_entries(filled) :
               /\ cache' = [v \in Uri |-> IF v \in E THEN None ELSE filled[v]]
               /\ included' = [v \in Uri |-> IF v \in E THEN NoIncludes
                                 ELSE IF v = u THEN cur.inc ELSE included[v]]
          /\ wpc' = "publish"
          /\ to_publish' = {u} \cup {f \in Includes[u] : cur.inc[f] \in Faulty}
          /\ UNCHANGED <<pending, cur>>
  /\ UNCHANGED <<force, cancel_flag, running, mutex, batch, rest, published, failed, main>>

(* Seeded fault: only marked documents are published, whatever the setting.*)
publish_marked_only ==
  /\ wpc = "publish"
  /\ IF to_publish = {}
     THEN wpc' = "next" /\ cur' = Idle /\ UNCHANGED <<to_publish, force>>
     ELSE \E u \in to_publish :
            /\ to_publish' = to_publish \ {u}
            /\ force' = force \ {u}
            /\ IF u \notin force
               THEN UNCHANGED <<wpc, cur>>
               ELSE wpc' = "send" /\ cur' = [cur EXCEPT !.out = u]
  /\ UNCHANGED <<store, pending, cancel_flag, running, mutex, batch, rest,
                 published, failed, main>>

(* publish_committed_diagnostics, for the document first, then for the     *)
(* files it includes: it takes the force mark of each and decides whether  *)
(* to publish; the diagnostics go out later.                               *)
publish_committed_diagnostics ==
  /\ wpc = "publish"
  /\ IF to_publish = {}
     THEN wpc' = "next" /\ cur' = Idle /\ UNCHANGED <<to_publish, force>>
     ELSE \E u \in to_publish :
            /\ cur.uri \in to_publish => u = cur.uri
            /\ to_publish' = to_publish \ {u}
            /\ force' = IF docs[u].background THEN force ELSE force \ {u}
            /\ IF docs[u].background \/ (OnSave /\ u \notin force)
               THEN UNCHANGED <<wpc, cur>>
               ELSE wpc' = "send" /\ cur' = [cur EXCEPT !.out = u]
  /\ UNCHANGED <<store, pending, cancel_flag, running, mutex, batch, rest,
                 published, failed, main>>

send_diagnostics ==
  /\ wpc = "send"
  /\ published' = [published EXCEPT ![cur.out] =
                     IF cur.out = cur.uri THEN cur.text ELSE cur.inc[cur.out]]
  /\ cur' = [cur EXCEPT !.out = None]
  /\ wpc' = "publish"
  /\ UNCHANGED <<store, pending, force, cancel_flag, running, mutex, batch,
                 rest, to_publish, failed, main>>

-----------------------------------------------------------------------------
Message ==
  \/ \E u \in Uri, text \in Content : handle_did_open(u, text) \/ handle_did_change(u, text)
  \/ \E u \in Uri : handle_did_save(u) \/ handle_did_close(u)
  \/ \E u \in Uri, text \in Text : handle_did_change_watched_file(u, text)
  \/ cancel_request
  \/ handle_shutdown

MainStep ==
  \/ insert_pending \/ mark_force \/ signal \/ look_up_dependents
  \/ schedule_each \/ publish_diagnostics \/ load_background_file
  \/ notify \/ join

WorkerStep ==
  \/ analysis_worker \/ wait_for_work \/ fall_asleep \/ collect
  \/ reset_cancel_flag \/ next_uri \/ snapshot \/ analyze
  \/ reschedule_cancelled \/ publish_error_diagnostic \/ commit_to_cache
  \/ publish_committed_diagnostics \/ send_diagnostics

Next == Message \/ run_ends \/ MainStep \/ WorkerStep \/ SpuriousWakeup

Spec == Init /\ [][Next]_vars

(* The scheduler runs both threads, and the main thread obtains            *)
(* state_mutex when it is free again and again.  No message has to arrive. *)
FairSpec == Spec /\ SF_vars(MainStep) /\ WF_vars(WorkerStep)

-----------------------------------------------------------------------------
(* Properties.                                                             *)

(* The URIs some thread has still to look at.                              *)
Scheduled ==
  pending \cup rest \cup {todo[n].uri : n \in {m \in DOMAIN todo : todo[m].op = "insert"}}
    \cup (IF wpc \in {"snapshot", "analyze", "cancelled", "failed", "commit"}
          THEN {cur.uri} ELSE {})

(* The content hash that makes analyze_single_uri skip a document belongs  *)
(* to the result in the cache: skipping never hides a missing or an older  *)
(* result, whatever closed, reloaded or evicted documents meanwhile.       *)
SkippedIsCached ==
  \A u \in Uri : docs[u].hash # None => cache[u] = docs[u].hash

(* No edit is forgotten: while the server runs, a document whose text is   *)
(* not the one analysed last is scheduled or in the worker's hands, or its *)
(* analysis threw.  The cancel_flag is raised and reset by two threads, so *)
(* this does not rest on it.                                               *)
NoLostEdit ==
  running => \A u \in Uri :
    docs[u].tracked /\ docs[u].hash # docs[u].content
      => u \in Scheduled \/ u \in failed

(* A worker asleep on analysis_cv_ has nothing to do, unless the main      *)
(* thread has yet to signal it.                                            *)
WorkerNotStranded ==
  wpc = "sleep" /\ running /\ pending # {}
    => \E n \in DOMAIN todo : todo[n].op \in {"signal", "notify"}

(* An edit is scheduled, and whoever is to take it up will.                *)
EditsAccounted == TypeOK /\ NoLostEdit /\ WorkerNotStranded

(* Once the messages stop the worker catches up with every document.       *)
CatchesUp ==
  []<>(~running \/ \A u \in Uri :
         docs[u].tracked => docs[u].hash = docs[u].content \/ u \in failed)

(* "Diagnostics are published [...] after every document change": with     *)
(* diagnostics_on_save off, the diagnostics the client was sent last for   *)
(* an open document end up being those of its text.                        *)
DiagnosticsCatchUp ==
  []<>(~running \/ \A u \in Uri :
         IsOpen(u) => published[u] \in {docs[u].content, Error})

(* AnalysisPipeline::stop: "Stop the background worker and join its        *)
(* thread."                                                                *)
StopReturns == At("join") ~> At("ended")

(* handle_did_close: "Clear diagnostics for closed document."  With both   *)
(* threads at rest, a document that was closed shows none.                 *)
ClosedIsCleared ==
  todo = <<>> /\ wpc \notin {"publish", "send", "failed"} =>
    \A u \in Uri : ~docs[u].tracked => published[u] = None

(* handle_did_save: "re-schedule the saved file itself with                *)
(* force_diagnostics so its diagnostics are published now".                *)
SavedIsPublished ==
  \A u \in Uri, c \in Content :
    (/\ At("force") /\ uri = u /\ docs[u].content = c
     /\ \E n \in DOMAIN todo : todo[n].op = "dependents")
      ~> (published[u] \in {c, Error} \/ ~running \/ docs[u].content # c)

(* handle_did_save: "drop B's include cache and re-schedule every          *)
(* dependent of B", so that no dependent keeps stale cross-file results.   *)
DependentsRefreshed ==
  \A u \in Uri :
    (At("schedule") /\ u \in Head(todo).uris)
      ~> (\/ \A f \in Includes[u] : included[u][f] = disk[f]
          \/ ~running \/ ~docs[u].tracked \/ u \in failed)
====
