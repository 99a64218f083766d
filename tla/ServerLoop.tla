----------------------------- MODULE ServerLoop ------------------------------
(***************************************************************************)
(* The message loop of the language server on the transport it shares with *)
(* the debug adapter: the client writes Content-Length frames, some of     *)
(* them malformed; Transport cuts the stream into messages again, skips    *)
(* what it cannot use and resynchronises; LspServer::run dispatches each   *)
(* message and answers requests, and ends on EOF, on a fatal error, after  *)
(* too many errors in a row or on exit.  The client's end of stdout may    *)
(* break at any time.                                                      *)
(*                                                                         *)
(* The stream is a sequence of pieces: a header line, an empty line, or a  *)
(* unit of a body.  A body does not end in a newline (unless the client    *)
(* adds one), so what read_line returns may start in a body and end with   *)
(* the header of the next frame.                                           *)
(***************************************************************************)
EXTENDS Naturals, Sequences, FiniteSets

CONSTANTS
  Id,               \* request ids
  Kinds,            \* the kinds of malformed frames the client sends
  MaxMessage,       \* max_message_bytes, in units
  MaxResync,        \* max_resync_iterations
  MaxErrors,        \* k_default_max_consecutive_errors
  MaxCancelled,     \* k_max_cancelled_ids
  MaxFrames,        \* bound: frames sent
  MaxPending        \* bound: pieces sent and not read

ASSUME LoopAssumption ==
  /\ Kinds \subseteq {"oversize", "invalid_json", "no_length", "no_length_nl",
                    "long_header_first", "long_header_last"}
  /\ MaxMessage \in Nat \ {0}
  /\ MaxResync \in Nat
  /\ MaxErrors \in Nat \ {0}
  /\ MaxCancelled \in Nat
  /\ MaxFrames \in Nat /\ MaxPending \in Nat

VARIABLES
  input,     \* what the client sent and the transport did not read
  closed,    \* has the client closed stdin?
  frames,    \* the number of frames sent
  broken,    \* has the client closed its end of stdout?
  awaiting,  \* the requests the client sent and has no answer to
  credit,    \* ids whose cancellation was read and has not stopped a request yet
  stray,     \* was an Unskippable frame sent?
  phase,     \* where the loop is
  length,    \* content_length of the frame being read (0: none yet)
  buffered,  \* buffered_header_line_: its length (0: none)
  scanned,   \* iterations of the running resync
  errors,    \* consecutive_errors_
  message,   \* the message being dispatched
  initialize_received, initialized, shutdown_requested,
  cancelled_ids,
  exit_code

client == <<input, closed, frames, broken, awaiting, credit, stray>>
reader == <<phase, length, buffered, scanned, errors, message>>
server == <<initialize_received, initialized, shutdown_requested, cancelled_ids, exit_code>>
vars == <<client, reader, server>>

Requests == {"initialize", "shutdown", "feature", "unknown"}
Notifications == {"initialized", "exit", "other"}
None == [method |-> "none", id |-> 0]

\* Requests, notifications, cancellations of an id, replies to requests of the
\* server, and JSON that is not a message at all.
Message ==
  [method : Requests, id : Id] \cup [method : Notifications, id : {0}]
    \cup [method : {"$/cancelRequest"}, id : Id] \cup [method : {"reply", "invalid"}, id : {0}]

Piece(k, m) == [k |-> k, m |-> m]
Length(n) == [k |-> IF n = 1 THEN "length1" ELSE "length2", m |-> None]
Header == Piece("header", None)
Blank == Piece("blank", None)
Unit == Piece("unit", None)        \* body text without a newline
Line == Piece("line", None)        \* text that ends in a newline
Pieces == {Length(1), Length(2), Header, Blank, Unit, Line} \cup {Piece("body", m) : m \in Message}
Lengths == [length1 |-> 1, length2 |-> 2]
EndsLine(p) == p.k \notin {"unit", "body"}

Frame(m) == <<Length(1), Blank, Piece("body", m)>>

\* An over-long header line, <<Unit, Line>>, stands before or after the length.
Malformed(k) ==
  CASE k = "oversize"          -> <<Length(2), Blank, Unit, Unit>>
    [] k = "invalid_json"      -> <<Length(1), Blank, Unit>>
    [] k = "no_length"         -> <<Header, Blank, Unit>>
    [] k = "no_length_nl"      -> <<Header, Blank, Line>>
    [] k = "long_header_first" -> <<Unit, Line, Length(1), Blank, Unit>>
    [] k = "long_header_last"  -> <<Length(1), Unit, Line, Blank, Unit>>

\* Frames with a body that has no newline and whose length resync does not see,
\* because there is none or parse_headers dropped it when it threw.
Unskippable == {"no_length", "long_header_last"}

TypeOK ==
  /\ input \in Seq(Pieces)
  /\ closed \in BOOLEAN /\ broken \in BOOLEAN /\ stray \in BOOLEAN
  /\ frames \in 0 .. MaxFrames
  /\ awaiting \subseteq Id /\ credit \subseteq Id
  /\ phase \in {"headers", "body", "discard", "resync", "dispatch", "stopped", "terminated"}
  /\ length \in 0 .. 2 /\ buffered \in 0 .. 2
  /\ scanned \in 0 .. MaxResync /\ errors \in 0 .. MaxErrors
  /\ message \in Message \cup {None}
  /\ initialize_received \in BOOLEAN /\ initialized \in BOOLEAN
  /\ shutdown_requested \in BOOLEAN
  /\ cancelled_ids \subseteq Id /\ Cardinality(cancelled_ids) <= MaxCancelled
  /\ exit_code \in {0, 1}

Init ==
  /\ input = <<>> /\ closed = FALSE /\ frames = 0 /\ broken = FALSE
  /\ awaiting = {} /\ credit = {} /\ stray = FALSE
  /\ phase = "headers" /\ length = 0 /\ buffered = 0 /\ scanned = 0 /\ errors = 0
  /\ message = None
  /\ initialize_received = FALSE /\ initialized = FALSE /\ shutdown_requested = FALSE
  /\ cancelled_ids = {} /\ exit_code = 0

(***************************************************************************)
(* The client                                                              *)
(***************************************************************************)
Put(s) ==
  /\ ~closed /\ frames < MaxFrames /\ Len(input) + Len(s) <= MaxPending
  /\ frames' = frames + 1
  /\ input' = input \o s
  /\ UNCHANGED <<closed, broken>>

\* An id is used again only after its answer has come.
SendMessage ==
  \E m \in Message :
    /\ m.method \in Requests => m.id \notin awaiting
    /\ Put(Frame(m))
    /\ awaiting' = IF m.method \in Requests THEN awaiting \cup {m.id} ELSE awaiting
    /\ UNCHANGED <<credit, stray, reader, server>>

SendMalformed ==
  \E k \in Kinds :
    /\ Put(Malformed(k))
    /\ stray' = (stray \/ k \in Unskippable)
    /\ UNCHANGED <<awaiting, credit, reader, server>>

\* Closing stdin, possibly in the middle of the frame that is being sent.
CloseInput ==
  /\ ~closed
  /\ closed' = TRUE
  /\ input' \in {input, IF input = <<>> THEN <<>> ELSE SubSeq(input, 1, Len(input) - 1)}
  /\ UNCHANGED <<frames, broken, awaiting, credit, stray, reader, server>>

BreakOutput ==
  /\ ~broken
  /\ broken' = TRUE
  /\ UNCHANGED <<input, closed, frames, awaiting, credit, stray, reader, server>>

(***************************************************************************)
(* Transport                                                               *)
(***************************************************************************)
\* The loop ends and run() returns.  log_message sends a notification once the
\* client is initialized; when that throws, nothing catches it.
Stop == phase' = IF initialized /\ broken THEN "terminated" ELSE "stopped"

\* The loop ends without a word.
StopSilently == phase' = "stopped"

\* ErrorRecoveryState::on_error: a skipped message.
OnTransientError ==
  /\ errors' = errors + 1
  /\ IF errors + 1 >= MaxErrors THEN StopSilently ELSE phase' = "headers"
  /\ length' = 0
  /\ scanned' = 0

\* The end of the first line of s, or 0.
LineEnd(s) == IF \E i \in DOMAIN s : EndsLine(s[i])
              THEN CHOOSE i \in DOMAIN s : EndsLine(s[i]) /\ \A j \in 1 .. i - 1 : ~EndsLine(s[j])
              ELSE 0

Drop(n) == input' = SubSeq(input, n + 1, Len(input))

\* read_line: the next line, what it reads as, and how many pieces it takes.
\* A line that starts in a body is no header; it may also be longer than
\* max_header_length, and then read_line throws at the end of the buffer, which
\* may be anywhere in the line.
read_line ==
  LET e == LineEnd(input) IN
  IF e = 1 THEN {[line |-> input[1].k, take |-> 1]}
  ELSE IF e > 1 THEN {[line |-> "text", take |-> e]} \cup [line : {"too_long"}, take : 1 .. e]
  ELSE IF ~closed THEN {}
  ELSE IF input = <<>> THEN {[line |-> "eof", take |-> 0]}
  ELSE {[line |-> "text", take |-> Len(input)], [line |-> "too_long", take |-> Len(input)]}

\* parse_headers, one line at a time, and the decisions of read_message.
parse_headers ==
  /\ phase = "headers" /\ buffered = 0
  /\ \E r \in read_line :
       /\ Drop(r.take)
       /\ \/ /\ r.line = "eof"
             /\ Stop
             /\ UNCHANGED <<length, errors, scanned>>
          \/ /\ r.line = "blank" /\ length # 0
             /\ phase' = IF length > MaxMessage THEN "discard" ELSE "body"
             /\ UNCHANGED <<length, errors, scanned>>
          \/ /\ r.line = "too_long" \/ (r.line = "blank" /\ length = 0)
             /\ phase' = "resync"
             /\ length' = 0 /\ scanned' = 0
             /\ UNCHANGED errors
          \/ /\ r.line \in {"header", "line", "text"}
             /\ UNCHANGED <<phase, length, errors, scanned>>
          \/ /\ r.line \in DOMAIN Lengths
             /\ length' = Lengths[r.line]
             /\ UNCHANGED <<phase, errors, scanned>>
  /\ UNCHANGED <<buffered, message, closed, frames, broken, awaiting, credit, stray, server>>

\* The header that resync found is used once.
UnbufferReused == UNCHANGED buffered

Unbuffer == buffered' = 0

take_buffered_header ==
  /\ phase = "headers" /\ buffered # 0
  /\ length' = buffered
  /\ Unbuffer
  /\ UNCHANGED <<phase, scanned, errors, message, client, server>>

\* read_exact; the end of the input inside a body is fatal (ConnectionClosed).
ReadExact(n) == Len(input) >= n /\ Drop(n)

connection_closed ==
  /\ phase \in {"body", "discard"}
  /\ closed /\ Len(input) < length
  /\ Stop
  /\ input' = <<>>
  /\ UNCHANGED <<length, buffered, scanned, errors, message>>
  /\ UNCHANGED <<closed, frames, broken, awaiting, credit, stray, server>>

\* A body without an id is taken for an invalid message.
read_body_wants_id ==
  /\ phase = "body"
  /\ ReadExact(length)
  /\ LET p == input[1] IN
     \/ /\ p.k = "body" /\ p.m.id # 0
        /\ phase' = "dispatch" /\ message' = p.m
        /\ errors' = 0 /\ length' = 0
        /\ UNCHANGED scanned
     \/ /\ p.k # "body" \/ p.m.id = 0
        /\ OnTransientError
        /\ UNCHANGED message
  /\ UNCHANGED <<buffered, closed, frames, broken, awaiting, credit, stray, server>>

\* An invalid body was read in full: the next frame follows.
read_body ==
  /\ phase = "body"
  /\ ReadExact(length)
  /\ LET p == input[1] IN
     \/ /\ p.k = "body"
        /\ phase' = "dispatch" /\ message' = p.m
        /\ errors' = 0 /\ length' = 0
        /\ UNCHANGED scanned
     \/ /\ p.k # "body"
        /\ OnTransientError
        /\ UNCHANGED message
  /\ UNCHANGED <<buffered, closed, frames, broken, awaiting, credit, stray, server>>

\* A body above the limit is discarded by its length.
discard_exact ==
  /\ phase = "discard"
  /\ ReadExact(length)
  /\ OnTransientError
  /\ UNCHANGED <<buffered, message, closed, frames, broken, awaiting, credit, stray, server>>

\* Scan for a line that is a Content-Length header and keep it.
resync_to_next_message ==
  /\ phase = "resync"
  /\ \/ /\ scanned = MaxResync
        /\ Stop
        /\ UNCHANGED <<input, length, buffered, scanned, errors>>
     \/ /\ scanned < MaxResync
        /\ \E r \in read_line :
             /\ Drop(r.take)
             /\ \/ /\ r.line = "eof"
                   /\ OnTransientError
                   /\ UNCHANGED buffered
                \/ /\ r.line \in DOMAIN Lengths
                   /\ buffered' = Lengths[r.line]
                   /\ OnTransientError
                \/ /\ r.line \notin {"eof"} \cup DOMAIN Lengths
                   /\ scanned' = scanned + 1
                   /\ UNCHANGED <<phase, length, buffered, errors>>
  /\ UNCHANGED <<message, closed, frames, broken, awaiting, credit, stray, server>>

Transport ==
  \/ parse_headers \/ take_buffered_header \/ connection_closed \/ read_body
  \/ discard_exact \/ resync_to_next_message

(***************************************************************************)
(* LspServer: dispatch_message                                             *)
(***************************************************************************)
\* The message is done; the loop reads the next one.
Continue == phase' = "headers" /\ message' = None

\* A write fails: dispatch_message throws, the loop catches it and logs it,
\* and that is a write too once the client is initialized.
WriteFails ==
  /\ broken
  /\ phase' = IF initialized THEN "terminated" ELSE "headers"
  /\ message' = None

\* Send the one response to the request.
Answer ==
  \/ ~broken /\ awaiting' = awaiting \ {message.id} /\ Continue
  \/ WriteFails /\ UNCHANGED awaiting

\* The erase in check_and_clear.
ClearCancelled == cancelled_ids' = cancelled_ids \ {message.id}

IsRequest == phase = "dispatch" /\ message.method \in Requests

ClientQuiet == UNCHANGED <<input, closed, frames, broken, stray, length, buffered, scanned, errors>>

\* The request was cancelled before it was read; the cancellation is used up.
dispatch_cancelled ==
  /\ IsRequest
  /\ message.id \in cancelled_ids
  /\ ClearCancelled
  /\ Answer
  /\ credit' = credit \ {message.id}
  /\ ClientQuiet
  /\ UNCHANGED <<initialize_received, initialized, shutdown_requested, exit_code>>

Uncancelled(method) ==
  /\ phase = "dispatch" /\ message.method = method
  /\ message.id \notin cancelled_ids
  /\ ClientQuiet
  /\ UNCHANGED <<credit, cancelled_ids, exit_code>>

\* handle_initialize fails when the client cannot do utf-16: it may try again.
dispatch_initialize ==
  /\ Uncancelled("initialize")
  /\ Answer
  /\ initialize_received' \in {initialize_received, TRUE}
  /\ UNCHANGED <<initialized, shutdown_requested>>

dispatch_shutdown ==
  /\ Uncancelled("shutdown")
  /\ Answer
  /\ shutdown_requested' = (shutdown_requested \/ initialize_received)
  /\ UNCHANGED <<initialize_received, initialized>>

\* No handler, no response.
dispatch_feature_silent ==
  /\ Uncancelled("feature") \/ Uncancelled("unknown")
  /\ IF message.method = "unknown" THEN Continue /\ UNCHANGED awaiting ELSE Answer
  /\ UNCHANGED <<initialize_received, initialized, shutdown_requested>>

\* Not initialized, shutting down, an unknown method, a result, InvalidParams or
\* an internal error: one response in every case.
dispatch_feature ==
  /\ Uncancelled("feature") \/ Uncancelled("unknown")
  /\ Answer
  /\ UNCHANGED <<initialize_received, initialized, shutdown_requested>>

\* Only an invalid message is answered, with the id null; the handler of a
\* notification may write, a log or diagnostics.
dispatch_other ==
  /\ phase = "dispatch" /\ message.method \in {"reply", "invalid", "other"}
  /\ \/ ~(message.method = "invalid" /\ broken) /\ Continue
     \/ message.method \in {"invalid", "other"} /\ WriteFails
  /\ ClientQuiet
  /\ UNCHANGED <<awaiting, credit, server>>

\* initialized_ is set before the first message is logged.
handle_initialized ==
  /\ phase = "dispatch" /\ message.method = "initialized"
  /\ initialized' = TRUE
  /\ phase' = IF broken THEN "terminated" ELSE "headers"
  /\ message' = None
  /\ ClientQuiet
  /\ UNCHANGED <<awaiting, credit, initialize_received, shutdown_requested, cancelled_ids, exit_code>>

\* exit_code_ is set, then logged: only without an exception does the loop end.
dispatch_exit ==
  /\ phase = "dispatch" /\ message.method = "exit"
  /\ exit_code' = IF shutdown_requested THEN 0 ELSE 1
  /\ Stop /\ message' = None
  /\ ClientQuiet
  /\ UNCHANGED <<awaiting, credit, initialize_received, initialized, shutdown_requested, cancelled_ids>>

\* evict_if_needed drops an arbitrary id when there are too many.
cancel ==
  /\ phase = "dispatch" /\ message.method = "$/cancelRequest"
  /\ LET all == cancelled_ids \cup {message.id} IN
     IF Cardinality(all) > MaxCancelled
     THEN \E id \in all : cancelled_ids' = all \ {id}
     ELSE cancelled_ids' = all
  /\ credit' = credit \cup {message.id}
  /\ Continue
  /\ ClientQuiet
  /\ UNCHANGED <<awaiting, initialize_received, initialized, shutdown_requested, exit_code>>

Dispatch ==
  \/ dispatch_cancelled \/ dispatch_initialize \/ dispatch_shutdown \/ dispatch_feature
  \/ dispatch_other \/ handle_initialized \/ dispatch_exit \/ cancel

Loop == Transport \/ Dispatch

Next == SendMessage \/ SendMalformed \/ CloseInput \/ BreakOutput \/ Loop

Spec == Init /\ [][Next]_vars

\* The loop never waits for anything but input.
FairSpec == Spec /\ WF_vars(Loop)

(***************************************************************************)
(* Properties                                                              *)
(***************************************************************************)
Reading == phase \in {"headers", "body", "discard", "resync"}
InInput(id) ==
  \E i \in DOMAIN input : input[i].m.method \in Requests /\ input[i].m.id = id
Lossless(consumed) ==
  \A i \in 1 .. consumed :
    input[i].k = "body" => i = consumed /\ phase' = "dispatch" /\ message' = input[i].m

LosesNoFrame ==
  Reading /\ ~closed' /\ Len(input') < Len(input) => Lossless(Len(input) - Len(input'))

\* Transport::read_message: oversized bodies, invalid JSON ("both leave the
\* stream aligned on the next frame"), an over-long header line in front of the
\* length, and a frame without a length whose body ends in a newline do not cost
\* a well-formed message: what leaves the stream is what is dispatched next, in
\* order, unless the stream ends.  It says nothing once an Unskippable frame was
\* sent: no length, or an over-long header after it, and a body without a
\* newline, which resync reads together with the next frame's header.
NoFrameLost == [][~stray => LosesNoFrame]_vars

\* The same of every malformed frame, as error_recovery.hpp has it ("a single
\* message had bad framing.  The transport resyncs to the next Content-Length
\* boundary automatically").
ResyncRecovers == [][LosesNoFrame]_vars

\* LspServer::dispatch_request: whenever the loop is reading, each request it
\* has taken from the stream has been answered, whatever became of it
\* (cancelled, rejected, failed), as long as answers can be written.
EveryRequestAnswered ==
  Reading /\ ~stray /\ ~closed /\ ~broken => \A id \in awaiting : InInput(id)

\* CancellationManager: an id that is remembered stands for a cancellation that
\* has not cancelled anything: one $/cancelRequest stops at most one request,
\* also when ids are used again and when the set overflows.
CancelsOnce == cancelled_ids \subseteq credit

\* Whenever the loop reads, every request it has read was answered, and a
\* cancellation stops at most one request.
RequestsServedOnce == TypeOK /\ EveryRequestAnswered /\ CancelsOnce

\* main(): "a broken pipe instead surfaces as a ConnectionClosed exception and
\* the server shuts down cleanly".
ShutsDownCleanly == phase # "terminated"

\* The loop ends when the client goes away, whatever it has sent before.
LoopEnds == closed ~> phase \in {"stopped", "terminated"}

\* A request gets its answer, unless the stream is beyond recovery or gone.
RequestAnswered ==
  \A id \in Id : id \in awaiting
    ~> (id \notin awaiting \/ stray \/ closed \/ broken \/ phase = "stopped")

\* What the loop owes the client: answers, and its end with the client's.
LoopServes == RequestAnswered /\ LoopEnds
=============================================================================
