----------------------------- MODULE ChildServe -----------------------------
(***************************************************************************)
(* The worker child's serve loop (serve_stdio and the handlers that write  *)
(* more than one frame, lean-rs-worker-child/src/child.rs) over the frame  *)
(* codec of lean-rs-worker-protocol/src/protocol.rs.                       *)
(*                                                                         *)
(* A frame is its kind, its size and what the properties ask of it.  Rows  *)
(* of a data stream come from a callback that a Lean export calls, from    *)
(* one thread or several (the registered closure is Send + Sync and keeps  *)
(* its state behind two mutexes: the error latch and the forwarder).       *)
(***************************************************************************)
EXTENDS Naturals, Sequences, FiniteSets

CONSTANTS
  Streams,       \* logical stream names
  LeanThreads,   \* threads on which a streaming export calls back
  Sizes,         \* sizes of rows, names and answers
  Caps,          \* frame caps a parent may configure (already clamped)
  DefaultCap,    \* MAX_FRAME_BYTES, in force until ConfigureFrameLimit
  MaxRequests,   \* bound: frames the parent sends after ConfigureFrameLimit
  MaxItems       \* bound: callback events of a stream, names of a bulk request

ASSUME ServeAssumption ==
  /\ Streams # {} /\ Sizes \subseteq Nat \ {0} /\ 1 \in Sizes
  /\ Caps \subseteq Nat \ {0} /\ DefaultCap \in Nat \ {0}
  /\ MaxRequests \in Nat /\ MaxItems \in Nat \ {0}

VARIABLES
  loop,       \* where serve_stdio is: "start", "configure", "read", "serve", "exited"
  cap,        \* ProtocolWriter::max_frame_bytes
  parentCap,  \* the cap the parent reads with: what it announced
  pipeUp,     \* the parent still reads the child's stdout
  session,    \* host_session is Some
  request,    \* the request being served
  wire,       \* frames written since it was read
  served,     \* frames read after ConfigureFrameLimit
  \* the handler's progress
  emitter,    \* DataRowEmitter: per-stream sequences, and the count
  items,      \* items handled so far
  metadata,   \* StreamForwarder::metadata
  latch,      \* row_error
  calling,    \* per thread: the event whose callback passed the latch check
  statusByte,   \* the status the streaming export came back with, or "no"
  \* history
  refused     \* callback events that neither reached the wire nor the metadata

loopVars    == <<loop, cap, parentCap, pipeUp, session, request, served>>
handlerVars == <<emitter, items, metadata, latch, calling, statusByte, refused>>
vars == <<loopVars, wire, handlerVars>>

None == [kind |-> "none"]
ErrorFrame == [kind |-> "error", size |-> 1]
SumOf(f) == LET total[S \in SUBSET Streams] ==
                  IF S = {} THEN 0
                  ELSE LET s == CHOOSE s \in S : TRUE IN f[s] + total[S \ {s}]
            IN total[Streams]

-----------------------------------------------------------------------------
(* The codec and the writer                                                *)

\* write_frame: the size is refused before a byte is written.
write_frame(f, limit) ==
  IF f.size > limit THEN "too_large" ELSE IF ~pipeUp THEN "io" ELSE "ok"

\* ProtocolWriter::write on a wire w: the wire after it.
Written(w, f) == IF write_frame(f, cap) = "ok" THEN Append(w, f) ELSE w

\* emit_progress drops the writer's error.
ProgressFrame(n) == [kind |-> "progress", size |-> 1, current |-> n]

\* Mutant: an answer over the cap is dropped and the loop goes on.
write_response_drops(w, answer) ==
  /\ wire' = Written(w, answer)
  /\ loop' = IF write_frame(answer, cap) = "io" THEN "exited" ELSE "read"

\* write_response after the frames w: an answer over the cap becomes an
\* error; a broken pipe ends serve_stdio.
write_response(w, answer) ==
  LET out == IF write_frame(answer, cap) = "too_large" THEN ErrorFrame ELSE answer
  IN /\ wire' = Written(w, out)
     /\ loop' = IF write_frame(out, cap) = "ok" THEN "read" ELSE "exited"

ZeroEmitter == [s \in Streams |-> 0]

\* DataRowEmitter::next: the sequence advances before the row is written.
Row(s, size) == [kind |-> "row", size |-> size, stream |-> s, sequence |-> emitter[s]]
Advance(s) == emitter' = [emitter EXCEPT ![s] = @ + 1]

-----------------------------------------------------------------------------
(* Handshake                                                               *)

Init ==
  /\ loop = "start" /\ cap = DefaultCap /\ parentCap = DefaultCap
  /\ pipeUp = TRUE /\ session = FALSE
  /\ request = None /\ wire = <<>> /\ served = 0
  /\ emitter = ZeroEmitter /\ items = 0 /\ metadata = 0
  /\ latch = "none" /\ calling = [t \in LeanThreads |-> None]
  /\ statusByte = "no" /\ refused = 0

Handshake ==
  /\ loop = "start"
  /\ wire' = Written(wire, [kind |-> "handshake", size |-> 1])
  /\ loop' = IF pipeUp THEN "configure" ELSE "exited"
  /\ UNCHANGED <<cap, parentCap, pipeUp, session, request, served, handlerVars>>

\* Mutant: the announced cap is read and not installed.
ConfigureIgnored ==
  /\ loop = "configure"
  /\ \E limit \in Caps : parentCap' = limit
  /\ loop' = "read" /\ wire' = <<>>
  /\ UNCHANGED <<cap, pipeUp, session, request, served, handlerVars>>

\* The first frame must be ConfigureFrameLimit: it sets the cap of both
\* directions.
Configure ==
  /\ loop = "configure"
  /\ \E limit \in Caps : cap' = limit /\ parentCap' = limit
  /\ loop' = "read" /\ wire' = <<>>
  /\ UNCHANGED <<pipeUp, session, request, served, handlerVars>>

\* End of file, an unreadable frame, or another first frame.
ReadFails ==
  /\ loop \in {"configure", "read"}
  /\ loop' = "exited"
  /\ UNCHANGED <<cap, parentCap, pipeUp, session, request, wire, served, handlerVars>>

-----------------------------------------------------------------------------
(* One request                                                             *)

\* Requests with one answer and no session ("plain"; a frame that is no
\* request is one of them), with one answer and a session ("query"), and
\* those whose handler writes more frames: one tick per name ("kinds"), a
\* tick before and after the work ("work"), rows.
Kinds == {"plain", "query", "open", "kinds", "work", "list", "stream",
          "test_rows", "test_exit", "test_panic", "terminate"}
NeedsSession == {"query", "kinds", "work", "list", "stream"}
TicksFirst == {"work", "list", "stream"}

\* Handler state of the previous request does not outlive it.
FreshHandler ==
  /\ emitter' = ZeroEmitter /\ items' = 0 /\ metadata' = 0
  /\ latch' = "none" /\ calling' = [t \in LeanThreads |-> None]
  /\ statusByte' = "no" /\ refused' = 0

ReadFrame ==
  /\ loop = "read" /\ served < MaxRequests
  /\ \E k \in Kinds, progress \in BOOLEAN :
       /\ progress => k \in TicksFirst \cup {"kinds"}
       /\ request' = [kind |-> k, progress |-> progress]
       /\ wire' = IF progress /\ k \in TicksFirst /\ session
                  THEN Written(<<>>, ProgressFrame(0)) ELSE <<>>
  /\ loop' = "serve" /\ served' = served + 1
  /\ FreshHandler
  /\ UNCHANGED <<cap, parentCap, pipeUp, session>>

Serving(k) == loop = "serve" /\ request.kind = k
\* The answer ends the request.
Respond(answer) ==
  /\ write_response(wire, answer)
  /\ UNCHANGED <<cap, parentCap, pipeUp, request, served, handlerVars>>
AnswerFrame(size) == [kind |-> "answer", size |-> size]

AnswerOnce ==
  /\ Serving("plain") \/ (Serving("query") /\ session)
  /\ \E size \in Sizes : Respond(AnswerFrame(size)) \/ Respond(ErrorFrame)
  /\ UNCHANGED session

SessionMissing ==
  /\ loop = "serve" /\ request.kind \in NeedsSession /\ ~session
  /\ Respond(ErrorFrame)
  /\ UNCHANGED session

\* open_or_reuse_host_session: a failed open leaves no current session.
Open ==
  /\ Serving("open")
  /\ \/ \E size \in Sizes : Respond(AnswerFrame(size)) /\ session' = TRUE
     \/ Respond(ErrorFrame) /\ session' = FALSE

Computing == loop = "serve" /\ request.kind \in {"kinds", "work"} /\ session
Lookups == IF request.kind = "work" THEN 1 ELSE MaxItems

\* Mutant: one name too many.
LookUpNameInclusive ==
  /\ Computing /\ request.progress /\ items <= Lookups
  /\ items' = items + 1
  /\ wire' = Written(wire, ProgressFrame(items + 1))
  /\ UNCHANGED <<loopVars, emitter, metadata, latch, calling, statusByte, refused>>

\* declaration_kinds, declaration_names and describe_bulk tick after every
\* name; kernel_check, attempt_proof and verify_declaration tick once more
\* when the work is done.
LookUpName ==
  /\ Computing /\ request.progress /\ items < Lookups
  /\ items' = items + 1
  /\ wire' = Written(wire, ProgressFrame(items + 1))
  /\ UNCHANGED <<loopVars, emitter, metadata, latch, calling, statusByte, refused>>
NamesDone ==
  /\ Computing
  /\ \/ /\ request.kind = "work" /\ request.progress => items = 1
        /\ \E size \in Sizes : Respond(AnswerFrame(size))
     \/ Respond(ErrorFrame)
  /\ UNCHANGED session

RowsComplete(n) == [kind |-> "rows_complete", size |-> 1, total |-> n]

\* list_declarations_strings: one row per name on one stream; a row that
\* cannot be written ends the request with an error after the rows before it.
ListRow ==
  /\ Serving("list") /\ session /\ items < MaxItems
  /\ LET s == CHOOSE s \in Streams : TRUE IN
     \E size \in Sizes :
       IF write_frame(Row(s, size), cap) = "ok"
       THEN /\ Advance(s) /\ items' = items + 1
            /\ wire' = Written(wire, Row(s, size))
            /\ UNCHANGED <<loopVars, metadata, latch, calling, statusByte, refused>>
       ELSE Respond(ErrorFrame) /\ UNCHANGED session
ListDone ==
  /\ Serving("list") /\ session
  /\ write_response(IF request.progress THEN Written(wire, ProgressFrame(items)) ELSE wire,
                    RowsComplete(items))
  /\ UNCHANGED <<cap, parentCap, pipeUp, session, request, served, handlerVars>>

\* emit_test_rows: a row that cannot be written ends the child.
TestRow ==
  /\ loop = "serve" /\ request.kind \in {"test_rows", "test_exit", "test_panic"}
  /\ items < (IF request.kind = "test_rows" THEN MaxItems ELSE 1)
  /\ \E s \in Streams :
       /\ Advance(s) /\ items' = items + 1
       /\ wire' = Written(wire, Row(s, 1))
       /\ loop' = IF pipeUp THEN loop ELSE "exited"
  /\ UNCHANGED <<cap, parentCap, pipeUp, session, request, served,
                 metadata, latch, calling, statusByte, refused>>
TestRowsDone ==
  /\ Serving("test_rows")
  /\ Respond(RowsComplete(items))
  /\ UNCHANGED session
\* EmitTestRowsThenExit returns, EmitTestRowsThenPanic aborts.
TestExit ==
  /\ loop = "serve" /\ request.kind \in {"test_exit", "test_panic"} /\ items = 1
  /\ loop' = "exited"
  /\ UNCHANGED <<cap, parentCap, pipeUp, session, request, wire, served, handlerVars>>

Terminate ==
  /\ Serving("terminate")
  /\ wire' = Written(wire, AnswerFrame(1))
  /\ loop' = "exited"
  /\ UNCHANGED <<cap, parentCap, pipeUp, session, request, served, handlerVars>>

-----------------------------------------------------------------------------
(* run_data_stream                                                         *)

\* parse_row_envelope: diagnostic before progress before metadata before row.
Events ==
  [kind : {"row"}, stream : Streams, size : Sizes]
  \cup [kind : {"diagnostic", "tick"}, size : Sizes]
  \cup {[kind |-> "metadata"], [kind |-> "malformed"]}

Streaming == Serving("stream") /\ session

\* A callback starts: once an error is latched it returns Stop at once.
CallbackEnter(t) ==
  /\ Streaming /\ statusByte = "no" /\ calling[t] = None /\ items < MaxItems
  /\ latch = "none"
  /\ \E e \in Events : calling' = [calling EXCEPT ![t] = e]
  /\ items' = items + 1
  /\ UNCHANGED <<loopVars, wire, emitter, metadata, latch, statusByte, refused>>

Latched(error) == latch' = error /\ refused' = refused + 1

\* Mutant: the row is numbered under the lock and written after it.
CallbackRowUnlocked(t) ==
  /\ Streaming /\ calling[t].kind = "row"
  /\ IF "sequence" \in DOMAIN calling[t]
     THEN /\ wire' = Written(wire, calling[t])
          /\ calling' = [calling EXCEPT ![t] = None]
          /\ IF write_frame(calling[t], cap) = "ok"
             THEN UNCHANGED <<latch, refused>> ELSE Latched("write")
          /\ UNCHANGED emitter
     ELSE /\ calling' = [calling EXCEPT ![t] = Row(calling[t].stream, calling[t].size)]
          /\ Advance(calling[t].stream)
          /\ UNCHANGED <<wire, latch, refused>>
  /\ UNCHANGED <<loopVars, items, metadata, statusByte>>

\* Under the forwarder's lock: number the row, write it and, if asked, a
\* progress tick with the running count; a failed write is latched.
CallbackRow(t) ==
  /\ Streaming /\ calling[t].kind = "row"
  /\ LET e == calling[t]
         row == Row(e.stream, e.size)
         count == SumOf(emitter) + 1
     IN /\ Advance(e.stream)
        /\ IF write_frame(row, cap) = "ok"
           THEN /\ wire' = IF request.progress
                           THEN Append(Append(wire, row), ProgressFrame(count))
                           ELSE Append(wire, row)
                /\ UNCHANGED <<latch, refused>>
           ELSE Latched("write") /\ UNCHANGED wire
  /\ calling' = [calling EXCEPT ![t] = None]
  /\ UNCHANGED <<loopVars, items, metadata, statusByte>>

\* A diagnostic or a progress tick of the export's own.
CallbackNote(t) ==
  /\ Streaming /\ calling[t].kind \in {"diagnostic", "tick"}
  /\ LET f == [kind |-> "note", size |-> calling[t].size] IN
     IF write_frame(f, cap) = "ok"
     THEN wire' = Append(wire, f) /\ UNCHANGED <<latch, refused>>
     ELSE Latched("write") /\ UNCHANGED wire
  /\ calling' = [calling EXCEPT ![t] = None]
  /\ UNCHANGED <<loopVars, emitter, items, metadata, statusByte>>

CallbackMetadata(t) ==
  /\ Streaming /\ calling[t].kind = "metadata"
  /\ metadata' = metadata + 1
  /\ calling' = [calling EXCEPT ![t] = None]
  /\ UNCHANGED <<loopVars, wire, emitter, items, latch, statusByte, refused>>

CallbackMalformed(t) ==
  /\ Streaming /\ calling[t].kind = "malformed"
  /\ Latched("malformed")
  /\ calling' = [calling EXCEPT ![t] = None]
  /\ UNCHANGED <<loopVars, wire, emitter, items, metadata, statusByte>>

Summary == [kind |-> "stream_complete", size |-> 1,
            total |-> SumOf(emitter), counts |-> emitter]

\* Mutant: the export's status is looked at before the latched error.
StreamAnswerStatusFirst(status) ==
  IF status = "ok" THEN Summary ELSE [kind |-> "stream_failed", size |-> 1]

\* The precedence of run_data_stream: an exception of the call, the latched
\* error, the status byte, the summary.
StreamAnswer(status) ==
  IF status = "exception" THEN ErrorFrame
  ELSE IF latch # "none" THEN [kind |-> "stream_failed", size |-> 1]
  ELSE IF status # "ok" THEN [kind |-> "stream_failed", size |-> 1]
  ELSE Summary

Statuses == {"ok", "stopped", "other", "exception"}

\* The Lean export comes back (external).  Its status is its own choice: it may
\* ignore that the callback asked it to stop.  That none of its callbacks is
\* running or comes later is nothing the child enforces: it is the contract of
\* callback.rs (callbacks run synchronously inside the export's call), assumed
\* here of the export, and of every thread it started.
ExportReturns ==
  /\ Streaming /\ statusByte = "no"
  /\ \A t \in LeanThreads : calling[t] = None
  /\ statusByte' \in Statuses
  /\ UNCHANGED <<loopVars, wire, emitter, items, metadata, latch, calling, refused>>

\* What run_data_stream makes of it; no thread is waited for.
StreamReturns ==
  /\ Streaming /\ statusByte # "no"
  /\ Respond(StreamAnswer(statusByte))
  /\ UNCHANGED session

-----------------------------------------------------------------------------
(* What the child does not choose                                          *)

\* The parent stops reading.
PipeBreaks ==
  /\ pipeUp /\ loop # "exited"
  /\ pipeUp' = FALSE
  /\ UNCHANGED <<loop, cap, parentCap, session, request, served, wire, handlerVars>>

\* A Lean panic aborts the process in the middle of any request.
LeanPanics ==
  /\ loop = "serve"
  /\ loop' = "exited"
  /\ UNCHANGED <<cap, parentCap, pipeUp, session, request, wire, served, handlerVars>>

Next ==
  \/ Handshake \/ Configure \/ ReadFails \/ ReadFrame
  \/ AnswerOnce \/ SessionMissing \/ Open
  \/ LookUpName \/ NamesDone \/ ListRow \/ ListDone
  \/ TestRow \/ TestRowsDone \/ TestExit \/ Terminate
  \/ \E t \in LeanThreads :
       \/ CallbackEnter(t) \/ CallbackRow(t) \/ CallbackNote(t)
       \/ CallbackMetadata(t) \/ CallbackMalformed(t)
  \/ ExportReturns \/ StreamReturns
  \/ PipeBreaks \/ LeanPanics

Spec == Init /\ [][Next]_vars

-----------------------------------------------------------------------------
(* Properties                                                              *)

Terminal == {"answer", "error", "rows_complete", "stream_complete", "stream_failed"}
Frames(k) == {i \in 1..Len(wire) : wire[i].kind = k}
RowsOf(s) == {i \in Frames("row") : wire[i].stream = s}

\* Every variable keeps its type.
TypeOK ==
  /\ loop \in {"start", "configure", "read", "serve", "exited"}
  /\ cap \in Nat /\ parentCap \in Nat /\ served \in 0..MaxRequests
  /\ pipeUp \in BOOLEAN /\ session \in BOOLEAN
  /\ request = None \/ request \in [kind : Kinds, progress : BOOLEAN]
  /\ emitter \in [Streams -> Nat] /\ items \in 0..MaxItems
  /\ metadata \in Nat /\ refused \in Nat
  /\ latch \in {"none", "write", "malformed"} /\ statusByte \in Statuses \cup {"no"}
  /\ \A t \in LeanThreads : calling[t] = None \/ calling[t].kind \in {e.kind : e \in Events}
  /\ \A i \in 1..Len(wire) : wire[i].size \in Nat

\* A request has one terminal frame, everything else it writes comes before
\* it, and the next request is not read until it is out: the assumption the
\* parent's read loop makes about the child.
OneAnswerPerRequest ==
  LET ends == {i \in 1..Len(wire) : wire[i].kind \in Terminal} IN
  /\ ends \subseteq {Len(wire)}
  /\ loop = "serve" => ends = {}
  /\ loop = "read" /\ served > 0 => ends # {}

\* A completion summary counts exactly the rows on the wire, stream by
\* stream: a row refused by the codec, by the pipe or by the latch never
\* leaves a complete-looking answer behind.
CompleteIsExact ==
  \A i \in 1..Len(wire) :
    /\ wire[i].kind = "stream_complete" =>
         /\ \A s \in Streams : wire[i].counts[s] = Cardinality(RowsOf(s))
         /\ refused = 0
    /\ wire[i].kind = "rows_complete" => wire[i].total = Cardinality(Frames("row"))

\* On the wire the sequence numbers of a stream grow, whatever the number of
\* threads that produce its rows before the export returns.
SequencesGrow ==
  \A s \in Streams : \A i, j \in RowsOf(s) :
    i < j => wire[i].sequence < wire[j].sequence

\* The parent can read every frame: no frame exceeds the cap it announced,
\* so the parent never drops the connection over a frame of its own child.
ParentCanRead ==
  loop \notin {"start", "configure"} => \A i \in 1..Len(wire) : wire[i].size <= parentCap

\* What a stream's rows are numbered and counted as is what is on the wire.
StreamIsExact == CompleteIsExact /\ SequencesGrow

\* The parent reads one whole answer to every request.
ParentIsAnswered == OneAnswerPerRequest /\ ParentCanRead
=============================================================================
