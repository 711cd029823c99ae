-------------------------- MODULE WorkerSupervisor --------------------------
(***************************************************************************)
(* The parent-side supervisor of one worker child (`LeanWorker`,           *)
(* crates/lean-rs-worker-parent/src/supervisor.rs) together with what it   *)
(* supervises: the child process, the two protocol pipes, the per-request  *)
(* reader thread and the bounded event channel between reader and caller.  *)
(*                                                                         *)
(* The caller's thread is the variable pc: "ready" between two calls of    *)
(* the public API, and otherwise the place inside the current call at      *)
(* which the thread may block or be overtaken by another actor.            *)
(***************************************************************************)
EXTENDS Naturals, Sequences, FiniteSets

CONSTANTS
  BufCap,          \* WORKER_EVENT_BUFFER_CAPACITY
  PipeCap,         \* frames that fit in the kernel's stdout pipe
  MaxRestarts,     \* restart_intensity.max_restarts
  Window,          \* restart_intensity.window, in clock units
  HardRss,         \* config.rss_hard_limit_kib.is_some()
  SlowParent,      \* the deadline may pass between two waits of the read loop
  SinkPanics,      \* a row, progress or diagnostic sink may panic
  KillMayStall,    \* a killed child may outlive the kill-wait bound
  EventKinds,      \* the non-terminal frames a child may write
  MaxCalls,        \* bound: requests and cycles the caller starts
  MaxRows,         \* bound: non-terminal frames per request
  MaxTime          \* bound: the last value of the clock

ASSUME BoundsAssumption ==
  /\ BufCap \in Nat \ {0} /\ PipeCap \in Nat \ {0}
  /\ MaxRestarts \in Nat \ {0} /\ Window \in Nat \ {0}
  /\ MaxCalls \in Nat /\ MaxRows \in Nat /\ MaxTime \in Nat

ASSUME SwitchAssumption ==
  /\ {HardRss, SlowParent, SinkPanics, KillMayStall} \subseteq BOOLEAN
  /\ EventKinds \subseteq {"row", "progress", "diagnostic", "garbage"}

VARIABLES
  \* struct LeanWorker
  state,      \* WorkerSupervisorState, without its payload
  gen,        \* generation
  inflight,   \* the request id inside Busy and Streaming, else NoReq
  nextReq,    \* next_request_id
  handle,     \* child and stdin are Some
  lastExit,   \* last_exit
  window,     \* restart_window
  exits,      \* stats.exits
  restarts,   \* stats.restarts
  repl,       \* stats.replacement_attempts, _successes and _failures
  \* the caller's thread and the locals of its current call
  pc, job, cur, deadline, cancelled,
  \* the child process, its pipes, and who owns the read end of stdout
  proc, exit, work, inbox, pipe, stdoutAt,
  \* the reader thread and the channel to the caller
  rpc, rhold, rreq, rx, chan,
  \* the clock, and history the properties read
  clock, delivered, result, admitted, calls

supVars    == <<state, gen, inflight, nextReq, handle, lastExit, window,
                exits, restarts, repl>>
callVars   == <<pc, job, cur, deadline, cancelled>>
childVars  == <<proc, exit, work, inbox, pipe>>
readerVars == <<rpc, rhold, rreq, rx, chan>>
histVars   == <<delivered, result, admitted, calls>>
vars == <<supVars, callVars, childVars, stdoutAt, readerVars, clock, histVars>>

-----------------------------------------------------------------------------
(* Data.  A frame carries, as history, the request the child was serving   *)
(* when it wrote it and its number: the wire itself has neither.           *)

NoReq     == 0
Terminate == 0                  \* Request::Terminate in the child's inbox

Frame(kind, r, n) == [kind |-> kind, req |-> r, seq |-> n]
NoFrame == Frame("none", NoReq, 0)

\* Message::Response(_), the frames that end a request
IsResponse(f) == f.kind \in {"response", "error", "terminating"}

\* RequestReaderEvent: the reader tags what it read with the generation and
\* the request it was started for.
Event(kind, f) == [kind |-> kind, frame |-> f, gen |-> gen, req |-> rreq]
NoEvent == [kind |-> "none", frame |-> NoFrame, gen |-> 0, req |-> NoReq]

\* What the caller does after the child is stopped: "restart" and then
\* return ret, or drop the supervisor.  "recover" marks a request whose
\* child abort is absorbed.  started is `replacement_started`.
Job(after, ret, reading) ==
  [after |-> after, ret |-> ret, reading |-> reading, started |-> clock]
NoJob == [after |-> "none", ret |-> "none", reading |-> FALSE, started |-> 0]

NoResult == [kind |-> "none", req |-> NoReq, rows |-> 0, frame |-> NoFrame]
Return(kind, r, f, rows) ==
  result' = [kind |-> kind, req |-> r, rows |-> rows, frame |-> f]

NoWork == [what |-> "idle", req |-> NoReq, sent |-> 0]
\* A running child that closed its stdout: it takes and answers nothing more.
Mute   == [NoWork EXCEPT !.what = "mute"]

\* Mutant: a request counter one bit wide.
NextRequestIdNarrow(r) == (r + 1) % 2
\* WorkerRequestId::next; ids are one higher than the code's, NoReq is None.
NextRequestId(r) == r + 1

rejects_new_requests ==
  state \in {"stopping", "killing", "reaping", "exhausted"}

-----------------------------------------------------------------------------
(* LeanWorker::spawn has returned a handshaken child of generation 0.      *)
Init ==
  /\ state = "idle" /\ gen = 0 /\ inflight = NoReq /\ nextReq = 1
  /\ handle = TRUE /\ lastExit = "none" /\ window = <<>>
  /\ exits = 0 /\ restarts = 0
  /\ repl = [attempts |-> 0, successes |-> 0, failures |-> 0]
  /\ pc = "ready" /\ job = NoJob /\ cur = NoEvent
  /\ deadline = "none" /\ cancelled = FALSE
  /\ proc = "running" /\ exit = "none" /\ work = NoWork
  /\ inbox = <<>> /\ pipe = <<>> /\ stdoutAt = "sup"
  /\ rpc = "none" /\ rhold = NoEvent /\ rreq = NoReq /\ rx = FALSE /\ chan = <<>>
  /\ clock = 0 /\ delivered = <<>> /\ result = NoResult
  /\ admitted = <<>> /\ calls = 0

-----------------------------------------------------------------------------
(* Helpers shared by the calls                                             *)

\* finalize_child_exit, and the same assignments inside status(): the child
\* is reaped and every handle to it is dropped.
FinalizeChildExit ==
  /\ proc = "zombie"
  /\ proc' = "reaped"
  /\ lastExit' = exit
  /\ handle' = FALSE
  /\ state' = "exited"
  /\ inflight' = NoReq
  /\ stdoutAt' = IF stdoutAt = "sup" THEN "closed" ELSE stdoutAt
  /\ exits' = exits + 1
  /\ UNCHANGED <<exit, work, inbox, pipe>>

\* Mutant: a child already counted out is counted again.
ObserveExitRecounts ==
  \/ handle /\ FinalizeChildExit
  \/ /\ ~handle
     /\ state' = "exited"
     /\ inflight' = NoReq
     /\ exits' = exits + 1
     /\ UNCHANGED <<handle, lastExit, childVars, stdoutAt>>

\* status(), when it finds the child gone.
ObserveExit ==
  \/ handle /\ FinalizeChildExit
  \/ /\ ~handle
     /\ state' = "exited"
     /\ inflight' = NoReq
     /\ UNCHANGED <<handle, lastExit, exits, childVars, stdoutAt>>

\* Child::kill on a child that was not waited for yet.
Kill ==
  /\ proc' = IF proc = "running" THEN "killed" ELSE proc
  /\ UNCHANGED <<exit, work, inbox, pipe>>

\* drop(receiver): queued events are dropped, and with a queued Terminal
\* event the stdout it was carrying back.
DropReceiver ==
  /\ rx' = FALSE
  /\ chan' = <<>>
  /\ stdoutAt' = IF stdoutAt = "event" THEN "closed" ELSE stdoutAt

\* Mutant: the reader is started with the tag of the previous request.
SpawnReaderStaleTag(r) ==
  /\ rpc' = "read" /\ rhold' = NoEvent /\ rreq' = rreq
  /\ rx' = TRUE /\ chan' = <<>>
  /\ stdoutAt' = "reader"

\* thread::spawn(read_request_messages): stdout moves into the thread.
SpawnReader(r) ==
  /\ rpc' = "read" /\ rhold' = NoEvent /\ rreq' = r
  /\ rx' = TRUE /\ chan' = <<>>
  /\ stdoutAt' = "reader"

\* reader.join() after the reader sent its last event.
JoinedReader ==
  /\ rpc' = "none" /\ rx' = FALSE /\ chan' = <<>>
  /\ UNCHANGED <<rhold, rreq>>

-----------------------------------------------------------------------------
(* shutdown_child, entered with the job that follows it                    *)

\* LeanWorkerShutdownOutcome::AlreadyExited.
StopAlreadyExited(j) ==
  /\ ~handle \/ proc = "zombie"
  /\ ObserveExit
  /\ pc' = "stopped" /\ job' = j
  /\ UNCHANGED readerVars

\* ShutdownIntent::Graceful: Terminate is written, then the graceful wait
\* takes stdout; if that is gone the call returns dead_error.
StopGraceful(j) ==
  /\ handle /\ proc # "zombie"
  /\ state' = "stopping" /\ inflight' = NoReq
  /\ inbox' = Append(inbox, Terminate)
  /\ job' = j
  /\ \/ /\ stdoutAt = "sup"
        /\ SpawnReader(NoReq)
        /\ pc' = "grace"
     \/ /\ stdoutAt # "sup"
        /\ pc' = "stopfailed"
        /\ UNCHANGED <<readerVars, stdoutAt>>
  /\ UNCHANGED <<proc, exit, work, pipe, handle, lastExit, exits>>

\* The child dies between the status() look and the write of Terminate: the
\* write fails and kill_and_report kills and waits for it.
StopWriteFails(j) ==
  /\ handle /\ proc = "zombie"
  /\ state' = "reaping" /\ inflight' = NoReq
  /\ pc' = "killwait" /\ job' = j
  /\ UNCHANGED <<handle, lastExit, exits, childVars, stdoutAt, readerVars>>

\* ShutdownIntent::KillOnly: kill_and_report, up to its bounded wait.
StopKill(j) ==
  /\ handle /\ proc # "zombie"
  /\ state' = "reaping" /\ inflight' = NoReq
  /\ Kill
  /\ pc' = "killwait" /\ job' = j
  /\ UNCHANGED <<handle, lastExit, exits, stdoutAt, readerVars>>

\* restart_with_reason_before_spawn, entered for a reason whose stop intent
\* is given; reading: the call still owns a receiver and a reader to join.
BeginRestart(intent, ret, reading) ==
  LET j == Job("restart", ret, reading) IN
  /\ repl' = [repl EXCEPT !.attempts = @ + 1]
  /\ \/ StopAlreadyExited(j)
     \/ intent = "graceful" /\ (StopGraceful(j) \/ StopWriteFails(j))
     \/ intent = "kill" /\ StopKill(j)
  /\ UNCHANGED <<gen, nextReq, window, restarts, cancelled, clock, admitted>>

-----------------------------------------------------------------------------
(* The public calls, from pc = "ready"                                     *)

\* status() finds the child gone; also what ensure_running does before it
\* refuses a request.
Status ==
  /\ pc = "ready"
  /\ ~handle \/ proc = "zombie"
  /\ ObserveExit
  /\ UNCHANGED <<gen, nextReq, window, restarts, repl, callVars, readerVars,
                 clock, histVars>>

\* round_trip: the request is written and read_response_with_events starts
\* its reader.  rec: an operation that absorbs a child abort.
BeginRequest(rec) ==
  /\ pc = "ready" /\ calls < MaxCalls
  /\ ~rejects_new_requests /\ handle /\ proc # "zombie"
  /\ stdoutAt = "sup"
  /\ inbox' = Append(inbox, nextReq)
  /\ state' = "busy" /\ inflight' = nextReq /\ nextReq' = NextRequestId(nextReq)
  /\ SpawnReader(nextReq)
  /\ pc' = "loop" /\ deadline' = "ahead" /\ cancelled' = FALSE
  /\ job' = [NoJob EXCEPT !.after = IF rec THEN "recover" ELSE "none"]
  /\ delivered' = <<>> /\ calls' = calls + 1
  /\ UNCHANGED <<gen, handle, lastExit, window, exits, restarts, repl, cur,
                 proc, exit, work, pipe, clock, result, admitted>>

\* The same call when an earlier failure lost stdout: the request is written
\* and then fails with dead_error, which a recovering operation absorbs.
RequestWithoutStdout(rec) ==
  /\ pc = "ready" /\ calls < MaxCalls
  /\ ~rejects_new_requests /\ handle /\ proc # "zombie"
  /\ stdoutAt # "sup"
  /\ calls' = calls + 1 /\ delivered' = <<>>
  /\ \/ /\ ~rec
        /\ inbox' = Append(inbox, nextReq)
        /\ Return("dead", NoReq, NoFrame, 0)
        /\ UNCHANGED <<supVars, callVars, proc, exit, work, pipe, stdoutAt,
                       readerVars, clock, admitted>>
     \/ /\ rec
        /\ BeginRestart("kill", "degraded", FALSE)
        /\ UNCHANGED <<cur, deadline, result>>

\* The child dies between ensure_running's look and the write: the write
\* fails with a protocol error that is not recovered, and nothing is in flight.
RequestWriteFails ==
  /\ pc = "ready" /\ calls < MaxCalls
  /\ ~rejects_new_requests /\ handle /\ proc = "zombie"
  /\ Return("protocol", NoReq, NoFrame, 0)
  /\ calls' = calls + 1 /\ delivered' = <<>>
  /\ UNCHANGED <<supVars, callVars, childVars, stdoutAt, readerVars, clock,
                 admitted>>

\* cycle() and restart(), and a policy restart of prepare_request.
Cycle ==
  /\ pc = "ready" /\ calls < MaxCalls
  /\ BeginRestart("graceful", "cycled", FALSE)
  /\ calls' = calls + 1
  /\ UNCHANGED <<cur, deadline, delivered, result>>

\* shutdown() consumes the supervisor, so its end runs Drop; Drop alone is
\* the same call without the first attempt.
Stop(after) ==
  /\ LET j == Job(after, "stopped", FALSE) IN
     StopAlreadyExited(j) \/ StopGraceful(j) \/ StopWriteFails(j)
  /\ UNCHANGED <<gen, nextReq, window, restarts, repl, cur, deadline,
                 cancelled, clock, histVars>>

Shutdown == pc = "ready" /\ Stop("shutdown")
Drop     == pc \in {"ready", "dropping"} /\ Stop("drop")

-----------------------------------------------------------------------------
(* read_response_with_events                                               *)

\* Loop head: the hard RSS guard fires.
HardRssKill ==
  /\ pc = "loop" /\ HardRss
  /\ BeginRestart("kill", "rss_hard_limit", TRUE)
  /\ UNCHANGED <<cur, deadline, delivered, result, calls>>

\* Loop head: deadline.checked_duration_since(now) is Some(remaining).
AwaitEvent ==
  /\ pc = "loop" /\ deadline = "ahead"
  /\ pc' = "recv"
  /\ UNCHANGED <<supVars, job, cur, deadline, cancelled, childVars, stdoutAt,
                 readerVars, clock, histVars>>

\* Loop head: the deadline is in the past, so checked_duration_since is None
\* and the loop falls through to the receive without a timeout.
AwaitEventUnbounded ==
  /\ pc = "loop" /\ deadline = "passed"
  /\ pc' = "recvForever"
  /\ UNCHANGED <<supVars, job, cur, deadline, cancelled, childVars, stdoutAt,
                 readerVars, clock, histVars>>

\* The request timeout: remaining is zero at the loop head, or recv_timeout
\* ran to the deadline.
RequestTimeout ==
  /\ deadline = "reached"
  /\ pc = "loop" \/ (pc = "recv" /\ chan = <<>>)
  /\ BeginRestart("kill", "timeout", TRUE)
  /\ UNCHANGED <<cur, deadline, delivered, result, calls>>

\* recv_timeout ran to the RSS sampling interval before the deadline.
RssSampleDue ==
  /\ pc = "recv" /\ HardRss /\ deadline = "ahead" /\ chan = <<>>
  /\ pc' = "loop"
  /\ UNCHANGED <<supVars, job, cur, deadline, cancelled, childVars, stdoutAt,
                 readerVars, clock, histVars>>

Receive ==
  /\ pc \in {"recv", "recvForever"} /\ chan # <<>>
  /\ cur' = Head(chan) /\ chan' = Tail(chan)
  /\ pc' = "event"
  /\ UNCHANGED <<supVars, job, deadline, cancelled, childVars, stdoutAt,
                 rpc, rhold, rreq, rx, clock, histVars>>

\* A row, progress or diagnostic reaches its sink.  Only after rows and
\* progress is the cancellation token looked at.
SeesCancellation == cancelled /\ cur.frame.kind \in {"row", "progress"}

DeliverEvent ==
  /\ pc = "event" /\ cur.kind = "message"
  /\ delivered' = Append(delivered, cur.frame)
  /\ cur' = NoEvent
  /\ \/ /\ ~SeesCancellation
        /\ state' = "streaming" /\ pc' = "loop"
        /\ UNCHANGED <<gen, inflight, nextReq, handle, lastExit, window, exits,
                       restarts, repl, job, cancelled, childVars, stdoutAt,
                       readerVars, clock, admitted>>
     \/ /\ SeesCancellation
        /\ BeginRestart("kill", "cancelled", TRUE)
  /\ UNCHANGED <<deadline, result, calls>>

\* Mutant: stdout is taken back from the detached reader, so that the next
\* request finds it.
SinkPanicKeepsStdout ==
  /\ pc = "event" /\ cur.kind = "message" /\ SinkPanics
  /\ state' = "idle" /\ inflight' = NoReq
  /\ stdoutAt' = "sup" /\ JoinedReader
  /\ Return("sink_panic", inflight, NoFrame, Len(delivered))
  /\ pc' = "ready" /\ cur' = NoEvent /\ job' = NoJob /\ deadline' = "none"
  /\ UNCHANGED <<gen, nextReq, handle, lastExit, window, exits, restarts, repl,
                 cancelled, childVars, clock, delivered, admitted, calls>>

\* terminalize_request_failure, and the call returns: the receiver goes out
\* of scope, the reader thread is detached and still owns stdout.
SinkPanic ==
  /\ pc = "event" /\ cur.kind = "message" /\ SinkPanics
  /\ state' = "idle" /\ inflight' = NoReq
  /\ DropReceiver
  /\ Return("sink_panic", inflight, NoFrame, Len(delivered))
  /\ pc' = "ready" /\ cur' = NoEvent /\ job' = NoJob /\ deadline' = "none"
  /\ UNCHANGED <<gen, nextReq, handle, lastExit, window, exits, restarts, repl,
                 cancelled, childVars, rpc, rhold, rreq, clock, delivered,
                 admitted, calls>>

\* RequestReaderEvent::Terminal: stdout comes back with the response.
TerminalResponse ==
  /\ pc = "event" /\ cur.kind = "terminal"
  /\ state' = "idle" /\ inflight' = NoReq
  /\ stdoutAt' = "sup" /\ JoinedReader
  /\ Return(IF cur.frame.kind = "response" THEN "ok" ELSE "worker_error",
            inflight, cur.frame, Len(delivered))
  /\ pc' = "ready" /\ cur' = NoEvent /\ job' = NoJob /\ deadline' = "none"
  /\ UNCHANGED <<gen, nextReq, handle, lastExit, window, exits, restarts, repl,
                 cancelled, childVars, clock, delivered, admitted, calls>>

\* Mutant: an undecodable frame is reported and the stream kept.
ReadErrorKeepsStdout ==
  /\ pc = "event" /\ cur.kind = "readerror"
  /\ state' = "idle" /\ inflight' = NoReq
  /\ stdoutAt' = "sup" /\ JoinedReader
  /\ Return("protocol", inflight, NoFrame, Len(delivered))
  /\ pc' = "ready" /\ cur' = NoEvent /\ job' = NoJob /\ deadline' = "none"
  /\ UNCHANGED <<gen, nextReq, handle, lastExit, window, exits, restarts, repl,
                 cancelled, childVars, clock, delivered, admitted, calls>>

\* ReadError that is not an end of file: the reader dropped stdout.
ReadError ==
  /\ pc = "event" /\ cur.kind = "readerror"
  /\ state' = "idle" /\ inflight' = NoReq
  /\ JoinedReader
  /\ Return("protocol", inflight, NoFrame, Len(delivered))
  /\ pc' = "ready" /\ cur' = NoEvent /\ job' = NoJob /\ deadline' = "none"
  /\ UNCHANGED <<gen, nextReq, handle, lastExit, window, exits, restarts, repl,
                 cancelled, childVars, stdoutAt, clock, delivered, admitted, calls>>

\* ReadError at end of file: record_exit_error enters the unbounded wait, for
\* a child that is taken to be dead and may have closed its stdout only.
ReadEof ==
  /\ pc = "event" /\ cur.kind = "eof"
  /\ state' = "reaping" /\ inflight' = NoReq
  /\ JoinedReader
  /\ Return("child_exit", inflight, NoFrame, Len(delivered))
  /\ pc' = "reap" /\ cur' = NoEvent /\ deadline' = "none"
  /\ UNCHANGED <<gen, nextReq, handle, lastExit, window, exits, restarts, repl,
                 job, cancelled, childVars, stdoutAt, clock, delivered,
                 admitted, calls>>

\* wait_for_exit returns; recover_child_abort absorbs an unsuccessful exit
\* of a read-only request by restarting.
Reap ==
  /\ pc = "reap"
  /\ FinalizeChildExit
  /\ \/ /\ job.after = "recover" /\ exit # "success"
        /\ pc' = "stopped" /\ job' = Job("restart", "degraded", FALSE)
        /\ repl' = [repl EXCEPT !.attempts = @ + 1]
     \/ /\ ~(job.after = "recover" /\ exit # "success")
        /\ pc' = "ready" /\ job' = NoJob
        /\ UNCHANGED repl
  /\ UNCHANGED <<gen, nextReq, window, restarts, cur, deadline, cancelled,
                 readerVars, clock, histVars>>

-----------------------------------------------------------------------------
(* wait_for_graceful_shutdown and the bounded waits                        *)

\* The child is gone: drop the receiver and join the reader.
GraceChildExited ==
  /\ pc = "grace" /\ proc = "zombie"
  /\ DropReceiver
  /\ pc' = "gracejoin"
  /\ UNCHANGED <<supVars, job, cur, deadline, cancelled, childVars,
                 rpc, rhold, rreq, clock, histVars>>

\* graceful_timeout elapsed: kill, drop the receiver and join the reader.
GraceTimeout ==
  /\ pc = "grace"
  /\ Kill /\ DropReceiver
  /\ pc' = "gracejoin"
  /\ UNCHANGED <<supVars, job, cur, deadline, cancelled,
                 rpc, rhold, rreq, clock, histVars>>

GraceJoin ==
  /\ pc = "gracejoin" /\ rpc = "done"
  /\ JoinedReader
  /\ \/ /\ FinalizeChildExit
        /\ pc' = "stopped"
     \/ /\ proc = "killed"
        /\ state' = "reaping" /\ pc' = "killwait"
        /\ UNCHANGED <<inflight, handle, lastExit, exits, childVars, stdoutAt>>
  /\ UNCHANGED <<gen, nextReq, window, restarts, repl, job, cur, deadline,
                 cancelled, clock, histVars>>

\* An event of the graceful wait: a message is skipped, Terminating or end of
\* file lead to the bounded wait for the exit, any other answer or read error
\* to kill_and_report.
GraceEvent ==
  /\ pc = "grace" /\ chan # <<>>
  /\ LET e      == Head(chan)
         polite == e.kind = "eof" \/ e.frame.kind = "terminating" IN
     IF e.kind = "message"
     THEN /\ chan' = Tail(chan)
          /\ UNCHANGED <<state, pc, childVars, stdoutAt, rpc, rhold, rreq, rx>>
     ELSE /\ JoinedReader
          /\ stdoutAt' = IF e.kind = "terminal" THEN "sup" ELSE stdoutAt
          /\ state' = "reaping"
          /\ pc' = IF polite THEN "exitwait" ELSE "killwait"
          /\ IF polite THEN UNCHANGED childVars ELSE Kill
  /\ UNCHANGED <<gen, inflight, nextReq, handle, lastExit, window, exits,
                 restarts, repl, job, cur, deadline, cancelled, clock, histVars>>

\* wait_for_exit_bounded sees the exit.
ExitSeen ==
  /\ pc \in {"exitwait", "killwait"}
  /\ FinalizeChildExit
  /\ pc' = "stopped"
  /\ UNCHANGED <<gen, nextReq, window, restarts, repl, job, cur, deadline,
                 cancelled, readerVars, clock, histVars>>

\* Mutant: the wait's error is returned instead of escalating to kill.
ExitWaitGivesUp ==
  /\ pc = "exitwait"
  /\ pc' = "stopfailed"
  /\ UNCHANGED <<supVars, job, cur, deadline, cancelled, childVars, stdoutAt,
                 readerVars, clock, histVars>>

\* The rest of the grace period runs out: kill_and_report.
ExitWaitTimeout ==
  /\ pc = "exitwait"
  /\ Kill
  /\ pc' = "killwait"
  /\ UNCHANGED <<supVars, job, cur, deadline, cancelled, stdoutAt, readerVars,
                 clock, histVars>>

\* Mutant: an unreaped child is taken for stopped.
KillWaitIgnored ==
  /\ pc = "killwait" /\ KillMayStall /\ proc = "killed"
  /\ pc' = "stopped"
  /\ UNCHANGED <<supVars, job, cur, deadline, cancelled, childVars, stdoutAt,
                 readerVars, clock, histVars>>

\* LeanWorkerError::WaitTimeout { operation: "kill_wait" }.
KillWaitTimeout ==
  /\ pc = "killwait" /\ KillMayStall /\ proc = "killed"
  /\ pc' = "stopfailed"
  /\ UNCHANGED <<supVars, job, cur, deadline, cancelled, childVars, stdoutAt,
                 readerVars, clock, histVars>>

-----------------------------------------------------------------------------
(* After shutdown_child returned                                           *)

\* A stop that failed: "stop_failed", and the closure that owned the receiver
\* is dropped unrun.
RestartStopFailed ==
  /\ pc = "stopfailed" /\ job.after = "restart"
  /\ repl' = [repl EXCEPT !.failures = @ + 1]
  /\ Return("stop_failed", NoReq, NoFrame, Len(delivered))
  /\ DropReceiver
  /\ pc' = "ready" /\ job' = NoJob /\ deadline' = "none"
  /\ UNCHANGED <<state, gen, inflight, nextReq, handle, lastExit, window, exits,
                 restarts, cur, cancelled, childVars, rpc, rhold, rreq, clock,
                 delivered, admitted, calls>>

\* Mutant: join before the receiver is dropped.
BeforeSpawnJoinsFirst ==
  /\ pc = "stopped" /\ job.after = "restart" /\ job.reading
  /\ pc' = "join"
  /\ UNCHANGED <<supVars, job, cur, deadline, cancelled, childVars, stdoutAt,
                 readerVars, clock, histVars>>

\* before_spawn: drop(receiver), so that a reader blocked on a full channel
\* can finish; then join it.
BeforeSpawn ==
  /\ pc = "stopped" /\ job.after = "restart" /\ job.reading
  /\ DropReceiver
  /\ pc' = "join"
  /\ UNCHANGED <<supVars, job, cur, deadline, cancelled, childVars,
                 rpc, rhold, rreq, clock, histVars>>

ReadyToAdmit ==
  \/ pc = "join" /\ rpc = "done"
  \/ pc = "stopped" /\ job.after = "restart" /\ ~job.reading

\* admit_restart pops expired entries from the front of the deque.
Expired(w, now) == {i \in 1..Len(w) : \A k \in 1..i : now - w[k] >= Window}
Pruned(w, now)  == SubSeq(w, Cardinality(Expired(w, now)) + 1, Len(w))

\* RestartLimitExceeded.
RestartRefused ==
  /\ ReadyToAdmit
  /\ LET w == Pruned(window, job.started) IN
     /\ Len(w) >= MaxRestarts
     /\ window' = w
  /\ state' = "exhausted" /\ inflight' = NoReq
  /\ repl' = [repl EXCEPT !.failures = @ + 1]
  /\ Return("restart_limit", NoReq, NoFrame, Len(delivered))
  /\ pc' = "ready" /\ job' = NoJob /\ deadline' = "none"
  /\ UNCHANGED <<gen, nextReq, handle, lastExit, exits, restarts, cur, cancelled,
                 childVars, stdoutAt, readerVars, clock, delivered, admitted, calls>>

\* Mutant: one restart too many fits in the window.
AdmitRestartOffByOne ==
  /\ ReadyToAdmit
  /\ LET w == Pruned(window, job.started) IN
     /\ Len(w) <= MaxRestarts
     /\ window' = Append(w, job.started)
  /\ admitted' = Append(admitted, job.started)
  /\ restarts' = restarts + 1

\* The restart is admitted and recorded.
AdmitRestart ==
  /\ ReadyToAdmit
  /\ LET w == Pruned(window, job.started) IN
     /\ Len(w) < MaxRestarts
     /\ window' = Append(w, job.started)
  /\ admitted' = Append(admitted, job.started)
  /\ restarts' = restarts + 1

\* Mutant: the supervisor is marked Idle before the spawn is known to work.
RestartSpawnFailedIdle ==
  /\ AdmitRestart
  /\ repl' = [repl EXCEPT !.failures = @ + 1]
  /\ Return("spawn_failed", NoReq, NoFrame, Len(delivered))
  /\ state' = "idle"
  /\ pc' = "ready" /\ job' = NoJob /\ deadline' = "none"
  /\ UNCHANGED <<gen, inflight, nextReq, handle, lastExit, exits, cur,
                 cancelled, childVars, stdoutAt, readerVars, clock, delivered, calls>>

\* Self::spawn failed after the restart was recorded.
RestartSpawnFailed ==
  /\ AdmitRestart
  /\ repl' = [repl EXCEPT !.failures = @ + 1]
  /\ Return("spawn_failed", NoReq, NoFrame, Len(delivered))
  /\ pc' = "ready" /\ job' = NoJob /\ deadline' = "none"
  /\ UNCHANGED <<state, gen, inflight, nextReq, handle, lastExit, exits, cur,
                 cancelled, childVars, stdoutAt, readerVars, clock, delivered, calls>>

\* The replacement is handshaken and takes the supervisor's place.
RestartSpawned ==
  /\ AdmitRestart
  /\ repl' = [repl EXCEPT !.successes = @ + 1]
  /\ gen' = gen + 1
  /\ state' = "idle" /\ inflight' = NoReq /\ handle' = TRUE /\ lastExit' = "none"
  /\ proc' = "running" /\ exit' = "none" /\ work' = NoWork
  /\ inbox' = <<>> /\ pipe' = <<>> /\ stdoutAt' = "sup"
  /\ rpc' = "none" /\ rhold' = NoEvent /\ rreq' = NoReq /\ rx' = FALSE /\ chan' = <<>>
  /\ Return(job.ret, NoReq, NoFrame, Len(delivered))
  /\ pc' = "ready" /\ job' = NoJob /\ deadline' = "none"
  /\ UNCHANGED <<nextReq, exits, cur, cancelled, clock, delivered, calls>>

\* The supervisor's fields are dropped: with them the parent's pipe ends.
Dropped ==
  /\ pc \in {"stopped", "stopfailed"} /\ job.after = "drop"
  /\ pc' = "gone"
  /\ stdoutAt' = IF stdoutAt = "sup" THEN "closed" ELSE stdoutAt
  /\ UNCHANGED <<supVars, job, cur, deadline, cancelled, childVars, readerVars,
                 clock, histVars>>

\* shutdown() returns its report or its error, and self is dropped.
ShutdownReturns ==
  /\ pc \in {"stopped", "stopfailed"} /\ job.after = "shutdown"
  /\ pc' = "dropping"
  /\ UNCHANGED <<supVars, job, cur, deadline, cancelled, childVars, stdoutAt,
                 readerVars, clock, histVars>>

-----------------------------------------------------------------------------
(* The reader thread: read_request_messages and send_reader_event          *)

\* The next frame, or the end of the stream: nobody holds its write end, the
\* child being dead or having closed it.
ReadFrame ==
  /\ rpc = "read"
  /\ \/ /\ pipe # <<>>
        /\ LET f == Head(pipe) IN
           rhold' = Event(IF IsResponse(f) THEN "terminal"
                          ELSE IF f.kind = "garbage" THEN "readerror"
                          ELSE "message", f)
        /\ pipe' = Tail(pipe)
     \/ /\ pipe = <<>> /\ (proc \in {"zombie", "reaped"} \/ work.what = "mute")
        /\ rhold' = Event("eof", NoFrame)
        /\ UNCHANGED pipe
  /\ rpc' = "send"
  /\ UNCHANGED <<supVars, callVars, proc, exit, work, inbox, stdoutAt, rreq, rx,
                 chan, clock, histVars>>

\* Mutant: try_send without the blocking send; a full channel loses the event.
SendEventLossy ==
  /\ rpc = "send" /\ rx
  /\ chan' = IF Len(chan) < BufCap THEN Append(chan, rhold) ELSE chan
  /\ rhold' = NoEvent
  /\ rpc' = IF rhold.kind = "message" THEN "read" ELSE "done"
  /\ stdoutAt' = CASE rhold.kind = "message"  -> stdoutAt
                   [] rhold.kind = "terminal" -> "event"
                   [] OTHER                   -> "closed"
  /\ UNCHANGED <<supVars, callVars, childVars, rreq, rx, clock, histVars>>

\* The send blocks while the channel is full.  A Terminal event takes stdout
\* with it; after an error the thread ends and drops stdout.
SendEvent ==
  /\ rpc = "send" /\ rx /\ Len(chan) < BufCap
  /\ chan' = Append(chan, rhold)
  /\ rhold' = NoEvent
  /\ rpc' = IF rhold.kind = "message" THEN "read" ELSE "done"
  /\ stdoutAt' = CASE rhold.kind = "message"  -> stdoutAt
                   [] rhold.kind = "terminal" -> "event"
                   [] OTHER                   -> "closed"
  /\ UNCHANGED <<supVars, callVars, childVars, rreq, rx, clock, histVars>>

\* The receiver is gone: the thread ends and drops stdout.
SendFails ==
  /\ rpc = "send" /\ ~rx
  /\ rpc' = "done" /\ rhold' = NoEvent
  /\ stdoutAt' = "closed"
  /\ UNCHANGED <<supVars, callVars, childVars, rreq, rx, chan, clock, histVars>>

-----------------------------------------------------------------------------
(* The child (serve_stdio of lean-rs-worker-child), and the OS             *)

\* The loop reads the next request.
ChildTakes ==
  /\ proc = "running" /\ work.what = "idle" /\ inbox # <<>>
  /\ work' = [what |-> IF Head(inbox) = Terminate THEN "terminating" ELSE "serving",
              req |-> Head(inbox), sent |-> 0]
  /\ inbox' = Tail(inbox)
  /\ UNCHANGED <<supVars, callVars, proc, exit, pipe, stdoutAt, readerVars,
                 clock, histVars>>

\* It can write to stdout: there is room, and somebody holds the read end.
CanWrite == proc = "running" /\ stdoutAt # "closed" /\ Len(pipe) < PipeCap

ChildEmits(kind) ==
  /\ work.what = "serving" /\ work.sent < MaxRows /\ CanWrite
  /\ pipe' = Append(pipe, Frame(kind, work.req, work.sent + 1))
  /\ work' = [work EXCEPT !.sent = @ + 1]
  /\ UNCHANGED <<supVars, callVars, proc, exit, inbox, stdoutAt, readerVars,
                 clock, histVars>>

\* write_response, for a result or for Response::Error.
ChildResponds(kind) ==
  /\ work.what = "serving" /\ CanWrite
  /\ pipe' = Append(pipe, Frame(kind, work.req, work.sent))
  /\ work' = NoWork
  /\ UNCHANGED <<supVars, callVars, proc, exit, inbox, stdoutAt, readerVars,
                 clock, histVars>>

\* Request::Terminate: answer, then return from the loop.
ChildTerminates ==
  /\ work.what = "terminating" /\ CanWrite
  /\ pipe' = Append(pipe, Frame("terminating", NoReq, 0))
  /\ work' = [NoWork EXCEPT !.what = "exiting"]
  /\ UNCHANGED <<supVars, callVars, proc, exit, inbox, stdoutAt, readerVars,
                 clock, histVars>>

ChildExits(status) ==
  /\ proc' = "zombie" /\ exit' = status
  /\ UNCHANGED <<supVars, callVars, work, inbox, pipe, stdoutAt, readerVars,
                 clock, histVars>>

ChildReturns == proc = "running" /\ work.what = "exiting" /\ ChildExits("success")

\* A write to a pipe without reader, or end of file on stdin.
ChildLosesPipe ==
  /\ proc = "running"
  /\ \/ work.what \in {"serving", "terminating"} /\ stdoutAt = "closed"
     \/ work.what = "idle" /\ inbox = <<>> /\ pc = "gone"
  /\ ChildExits("failure")

\* The child, or Lean code in it, closes stdout and the process runs on: the
\* parent sees the end of the stream and no exit.
ChildClosesStdout ==
  /\ proc = "running" /\ work.what # "mute"
  /\ work' = Mute
  /\ UNCHANGED <<supVars, callVars, proc, exit, inbox, pipe, stdoutAt,
                 readerVars, clock, histVars>>

\* A Lean panic, an abort or a signal.
ChildCrashes == proc = "running" /\ ChildExits("failure")

\* The OS finishes a SIGKILL.
KillLands == proc = "killed" /\ ChildExits("killed")

-----------------------------------------------------------------------------
(* The environment of the call                                             *)

\* Another thread sets the cancellation token of the request.
Cancel ==
  /\ inflight # NoReq /\ ~cancelled
  /\ cancelled' = TRUE
  /\ UNCHANGED <<supVars, pc, job, cur, deadline, childVars, stdoutAt,
                 readerVars, clock, histVars>>

\* The request's deadline comes; a slow parent may find it already past when
\* it returns to the loop head.
DeadlineComes ==
  /\ pc \in {"loop", "recv", "event"}
  /\ \/ deadline = "ahead" /\ deadline' = "reached"
     \/ /\ SlowParent /\ pc \in {"loop", "event"}
        /\ deadline \in {"ahead", "reached"} /\ deadline' = "passed"
  /\ UNCHANGED <<supVars, pc, job, cur, cancelled, childVars, stdoutAt,
                 readerVars, clock, histVars>>

Tick ==
  /\ clock < MaxTime
  /\ clock' = clock + 1
  /\ UNCHANGED <<supVars, callVars, childVars, stdoutAt, readerVars, histVars>>

-----------------------------------------------------------------------------

\* The steps of a call in progress.
CallStep ==
  \/ HardRssKill \/ AwaitEvent \/ AwaitEventUnbounded \/ RequestTimeout
  \/ RssSampleDue \/ Receive \/ DeliverEvent \/ SinkPanic \/ TerminalResponse
  \/ ReadError \/ ReadEof \/ Reap
  \/ GraceChildExited \/ GraceTimeout \/ GraceJoin \/ GraceEvent
  \/ ExitSeen \/ ExitWaitTimeout \/ KillWaitTimeout
  \/ RestartStopFailed \/ BeforeSpawn \/ RestartRefused \/ RestartSpawnFailed
  \/ RestartSpawned \/ Dropped \/ ShutdownReturns
  \/ pc = "dropping" /\ Drop

ReaderStep == ReadFrame \/ SendEvent \/ SendFails

ChildStep ==
  \/ ChildTakes
  \/ \E kind \in EventKinds : ChildEmits(kind)
  \/ \E kind \in {"response", "error"} : ChildResponds(kind)
  \/ ChildTerminates \/ ChildReturns \/ ChildLosesPipe \/ ChildClosesStdout
  \/ ChildCrashes

PublicCall ==
  \/ Status
  \/ \E rec \in BOOLEAN : BeginRequest(rec) \/ RequestWithoutStdout(rec)
  \/ RequestWriteFails \/ Cycle \/ Shutdown \/ (pc = "ready" /\ Drop)

Next ==
  \/ PublicCall \/ CallStep \/ ReaderStep \/ ChildStep \/ KillLands
  \/ Cancel \/ DeadlineComes \/ Tick

Spec == Init /\ [][Next]_vars

\* The parent's threads are scheduled, time passes, and the OS finishes what
\* it was asked to kill.  Nothing is assumed of the child: it may wedge, with
\* its stdout open or closed.
Fairness ==
  /\ WF_vars(CallStep) /\ WF_vars(ReaderStep)
  /\ WF_vars(DeadlineComes) /\ WF_vars(KillLands)

FairSpec == Spec /\ Fairness

-----------------------------------------------------------------------------
(* Properties                                                              *)

Reading == {"loop", "recv", "recvForever", "event"}
PcSet == Reading \cup {"ready", "reap", "grace", "gracejoin", "exitwait", "killwait",
                       "stopped", "stopfailed", "join", "dropping", "gone"}

FrameType == [kind : EventKinds \cup {"none", "response", "error", "terminating"},
              req : Nat, seq : Nat]
EventType == [kind : {"none", "message", "terminal", "readerror", "eof"},
              frame : FrameType, gen : Nat, req : Nat]

SupType ==
  /\ state \in {"idle", "busy", "streaming", "stopping", "reaping",
                "exhausted", "exited"}
  /\ gen \in Nat /\ inflight \in Nat /\ nextReq \in Nat \ {0} /\ handle \in BOOLEAN
  /\ lastExit \in {"none", "success", "failure", "killed"}
  /\ window \in Seq(Nat) /\ exits \in Nat /\ restarts \in Nat
  /\ repl \in [attempts : Nat, successes : Nat, failures : Nat]

JobType == [after : {"none", "recover", "restart", "shutdown", "drop"},
            ret : {"none", "degraded", "cycled", "stopped", "rss_hard_limit",
                   "timeout", "cancelled"},
            reading : BOOLEAN, started : Nat]
CallType ==
  /\ pc \in PcSet /\ job \in JobType /\ cur \in EventType
  /\ deadline \in {"none", "ahead", "reached", "passed"} /\ cancelled \in BOOLEAN

WorkType == [what : {"idle", "serving", "terminating", "exiting", "mute"},
             req : Nat, sent : Nat]
ChildType ==
  /\ proc \in {"running", "killed", "zombie", "reaped"}
  /\ exit \in {"none", "success", "failure", "killed"}
  /\ work \in WorkType /\ inbox \in Seq(Nat) /\ pipe \in Seq(FrameType)

ReaderType ==
  /\ stdoutAt \in {"sup", "reader", "event", "closed"}
  /\ rpc \in {"none", "read", "send", "done"} /\ rhold \in EventType
  /\ rreq \in Nat /\ rx \in BOOLEAN /\ chan \in Seq(EventType)

ResultType == [kind : {"none", "dead", "sink_panic", "ok", "worker_error",
                       "protocol", "child_exit", "stop_failed", "restart_limit",
                       "spawn_failed", "degraded", "cycled", "rss_hard_limit",
                       "timeout", "cancelled", "stopped"},
               req : Nat, rows : Nat, frame : FrameType]
HistType ==
  /\ clock \in Nat /\ delivered \in Seq(FrameType) /\ result \in ResultType
  /\ admitted \in Seq(Nat) /\ calls \in Nat

\* Every variable keeps its type.
TypeOK == SupType /\ CallType /\ ChildType /\ ReaderType /\ HistType

\* Between two calls a supervisor that owns its child's stdout has a child
\* with nothing left to read, to do or to be read (it may have closed stdout).  The wire has no request
\* id, so this is what keeps an answer from being taken for another request's.
QuietBetweenCalls ==
  (pc \in {"ready", "dropping"} /\ stdoutAt = "sup" /\ proc = "running")
    => inbox = <<>> /\ pipe = <<>> /\ work \in {NoWork, Mute}

\* What the read loop can receive carries the current generation and request:
\* the loop's stale-output branches (generation or request id mismatch) are
\* never needed, because each call has its own channel.
EventsAreCurrent ==
  pc \in Reading =>
    \A e \in {chan[i] : i \in 1..Len(chan)} \cup {cur, rhold} :
      e.kind # "none" => e.gen = gen /\ e.req = inflight

\* Nothing of a request is left over for the next one.
NothingLeftOver == QuietBetweenCalls /\ EventsAreCurrent

\* A replacement is spawned only when the previous child is reaped and no
\* receiver of its output is left (synchronous-no-overlap).
SpawnAfterReap ==
  [][gen' # gen => /\ gen' = gen + 1
                   /\ proc = "reaped"
                   /\ ~rx]_vars

\* The caller's view of the supervisor.  The frame that ended a request says,
\* as history, which request the child answered and after how many rows.
Service == INSTANCE WorkerService WITH
  open       <- pc # "gone",
  generation <- gen,
  lastId     <- nextReq - 1,
  current    <- inflight,
  rows       <- [i \in 1..Len(delivered) |-> <<delivered[i].req, delivered[i].seq>>],
  answer     <- IF result.kind \in {"ok", "worker_error"}
                THEN <<result.frame.req, result.frame.seq>> ELSE <<>>

\* The supervisor with its child, reader, channel and pipes implements the
\* service: one request at a time under a fresh id, rows in order, an answer
\* that acknowledges all of them, replacements between requests only.
ImplementsService == Service!Spec

\* Any MaxRestarts + 1 consecutive admitted restarts span at least Window,
\* by the times at which they were started.
RestartIntensity ==
  \A i \in 1..Len(admitted) :
    i + MaxRestarts <= Len(admitted)
      => admitted[i + MaxRestarts] - admitted[i] >= Window

\* Every child is counted out exactly once, whichever of status(), a bounded
\* wait or the wait after EOF sees its exit, and every replacement attempt ends
\* in exactly one of success and failure.
LifecycleAccounting ==
  /\ exits = gen + (IF handle THEN 0 ELSE 1)
  /\ repl.successes = gen
  /\ repl.attempts = repl.successes + repl.failures
                       + (IF job.after = "restart" THEN 1 ELSE 0)

\* A supervisor between calls that says Idle has a child and both ends of its
\* pipes, so that a request can be written and read, as long as no sink
\* panicked and no frame was unreadable.
IdleIsUsable ==
  (pc = "ready" /\ state = "idle") => handle /\ stdoutAt = "sup"

\* When the supervisor is dropped its child is reaped (as the architecture
\* notes say of Drop), as long as no sink panicked, no frame was unreadable and
\* no kill stalled.
DroppedMeansReaped == pc = "gone" => proc = "reaped"

\* What the supervisor says of its child is so, with the exceptions above.
StatusIsTrue == IdleIsUsable /\ DroppedMeansReaped

InCall == pc \notin {"ready", "gone"}

\* The two waits of the code that have no bound, and what each waits for: the
\* receive without a timeout of a request whose deadline passed between two
\* waits, for a child that runs and writes nothing; and the wait for the exit
\* of a child that closed its stdout and runs on.
WaitsForEver ==
  /\ proc = "running"
  /\ \/ /\ pc = "recvForever" /\ deadline = "passed"
        /\ chan = <<>> /\ pipe = <<>> /\ rpc = "read" /\ work.what # "mute"
     \/ pc = "reap" /\ work.what = "mute"

\* Every call returns, or is in one of the two unbounded waits for good.
\* Nothing else holds it: a wedged child is timed out, a reader blocked on a
\* full channel is released, a stop escalates to kill.
CallsReturn == InCall ~> (~InCall \/ []WaitsForEver)

\* What the architecture notes say of a wedged child: once the deadline of a
\* request has come, the request ends (the child is killed and replaced).
DeadlinesBite ==
  (pc \in Reading /\ deadline \in {"reached", "passed"}) ~> pc \notin Reading
=============================================================================
