---------------------- MODULE WorkerSupervisor_proofs ----------------------
(***************************************************************************)
(* TLAPS proofs about WorkerSupervisor, for every buffer and pipe size,    *)
(* restart intensity, set of event kinds and setting of the switches: its  *)
(* types and the accounts of its children; that it bounds its restarts,    *)
(* that no request meets what an earlier one left, that it implements the  *)
(* service promised to its caller, and that without faults its status is   *)
(* true, from the type invariant and the lifecycle invariant.              *)
(***************************************************************************)
EXTENDS WorkerSupervisor, FiniteSetTheorems, SequenceTheorems, TLAPS

-----------------------------------------------------------------------------
(* Types                                                                   *)

\* The constructors of the message data stay within its types.
LEMMA NoFrameType == NoFrame \in FrameType
BY DEF NoFrame, Frame, FrameType, NoReq

\* The absent event is an event.
LEMMA NoEventType == NoEvent \in EventType
BY NoFrameType DEF NoEvent, EventType, NoReq

\* The absent job is a job.
LEMMA NoJobType == NoJob \in JobType
BY DEF NoJob, JobType

\* An idle child has a work record, and so has a mute one.
LEMMA NoWorkType == NoWork \in WorkType /\ Mute \in WorkType
BY DEF NoWork, Mute, WorkType, NoReq

\* Frame builds frames.
LEMMA FrameInType ==
  ASSUME NEW kind \in EventKinds \cup {"none", "response", "error", "terminating"},
         NEW r \in Nat, NEW n \in Nat
  PROVE  Frame(kind, r, n) \in FrameType
BY DEF Frame, FrameType

\* RequestReaderEvent: the reader builds events.
LEMMA EventInType ==
  ASSUME NEW kind \in {"message", "terminal", "readerror", "eof"},
         NEW f \in FrameType, SupType, ReaderType
  PROVE  Event(kind, f) \in EventType
BY DEF Event, EventType, SupType, ReaderType

\* Job builds jobs.
LEMMA JobInType ==
  ASSUME NEW after \in {"none", "recover", "restart", "shutdown", "drop"},
         NEW ret \in {"none", "degraded", "cycled", "stopped", "rss_hard_limit",
                      "timeout", "cancelled"},
         NEW reading \in BOOLEAN, HistType
  PROVE  Job(after, ret, reading) \in JobType
BY DEF Job, JobType, HistType

\* Return leaves a result of its type.
LEMMA ReturnInType ==
  ASSUME NEW kind \in {"none", "dead", "sink_panic", "ok", "worker_error",
                       "protocol", "child_exit", "stop_failed", "restart_limit",
                       "spawn_failed", "degraded", "cycled", "rss_hard_limit",
                       "timeout", "cancelled", "stopped"},
         NEW r \in Nat, NEW f \in FrameType, NEW rows \in Nat,
         Return(kind, r, f, rows)
  PROVE  result' \in ResultType
BY DEF Return, ResultType

\* The event being handled carries a frame.
LEMMA CurFrame == CallType => cur.frame \in FrameType
BY DEF CallType, EventType
-----------------------------------------------------------------------------
(* The groups of variables, and the helpers that change them               *)

\* A group of variables left alone keeps its type.
LEMMA SameType ==
  /\ SupType /\ UNCHANGED supVars => SupType'
  /\ CallType /\ UNCHANGED callVars => CallType'
  /\ ChildType /\ UNCHANGED childVars => ChildType'
  /\ ReaderType /\ UNCHANGED <<stdoutAt, readerVars>> => ReaderType'
  /\ HistType /\ UNCHANGED <<clock, histVars>> => HistType'
BY DEF SupType, CallType, ChildType, ReaderType, HistType, supVars, callVars,
       childVars, readerVars, histVars

StdoutPlaces == {"sup", "reader", "event", "closed"}
ReplType == [attempts : Nat, successes : Nat, failures : Nat]

\* drop(receiver) keeps the reader and the channel well typed.
LEMMA DropReceiverType ==
  ASSUME ReaderType, DropReceiver, UNCHANGED <<rpc, rhold, rreq>>
  PROVE  ReaderType'
<1>0. chan' = <<>> /\ rx' = FALSE
  BY DEF DropReceiver
<1>1. chan' \in Seq(EventType)
  BY <1>0
<1>3. rx' \in BOOLEAN
  BY <1>0
<1>2. stdoutAt' \in StdoutPlaces
  BY DEF DropReceiver, ReaderType, StdoutPlaces
<1> QED
  BY <1>1, <1>2, <1>3 DEF ReaderType, StdoutPlaces

\* reader.join() keeps the reader and the channel well typed.
LEMMA JoinedReaderType ==
  ASSUME ReaderType, JoinedReader, stdoutAt' \in StdoutPlaces
  PROVE  ReaderType'
<1>0. chan' = <<>> /\ rx' = FALSE /\ rpc' = "none"
  BY DEF JoinedReader
<1>1. chan' \in Seq(EventType)
  BY <1>0
<1>3. rx' \in BOOLEAN
  BY <1>0
<1>2. rhold' \in EventType /\ rreq' \in Nat
  BY DEF JoinedReader, ReaderType
<1> QED
  BY <1>0, <1>1, <1>2, <1>3 DEF ReaderType, StdoutPlaces

\* thread::spawn(read_request_messages) keeps them well typed.
LEMMA SpawnReaderType ==
  ASSUME ReaderType, NEW r \in Nat, SpawnReader(r)
  PROVE  ReaderType'
BY NoEventType DEF ReaderType, SpawnReader

\* Child::kill keeps the child well typed.
LEMMA KillType == ChildType /\ Kill => ChildType'
BY DEF ChildType, Kill

\* The exit of a child keeps every variable well typed.
LEMMA ExitType ==
  ASSUME SupType, CallType, ChildType, ReaderType, HistType,
         NEW status \in {"success", "failure", "killed"}, ChildExits(status)
  PROVE  TypeOK'
<1>1. ChildType'
  BY DEF ChildExits, ChildType
<1> QED
  BY <1>1, SameType DEF ChildExits, TypeOK

\* finalize_child_exit keeps supervisor, child and stdout well typed.
LEMMA FinalizeType ==
  ASSUME SupType, ChildType, ReaderType, FinalizeChildExit,
         UNCHANGED <<gen, nextReq, window, restarts>>, repl' \in ReplType
  PROVE  SupType' /\ ChildType' /\ stdoutAt' \in StdoutPlaces
<1>1. SupType'
  <2>1. /\ state' = "exited" /\ inflight' = 0 /\ handle' \in BOOLEAN
        /\ lastExit' \in {"none", "success", "failure", "killed"}
    BY DEF ChildType, FinalizeChildExit, NoReq
  <2>2. exits' \in Nat
    BY DEF SupType, FinalizeChildExit
  <2> QED
    BY <2>1, <2>2 DEF SupType, ReplType
<1>2. ChildType' /\ stdoutAt' \in StdoutPlaces
  BY DEF ChildType, ReaderType, FinalizeChildExit, StdoutPlaces
<1> QED
  BY <1>1, <1>2

\* status() on a child that is gone does too.
LEMMA ObserveType ==
  ASSUME SupType, ChildType, ReaderType, ObserveExit,
         UNCHANGED <<gen, nextReq, window, restarts>>, repl' \in ReplType
  PROVE  SupType' /\ ChildType' /\ stdoutAt' \in StdoutPlaces
<1>1. CASE handle /\ FinalizeChildExit
  BY <1>1, FinalizeType
<1>2. CASE ~(handle /\ FinalizeChildExit)
  <2>1. SupType'
    BY <1>2 DEF SupType, ObserveExit, ReplType, NoReq
  <2>2. ChildType' /\ stdoutAt' \in StdoutPlaces
    BY <1>2 DEF ChildType, ReaderType, ObserveExit, StdoutPlaces, childVars
  <2> QED
    BY <2>1, <2>2
<1> QED
  BY <1>1, <1>2

\* shutdown_child, entered with a job.
LEMMA StopType ==
  ASSUME TypeOK, NEW j \in JobType,
         StopAlreadyExited(j) \/ StopGraceful(j) \/ StopWriteFails(j) \/ StopKill(j),
         UNCHANGED <<gen, nextReq, window, restarts>>, repl' \in ReplType
  PROVE  /\ SupType' /\ ChildType' /\ ReaderType'
         /\ job' = j /\ pc' \in {"stopped", "grace", "stopfailed", "killwait"}
<1> USE DEF TypeOK
<1>1. CASE StopAlreadyExited(j)
  <2>1. ObserveExit /\ job' = j /\ pc' = "stopped" /\ UNCHANGED readerVars
    BY <1>1 DEF StopAlreadyExited
  <2>2. SupType' /\ ChildType' /\ stdoutAt' \in StdoutPlaces
    BY <2>1, ObserveType
  <2>3. ReaderType'
    BY <2>1, <2>2 DEF ReaderType, readerVars, StdoutPlaces
  <2> QED
    BY <2>1, <2>2, <2>3
<1>2. CASE StopGraceful(j)
  <2>1. SupType'
    BY <1>2 DEF StopGraceful, SupType, ReplType, NoReq
  <2>2. ChildType'
    BY <1>2 DEF StopGraceful, ChildType, Terminate
  <2>3. ReaderType'
    <3>1. CASE SpawnReader(NoReq)
      BY <3>1, SpawnReaderType DEF NoReq
    <3>2. CASE ~SpawnReader(NoReq)
      BY <1>2, <3>2, SameType DEF StopGraceful
    <3> QED
      BY <3>1, <3>2
  <2> QED
    BY <1>2, <2>1, <2>2, <2>3 DEF StopGraceful
<1>3. CASE StopWriteFails(j)
  <2>1. SupType'
    BY <1>3 DEF StopWriteFails, SupType, ReplType, NoReq
  <2> QED
    BY <1>3, <2>1, SameType DEF StopWriteFails
<1>4. CASE StopKill(j)
  <2>1. SupType'
    BY <1>4 DEF StopKill, SupType, ReplType, NoReq
  <2>2. ChildType'
    BY <1>4, KillType DEF StopKill
  <2> QED
    BY <1>4, <2>1, <2>2, SameType DEF StopKill
<1> QED
  BY <1>1, <1>2, <1>3, <1>4

\* The replacement counters stay numbers.
LEMMA ReplCounts ==
  ASSUME SupType
  PROVE  /\ repl \in ReplType
         /\ [repl EXCEPT !.attempts = @ + 1] \in ReplType
         /\ [repl EXCEPT !.successes = @ + 1] \in ReplType
         /\ [repl EXCEPT !.failures = @ + 1] \in ReplType
<1>1. repl \in ReplType
  BY DEF SupType, ReplType
<1>2. repl.attempts + 1 \in Nat /\ repl.successes + 1 \in Nat /\ repl.failures + 1 \in Nat
  BY <1>1 DEF ReplType
<1>3. [repl EXCEPT !.attempts = @ + 1] \in ReplType
  BY <1>1, <1>2 DEF ReplType
<1>4. [repl EXCEPT !.successes = @ + 1] \in ReplType
  BY <1>1, <1>2 DEF ReplType
<1>5. [repl EXCEPT !.failures = @ + 1] \in ReplType
  BY <1>1, <1>2 DEF ReplType
<1> QED
  BY <1>1, <1>3, <1>4, <1>5

\* A restart begun by a call, up to the end of its stop.
LEMMA RestartType ==
  ASSUME TypeOK,
         NEW ret \in {"none", "degraded", "cycled", "stopped", "rss_hard_limit",
                      "timeout", "cancelled"},
         NEW intent, NEW reading \in BOOLEAN, BeginRestart(intent, ret, reading)
  PROVE  /\ SupType' /\ ChildType' /\ ReaderType'
         /\ job' \in JobType /\ pc' \in PcSet
         /\ UNCHANGED <<cancelled, clock, admitted>>
<1> DEFINE j == Job("restart", ret, reading)
<1>1. j \in JobType
  BY JobInType DEF TypeOK
<1>2. repl' \in ReplType
  BY ReplCounts DEF BeginRestart, TypeOK
<1>3. /\ StopAlreadyExited(j) \/ StopGraceful(j) \/ StopWriteFails(j) \/ StopKill(j)
      /\ UNCHANGED <<gen, nextReq, window, restarts, cancelled, clock, admitted>>
  BY DEF BeginRestart
<1> HIDE DEF j
<1>4. /\ SupType' /\ ChildType' /\ ReaderType'
      /\ job' = j /\ pc' \in {"stopped", "grace", "stopfailed", "killwait"}
  BY <1>1, <1>2, <1>3, StopType
<1> QED
  BY <1>1, <1>3, <1>4 DEF PcSet

\* shutdown() and Drop.
LEMMA StopTypes ==
  ASSUME TypeOK, NEW after \in {"shutdown", "drop"}, Stop(after)
  PROVE  TypeOK'
<1> DEFINE j == Job(after, "stopped", FALSE)
<1>1. j \in JobType
  BY JobInType DEF TypeOK
<1>2. /\ StopAlreadyExited(j) \/ StopGraceful(j) \/ StopWriteFails(j) \/ StopKill(j)
      /\ UNCHANGED <<gen, nextReq, window, restarts, repl, cur, deadline,
                     cancelled, clock, histVars>>
  BY DEF Stop
<1>3. repl' \in ReplType
  BY <1>2, ReplCounts DEF TypeOK
<1> HIDE DEF j
<1>4. /\ SupType' /\ ChildType' /\ ReaderType'
      /\ job' = j /\ pc' \in {"stopped", "grace", "stopfailed", "killwait"}
  BY <1>1, <1>2, <1>3, StopType
<1>5. CallType'
  BY <1>1, <1>2, <1>4 DEF CallType, PcSet, TypeOK
<1> QED
  BY <1>2, <1>4, <1>5, SameType DEF TypeOK

\* The initial state is well typed.
LEMMA TypeInit == Init => TypeOK
<1> SUFFICES ASSUME Init PROVE TypeOK
  OBVIOUS
<1>1. SupType
  <2>1. repl \in ReplType /\ window \in Seq(Nat)
    BY DEF Init, ReplType
  <2> QED
    BY <2>1 DEF Init, SupType, ReplType, NoReq
<1>2. CallType
  BY NoJobType, NoEventType DEF Init, CallType, PcSet
<1>3. ChildType
  <2>1. inbox \in Seq(Nat) /\ pipe \in Seq(FrameType)
    BY DEF Init
  <2> QED
    BY <2>1, NoWorkType DEF Init, ChildType
<1>4. ReaderType
  <2>1. chan \in Seq(EventType)
    BY DEF Init
  <2> QED
    BY <2>1, NoEventType DEF Init, ReaderType, NoReq
<1>5. HistType
  <2>1. delivered \in Seq(FrameType) /\ admitted \in Seq(Nat)
    BY DEF Init
  <2>2. result \in ResultType
    BY NoFrameType DEF Init, NoResult, ResultType, NoReq
  <2> QED
    BY <2>1, <2>2 DEF Init, HistType
<1> QED
  BY <1>1, <1>2, <1>3, <1>4, <1>5 DEF TypeOK

-----------------------------------------------------------------------------
(* The calls                                                               *)

\* The public calls keep every variable well typed.
LEMMA PublicCallType == TypeOK /\ PublicCall => TypeOK'
<1> SUFFICES ASSUME TypeOK, PublicCall PROVE TypeOK'
  OBVIOUS
<1> USE DEF TypeOK
<1>1. CASE Status
  <2>1. SupType' /\ ChildType' /\ stdoutAt' \in StdoutPlaces
    BY <1>1, ObserveType, ReplCounts DEF Status
  <2>2. ReaderType'
    BY <1>1, <2>1 DEF Status, ReaderType, readerVars, StdoutPlaces
  <2> QED
    BY <1>1, <2>1, <2>2, SameType DEF Status
<1>2. ASSUME NEW rec \in BOOLEAN, BeginRequest(rec) PROVE TypeOK'
  <2>1. nextReq \in Nat /\ nextReq' \in Nat \ {0}
    BY <1>2 DEF BeginRequest, SupType, NextRequestId
  <2>2. SupType'
    BY <1>2, <2>1 DEF BeginRequest, SupType
  <2>3. CallType'
    <3>1. job' \in JobType
      BY <1>2 DEF BeginRequest, NoJob, JobType
    <3> QED
      BY <1>2, <3>1 DEF BeginRequest, CallType, PcSet, Reading
  <2>4. ChildType'
    BY <1>2, <2>1 DEF BeginRequest, ChildType
  <2>5. ReaderType'
    BY <1>2, <2>1, SpawnReaderType DEF BeginRequest
  <2>6. HistType'
    <3>1. delivered' \in Seq(FrameType)
      BY <1>2 DEF BeginRequest
    <3> QED
      BY <1>2, <3>1 DEF BeginRequest, HistType
  <2> QED
    BY <2>2, <2>3, <2>4, <2>5, <2>6
<1>3. ASSUME NEW rec \in BOOLEAN, RequestWithoutStdout(rec) PROVE TypeOK'
  <2>1. delivered' \in Seq(FrameType) /\ calls' \in Nat
    BY <1>3 DEF RequestWithoutStdout, HistType
  <2>2. CASE rec
    <3>1. /\ SupType' /\ ChildType' /\ ReaderType'
          /\ job' \in JobType /\ pc' \in PcSet
          /\ UNCHANGED <<cancelled, clock, admitted>>
          /\ UNCHANGED <<cur, deadline, result>>
      BY <1>3, <2>2, RestartType DEF RequestWithoutStdout
    <3> QED
      BY <2>1, <3>1 DEF CallType, HistType
  <2>3. CASE ~rec
    <3>1. /\ inbox' = Append(inbox, nextReq)
          /\ Return("dead", NoReq, NoFrame, 0)
          /\ UNCHANGED <<supVars, callVars, proc, exit, work, pipe, stdoutAt,
                         readerVars, clock, admitted>>
      BY <1>3, <2>3 DEF RequestWithoutStdout
    <3>2. result' \in ResultType
      BY <3>1, ReturnInType, NoFrameType DEF NoReq
    <3>3. ChildType'
      BY <3>1 DEF ChildType, SupType
    <3> QED
      BY <2>1, <3>1, <3>2, <3>3, SameType DEF HistType
  <2> QED
    BY <2>2, <2>3
<1>4. CASE RequestWriteFails
  <2>1. result' \in ResultType
    BY <1>4, ReturnInType, NoFrameType DEF RequestWriteFails, NoReq
  <2>2. delivered' \in Seq(FrameType)
    BY <1>4 DEF RequestWriteFails
  <2>3. HistType'
    BY <1>4, <2>1, <2>2 DEF RequestWriteFails, HistType
  <2> QED
    BY <1>4, <2>3, SameType DEF RequestWriteFails
<1>5. CASE Cycle
  <2>1. /\ SupType' /\ ChildType' /\ ReaderType'
        /\ job' \in JobType /\ pc' \in PcSet
        /\ UNCHANGED <<cancelled, clock, admitted>>
    BY <1>5, RestartType DEF Cycle
  <2> QED
    BY <1>5, <2>1 DEF Cycle, CallType, HistType
<1>6. CASE Shutdown \/ (pc = "ready" /\ Drop)
  BY <1>6, StopTypes DEF Shutdown, Drop
<1> QED
  BY <1>1, <1>2, <1>3, <1>4, <1>5, <1>6 DEF PublicCall

\* The read loop.
LEMMA LoopType ==
  ASSUME TypeOK,
         HardRssKill \/ AwaitEvent \/ AwaitEventUnbounded \/ RequestTimeout
         \/ RssSampleDue \/ Receive \/ DeliverEvent \/ SinkPanic
         \/ TerminalResponse \/ ReadError \/ ReadEof \/ Reap
  PROVE  TypeOK'
<1> USE DEF TypeOK
<1>1. CASE HardRssKill \/ RequestTimeout
  <2>1. /\ SupType' /\ ChildType' /\ ReaderType'
        /\ job' \in JobType /\ pc' \in PcSet
        /\ UNCHANGED <<cancelled, clock, admitted>>
    BY <1>1, RestartType DEF HardRssKill, RequestTimeout
  <2> QED
    BY <1>1, <2>1 DEF HardRssKill, RequestTimeout, CallType, HistType
<1>2. CASE AwaitEvent \/ AwaitEventUnbounded \/ RssSampleDue
  <2>1. CallType'
    BY <1>2 DEF AwaitEvent, AwaitEventUnbounded, RssSampleDue, CallType, PcSet, Reading
  <2> QED
    BY <1>2, <2>1, SameType DEF AwaitEvent, AwaitEventUnbounded, RssSampleDue
<1>3. CASE Receive
  <2>1. cur' \in EventType /\ chan' \in Seq(EventType)
    BY <1>3 DEF Receive, ReaderType
  <2>2. CallType'
    BY <1>3, <2>1 DEF Receive, CallType, PcSet, Reading
  <2>3. ReaderType'
    BY <1>3, <2>1 DEF Receive, ReaderType
  <2> QED
    BY <1>3, <2>2, <2>3, SameType DEF Receive
<1>4. CASE DeliverEvent
  <2>1. delivered' \in Seq(FrameType)
    BY <1>4, CurFrame DEF DeliverEvent, HistType
  <2>2. CASE SeesCancellation
    <3>1. BeginRestart("kill", "cancelled", TRUE)
      BY <1>4, <2>2 DEF DeliverEvent
    <3>2. /\ SupType' /\ ChildType' /\ ReaderType'
          /\ job' \in JobType /\ pc' \in PcSet
          /\ UNCHANGED <<cancelled, clock, admitted>>
      BY <3>1, RestartType
    <3> QED
      BY <1>4, <2>1, <3>2, NoEventType DEF DeliverEvent, CallType, HistType
  <2>3. CASE ~SeesCancellation
    <3>1. SupType'
      BY <1>4, <2>3 DEF DeliverEvent, SupType
    <3>2. CallType'
      BY <1>4, <2>3, NoEventType DEF DeliverEvent, CallType, PcSet, Reading
    <3>3. ChildType' /\ ReaderType'
      BY <1>4, <2>3, SameType DEF DeliverEvent
    <3>4. HistType'
      BY <1>4, <2>1, <2>3 DEF DeliverEvent, HistType
    <3> QED
      BY <3>1, <3>2, <3>3, <3>4
  <2> QED
    BY <2>2, <2>3
<1>5. CASE SinkPanic
  <2>1. result' \in ResultType
    BY <1>5, ReturnInType, NoFrameType DEF SinkPanic, SupType, HistType
  <2>2. SupType'
    BY <1>5 DEF SinkPanic, SupType, NoReq
  <2>3. CallType'
    BY <1>5, NoEventType, NoJobType DEF SinkPanic, CallType, PcSet
  <2>4. ReaderType'
    BY <1>5, DropReceiverType DEF SinkPanic
  <2> QED
    BY <1>5, <2>1, <2>2, <2>3, <2>4, SameType DEF SinkPanic, HistType
<1>6. CASE TerminalResponse
  <2>1. result' \in ResultType
    <3> DEFINE kind == IF cur.frame.kind = "response" THEN "ok" ELSE "worker_error"
    <3>1. kind \in {"ok", "worker_error"}
      OBVIOUS
    <3>2. Return(kind, inflight, cur.frame, Len(delivered))
      BY <1>6 DEF TerminalResponse
    <3> HIDE DEF kind
    <3>3. inflight \in Nat /\ cur.frame \in FrameType /\ Len(delivered) \in Nat
      BY CurFrame DEF SupType, HistType
    <3> QED
      BY <3>1, <3>2, <3>3, ReturnInType
  <2>2. SupType'
    BY <1>6 DEF TerminalResponse, SupType, NoReq
  <2>3. CallType'
    BY <1>6, NoEventType, NoJobType DEF TerminalResponse, CallType, PcSet
  <2>4. ReaderType'
    BY <1>6, JoinedReaderType DEF TerminalResponse, StdoutPlaces
  <2> QED
    BY <1>6, <2>1, <2>2, <2>3, <2>4, SameType DEF TerminalResponse, HistType
<1>7. CASE ReadError
  <2>1. result' \in ResultType
    BY <1>7, ReturnInType, NoFrameType DEF ReadError, SupType, HistType
  <2>2. SupType'
    BY <1>7 DEF ReadError, SupType, NoReq
  <2>3. CallType'
    BY <1>7, NoEventType, NoJobType DEF ReadError, CallType, PcSet
  <2>4. ReaderType'
    BY <1>7, JoinedReaderType DEF ReadError, ReaderType, StdoutPlaces
  <2> QED
    BY <1>7, <2>1, <2>2, <2>3, <2>4, SameType DEF ReadError, HistType
<1>8. CASE ReadEof
  <2>1. result' \in ResultType
    BY <1>8, ReturnInType, NoFrameType DEF ReadEof, SupType, HistType
  <2>2. SupType'
    BY <1>8 DEF ReadEof, SupType, NoReq
  <2>3. CallType'
    BY <1>8, NoEventType DEF ReadEof, CallType, PcSet
  <2>4. ReaderType'
    BY <1>8, JoinedReaderType DEF ReadEof, ReaderType, StdoutPlaces
  <2> QED
    BY <1>8, <2>1, <2>2, <2>3, <2>4, SameType DEF ReadEof, HistType
<1>9. CASE Reap
  <2>1. repl' \in ReplType
    BY <1>9, ReplCounts DEF Reap
  <2>2. SupType' /\ ChildType' /\ stdoutAt' \in StdoutPlaces
    BY <1>9, <2>1, FinalizeType DEF Reap
  <2>3. pc' \in PcSet /\ job' \in JobType
    <3>1. Job("restart", "degraded", FALSE) \in JobType
      BY JobInType
    <3> QED
      BY <1>9, <3>1, NoJobType DEF Reap, PcSet
  <2>4. CallType'
    BY <1>9, <2>3 DEF Reap, CallType
  <2>5. ReaderType'
    BY <1>9, <2>2 DEF Reap, ReaderType, readerVars, StdoutPlaces
  <2> QED
    BY <1>9, <2>2, <2>4, <2>5, SameType DEF Reap
<1> QED
  BY <1>1, <1>2, <1>3, <1>4, <1>5, <1>6, <1>7, <1>8, <1>9

\* The waits of shutdown_child.
LEMMA WaitType ==
  ASSUME TypeOK,
         GraceChildExited \/ GraceTimeout \/ GraceJoin \/ GraceEvent
         \/ ExitSeen \/ ExitWaitTimeout \/ KillWaitTimeout
  PROVE  TypeOK'
<1> USE DEF TypeOK
<1>1. CASE GraceChildExited
  <2>1. CallType'
    BY <1>1 DEF GraceChildExited, CallType, PcSet
  <2>2. ReaderType'
    BY <1>1, DropReceiverType DEF GraceChildExited
  <2> QED
    BY <1>1, <2>1, <2>2, SameType DEF GraceChildExited
<1>2. CASE GraceTimeout
  <2>1. CallType'
    BY <1>2 DEF GraceTimeout, CallType, PcSet
  <2>2. ReaderType'
    BY <1>2, DropReceiverType DEF GraceTimeout
  <2>3. ChildType'
    BY <1>2, KillType DEF GraceTimeout
  <2> QED
    BY <1>2, <2>1, <2>2, <2>3, SameType DEF GraceTimeout
<1>3. CASE GraceJoin
  <2>1. pc' \in {"stopped", "killwait"} /\ UNCHANGED <<job, cur, deadline, cancelled>>
    BY <1>3 DEF GraceJoin
  <2>2. CallType'
    BY <2>1 DEF CallType, PcSet
  <2>3. SupType' /\ ChildType' /\ stdoutAt' \in StdoutPlaces
    <3>1. CASE FinalizeChildExit
      BY <1>3, <3>1, FinalizeType, ReplCounts DEF GraceJoin
    <3>2. CASE ~FinalizeChildExit
      <4>1. SupType'
        BY <1>3, <3>2 DEF GraceJoin, SupType
      <4> QED
        BY <1>3, <3>2, <4>1, SameType DEF GraceJoin, ReaderType, StdoutPlaces
    <3> QED
      BY <3>1, <3>2
  <2>4. ReaderType'
    BY <1>3, <2>3, JoinedReaderType DEF GraceJoin
  <2> QED
    BY <1>3, <2>2, <2>3, <2>4, SameType DEF GraceJoin
<1>4. CASE GraceEvent
  <2>1. CASE Head(chan).kind = "message"
    <3>1. chan' \in Seq(EventType)
      BY <1>4, <2>1 DEF GraceEvent, ReaderType
    <3>2. ReaderType'
      BY <1>4, <2>1, <3>1 DEF GraceEvent, ReaderType
    <3>3. UNCHANGED <<supVars, callVars, childVars, clock, histVars>>
      BY <1>4, <2>1 DEF GraceEvent, supVars, callVars
    <3> QED
      BY <3>2, <3>3, SameType
  <2>2. CASE Head(chan).kind # "message"
    <3>1. state' = "reaping" /\ pc' \in {"exitwait", "killwait"} /\ JoinedReader
      BY <1>4, <2>2 DEF GraceEvent
    <3>2. SupType'
      BY <1>4, <3>1 DEF GraceEvent, SupType
    <3>3. CallType'
      BY <1>4, <3>1 DEF GraceEvent, CallType, PcSet
    <3>4. ChildType'
      BY <1>4, <2>2, KillType, SameType DEF GraceEvent
    <3>5. stdoutAt' \in StdoutPlaces
      BY <1>4, <2>2 DEF GraceEvent, ReaderType, StdoutPlaces
    <3>6. ReaderType'
      BY <3>1, <3>5, JoinedReaderType
    <3> QED
      BY <1>4, <3>2, <3>3, <3>4, <3>6, SameType DEF GraceEvent
  <2> QED
    BY <2>1, <2>2
<1>5. CASE ExitSeen
  <2>1. SupType' /\ ChildType' /\ stdoutAt' \in StdoutPlaces
    BY <1>5, FinalizeType, ReplCounts DEF ExitSeen
  <2>2. CallType'
    BY <1>5 DEF ExitSeen, CallType, PcSet
  <2>3. ReaderType'
    BY <1>5, <2>1 DEF ExitSeen, ReaderType, readerVars, StdoutPlaces
  <2> QED
    BY <1>5, <2>1, <2>2, <2>3, SameType DEF ExitSeen
<1>6. CASE ExitWaitTimeout
  <2>1. CallType'
    BY <1>6 DEF ExitWaitTimeout, CallType, PcSet
  <2>2. ChildType'
    BY <1>6, KillType DEF ExitWaitTimeout
  <2> QED
    BY <1>6, <2>1, <2>2, SameType DEF ExitWaitTimeout
<1>7. CASE KillWaitTimeout
  <2>1. CallType'
    BY <1>7 DEF KillWaitTimeout, CallType, PcSet
  <2> QED
    BY <1>7, <2>1, SameType DEF KillWaitTimeout
<1> QED
  BY <1>1, <1>2, <1>3, <1>4, <1>5, <1>6, <1>7

\* Expired entries leave the restart window from the front.
LEMMA PrunedInType ==
  ASSUME NEW w \in Seq(Nat), NEW now
  PROVE  Pruned(w, now) \in Seq(Nat)
<1>1. Len(w) \in Nat /\ \A i \in 1..Len(w) : w[i] \in Nat
  OBVIOUS
<1>2. IsFiniteSet(1..Len(w))
  BY <1>1, FS_Interval
<1>3. Expired(w, now) \subseteq 1..Len(w)
  BY DEF Expired
<1>4. Cardinality(Expired(w, now)) \in Nat
  BY <1>2, <1>3, FS_Subset, FS_CardinalityType
<1> DEFINE m == Cardinality(Expired(w, now)) + 1
<1>5. m \in Int /\ \A i \in m..Len(w) : w[i] \in Nat
  BY <1>1, <1>4
<1>6. SubSeq(w, m, Len(w)) \in Seq(Nat)
  <2> HIDE DEF m
  <2> QED
    BY <1>1, <1>5, SubSeqProperties
<1> QED
  BY <1>6 DEF Pruned

\* An admitted restart leaves sequences of times.
LEMMA AdmitType ==
  ASSUME TypeOK, AdmitRestart
  PROVE  window' \in Seq(Nat) /\ admitted' \in Seq(Nat) /\ restarts' \in Nat
<1>1. job.started \in Nat
  BY DEF TypeOK, CallType, JobType
<1>2. Pruned(window, job.started) \in Seq(Nat)
  BY PrunedInType DEF TypeOK, SupType
<1>3. window' = Append(Pruned(window, job.started), job.started)
  BY DEF AdmitRestart
<1>4. window' \in Seq(Nat)
  BY <1>1, <1>2, <1>3
<1>5. admitted' \in Seq(Nat) /\ restarts' \in Nat
  BY <1>1 DEF AdmitRestart, TypeOK, SupType, HistType
<1> QED
  BY <1>4, <1>5

\* The results of calls that return no answer of the child are results.
LEMMA ReturnOutside ==
  ASSUME TypeOK,
         NEW kind \in {"none", "dead", "sink_panic", "ok", "worker_error",
                       "protocol", "child_exit", "stop_failed", "restart_limit",
                       "spawn_failed", "degraded", "cycled", "rss_hard_limit",
                       "timeout", "cancelled", "stopped"},
         Return(kind, NoReq, NoFrame, Len(delivered))
  PROVE  result' \in ResultType
<1>1. NoReq \in Nat /\ Len(delivered) \in Nat
  BY DEF NoReq, TypeOK, HistType
<1> QED
  BY <1>1, ReturnInType, NoFrameType

\* What follows a stop.
LEMMA AfterStopType ==
  ASSUME TypeOK,
         RestartStopFailed \/ BeforeSpawn \/ RestartRefused \/ RestartSpawnFailed
         \/ RestartSpawned \/ Dropped \/ ShutdownReturns
         \/ (pc = "dropping" /\ Drop)
  PROVE  TypeOK'
<1> USE DEF TypeOK
<1>1. CASE RestartStopFailed
  <2>1. result' \in ResultType
    BY <1>1, ReturnOutside DEF RestartStopFailed
  <2>2. SupType'
    BY <1>1, ReplCounts DEF RestartStopFailed, SupType, ReplType
  <2>3. CallType'
    BY <1>1, NoJobType DEF RestartStopFailed, CallType, PcSet
  <2>4. ReaderType'
    BY <1>1, DropReceiverType DEF RestartStopFailed
  <2> QED
    BY <1>1, <2>1, <2>2, <2>3, <2>4, SameType DEF RestartStopFailed, HistType
<1>2. CASE BeforeSpawn
  <2>1. CallType'
    BY <1>2 DEF BeforeSpawn, CallType, PcSet
  <2>2. ReaderType'
    BY <1>2, DropReceiverType DEF BeforeSpawn
  <2> QED
    BY <1>2, <2>1, <2>2, SameType DEF BeforeSpawn
<1>8. CASE pc = "dropping" /\ Drop
  BY <1>8, StopTypes DEF Drop
<1>6. CASE Dropped
  <2>1. CallType'
    BY <1>6 DEF Dropped, CallType, PcSet
  <2>2. ReaderType'
    BY <1>6 DEF Dropped, ReaderType, readerVars
  <2> QED
    BY <1>6, <2>1, <2>2, SameType DEF Dropped
<1>7. CASE ShutdownReturns
  <2>1. CallType'
    BY <1>7 DEF ShutdownReturns, CallType, PcSet
  <2> QED
    BY <1>7, <2>1, SameType DEF ShutdownReturns
<1>3. CASE RestartRefused
  <2>1. result' \in ResultType
    BY <1>3, ReturnOutside DEF RestartRefused
  <2>2. window' \in Seq(Nat)
    <3>1. window' = Pruned(window, job.started) /\ window \in Seq(Nat)
      BY <1>3 DEF RestartRefused, SupType
    <3> QED
      BY <3>1, PrunedInType
  <2>3. SupType'
    BY <1>3, <2>2, ReplCounts DEF RestartRefused, SupType, ReplType, NoReq
  <2>4. CallType'
    BY <1>3, NoJobType DEF RestartRefused, CallType, PcSet
  <2> QED
    BY <1>3, <2>1, <2>3, <2>4, SameType DEF RestartRefused, HistType
<1>4. CASE RestartSpawnFailed
  <2>1. window' \in Seq(Nat) /\ admitted' \in Seq(Nat) /\ restarts' \in Nat
    BY <1>4, AdmitType DEF RestartSpawnFailed
  <2>2. result' \in ResultType
    BY <1>4, ReturnOutside DEF RestartSpawnFailed
  <2>3. SupType'
    BY <1>4, <2>1, ReplCounts DEF RestartSpawnFailed, SupType, ReplType
  <2>4. CallType'
    BY <1>4, NoJobType DEF RestartSpawnFailed, CallType, PcSet
  <2> QED
    BY <1>4, <2>1, <2>2, <2>3, <2>4, SameType DEF RestartSpawnFailed, HistType
<1>5. CASE RestartSpawned
  <2>1. window' \in Seq(Nat) /\ admitted' \in Seq(Nat) /\ restarts' \in Nat
    BY <1>5, AdmitType DEF RestartSpawned
  <2>2. result' \in ResultType
    <3>1. job.ret \in {"none", "degraded", "cycled", "stopped", "rss_hard_limit",
                       "timeout", "cancelled"}
      BY DEF CallType, JobType
    <3> QED
      BY <1>5, <3>1, ReturnOutside DEF RestartSpawned
  <2>3. SupType'
    <3>1. repl' \in ReplType
      BY <1>5, ReplCounts DEF RestartSpawned
    <3>2. /\ state' = "idle" /\ inflight' = 0 /\ handle' = TRUE /\ lastExit' = "none"
          /\ gen' = gen + 1 /\ nextReq' = nextReq /\ exits' = exits
      BY <1>5 DEF RestartSpawned, NoReq
    <3> QED
      BY <2>1, <3>1, <3>2 DEF SupType, ReplType
  <2>4. CallType'
    BY <1>5, NoJobType DEF RestartSpawned, CallType, PcSet
  <2>5. ChildType'
    <3>1. inbox' \in Seq(Nat) /\ pipe' \in Seq(FrameType)
      BY <1>5 DEF RestartSpawned
    <3> QED
      BY <1>5, <3>1, NoWorkType DEF RestartSpawned, ChildType
  <2>6. ReaderType'
    <3>1. chan' \in Seq(EventType)
      BY <1>5 DEF RestartSpawned
    <3> QED
      BY <1>5, <3>1, NoEventType DEF RestartSpawned, ReaderType, NoReq
  <2> QED
    BY <1>5, <2>1, <2>2, <2>3, <2>4, <2>5, <2>6, SameType DEF RestartSpawned, HistType
<1> QED
  BY <1>1, <1>2, <1>3, <1>4, <1>5, <1>6, <1>7, <1>8

-----------------------------------------------------------------------------
(* The other actors                                                        *)

\* Reader, child, OS, canceller, deadline and clock keep the types.
LEMMA ActorType ==
  ASSUME TypeOK,
         ReaderStep \/ ChildStep \/ KillLands \/ Cancel \/ DeadlineComes \/ Tick
  PROVE  TypeOK'
<1> USE DEF TypeOK
<1>1. CASE ReadFrame
  <2>1. ChildType'
    <3>1. pipe' = pipe \/ (pipe # <<>> /\ pipe' = Tail(pipe))
      BY <1>1 DEF ReadFrame
    <3>2. pipe \in Seq(FrameType)
      BY DEF ChildType
    <3>3. pipe' \in Seq(FrameType)
      <4>1. CASE pipe # <<>> /\ pipe' = Tail(pipe)
        BY <3>2, <4>1, HeadTailProperties
      <4> QED
        BY <3>1, <3>2, <4>1
    <3> QED
      BY <1>1, <3>3 DEF ReadFrame, ChildType
  <2>2. rhold' \in EventType
    <3>1. CASE pipe # <<>>
      <4>1. Head(pipe) \in FrameType
        BY <3>1 DEF ChildType
      <4>2. PICK kind \in {"terminal", "readerror", "message"} :
              rhold' = Event(kind, Head(pipe))
        BY <1>1, <3>1 DEF ReadFrame
      <4> QED
        BY <4>1, <4>2, EventInType
    <3>2. CASE pipe = <<>>
      BY <1>1, <3>2, NoFrameType, EventInType DEF ReadFrame
    <3> QED
      BY <3>1, <3>2
  <2>3. ReaderType'
    BY <1>1, <2>2 DEF ReadFrame, ReaderType
  <2> QED
    BY <1>1, <2>1, <2>3, SameType DEF ReadFrame
<1>2. CASE SendEvent
  <2>1. chan' \in Seq(EventType)
    BY <1>2 DEF SendEvent, ReaderType
  <2>2. stdoutAt' \in StdoutPlaces
    BY <1>2 DEF SendEvent, ReaderType, StdoutPlaces
  <2>3. ReaderType'
    BY <1>2, <2>1, <2>2, NoEventType DEF SendEvent, ReaderType, StdoutPlaces
  <2> QED
    BY <1>2, <2>3, SameType DEF SendEvent
<1>3. CASE SendFails
  <2>1. ReaderType'
    BY <1>3, NoEventType DEF SendFails, ReaderType
  <2> QED
    BY <1>3, <2>1, SameType DEF SendFails
<1>4. CASE ChildTakes
  <2>1. Head(inbox) \in Nat /\ inbox' \in Seq(Nat)
    BY <1>4 DEF ChildTakes, ChildType
  <2>2. work' \in WorkType
    BY <1>4, <2>1 DEF ChildTakes, WorkType
  <2>3. ChildType'
    BY <1>4, <2>1, <2>2 DEF ChildTakes, ChildType
  <2> QED
    BY <1>4, <2>3, SameType DEF ChildTakes
<1>5. ASSUME NEW kind \in EventKinds, ChildEmits(kind) PROVE TypeOK'
  <2>1. work.req \in Nat /\ work.sent \in Nat
    BY DEF ChildType, WorkType
  <2>2. pipe' \in Seq(FrameType)
    <3>1. Frame(kind, work.req, work.sent + 1) \in FrameType
      BY <2>1, FrameInType
    <3> QED
      BY <1>5, <3>1 DEF ChildEmits, ChildType
  <2>3. work' \in WorkType
    BY <1>5, <2>1 DEF ChildEmits, ChildType, WorkType
  <2>4. ChildType'
    BY <1>5, <2>2, <2>3 DEF ChildEmits, ChildType
  <2> QED
    BY <1>5, <2>4, SameType DEF ChildEmits
<1>6. ASSUME NEW kind \in {"response", "error"}, ChildResponds(kind) PROVE TypeOK'
  <2>1. work.req \in Nat /\ work.sent \in Nat
    BY DEF ChildType, WorkType
  <2>2. pipe' \in Seq(FrameType)
    <3>1. Frame(kind, work.req, work.sent) \in FrameType
      BY <2>1, FrameInType
    <3> QED
      BY <1>6, <3>1 DEF ChildResponds, ChildType
  <2>3. ChildType'
    BY <1>6, <2>2, NoWorkType DEF ChildResponds, ChildType
  <2> QED
    BY <1>6, <2>3, SameType DEF ChildResponds
<1>7. CASE ChildTerminates
  <2>1. pipe' \in Seq(FrameType)
    <3>1. Frame("terminating", NoReq, 0) \in FrameType
      BY FrameInType DEF NoReq
    <3> QED
      BY <1>7, <3>1 DEF ChildTerminates, ChildType
  <2>2. work' \in WorkType
    BY <1>7 DEF ChildTerminates, NoWork, WorkType, NoReq
  <2>3. ChildType'
    BY <1>7, <2>1, <2>2 DEF ChildTerminates, ChildType
  <2> QED
    BY <1>7, <2>3, SameType DEF ChildTerminates
<1>8. CASE ChildReturns \/ ChildLosesPipe \/ ChildCrashes \/ KillLands
  BY <1>8, ExitType DEF ChildReturns, ChildLosesPipe, ChildCrashes, KillLands
<1>11. CASE ChildClosesStdout
  <2>1. ChildType'
    BY <1>11, NoWorkType DEF ChildClosesStdout, ChildType
  <2> QED
    BY <1>11, <2>1, SameType DEF ChildClosesStdout
<1>9. CASE Cancel \/ DeadlineComes
  <2>1. CallType'
    BY <1>9 DEF Cancel, DeadlineComes, CallType
  <2> QED
    BY <1>9, <2>1, SameType DEF Cancel, DeadlineComes
<1>10. CASE Tick
  <2>1. HistType'
    BY <1>10 DEF Tick, HistType, histVars
  <2> QED
    BY <1>10, <2>1, SameType DEF Tick
<1> QED
  BY <1>1, <1>2, <1>3, <1>4, <1>5, <1>6, <1>7, <1>8, <1>9, <1>10, <1>11
  DEF ReaderStep, ChildStep

-----------------------------------------------------------------------------

\* Every step keeps every variable well typed.
LEMMA TypeStep == TypeOK /\ [Next]_vars => TypeOK'
<1> SUFFICES ASSUME TypeOK, [Next]_vars PROVE TypeOK'
  OBVIOUS
<1>1. CASE PublicCall
  BY <1>1, PublicCallType
<1>2. CASE CallStep
  BY <1>2, LoopType, WaitType, AfterStopType DEF CallStep
<1>3. CASE ReaderStep \/ ChildStep \/ KillLands \/ Cancel \/ DeadlineComes \/ Tick
  BY <1>3, ActorType
<1>4. CASE UNCHANGED vars
  BY <1>4, SameType DEF vars, TypeOK
<1> QED
  BY <1>1, <1>2, <1>3, <1>4 DEF Next

\* Type correctness: no step of the caller, the reader, the child or the OS
\* takes a variable out of its type.
THEOREM TypeCorrect == Spec => []TypeOK
BY TypeInit, TypeStep, PTL DEF Spec

-----------------------------------------------------------------------------
(* Handles, receivers and counters                                         *)

\* What each place in a call knows of the child's handle and of the job.
HandleInv ==
  /\ handle \in BOOLEAN
  /\ handle <=> proc # "reaped"
  /\ pc \in Reading \cup {"reap", "grace", "gracejoin", "exitwait", "killwait",
                          "stopfailed"} => handle
  /\ pc \in {"stopped", "join"} => ~handle
  /\ pc \in Reading \cup {"ready", "reap"} => job.after \in {"none", "recover"}
  /\ pc = "join" => job.after = "restart"
  /\ pc = "dropping" => job.after = "shutdown"

\* Where the caller still holds a receiver of the child's output.
ReceiverInv ==
  /\ job.reading \in BOOLEAN
  /\ job.after \in {"none", "recover", "shutdown", "drop"} => ~job.reading
  /\ pc \in {"ready", "reap", "gracejoin", "exitwait", "join", "dropping"} => ~rx
  /\ pc \in {"killwait", "stopped", "stopfailed"} /\ ~job.reading => ~rx

\* The counters of LifecycleAccounting are numbers.
CountersInv ==
  /\ gen \in Nat /\ exits \in Nat
  /\ repl \in [attempts : Nat, successes : Nat, failures : Nat]

\* The inductive invariant behind SpawnAfterReap and LifecycleAccounting.
LifecycleInv == HandleInv /\ ReceiverInv /\ CountersInv /\ LifecycleAccounting

-----------------------------------------------------------------------------
\* A freshly spawned supervisor satisfies LifecycleInv.
LEMMA LifecycleInit == Init => LifecycleInv
BY DEF Init, LifecycleInv, HandleInv, ReceiverInv, CountersInv,
       LifecycleAccounting, Reading, NoJob

\* A step of another actor than the caller leaves these variables alone, and
\* of the child it changes nothing but that it is alive.
Bystander ==
  /\ UNCHANGED <<gen, handle, exits, repl, pc, job, rx>>
  /\ proc' = "reaped" <=> proc = "reaped"

\* Such a step preserves LifecycleInv.
LEMMA BystanderPreserves == LifecycleInv /\ Bystander => LifecycleInv'
BY DEF LifecycleInv, HandleInv, ReceiverInv, CountersInv, LifecycleAccounting,
       Bystander

\* The reader, the child, the OS, the clock and the cancelling thread.
LEMMA BystanderSteps ==
  ASSUME ReaderStep \/ ChildStep \/ KillLands \/ Cancel \/ DeadlineComes \/ Tick
  PROVE  Bystander
<1> USE DEF supVars, callVars, childVars, readerVars, histVars, Bystander
<1>1. CASE ReaderStep
  BY <1>1 DEF ReaderStep, ReadFrame, SendEvent, SendFails
<1>2. CASE ChildStep
  <2>1. CASE ChildTakes
    BY <2>1 DEF ChildTakes
  <2>2. CASE \E kind \in EventKinds : ChildEmits(kind)
    BY <2>2 DEF ChildEmits
  <2>3. CASE \E kind \in {"response", "error"} : ChildResponds(kind)
    BY <2>3 DEF ChildResponds
  <2>4. CASE ChildTerminates
    BY <2>4 DEF ChildTerminates
  <2>5. CASE ChildReturns \/ ChildLosesPipe \/ ChildCrashes
    BY <2>5 DEF ChildReturns, ChildLosesPipe, ChildCrashes, ChildExits
  <2>6. CASE ChildClosesStdout
    BY <2>6 DEF ChildClosesStdout
  <2> QED
    BY <1>2, <2>1, <2>2, <2>3, <2>4, <2>5, <2>6 DEF ChildStep
<1>3. CASE KillLands
  BY <1>3 DEF KillLands, ChildExits
<1>4. CASE Cancel \/ DeadlineComes \/ Tick
  BY <1>4 DEF Cancel, DeadlineComes, Tick
<1> QED
  BY <1>1, <1>2, <1>3, <1>4

-----------------------------------------------------------------------------
(* The pieces calls are made of                                            *)

\* Reaping a child whose handle is held counts it out.
LEMMA FinalizeCounts ==
  ASSUME LifecycleInv, handle, FinalizeChildExit, UNCHANGED gen
  PROVE  /\ ~handle' /\ handle' \in BOOLEAN /\ proc' = "reaped"
         /\ exits' \in Nat
         /\ exits' = gen' + (IF handle' THEN 0 ELSE 1)
<1>1. handle' = FALSE /\ proc' = "reaped" /\ exits' = exits + 1
  BY DEF FinalizeChildExit
<1>2. exits = gen + 0 /\ gen \in Nat /\ exits \in Nat
  BY DEF LifecycleInv, CountersInv, LifecycleAccounting
<1>3. exits' = gen' + 1 /\ exits' \in Nat
  BY <1>1, <1>2
<1>4. ~handle' /\ (IF handle' THEN 0 ELSE 1) = 1
  BY <1>1
<1> QED
  BY <1>1, <1>3, <1>4, Zenon

\* status() on a child that is gone leaves no handle, and counts it once.
LEMMA ObserveCounts ==
  ASSUME LifecycleInv, ObserveExit, UNCHANGED gen
  PROVE  /\ ~handle' /\ handle' \in BOOLEAN /\ proc' = "reaped"
         /\ exits' \in Nat
         /\ exits' = gen' + (IF handle' THEN 0 ELSE 1)
<1>1. CASE handle /\ FinalizeChildExit
  BY <1>1, FinalizeCounts
<1>2. CASE ~(handle /\ FinalizeChildExit)
  BY <1>2 DEF ObserveExit, childVars, LifecycleInv, HandleInv, ReceiverInv, CountersInv, LifecycleAccounting, Reading
<1> QED
  BY <1>1, <1>2

\* Every way into shutdown_child leaves the caller at a place of HandleInv
\* and ReceiverInv; the job is the one it was given.
LEMMA StopPlaces ==
  ASSUME LifecycleInv, NEW j, j.reading \in BOOLEAN,
         j.reading \/ ~rx, UNCHANGED gen,
         StopAlreadyExited(j) \/ StopGraceful(j) \/ StopWriteFails(j) \/ StopKill(j)
  PROVE  /\ job' = j
         /\ pc' \in {"stopped", "grace", "stopfailed", "killwait"}
         /\ handle' \in BOOLEAN /\ (handle' <=> proc' # "reaped")
         /\ handle' <=> pc' # "stopped"
         /\ pc' = "grace" \/ j.reading \/ ~rx'
         /\ exits' \in Nat
         /\ exits' = gen' + (IF handle' THEN 0 ELSE 1)
<1>1. CASE StopAlreadyExited(j)
  BY <1>1, ObserveCounts DEF StopAlreadyExited, readerVars
<1>2. CASE StopGraceful(j)
  BY <1>2 DEF StopGraceful, SpawnReader, readerVars, LifecycleInv, HandleInv, ReceiverInv, CountersInv, LifecycleAccounting, Reading
<1>3. CASE StopWriteFails(j)
  BY <1>3 DEF StopWriteFails, readerVars, childVars, LifecycleInv, HandleInv, ReceiverInv, CountersInv, LifecycleAccounting, Reading
<1>4. CASE StopKill(j)
  BY <1>4 DEF StopKill, Kill, readerVars, LifecycleInv, HandleInv, ReceiverInv, CountersInv, LifecycleAccounting, Reading
<1> QED
  BY <1>1, <1>2, <1>3, <1>4

\* restart_with_reason up to the end of its stop.  A call that still reads
\* says so.
LEMMA RestartBegins ==
  ASSUME LifecycleInv, NEW intent, NEW ret, NEW reading \in BOOLEAN,
         pc \in Reading \cup {"ready"}, reading \/ ~rx,
         BeginRestart(intent, ret, reading)
  PROVE  LifecycleInv'
<1> DEFINE j == Job("restart", ret, reading)
<1>1. j.reading = reading /\ j.after = "restart"
  BY DEF Job
<1>2. StopAlreadyExited(j) \/ StopGraceful(j) \/ StopWriteFails(j) \/ StopKill(j)
  BY DEF BeginRestart
<1>3. /\ UNCHANGED gen
      /\ repl' = [repl EXCEPT !.attempts = @ + 1]
  BY DEF BeginRestart
<1> HIDE DEF j
<1>4. /\ job' = j
      /\ pc' \in {"stopped", "grace", "stopfailed", "killwait"}
      /\ handle' \in BOOLEAN /\ (handle' <=> proc' # "reaped")
      /\ handle' <=> pc' # "stopped"
      /\ pc' = "grace" \/ j.reading \/ ~rx'
      /\ exits' \in Nat
      /\ exits' = gen' + (IF handle' THEN 0 ELSE 1)
  BY <1>1, <1>2, <1>3, StopPlaces
<1>5. HandleInv' /\ ReceiverInv'
  BY <1>1, <1>4 DEF HandleInv, ReceiverInv, Reading
<1>6. job.after # "restart"
  BY DEF LifecycleInv, HandleInv
<1>7. CountersInv' /\ LifecycleAccounting'
  BY <1>1, <1>3, <1>4, <1>6 DEF LifecycleInv, CountersInv, LifecycleAccounting
<1> QED
  BY <1>5, <1>7 DEF LifecycleInv

\* shutdown() and Drop, from the places where they start.
LEMMA StopBegins ==
  ASSUME LifecycleInv, NEW after \in {"shutdown", "drop"},
         pc \in {"ready", "dropping"}, Stop(after)
  PROVE  LifecycleInv'
<1> DEFINE j == Job(after, "stopped", FALSE)
<1>1. j.reading \in BOOLEAN /\ ~j.reading /\ j.after = after
  BY DEF Job
<1>2. /\ StopAlreadyExited(j) \/ StopGraceful(j) \/ StopWriteFails(j)
      /\ UNCHANGED gen /\ UNCHANGED repl
  BY DEF Stop
<1>3. ~rx /\ job.after # "restart"
  BY DEF LifecycleInv, HandleInv, ReceiverInv
<1> HIDE DEF j
<1>4. /\ job' = j
      /\ pc' \in {"stopped", "grace", "stopfailed", "killwait"}
      /\ handle' \in BOOLEAN /\ (handle' <=> proc' # "reaped")
      /\ handle' <=> pc' # "stopped"
      /\ pc' = "grace" \/ j.reading \/ ~rx'
      /\ exits' \in Nat
      /\ exits' = gen' + (IF handle' THEN 0 ELSE 1)
  BY <1>1, <1>2, <1>3, StopPlaces
<1>5. HandleInv' /\ ReceiverInv'
  BY <1>1, <1>4 DEF HandleInv, ReceiverInv, Reading
<1>6. CountersInv' /\ LifecycleAccounting'
  BY <1>1, <1>2, <1>3, <1>4 DEF LifecycleInv, CountersInv, LifecycleAccounting
<1> QED
  BY <1>5, <1>6 DEF LifecycleInv

\* When a replacement is about to be admitted the old child is reaped and
\* nothing receives its output.
LEMMA ReadyMeansReaped ==
  ASSUME LifecycleInv, ReadyToAdmit
  PROVE  ~handle /\ proc = "reaped" /\ ~rx /\ job.after = "restart"
BY DEF ReadyToAdmit, LifecycleInv, HandleInv, ReceiverInv

\* A call that ends a replacement attempt without a new child.
LEMMA AttemptFails ==
  ASSUME LifecycleInv, ~handle, job.after = "restart",
         repl' = [repl EXCEPT !.failures = @ + 1],
         pc' = "ready", job' = NoJob, ~rx',
         UNCHANGED <<gen, handle, exits, proc>>
  PROVE  LifecycleInv'
<1>1. HandleInv' /\ ReceiverInv'
  BY DEF LifecycleInv, HandleInv, ReceiverInv, Reading, NoJob
<1>2. CountersInv' /\ LifecycleAccounting'
  BY DEF LifecycleInv, CountersInv, LifecycleAccounting, NoJob
<1> QED
  BY <1>1, <1>2 DEF LifecycleInv

-----------------------------------------------------------------------------

\* Every step preserves LifecycleInv: the restart, stop and reap paths by the
\* lemmas above, the others by what they leave alone.
LEMMA LifecycleStep == LifecycleInv /\ [Next]_vars => LifecycleInv'
<1> SUFFICES ASSUME LifecycleInv, [Next]_vars PROVE LifecycleInv'
  OBVIOUS
<1> USE DEF supVars, callVars, childVars, readerVars, histVars
<1>1. CASE ReaderStep \/ ChildStep \/ KillLands \/ Cancel \/ DeadlineComes \/ Tick
  BY <1>1, BystanderSteps, BystanderPreserves
<1>2. CASE UNCHANGED vars
  BY <1>2, BystanderPreserves DEF vars, Bystander
<1>3. CASE PublicCall
  <2>1. CASE Status
    <3>1. ObserveExit /\ pc = "ready" /\ UNCHANGED <<gen, repl, pc, job, rx>>
      BY <2>1 DEF Status
    <3>2. /\ ~handle' /\ handle' \in BOOLEAN /\ proc' = "reaped"
          /\ exits' \in Nat
          /\ exits' = gen' + (IF handle' THEN 0 ELSE 1)
      BY <3>1, ObserveCounts
    <3> QED
      BY <3>1, <3>2 DEF LifecycleInv, HandleInv, ReceiverInv, CountersInv, LifecycleAccounting, Reading
  <2>2. ASSUME NEW rec \in BOOLEAN, BeginRequest(rec) PROVE LifecycleInv'
    BY <2>2 DEF BeginRequest, SpawnReader, NoJob, LifecycleInv, HandleInv, ReceiverInv, CountersInv, LifecycleAccounting, Reading
  <2>3. ASSUME NEW rec \in BOOLEAN, RequestWithoutStdout(rec) PROVE LifecycleInv'
    <3>1. CASE rec
      BY <2>3, <3>1, RestartBegins DEF RequestWithoutStdout, LifecycleInv, ReceiverInv
    <3>2. CASE ~rec
      BY <2>3, <3>2, BystanderPreserves DEF RequestWithoutStdout, Bystander
    <3> QED
      BY <3>1, <3>2
  <2>4. CASE RequestWriteFails
    BY <2>4, BystanderPreserves DEF RequestWriteFails, Bystander
  <2>5. CASE Cycle
    BY <2>5, RestartBegins DEF Cycle, LifecycleInv, ReceiverInv
  <2>6. CASE Shutdown
    BY <2>6, StopBegins DEF Shutdown
  <2>7. CASE pc = "ready" /\ Drop
    BY <2>7, StopBegins DEF Drop
  <2> QED
    BY <1>3, <2>1, <2>2, <2>3, <2>4, <2>5, <2>6, <2>7 DEF PublicCall
<1>4. CASE CallStep
  <2>1. CASE HardRssKill
    BY <2>1, RestartBegins DEF HardRssKill, Reading
  <2>2. CASE AwaitEvent \/ AwaitEventUnbounded \/ RssSampleDue \/ Receive
    BY <2>2 DEF AwaitEvent, AwaitEventUnbounded, RssSampleDue, Receive, LifecycleInv, HandleInv, ReceiverInv, CountersInv, LifecycleAccounting, Reading
  <2>3. CASE RequestTimeout
    BY <2>3, RestartBegins DEF RequestTimeout, Reading
  <2>4. CASE DeliverEvent
    <3>1. CASE SeesCancellation
      BY <2>4, <3>1, RestartBegins DEF DeliverEvent, Reading
    <3>2. CASE ~SeesCancellation
      BY <2>4, <3>2 DEF DeliverEvent, LifecycleInv, HandleInv, ReceiverInv, CountersInv, LifecycleAccounting, Reading
    <3> QED
      BY <3>1, <3>2
  <2>5. CASE SinkPanic
    BY <2>5 DEF SinkPanic, DropReceiver, NoJob, LifecycleInv, HandleInv, ReceiverInv, CountersInv, LifecycleAccounting, Reading
  <2>6. CASE TerminalResponse
    BY <2>6 DEF TerminalResponse, JoinedReader, NoJob, LifecycleInv, HandleInv, ReceiverInv, CountersInv, LifecycleAccounting, Reading
  <2>7. CASE ReadError
    BY <2>7 DEF ReadError, JoinedReader, NoJob, LifecycleInv, HandleInv, ReceiverInv, CountersInv, LifecycleAccounting, Reading
  <2>8. CASE ReadEof
    BY <2>8 DEF ReadEof, JoinedReader, LifecycleInv, HandleInv, ReceiverInv, CountersInv, LifecycleAccounting, Reading
  <2>9. CASE Reap
    <3>1. /\ pc = "reap" /\ handle /\ FinalizeChildExit
          /\ UNCHANGED <<gen, rx>>
      BY <2>9 DEF Reap, LifecycleInv, HandleInv
    <3>2. /\ ~handle' /\ handle' \in BOOLEAN /\ proc' = "reaped"
          /\ exits' \in Nat
          /\ exits' = gen' + (IF handle' THEN 0 ELSE 1)
      BY <3>1, FinalizeCounts
    <3>3. ~rx' /\ job.after # "restart"
      BY <3>1 DEF LifecycleInv, HandleInv, ReceiverInv
    <3>4. CASE job.after = "recover" /\ exit # "success"
      <4>1. /\ pc' = "stopped" /\ job' = Job("restart", "degraded", FALSE)
            /\ repl' = [repl EXCEPT !.attempts = @ + 1]
        BY <2>9, <3>4 DEF Reap
      <4>2. job'.after = "restart" /\ job'.reading = FALSE
        BY <4>1 DEF Job
      <4>3. HandleInv' /\ ReceiverInv'
        BY <3>2, <3>3, <4>1, <4>2 DEF HandleInv, ReceiverInv, Reading
      <4>4. CountersInv' /\ LifecycleAccounting'
        BY <3>1, <3>2, <3>3, <4>1, <4>2 DEF LifecycleInv, CountersInv, LifecycleAccounting
      <4> QED
        BY <4>3, <4>4 DEF LifecycleInv
    <3>5. CASE ~(job.after = "recover" /\ exit # "success")
      <4>1. pc' = "ready" /\ job' = NoJob /\ repl' = repl
        BY <2>9, <3>5 DEF Reap
      <4>2. HandleInv' /\ ReceiverInv'
        BY <3>2, <3>3, <4>1 DEF HandleInv, ReceiverInv, Reading, NoJob
      <4>3. CountersInv' /\ LifecycleAccounting'
        BY <3>1, <3>2, <3>3, <4>1 DEF LifecycleInv, CountersInv, LifecycleAccounting, NoJob
      <4> QED
        BY <4>2, <4>3 DEF LifecycleInv
    <3> QED
      BY <3>4, <3>5
  <2>10. CASE GraceChildExited
    BY <2>10 DEF GraceChildExited, DropReceiver, LifecycleInv, HandleInv, ReceiverInv, CountersInv, LifecycleAccounting, Reading
  <2>11. CASE GraceTimeout
    BY <2>11 DEF GraceTimeout, DropReceiver, Kill, LifecycleInv, HandleInv, ReceiverInv, CountersInv, LifecycleAccounting, Reading
  <2>12. CASE GraceJoin
    <3>1. /\ pc = "gracejoin" /\ handle /\ JoinedReader
          /\ UNCHANGED <<gen, repl, job>>
      BY <2>12 DEF GraceJoin, LifecycleInv, HandleInv
    <3>2. CASE FinalizeChildExit /\ pc' = "stopped"
      <4>1. /\ ~handle' /\ handle' \in BOOLEAN /\ proc' = "reaped"
            /\ exits' \in Nat
            /\ exits' = gen' + (IF handle' THEN 0 ELSE 1)
        BY <3>1, <3>2, FinalizeCounts
      <4> QED
        BY <3>1, <3>2, <4>1 DEF JoinedReader, LifecycleInv, HandleInv, ReceiverInv, CountersInv, LifecycleAccounting, Reading
    <3>3. CASE ~(FinalizeChildExit /\ pc' = "stopped")
      BY <2>12, <3>1, <3>3 DEF GraceJoin, JoinedReader, LifecycleInv, HandleInv, ReceiverInv, CountersInv, LifecycleAccounting, Reading
    <3> QED
      BY <3>2, <3>3
  <2>13. CASE GraceEvent
    <3>1. CASE Head(chan).kind = "message"
      BY <2>13, <3>1 DEF GraceEvent, LifecycleInv, HandleInv, ReceiverInv, CountersInv, LifecycleAccounting, Reading
    <3>2. CASE Head(chan).kind # "message"
      BY <2>13, <3>2 DEF GraceEvent, JoinedReader, Kill, LifecycleInv, HandleInv, ReceiverInv, CountersInv, LifecycleAccounting, Reading
    <3> QED
      BY <3>1, <3>2
  <2>14. CASE ExitSeen
    <3>1. /\ pc \in {"exitwait", "killwait"} /\ handle /\ FinalizeChildExit
          /\ pc' = "stopped"
          /\ UNCHANGED <<gen, repl, job, rx>>
      BY <2>14 DEF ExitSeen, LifecycleInv, HandleInv
    <3>2. /\ ~handle' /\ handle' \in BOOLEAN /\ proc' = "reaped"
          /\ exits' \in Nat
          /\ exits' = gen' + (IF handle' THEN 0 ELSE 1)
      BY <3>1, FinalizeCounts
    <3> QED
      BY <3>1, <3>2 DEF LifecycleInv, HandleInv, ReceiverInv, CountersInv, LifecycleAccounting, Reading
  <2>15. CASE ExitWaitTimeout
    BY <2>15 DEF ExitWaitTimeout, Kill, LifecycleInv, HandleInv, ReceiverInv, CountersInv, LifecycleAccounting, Reading
  <2>16. CASE KillWaitTimeout
    BY <2>16 DEF KillWaitTimeout, LifecycleInv, HandleInv, ReceiverInv, CountersInv, LifecycleAccounting, Reading
  <2>17. CASE RestartStopFailed
    BY <2>17 DEF RestartStopFailed, DropReceiver, NoJob, LifecycleInv, HandleInv, ReceiverInv, CountersInv, LifecycleAccounting, Reading
  <2>18. CASE BeforeSpawn
    BY <2>18 DEF BeforeSpawn, DropReceiver, LifecycleInv, HandleInv, ReceiverInv, CountersInv, LifecycleAccounting, Reading
  <2>19. CASE RestartRefused
    BY <2>19, ReadyMeansReaped, AttemptFails DEF RestartRefused
  <2>20. CASE RestartSpawnFailed
    BY <2>20, ReadyMeansReaped, AttemptFails DEF RestartSpawnFailed, AdmitRestart
  <2>21. CASE RestartSpawned
    <3>1. ~handle /\ job.after = "restart"
      BY <2>21, ReadyMeansReaped DEF RestartSpawned, AdmitRestart
    <3>2. /\ repl' = [repl EXCEPT !.successes = @ + 1]
          /\ gen' = gen + 1 /\ handle' = TRUE /\ proc' = "running" /\ rx' = FALSE
          /\ pc' = "ready" /\ job' = NoJob /\ exits' = exits
      BY <2>21 DEF RestartSpawned
    <3>3. HandleInv' /\ ReceiverInv'
      BY <3>2 DEF HandleInv, ReceiverInv, Reading, NoJob
    <3>4. CountersInv' /\ LifecycleAccounting'
      BY <3>1, <3>2 DEF LifecycleInv, CountersInv, LifecycleAccounting, NoJob
    <3> QED
      BY <3>3, <3>4 DEF LifecycleInv
  <2>22. CASE Dropped
    BY <2>22 DEF Dropped, LifecycleInv, HandleInv, ReceiverInv, CountersInv, LifecycleAccounting, Reading
  <2>23. CASE ShutdownReturns
    BY <2>23 DEF ShutdownReturns, LifecycleInv, HandleInv, ReceiverInv, CountersInv, LifecycleAccounting, Reading
  <2>24. CASE pc = "dropping" /\ Drop
    BY <2>24, StopBegins DEF Drop
  <2> QED
    BY <1>4, <2>1, <2>2, <2>3, <2>4, <2>5, <2>6, <2>7, <2>8, <2>9, <2>10, <2>11,
       <2>12, <2>13, <2>14, <2>15, <2>16, <2>17, <2>18, <2>19, <2>20, <2>21,
       <2>22, <2>23, <2>24 DEF CallStep
<1> QED
  BY <1>1, <1>2, <1>3, <1>4 DEF Next

\* LifecycleInv holds in every reachable state.
THEOREM LifecycleSafe == Spec => []LifecycleInv
BY LifecycleInit, LifecycleStep, PTL DEF Spec

\* Each child is counted out exactly once and each replacement attempt ends
\* exactly once, on every path through the waits of shutdown_child and
\* wait_for_exit and through status().
THEOREM AccountingHolds == Spec => []LifecycleAccounting
BY LifecycleSafe, PTL DEF LifecycleInv

\* A replacement child is never spawned beside its predecessor: at the spawn
\* the old child is reaped and the receiver of its output is gone
\* (restart_with_reason_before_spawn, "synchronous-no-overlap").
THEOREM NoOverlap == Spec => SpawnAfterReap
<1> DEFINE A == gen' # gen => /\ gen' = gen + 1
                              /\ proc = "reaped"
                              /\ ~rx
<1>1. LifecycleInv /\ [Next]_vars => [A]_vars
  <2> SUFFICES ASSUME LifecycleInv, Next, gen' # gen
               PROVE  gen' = gen + 1 /\ proc = "reaped" /\ ~rx
    OBVIOUS
  <2>1. RestartSpawned
    <3> USE DEF supVars, callVars, childVars, readerVars, histVars
    <3>1. ~(ReaderStep \/ ChildStep \/ KillLands \/ Cancel \/ DeadlineComes \/ Tick)
      BY BystanderSteps DEF Bystander
    <3>2. ~PublicCall
      BY DEF PublicCall, Status, BeginRequest, RequestWithoutStdout,
         RequestWriteFails, Cycle, Shutdown, Drop, Stop, BeginRestart
    <3>3. ~(HardRssKill \/ RequestTimeout \/ DeliverEvent)
      BY DEF HardRssKill, RequestTimeout, DeliverEvent, BeginRestart
    <3>4. ~(AwaitEvent \/ AwaitEventUnbounded \/ RssSampleDue \/ Receive)
      BY DEF AwaitEvent, AwaitEventUnbounded, RssSampleDue, Receive
    <3>5. ~(SinkPanic \/ TerminalResponse \/ ReadError \/ ReadEof \/ Reap)
      BY DEF SinkPanic, TerminalResponse, ReadError, ReadEof, Reap
    <3>6. ~(GraceChildExited \/ GraceTimeout \/ GraceJoin \/ GraceEvent)
      BY DEF GraceChildExited, GraceTimeout, GraceJoin, GraceEvent
    <3>7. ~(ExitSeen \/ ExitWaitTimeout \/ KillWaitTimeout)
      BY DEF ExitSeen, ExitWaitTimeout, KillWaitTimeout
    <3>8. ~(RestartStopFailed \/ BeforeSpawn \/ RestartRefused \/ RestartSpawnFailed)
      BY DEF RestartStopFailed, BeforeSpawn, RestartRefused, RestartSpawnFailed
    <3>9. ~(Dropped \/ ShutdownReturns \/ (pc = "dropping" /\ Drop))
      BY DEF Dropped, ShutdownReturns, Drop, Stop
    <3> QED
      BY <3>1, <3>2, <3>3, <3>4, <3>5, <3>6, <3>7, <3>8, <3>9 DEF Next, CallStep
  <2> QED
    BY <2>1, ReadyMeansReaped DEF RestartSpawned, AdmitRestart
<1> QED
  BY <1>1, LifecycleSafe, PTL DEF Spec, SpawnAfterReap

-----------------------------------------------------------------------------
(* The restart window                                                      *)

\* What a window w of times keeps of the admitted restarts: the latest ones,
\* in order.  Those before them are a window old, by the clock and by the time
\* at which a restart in progress was started.
WindowInv ==
  /\ Len(window) <= Len(admitted)
  /\ \A i \in 1..Len(window) : window[i] = admitted[Len(admitted) - Len(window) + i]
  /\ job.started <= clock
  /\ \A i \in 1..Len(admitted) - Len(window) :
       /\ clock - admitted[i] >= Window
       /\ job.after = "restart" => job.started - admitted[i] >= Window
  /\ RestartIntensity

\* admit_restart pops a prefix of the deque, all of it expired.
LEMMA PrunedSuffix ==
  ASSUME NEW w \in Seq(Nat), NEW now \in Nat, NEW k, k = Cardinality(Expired(w, now))
  PROVE  /\ k \in 0..Len(w)
         /\ \A i \in 1..k : now - w[i] >= Window
         /\ Len(Pruned(w, now)) = Len(w) - k
         /\ \A i \in 1..Len(w) - k : Pruned(w, now)[i] = w[k + i]
<1> DEFINE S == Expired(w, now)
           n == Len(w)
<1>1. n \in Nat /\ IsFiniteSet(1..n) /\ Cardinality(1..n) = n
  <2>1. n \in Nat
    OBVIOUS
  <2> HIDE DEF n
  <2> QED
    BY <2>1, FS_Interval
<1>2. S \subseteq 1..n
  BY DEF Expired
<1>3. IsFiniteSet(S) /\ k \in Nat /\ k <= n
  BY <1>1, <1>2, FS_Subset, FS_CardinalityType
<1>4. \A j \in S : 1..j \subseteq S
  BY <1>1 DEF Expired
<1>5. \A j \in S : j <= k
  <2> TAKE j \in S
  <2>1. j \in 1..n /\ 1..j \subseteq S
    BY <1>2, <1>4
  <2>2. Cardinality(1..j) = j
    BY <1>1, <2>1, FS_Interval
  <2>3. Cardinality(1..j) <= Cardinality(S)
    BY <1>3, <2>1, FS_Subset
  <2> QED
    BY <2>2, <2>3
<1>6. S = 1..k
  <2>1. S \subseteq 1..k
    BY <1>1, <1>2, <1>3, <1>5
  <2>2. IsFiniteSet(1..k) /\ Cardinality(1..k) = k
    BY <1>3, FS_Interval
  <2> QED
    BY <2>1, <2>2, FS_Subset
<1>7. \A i \in 1..k : now - w[i] >= Window
  BY <1>6 DEF Expired
<1>8. SubSeq(w, k + 1, n) \in Seq(Nat) /\ Len(SubSeq(w, k + 1, n)) = n - k
  BY <1>1, <1>3
<1>9. \A i \in 1..n - k : SubSeq(w, k + 1, n)[i] = w[k + i]
  <2> DEFINE m == k + 1
  <2>1. m \in Int /\ n \in Int /\ \A i \in m..n : w[i] \in Nat
    BY <1>1, <1>3, ElementOfSeq
  <2>2. \A i \in 1..n - k : i \in 1..n - m + 1 /\ m + i - 1 = k + i
    BY <1>1, <1>3
  <2> HIDE DEF m, n
  <2>3. \A i \in 1..n - m + 1 : SubSeq(w, m, n)[i] = w[m + i - 1]
    BY <2>1, SubSeqProperties
  <2>4. \A i \in 1..n - k : SubSeq(w, m, n)[i] = w[k + i]
    BY <2>2, <2>3
  <2> QED
    BY <2>4 DEF m, n
<1> QED
  BY <1>1, <1>3, <1>7, <1>8, <1>9 DEF Pruned

\* The window of a fresh supervisor is empty.
LEMMA WindowInit == Init => WindowInv
BY BoundsAssumption DEF Init, WindowInv, RestartIntensity, NoJob

\* Steps that admit nothing keep the invariant: what is a window old stays so,
\* and a restart that starts now is no earlier than the clock.
LEMMA WindowKept ==
  ASSUME TypeOK, WindowInv, UNCHANGED <<window, admitted>>,
         clock' \in Nat, clock' >= clock,
         \/ job' = job
         \/ job'.started = clock
         \/ job'.started = 0 /\ job'.after # "restart"
  PROVE  WindowInv'
<1>1. /\ window \in Seq(Nat) /\ admitted \in Seq(Nat) /\ clock \in Nat
      /\ job.started \in Nat /\ Window \in Nat
  BY BoundsAssumption DEF TypeOK, SupType, HistType, CallType, JobType
<1>2. job'.started \in Nat /\ job'.started <= clock'
  BY <1>1 DEF WindowInv
<1>3. \A i \in 1..Len(admitted) - Len(window) : admitted[i] \in Nat
  BY <1>1 DEF WindowInv
<1>4. ASSUME NEW i \in 1..Len(admitted) - Len(window)
      PROVE  /\ clock' - admitted[i] >= Window
             /\ job'.after = "restart" => job'.started - admitted[i] >= Window
  <2>1. admitted[i] \in Nat /\ clock - admitted[i] >= Window
        /\ (job.after = "restart" => job.started - admitted[i] >= Window)
    BY <1>3, <1>4 DEF WindowInv
  <2> QED
    BY <1>1, <2>1
<1>5. RestartIntensity'
  BY DEF WindowInv, RestartIntensity
<1> QED
  BY <1>2, <1>4, <1>5 DEF WindowInv

\* The jobs a stop is given start now.
LEMMA StopsStartNow ==
  ASSUME NEW j, StopAlreadyExited(j) \/ StopGraceful(j) \/ StopWriteFails(j) \/ StopKill(j)
  PROVE  job' = j
BY DEF StopAlreadyExited, StopGraceful, StopWriteFails, StopKill

\* What a step that admits nothing may do to the window's state.
AdmitsNothing ==
  /\ UNCHANGED <<window, admitted>>
  /\ clock' = clock \/ (clock < MaxTime /\ clock' = clock + 1)
  /\ \/ job' = job
     \/ job'.started = clock
     \/ job'.started = 0 /\ job'.after # "restart"

\* A restart that begins starts now.
LEMMA BeginAdmitsNothing ==
  ASSUME NEW intent, NEW ret, NEW reading, BeginRestart(intent, ret, reading)
  PROVE  AdmitsNothing
<1>1. job' = Job("restart", ret, reading)
  BY StopsStartNow DEF BeginRestart
<1> QED
  BY <1>1 DEF BeginRestart, AdmitsNothing, Job

\* So does a stop.
LEMMA StopAdmitsNothing ==
  ASSUME NEW after, Stop(after)
  PROVE  AdmitsNothing
<1>1. job' = Job(after, "stopped", FALSE)
  BY StopsStartNow DEF Stop
<1> QED
  BY <1>1 DEF Stop, AdmitsNothing, Job, histVars

\* Every step but the end of a restart's stop admits nothing.
LEMMA OthersAdmitNothing ==
  ASSUME [Next]_vars, ~RestartRefused, ~RestartSpawnFailed, ~RestartSpawned
  PROVE  AdmitsNothing
<1> USE DEF supVars, callVars, childVars, readerVars, histVars
<1>1. CASE UNCHANGED vars
  BY <1>1 DEF vars, AdmitsNothing
<1>2. CASE PublicCall
  <2>1. CASE Status \/ RequestWriteFails
    BY <2>1 DEF Status, RequestWriteFails, AdmitsNothing
  <2>2. ASSUME NEW rec \in BOOLEAN, BeginRequest(rec) PROVE AdmitsNothing
    BY <2>2 DEF BeginRequest, NoJob, AdmitsNothing
  <2>3. ASSUME NEW rec \in BOOLEAN, RequestWithoutStdout(rec) PROVE AdmitsNothing
    <3>1. CASE BeginRestart("kill", "degraded", FALSE)
      BY <3>1, BeginAdmitsNothing
    <3>2. CASE ~BeginRestart("kill", "degraded", FALSE)
      BY <2>3, <3>2 DEF RequestWithoutStdout, AdmitsNothing
    <3> QED
      BY <3>1, <3>2
  <2>4. CASE Cycle
    BY <2>4, BeginAdmitsNothing DEF Cycle
  <2>5. CASE Shutdown \/ (pc = "ready" /\ Drop)
    BY <2>5, StopAdmitsNothing DEF Shutdown, Drop
  <2> QED
    BY <1>2, <2>1, <2>2, <2>3, <2>4, <2>5 DEF PublicCall
<1>3. CASE CallStep
  <2>1. CASE HardRssKill \/ RequestTimeout
    BY <2>1, BeginAdmitsNothing DEF HardRssKill, RequestTimeout
  <2>2. CASE AwaitEvent \/ AwaitEventUnbounded \/ RssSampleDue \/ Receive
    BY <2>2 DEF AwaitEvent, AwaitEventUnbounded, RssSampleDue, Receive, AdmitsNothing
  <2>3. CASE DeliverEvent
    <3>1. CASE BeginRestart("kill", "cancelled", TRUE)
      BY <3>1, BeginAdmitsNothing
    <3>2. CASE ~BeginRestart("kill", "cancelled", TRUE)
      BY <2>3, <3>2 DEF DeliverEvent, AdmitsNothing
    <3> QED
      BY <3>1, <3>2
  <2>4. CASE SinkPanic \/ TerminalResponse \/ ReadError \/ ReadEof
    BY <2>4 DEF SinkPanic, TerminalResponse, ReadError, ReadEof, NoJob, AdmitsNothing
  <2>5. CASE Reap
    BY <2>5 DEF Reap, NoJob, Job, AdmitsNothing
  <2>6. CASE GraceChildExited \/ GraceTimeout \/ GraceJoin \/ GraceEvent
    BY <2>6 DEF GraceChildExited, GraceTimeout, GraceJoin, GraceEvent, AdmitsNothing
  <2>7. CASE ExitSeen \/ ExitWaitTimeout \/ KillWaitTimeout
    BY <2>7 DEF ExitSeen, ExitWaitTimeout, KillWaitTimeout, AdmitsNothing
  <2>8. CASE RestartStopFailed \/ BeforeSpawn
    BY <2>8 DEF RestartStopFailed, BeforeSpawn, NoJob, AdmitsNothing
  <2>9. CASE Dropped \/ ShutdownReturns
    BY <2>9 DEF Dropped, ShutdownReturns, AdmitsNothing
  <2>10. CASE pc = "dropping" /\ Drop
    BY <2>10, StopAdmitsNothing DEF Drop
  <2> QED
    BY <1>3, <2>1, <2>2, <2>3, <2>4, <2>5, <2>6, <2>7, <2>8, <2>9, <2>10 DEF CallStep
<1>4. CASE ReaderStep
  BY <1>4 DEF ReaderStep, ReadFrame, SendEvent, SendFails, AdmitsNothing
<1>5. CASE ChildStep \/ KillLands
  BY <1>5 DEF ChildStep, ChildTakes, ChildEmits, ChildResponds, ChildTerminates,
     ChildReturns, ChildLosesPipe, ChildClosesStdout, ChildCrashes, KillLands,
     ChildExits, AdmitsNothing
<1>6. CASE Cancel \/ DeadlineComes \/ Tick
  BY <1>6 DEF Cancel, DeadlineComes, Tick, AdmitsNothing
<1> QED
  BY <1>1, <1>2, <1>3, <1>4, <1>5, <1>6 DEF Next

\* A refused restart only prunes the window.
LEMMA RefusedKeepsWindow ==
  ASSUME TypeOK, LifecycleInv, WindowInv, RestartRefused
  PROVE  WindowInv'
<1> DEFINE k == Cardinality(Expired(window, job.started))
<1>1. /\ window \in Seq(Nat) /\ admitted \in Seq(Nat) /\ clock \in Nat
      /\ job.started \in Nat /\ Window \in Nat
  BY BoundsAssumption DEF TypeOK, SupType, HistType, CallType, JobType
<1>2. /\ job.after = "restart" /\ window' = Pruned(window, job.started)
      /\ job' = NoJob /\ UNCHANGED <<admitted, clock>>
  BY ReadyMeansReaped DEF RestartRefused
<1>3. /\ k \in 0..Len(window)
      /\ \A i \in 1..k : job.started - window[i] >= Window
      /\ Len(window') = Len(window) - k
      /\ \A i \in 1..Len(window) - k : window'[i] = window[k + i]
  <2> DEFINE w == Pruned(window, job.started)
  <2>1. /\ k \in 0..Len(window)
        /\ \A i \in 1..k : job.started - window[i] >= Window
        /\ Len(w) = Len(window) - k
        /\ \A i \in 1..Len(window) - k : w[i] = window[k + i]
    BY <1>1, PrunedSuffix
  <2>2. window' = w
    BY <1>2
  <2> HIDE DEF k, w
  <2> QED
    BY <2>1, <2>2
<1> HIDE DEF k
<1>4. Len(window) <= Len(admitted) /\ Len(window) \in Nat /\ Len(admitted) \in Nat
  BY <1>1 DEF WindowInv
<1>5. \A i \in 1..Len(window') :
        window'[i] = admitted[Len(admitted) - Len(window') + i]
  <2> SUFFICES ASSUME NEW i \in 1..Len(window') 
               PROVE  window'[i] = admitted[Len(admitted) - Len(window') + i]
    OBVIOUS
  <2>1. i \in 1..Len(window) - k /\ window'[i] = window[k + i]
    BY <1>3
  <2>2. k + i \in 1..Len(window)
    BY <1>3, <1>4, <2>1
  <2>3. window[k + i] = admitted[Len(admitted) - Len(window) + (k + i)]
    BY <2>2 DEF WindowInv
  <2>4. Len(admitted) - Len(window) + (k + i) = Len(admitted) - Len(window') + i
    BY <1>3, <1>4, <2>1
  <2> QED
    BY <2>1, <2>3, <2>4
<1>6. \A i \in 1..Len(admitted) - Len(window') : clock - admitted[i] >= Window
  <2> SUFFICES ASSUME NEW i \in 1..Len(admitted) - Len(window')
               PROVE  clock - admitted[i] >= Window
    OBVIOUS
  <2>1. CASE i <= Len(admitted) - Len(window)
    BY <1>4, <2>1 DEF WindowInv
  <2>2. CASE i > Len(admitted) - Len(window)
    <3> DEFINE m == i - (Len(admitted) - Len(window))
    <3>1. m \in 1..k /\ m \in 1..Len(window)
      BY <1>3, <1>4, <2>2
    <3>2. i = Len(admitted) - Len(window) + m
      BY <1>4
    <3> HIDE DEF m
    <3>3. window[m] = admitted[i] /\ job.started - window[m] >= Window
      BY <1>3, <3>1, <3>2 DEF WindowInv
    <3>4. window[m] \in Nat /\ job.started <= clock
      BY <1>1, <3>1, ElementOfSeq DEF WindowInv
    <3> QED
      BY <1>1, <3>3, <3>4
  <2> QED
    BY <1>4, <2>1, <2>2
<1>7. RestartIntensity'
  BY <1>2 DEF WindowInv, RestartIntensity
<1>8. Len(window') <= Len(admitted')
  BY <1>2, <1>3, <1>4
<1>9. job'.started <= clock' /\ job'.after # "restart"
  BY <1>1, <1>2 DEF NoJob
<1> QED
  BY <1>2, <1>5, <1>6, <1>7, <1>8, <1>9 DEF WindowInv

\* An admitted restart is recorded behind at most MaxRestarts - 1 others, so
\* the one MaxRestarts before it has left the window.
LEMMA AdmittedKeepsWindow ==
  ASSUME TypeOK, LifecycleInv, WindowInv, AdmitRestart, job' = NoJob, UNCHANGED clock
  PROVE  WindowInv'
<1> DEFINE k == Cardinality(Expired(window, job.started))
           w == Pruned(window, job.started)
<1>1. /\ window \in Seq(Nat) /\ admitted \in Seq(Nat) /\ clock \in Nat
      /\ job.started \in Nat /\ Window \in Nat /\ MaxRestarts \in Nat
      /\ w \in Seq(Nat)
  BY BoundsAssumption, PrunedInType DEF TypeOK, SupType, HistType, CallType, JobType
<1>2. /\ Len(w) < MaxRestarts
      /\ window' = Append(w, job.started)
      /\ admitted' = Append(admitted, job.started)
  BY DEF AdmitRestart
<1>10. job.after = "restart" /\ job.started <= clock
  BY ReadyMeansReaped DEF AdmitRestart, WindowInv
<1>3. /\ k \in 0..Len(window)
      /\ \A i \in 1..k : job.started - window[i] >= Window
      /\ Len(w) = Len(window) - k
      /\ \A i \in 1..Len(window) - k : w[i] = window[k + i]
  BY <1>1, PrunedSuffix
<1> HIDE DEF k, w
<1>4. Len(window) <= Len(admitted) /\ Len(window) \in Nat /\ Len(admitted) \in Nat
  BY <1>1 DEF WindowInv
<1>5. /\ Len(window') = Len(w) + 1 /\ Len(admitted') = Len(admitted) + 1
      /\ \A i \in 1..Len(w) : window'[i] = w[i]
      /\ window'[Len(w) + 1] = job.started
      /\ \A i \in 1..Len(admitted) : admitted'[i] = admitted[i]
      /\ admitted'[Len(admitted) + 1] = job.started
  BY <1>1, <1>2
<1>6. \A i \in 1..Len(window') :
        window'[i] = admitted'[Len(admitted') - Len(window') + i]
  <2> SUFFICES ASSUME NEW i \in 1..Len(window')
               PROVE  window'[i] = admitted'[Len(admitted') - Len(window') + i]
    OBVIOUS
  <2>1. CASE i = Len(w) + 1
    <3>1. Len(admitted') - Len(window') + i = Len(admitted) + 1
      BY <1>3, <1>4, <1>5, <2>1
    <3> QED
      BY <1>5, <2>1, <3>1
  <2>2. CASE i # Len(w) + 1
    <3>1. i \in 1..Len(w) /\ k + i \in 1..Len(window)
      BY <1>3, <1>4, <1>5, <2>2
    <3>2. window'[i] = window[k + i]
      BY <1>3, <1>5, <3>1
    <3>3. window[k + i] = admitted[Len(admitted) - Len(window) + (k + i)]
      BY <3>1 DEF WindowInv
    <3>4. /\ Len(admitted) - Len(window) + (k + i) = Len(admitted') - Len(window') + i
          /\ Len(admitted) - Len(window) + (k + i) \in 1..Len(admitted)
      BY <1>3, <1>4, <1>5, <3>1
    <3> QED
      BY <1>5, <3>2, <3>3, <3>4
  <2> QED
    BY <2>1, <2>2
<1>7. \A i \in 1..Len(admitted') - Len(window') :
        /\ i \in 1..Len(admitted) /\ admitted[i] \in Nat
        /\ job.started - admitted[i] >= Window
  <2> SUFFICES ASSUME NEW i \in 1..Len(admitted') - Len(window')
               PROVE  /\ i \in 1..Len(admitted) /\ admitted[i] \in Nat
                      /\ job.started - admitted[i] >= Window
    OBVIOUS
  <2>1. i \in 1..Len(admitted)
    BY <1>3, <1>4, <1>5
  <2>2. admitted[i] \in Nat
    BY <1>1, <2>1
  <2>3. CASE i <= Len(admitted) - Len(window)
    BY <1>4, <1>10, <2>1, <2>2, <2>3 DEF WindowInv
  <2>4. CASE i > Len(admitted) - Len(window)
    <3> DEFINE m == i - (Len(admitted) - Len(window))
    <3>1. m \in 1..k /\ m \in 1..Len(window)
      BY <1>3, <1>4, <1>5, <2>4
    <3>2. i = Len(admitted) - Len(window) + m
      BY <1>4
    <3> HIDE DEF m
    <3>3. window[m] = admitted[i] /\ job.started - window[m] >= Window
      BY <1>3, <3>1, <3>2 DEF WindowInv
    <3> QED
      BY <2>1, <2>2, <3>3
  <2> QED
    BY <1>4, <2>1, <2>2, <2>3, <2>4
<1>8. \A i \in 1..Len(admitted') - Len(window') : clock' - admitted'[i] >= Window
  <2> TAKE i \in 1..Len(admitted') - Len(window')
  <2>1. i \in 1..Len(admitted) /\ admitted[i] \in Nat /\ job.started - admitted[i] >= Window
    BY <1>7
  <2>2. admitted'[i] = admitted[i]
    BY <1>5, <2>1
  <2> QED
    BY <1>1, <1>10, <2>1, <2>2
<1>9. RestartIntensity'
  <2> SUFFICES ASSUME NEW i \in 1..Len(admitted'), i + MaxRestarts <= Len(admitted')
               PROVE  admitted'[i + MaxRestarts] - admitted'[i] >= Window
    BY DEF RestartIntensity
  <2>0. MaxRestarts > 0
    BY BoundsAssumption
  <2>1. CASE i + MaxRestarts <= Len(admitted)
    <3>1. i \in 1..Len(admitted) /\ i + MaxRestarts \in 1..Len(admitted)
      BY <1>1, <1>4, <2>1
    <3> QED
      BY <1>5, <2>1, <3>1 DEF WindowInv, RestartIntensity
  <2>2. CASE i + MaxRestarts = Len(admitted) + 1
    <3>1. i \in 1..Len(admitted') - Len(window')
      BY <1>1, <1>2, <1>3, <1>4, <1>5, <2>2
    <3> QED
      BY <1>5, <1>7, <2>2, <3>1
  <2> QED
    BY <1>1, <1>4, <1>5, <2>1, <2>2
<1>11. Len(window') <= Len(admitted')
  BY <1>3, <1>4, <1>5
<1>12. job'.started <= clock' /\ job'.after # "restart"
  BY <1>1 DEF NoJob
<1> QED
  BY <1>6, <1>8, <1>9, <1>11, <1>12 DEF WindowInv

\* Every step preserves WindowInv.
LEMMA WindowStep ==
  TypeOK /\ LifecycleInv /\ WindowInv /\ [Next]_vars => WindowInv'
<1> SUFFICES ASSUME TypeOK, LifecycleInv, WindowInv, [Next]_vars PROVE WindowInv'
  OBVIOUS
<1>1. CASE RestartRefused
  BY <1>1, RefusedKeepsWindow
<1>2. CASE RestartSpawnFailed \/ RestartSpawned
  BY <1>2, AdmittedKeepsWindow DEF RestartSpawnFailed, RestartSpawned
<1>3. CASE ~(RestartRefused \/ RestartSpawnFailed \/ RestartSpawned)
  <2>1. AdmitsNothing
    BY <1>3, OthersAdmitNothing
  <2>2. clock \in Nat
    BY DEF TypeOK, HistType
  <2> QED
    BY <2>1, <2>2, WindowKept DEF AdmitsNothing
<1> QED
  BY <1>1, <1>2, <1>3

\* WindowInv holds in every reachable state.
THEOREM WindowSafe == Spec => []WindowInv
BY TypeCorrect, LifecycleSafe, WindowInit, WindowStep, PTL DEF Spec

\* restart_intensity is enforced: any MaxRestarts + 1 consecutive replacements
\* span at least the window, by the times their restarts were started.
THEOREM IntensityHolds == Spec => []RestartIntensity
BY WindowSafe, PTL DEF WindowInv

-----------------------------------------------------------------------------
(* Where the caller, the reader and the channel are                        *)

\* An event says what its frame is.
KindFits(e) ==
  /\ e.kind = "message" => ~IsResponse(e.frame)
  /\ e.kind = "terminal" => IsResponse(e.frame)
  /\ e.kind = "readerror" => e.frame.kind = "garbage"

KindsFit == KindFits(cur) /\ KindFits(rhold) /\ \A i \in 1..Len(chan) : KindFits(chan[i])

\* Where the read end of stdout is, and what each place of the caller knows of it.
PlacesInv ==
  /\ rpc \in {"read", "send"} => stdoutAt = "reader"
  /\ pc \in Reading => rx /\ stdoutAt # "sup" /\ inflight # NoReq /\ rreq = inflight /\ rpc # "none"
  /\ pc \notin Reading => inflight = NoReq
  /\ pc # "event" => cur = NoEvent
  /\ pc = "event" => cur.kind # "none"
  /\ rpc # "send" => rhold = NoEvent
  /\ rpc = "send" => rhold.kind # "none"
  /\ pc = "killwait" => proc # "running"
  /\ pc = "gracejoin" => proc \in {"killed", "zombie"}
  /\ pc = "stopfailed" => proc # "running" \/ stdoutAt # "sup"
  /\ pc \in {"stopped", "join"} => state = "exited"
  /\ pc = "stopfailed" => state \in {"stopping", "reaping"}
  /\ pc \in {"exitwait", "killwait"} => state = "reaping"
  /\ pc \in Reading => proc # "killed"
  /\ pc = "ready" /\ proc = "killed" => state \in {"stopping", "reaping"}

\* Only the last event of a channel is not a message, and it ends the reader.
LastEvent ==
  /\ \A i \in 1..Len(chan) : /\ chan[i].kind # "none"
                             /\ chan[i].kind # "message" => i = Len(chan) /\ rpc = "done"
  /\ pc = "event" /\ cur.kind # "message" => chan = <<>> /\ rpc = "done"

PlumbingInv == KindsFit /\ PlacesInv /\ LastEvent

\* A fresh supervisor has nothing in its channel.
LEMMA PlumbingInit == Init => PlumbingInv
BY DEF Init, PlumbingInv, KindsFit, KindFits, PlacesInv, LastEvent, NoEvent, NoFrame,
   Frame, IsResponse, Reading, NoReq

\* NoEvent fits.
LEMMA NoEventFits == KindFits(NoEvent)
BY DEF KindFits, NoEvent

\* Ways into shutdown_child.
LEMMA StopPlumbing ==
  ASSUME TypeOK, LifecycleInv, PlumbingInv, NEW j,
         cur' = NoEvent,
         pc \in Reading \cup {"ready", "dropping"},
         StopAlreadyExited(j) \/ StopGraceful(j) \/ StopWriteFails(j) \/ StopKill(j)
  PROVE  PlumbingInv'
<1>1. KindFits(cur)' /\ KindFits(rhold)' /\ (rhold' = rhold \/ rhold' = NoEvent)
  BY NoEventFits DEF StopAlreadyExited, StopGraceful, StopWriteFails, StopKill,
     SpawnReader, readerVars, PlumbingInv, KindsFit, KindFits
<1>2. (UNCHANGED <<chan, rpc, rhold, rreq>>) \/ (chan' = <<>> /\ rpc' = "read" /\ rhold' = NoEvent /\ stdoutAt' = "reader")
  BY DEF StopAlreadyExited, StopGraceful, StopWriteFails, StopKill, SpawnReader,
         readerVars
<1>3. \A i \in 1..Len(chan') : KindFits(chan'[i])
  BY <1>2 DEF PlumbingInv, KindsFit
<1>4. KindsFit'
  BY <1>1, <1>3 DEF KindsFit, KindFits
<1>5. /\ inflight' = NoReq
      /\ pc' \in {"stopped", "grace", "stopfailed", "killwait"}
      /\ pc' = "killwait" => proc' # "running" /\ state' = "reaping"
      /\ pc' = "stopped" => state' = "exited"
      /\ pc' = "stopfailed" => state' = "stopping" /\ stdoutAt' # "sup"
      /\ pc' # "grace" => stdoutAt' = stdoutAt \/ (stdoutAt = "sup" /\ stdoutAt' = "closed")
      /\ pc' = "grace" => stdoutAt' = "reader"
  BY DEF StopAlreadyExited, StopGraceful, StopWriteFails, StopKill, SpawnReader, Kill,
     ObserveExit, FinalizeChildExit, childVars
<1>6. PlacesInv'
  BY <1>2, <1>5 DEF PlumbingInv, PlacesInv, Reading, NoEvent
<1>7. LastEvent'
  BY <1>2, <1>5 DEF PlumbingInv, LastEvent, Reading
<1> QED
  BY <1>4, <1>6, <1>7 DEF PlumbingInv

\* A restart that begins, from the read loop or between calls.
LEMMA RestartPlumbing ==
  ASSUME TypeOK, LifecycleInv, PlumbingInv, NEW intent, NEW ret, NEW reading,
         cur' = NoEvent,
         pc \in Reading \cup {"ready", "dropping"},
         BeginRestart(intent, ret, reading)
  PROVE  PlumbingInv'
<1> DEFINE j == Job("restart", ret, reading)
<1>1. StopAlreadyExited(j) \/ StopGraceful(j) \/ StopWriteFails(j) \/ StopKill(j)
  BY DEF BeginRestart
<1> HIDE DEF j
<1> QED
  BY <1>1, StopPlumbing

\* shutdown() and Drop.
LEMMA EndPlumbing ==
  ASSUME TypeOK, LifecycleInv, PlumbingInv, NEW after,
         pc \in {"ready", "dropping"}, Stop(after)
  PROVE  PlumbingInv'
<1> DEFINE j == Job(after, "stopped", FALSE)
<1>1. StopAlreadyExited(j) \/ StopGraceful(j) \/ StopWriteFails(j) \/ StopKill(j)
  BY DEF Stop
<1>2. cur' = NoEvent
  BY DEF Stop, PlumbingInv, PlacesInv
<1> HIDE DEF j
<1> QED
  BY <1>1, <1>2, StopPlumbing

\* Steps that leave the channel, the reader and the event at hand alone.
LEMMA SameChannel ==
  ASSUME PlumbingInv, UNCHANGED <<cur, chan, rpc, rhold, rreq, rx>>, pc' = "event" <=> pc = "event"
  PROVE  KindsFit' /\ LastEvent'
BY DEF PlumbingInv, KindsFit, KindFits, LastEvent

\* Steps that empty it, when no event is at hand any more.
LEMMA EmptiedChannel ==
  ASSUME PlumbingInv, chan' = <<>>, cur' = NoEvent, rhold' = rhold \/ rhold' = NoEvent, pc' # "event"
  PROVE  KindsFit' /\ LastEvent'
BY NoEventFits DEF PlumbingInv, KindsFit, KindFits, LastEvent

\* The public calls.
LEMMA PublicPlumbing ==
  ASSUME TypeOK, LifecycleInv, PlumbingInv, PublicCall
  PROVE  PlumbingInv'
<1> USE DEF supVars, callVars, childVars, readerVars, histVars
<1>1. CASE Status
  <2>1. KindsFit' /\ LastEvent'
    BY <1>1, SameChannel DEF Status
  <2>2. proc' # "killed"
    BY <1>1 DEF Status, ObserveExit, FinalizeChildExit, LifecycleInv, HandleInv
  <2>3. PlacesInv'
    BY <1>1, <2>2
       DEF Status, ObserveExit, FinalizeChildExit, PlumbingInv, PlacesInv, Reading
  <2> QED
    BY <2>1, <2>3 DEF PlumbingInv
<1>2. ASSUME NEW rec \in BOOLEAN, BeginRequest(rec) PROVE PlumbingInv'
  <2>1. /\ pc = "ready" /\ pc' = "loop" /\ chan' = <<>> /\ cur' = cur
        /\ rhold' = NoEvent
        /\ inflight' = nextReq /\ rreq' = nextReq /\ rx' = TRUE /\ rpc' = "read"
        /\ stdoutAt' = "reader"
    BY <1>2 DEF BeginRequest, SpawnReader
  <2>2. cur = NoEvent /\ nextReq # NoReq
    BY <2>1 DEF PlumbingInv, PlacesInv, TypeOK, SupType, NoReq
  <2>3. KindsFit' /\ LastEvent'
    BY <2>1, <2>2, EmptiedChannel
  <2>5. proc' # "killed"
    BY <1>2 DEF BeginRequest, rejects_new_requests, PlumbingInv, PlacesInv, Reading
  <2>4. PlacesInv'
    BY <2>1, <2>2, <2>5 DEF PlacesInv, Reading
  <2> QED
    BY <2>3, <2>4 DEF PlumbingInv
<1>3. ASSUME NEW rec \in BOOLEAN, RequestWithoutStdout(rec) PROVE PlumbingInv'
  <2>1. CASE rec
    <3>1. pc = "ready" /\ cur' = NoEvent /\ BeginRestart("kill", "degraded", FALSE)
      BY <1>3, <2>1 DEF RequestWithoutStdout, PlumbingInv, PlacesInv
    <3> QED
      BY <3>1, RestartPlumbing
  <2>2. CASE ~rec
    <3>1. KindsFit' /\ LastEvent'
      BY <1>3, <2>2, SameChannel DEF RequestWithoutStdout
    <3>2. PlacesInv'
      BY <1>3, <2>2 DEF RequestWithoutStdout, PlumbingInv, PlacesInv, Reading
    <3> QED
      BY <3>1, <3>2 DEF PlumbingInv
  <2> QED
    BY <2>1, <2>2
<1>4. CASE RequestWriteFails
  <2>1. KindsFit' /\ LastEvent'
    BY <1>4, SameChannel DEF RequestWriteFails
  <2>2. PlacesInv'
    BY <1>4 DEF RequestWriteFails, PlumbingInv, PlacesInv, Reading
  <2> QED
    BY <2>1, <2>2 DEF PlumbingInv
<1>5. CASE Cycle
  <2>1. pc = "ready" /\ cur' = NoEvent /\ BeginRestart("graceful", "cycled", FALSE)
    BY <1>5 DEF Cycle, PlumbingInv, PlacesInv
  <2> QED
    BY <2>1, RestartPlumbing
<1>6. CASE Shutdown \/ (pc = "ready" /\ Drop)
  BY <1>6, EndPlumbing DEF Shutdown, Drop
<1> QED
  BY <1>1, <1>2, <1>3, <1>4, <1>5, <1>6 DEF PublicCall

\* The read loop, and the wait after an end of file.
LEMMA ReadLoopPlumbing ==
  ASSUME TypeOK, LifecycleInv, PlumbingInv,
         \/ HardRssKill \/ AwaitEvent \/ AwaitEventUnbounded \/ RequestTimeout
         \/ RssSampleDue \/ Receive \/ DeliverEvent \/ SinkPanic \/ TerminalResponse
         \/ ReadError \/ ReadEof \/ Reap
  PROVE  PlumbingInv'
<1> USE DEF supVars, callVars, childVars, readerVars, histVars
<1>1. CASE HardRssKill
  <2>1. pc \in Reading /\ cur' = NoEvent /\ BeginRestart("kill", "rss_hard_limit", TRUE)
    BY <1>1 DEF HardRssKill, PlumbingInv, PlacesInv, Reading
  <2> QED
    BY <2>1, RestartPlumbing
<1>2. CASE RequestTimeout
  <2>1. pc \in Reading /\ cur' = NoEvent /\ BeginRestart("kill", "timeout", TRUE)
    BY <1>2 DEF RequestTimeout, PlumbingInv, PlacesInv, Reading
  <2> QED
    BY <2>1, RestartPlumbing
<1>3. CASE AwaitEvent \/ AwaitEventUnbounded \/ RssSampleDue
  <2>1. KindsFit' /\ LastEvent'
    BY <1>3, SameChannel DEF AwaitEvent, AwaitEventUnbounded, RssSampleDue
  <2>2. PlacesInv'
    BY <1>3
       DEF AwaitEvent, AwaitEventUnbounded, RssSampleDue, PlumbingInv, PlacesInv,
           Reading
  <2> QED
    BY <2>1, <2>2 DEF PlumbingInv
<1>4. CASE Receive
  <2>1. chan \in Seq(EventType) /\ chan # <<>>
    BY <1>4 DEF Receive, TypeOK, ReaderType
  <2>2. /\ cur' = chan[1] /\ chan' = Tail(chan) /\ Len(chan) \in Nat \ {0}
        /\ Len(chan') = Len(chan) - 1 /\ \A i \in 1..Len(chan') : chan'[i] = chan[i + 1]
    BY <1>4, <2>1 DEF Receive
  <2>3. rhold' = rhold /\ rpc' = rpc /\ pc' = "event"
    BY <1>4 DEF Receive
  <2>4. KindsFit'
    BY <2>2, <2>3 DEF PlumbingInv, KindsFit, KindFits
  <2>8. \A i \in 1..Len(chan) : chan[i].kind # "none"
    BY DEF PlumbingInv, LastEvent
  <2>9. \A i \in 1..Len(chan) : chan[i].kind # "message" => i = Len(chan) /\ rpc = "done"
    BY DEF PlumbingInv, LastEvent
  <2>5. LastEvent'
    <3>1. \A i \in 1..Len(chan') : /\ chan'[i].kind # "none"
                                   /\ chan'[i].kind # "message" => i = Len(chan') /\ rpc' = "done"
      <4> SUFFICES ASSUME NEW i \in 1..Len(chan')
                   PROVE  /\ chan'[i].kind # "none"
                          /\ chan'[i].kind # "message" => i = Len(chan') /\ rpc' = "done"
        OBVIOUS
      <4>1. PICK m \in 1..Len(chan) : m = i + 1
        BY <2>2
      <4>2. m = Len(chan) => i = Len(chan')
        <5>1. i \in Nat
          BY <2>2
        <5>2. Len(chan) \in Nat /\ Len(chan') = Len(chan) - 1
          BY <2>2, Zenon
        <5> HIDE DEF supVars, callVars, childVars, readerVars, histVars
        <5> QED
          BY <5>1, <5>2, <4>1
      <4>3. chan'[i] = chan[m]
        <5>1. \A k \in 1..Len(chan') : chan'[k] = chan[k + 1]
          BY <2>2
        <5>2. chan'[i] = chan[i + 1]
          BY <5>1, Zenon
        <5> QED
          BY <5>2, <4>1, Zenon
      <4>4. chan[m].kind # "none"
        BY <2>8, Zenon
      <4>5. chan[m].kind # "message" => m = Len(chan) /\ rpc = "done"
        BY <2>9, Zenon
      <4> QED
        BY <2>3, <4>2, <4>3, <4>4, <4>5, Zenon
    <3>2. cur'.kind # "message" => Len(chan') = 0 /\ rpc' = "done"
      <4>1. 1 \in 1..Len(chan) /\ (1 = Len(chan) => Len(chan') = 0)
        BY <2>2
      <4> QED
        BY <2>2, <2>3, <2>9, <4>1
    <3>3. Len(chan') = 0 => chan' = <<>>
      BY <2>1, <2>2
    <3> QED
      BY <3>1, <3>2, <3>3 DEF LastEvent
  <2>6. cur'.kind # "none"
    BY <2>2, <2>8
  <2>7. PlacesInv'
    BY <1>4, <2>3, <2>6 DEF Receive, PlumbingInv, PlacesInv, Reading
  <2> QED
    BY <2>4, <2>5, <2>7 DEF PlumbingInv
<1>5. CASE DeliverEvent
  <2>1. pc = "event" /\ cur.kind = "message" /\ cur' = NoEvent
    BY <1>5 DEF DeliverEvent
  <2>2. CASE SeesCancellation
    BY <1>5, <2>1, <2>2, RestartPlumbing DEF DeliverEvent, Reading
  <2>3. CASE ~SeesCancellation
    <3>1. UNCHANGED <<chan, rpc, rhold, rreq, rx, inflight, stdoutAt, proc>> /\ pc' = "loop"
      BY <1>5, <2>3 DEF DeliverEvent
    <3>2. KindsFit' /\ LastEvent'
      BY <2>1, <3>1, NoEventFits DEF PlumbingInv, KindsFit, KindFits, LastEvent
    <3>3. PlacesInv'
      BY <2>1, <3>1 DEF PlumbingInv, PlacesInv, Reading
    <3> QED
      BY <3>2, <3>3 DEF PlumbingInv
  <2> QED
    BY <2>2, <2>3
<1>6. CASE SinkPanic
  <2>1. KindsFit' /\ LastEvent'
    BY <1>6, EmptiedChannel DEF SinkPanic, DropReceiver
  <2>2. PlacesInv'
    BY <1>6 DEF SinkPanic, DropReceiver, PlumbingInv, PlacesInv, Reading
  <2> QED
    BY <2>1, <2>2 DEF PlumbingInv
<1>7. CASE TerminalResponse \/ ReadError \/ ReadEof
  <2>1. /\ pc = "event" /\ cur.kind # "message" /\ proc' = proc
        /\ cur' = NoEvent /\ chan' = <<>> /\ rpc' = "none" /\ rhold' = rhold
        /\ inflight' = NoReq /\ pc' \in {"ready", "reap"}
    BY <1>7 DEF TerminalResponse, ReadError, ReadEof, JoinedReader
  <2>2. rhold = NoEvent
    BY <2>1 DEF PlumbingInv, LastEvent, PlacesInv
  <2>3. KindsFit' /\ LastEvent'
    BY <2>1, EmptiedChannel
  <2>4. PlacesInv'
    BY <2>1, <2>2 DEF PlumbingInv, PlacesInv, Reading
  <2> QED
    BY <2>3, <2>4 DEF PlumbingInv
<1>8. CASE Reap
  <2>1. KindsFit' /\ LastEvent'
    BY <1>8, SameChannel DEF Reap
  <2>2. PlacesInv'
    BY <1>8 DEF Reap, FinalizeChildExit, PlumbingInv, PlacesInv, Reading
  <2> QED
    BY <2>1, <2>2 DEF PlumbingInv
<1> QED
  BY <1>1, <1>2, <1>3, <1>4, <1>5, <1>6, <1>7, <1>8

\* The waits of shutdown_child.
LEMMA WaitPlumbing ==
  ASSUME TypeOK, LifecycleInv, PlumbingInv,
         \/ GraceChildExited \/ GraceTimeout \/ GraceJoin \/ GraceEvent
         \/ ExitSeen \/ ExitWaitTimeout \/ KillWaitTimeout
  PROVE  PlumbingInv'
<1> USE DEF supVars, callVars, childVars, readerVars, histVars
<1>1. CASE GraceChildExited
  <2>1. cur' = NoEvent
    BY <1>1 DEF GraceChildExited, PlumbingInv, PlacesInv
  <2>2. KindsFit' /\ LastEvent'
    BY <1>1, <2>1, EmptiedChannel DEF GraceChildExited, DropReceiver
  <2>3. PlacesInv'
    BY <1>1 DEF GraceChildExited, DropReceiver, PlumbingInv, PlacesInv, Reading
  <2> QED
    BY <2>2, <2>3 DEF PlumbingInv
<1>2. CASE GraceTimeout
  <2>1. cur' = NoEvent
    BY <1>2 DEF GraceTimeout, PlumbingInv, PlacesInv
  <2>2. KindsFit' /\ LastEvent'
    BY <1>2, <2>1, EmptiedChannel DEF GraceTimeout, DropReceiver
  <2>3. proc' \in {"killed", "zombie"}
    BY <1>2 DEF GraceTimeout, Kill, LifecycleInv, HandleInv, TypeOK, ChildType
  <2>4. PlacesInv'
    BY <1>2, <2>3 DEF GraceTimeout, DropReceiver, PlumbingInv, PlacesInv, Reading
  <2> QED
    BY <2>2, <2>4 DEF PlumbingInv
<1>3. CASE GraceJoin
  <2>1. /\ pc = "gracejoin" /\ rpc = "done" /\ chan' = <<>> /\ rpc' = "none"
        /\ rhold' = rhold
        /\ cur' = cur
        /\ \/ pc' = "stopped" /\ state' = "exited" /\ inflight' = NoReq
           \/ pc' = "killwait" /\ proc' = "killed" /\ inflight' = inflight /\ state' = "reaping"
    BY <1>3 DEF GraceJoin, JoinedReader, FinalizeChildExit
  <2>2. cur' = NoEvent /\ rhold' = NoEvent
    BY <2>1 DEF PlumbingInv, PlacesInv
  <2>3. KindsFit' /\ LastEvent'
    BY <2>1, <2>2, EmptiedChannel
  <2>4. PlacesInv'
    BY <2>1, <2>2 DEF PlumbingInv, PlacesInv, Reading
  <2> QED
    BY <2>3, <2>4 DEF PlumbingInv
<1>4. CASE GraceEvent
  <2>1. chan \in Seq(EventType) /\ chan # <<>> /\ pc = "grace" /\ cur' = cur /\ inflight' = inflight
    BY <1>4 DEF GraceEvent, TypeOK, ReaderType
  <2>2. cur = NoEvent /\ cur' = NoEvent /\ inflight' = NoReq
    BY <2>1 DEF PlumbingInv, PlacesInv, Reading
  <2>3. Head(chan) = chan[1] /\ Len(chan) \in Nat \ {0}
    BY <2>1
  <2>4. CASE Head(chan).kind = "message"
    <3>1. chan' = Tail(chan) /\ UNCHANGED <<state, pc, proc, stdoutAt, rpc, rhold, rreq, rx>>
      BY <1>4, <2>4 DEF GraceEvent
    <3>2. Len(chan') = Len(chan) - 1 /\ \A i \in 1..Len(chan') : chan'[i] = chan[i + 1]
      BY <2>1, <3>1
    <3>3. KindsFit'
      BY <2>2, <2>3, <3>1, <3>2 DEF PlumbingInv, KindsFit, KindFits
    <3>4. LastEvent'
      <4>1. \A i \in 1..Len(chan) : chan[i].kind # "none"
        BY DEF PlumbingInv, LastEvent
      <4>2. \A i \in 1..Len(chan) : chan[i].kind # "message" => i = Len(chan) /\ rpc = "done"
        BY DEF PlumbingInv, LastEvent
      <4>3. \A i \in 1..Len(chan') : /\ i + 1 \in 1..Len(chan) /\ chan'[i] = chan[i + 1]
                                     /\ i + 1 = Len(chan) => i = Len(chan')
        BY <2>3, <3>2
      <4>4. \A i \in 1..Len(chan') : /\ chan'[i].kind # "none"
                                     /\ chan'[i].kind # "message" => i = Len(chan') /\ rpc' = "done"
        BY <3>1, <4>1, <4>2, <4>3
      <4> QED
        BY <2>1, <3>1, <4>4 DEF LastEvent
    <3>5. PlacesInv'
      BY <2>1, <2>2, <3>1 DEF PlumbingInv, PlacesInv, Reading
    <3> QED
      BY <3>3, <3>4, <3>5 DEF PlumbingInv
  <2>5. CASE Head(chan).kind # "message"
    <3>1. /\ chan' = <<>> /\ rpc' = "none" /\ rhold' = rhold /\ state' = "reaping"
          /\ pc' = "exitwait" \/ (pc' = "killwait" /\ Kill)
      BY <1>4, <2>5 DEF GraceEvent, JoinedReader
    <3>2. rhold = NoEvent
      BY <2>3, <2>5 DEF PlumbingInv, LastEvent, PlacesInv
    <3>3. KindsFit' /\ LastEvent'
      BY <2>2, <3>1, EmptiedChannel
    <3>4. pc' = "killwait" => proc' # "running"
      BY <3>1 DEF Kill
    <3>5. PlacesInv'
      BY <2>2, <3>1, <3>2, <3>4 DEF PlacesInv, Reading
    <3> QED
      BY <3>3, <3>5 DEF PlumbingInv
  <2> QED
    BY <2>4, <2>5
<1>5. CASE ExitSeen
  <2>1. KindsFit' /\ LastEvent'
    BY <1>5, SameChannel DEF ExitSeen
  <2>2. PlacesInv'
    BY <1>5 DEF ExitSeen, FinalizeChildExit, PlumbingInv, PlacesInv, Reading
  <2> QED
    BY <2>1, <2>2 DEF PlumbingInv
<1>6. CASE ExitWaitTimeout
  <2>1. KindsFit' /\ LastEvent'
    BY <1>6, SameChannel DEF ExitWaitTimeout
  <2>2. PlacesInv'
    BY <1>6 DEF ExitWaitTimeout, Kill, PlumbingInv, PlacesInv, Reading
  <2> QED
    BY <2>1, <2>2 DEF PlumbingInv
<1>7. CASE KillWaitTimeout
  <2>1. KindsFit' /\ LastEvent'
    BY <1>7, SameChannel DEF KillWaitTimeout
  <2>2. state \in {"stopping", "reaping"}
    BY <1>7 DEF KillWaitTimeout, PlumbingInv, PlacesInv
  <2>3. PlacesInv'
    BY <1>7, <2>2 DEF KillWaitTimeout, PlumbingInv, PlacesInv, Reading
  <2> QED
    BY <2>1, <2>3 DEF PlumbingInv
<1> QED
  BY <1>1, <1>2, <1>3, <1>4, <1>5, <1>6, <1>7

\* What follows shutdown_child.
LEMMA AfterStopPlumbing ==
  ASSUME TypeOK, LifecycleInv, PlumbingInv,
         \/ RestartStopFailed \/ BeforeSpawn \/ RestartRefused \/ RestartSpawnFailed
         \/ RestartSpawned \/ Dropped \/ ShutdownReturns \/ (pc = "dropping" /\ Drop)
  PROVE  PlumbingInv'
<1> USE DEF supVars, callVars, childVars, readerVars, histVars
<1>1. CASE RestartStopFailed \/ BeforeSpawn
  <2>1. /\ pc \in {"stopped", "stopfailed"} /\ pc' \in {"ready", "join"}
        /\ pc' = "join" => pc = "stopped"
        /\ chan' = <<>>
        /\ stdoutAt' = IF stdoutAt = "event" THEN "closed" ELSE stdoutAt
        /\ UNCHANGED <<cur, rhold, rpc, inflight, state, proc>>
        /\ pc' = "ready" => pc = "stopfailed"
    BY <1>1 DEF RestartStopFailed, BeforeSpawn, DropReceiver
  <2>2. KindsFit' /\ LastEvent'
    BY <2>1, EmptiedChannel DEF PlumbingInv, PlacesInv
  <2>3. PlacesInv'
    BY <2>1 DEF PlumbingInv, PlacesInv, Reading
  <2> QED
    BY <2>2, <2>3 DEF PlumbingInv
<1>2. CASE RestartRefused \/ RestartSpawnFailed
  <2>1. /\ pc \in {"stopped", "join"} /\ pc' = "ready"
        /\ UNCHANGED <<cur, chan, rhold, rpc, rreq, rx, stdoutAt>>
        /\ inflight' = inflight \/ inflight' = NoReq
        /\ proc' = proc /\ proc = "reaped"
    BY <1>2, ReadyMeansReaped
       DEF RestartRefused, RestartSpawnFailed, AdmitRestart, ReadyToAdmit
  <2>2. KindsFit' /\ LastEvent'
    BY <2>1, SameChannel
  <2>3. PlacesInv'
    BY <2>1 DEF PlumbingInv, PlacesInv, Reading
  <2> QED
    BY <2>2, <2>3 DEF PlumbingInv
<1>3. CASE RestartSpawned
  <2>1. /\ pc \in {"stopped", "join"} /\ pc' = "ready" /\ cur' = cur
        /\ proc' = "running"
        /\ chan' = <<>> /\ rpc' = "none" /\ rhold' = NoEvent /\ inflight' = NoReq
    BY <1>3 DEF RestartSpawned, AdmitRestart, ReadyToAdmit
  <2>2. KindsFit' /\ LastEvent'
    BY <2>1, EmptiedChannel DEF PlumbingInv, PlacesInv
  <2>3. PlacesInv'
    BY <2>1 DEF PlumbingInv, PlacesInv, Reading
  <2> QED
    BY <2>2, <2>3 DEF PlumbingInv
<1>4. CASE Dropped \/ ShutdownReturns
  <2>1. /\ pc \in {"stopped", "stopfailed"} /\ pc' \in {"gone", "dropping"}
        /\ UNCHANGED <<cur, chan, rhold, rpc, rreq, rx, inflight>>
        /\ stdoutAt' = stdoutAt \/ stdoutAt = "sup"
    BY <1>4 DEF Dropped, ShutdownReturns
  <2>2. KindsFit' /\ LastEvent'
    BY <2>1, SameChannel
  <2>3. PlacesInv'
    BY <2>1 DEF PlumbingInv, PlacesInv, Reading
  <2> QED
    BY <2>2, <2>3 DEF PlumbingInv
<1>5. CASE pc = "dropping" /\ Drop
  BY <1>5, EndPlumbing DEF Drop
<1> QED
  BY <1>1, <1>2, <1>3, <1>4, <1>5

\* The reader's events are what their frames say, and only the last one of a
\* channel is not a message.
LEMMA ReaderPlumbing ==
  ASSUME TypeOK, LifecycleInv, PlumbingInv, ReaderStep
  PROVE  PlumbingInv'
<1> USE DEF supVars, callVars, childVars, readerVars, histVars
<1>1. CASE ReadFrame
  <2>1. /\ rpc = "read" /\ rpc' = "send"
        /\ UNCHANGED <<cur, chan, rreq, rx, pc, inflight, stdoutAt, state, proc>>
        /\ \/ \E f : rhold' = Event(IF IsResponse(f) THEN "terminal"
                                    ELSE IF f.kind = "garbage" THEN "readerror" ELSE "message", f)
           \/ rhold' = Event("eof", NoFrame)
    BY <1>1 DEF ReadFrame
  <2>2. KindFits(rhold') /\ rhold'.kind # "none"
    <3>1. ASSUME NEW f, rhold' = Event(IF IsResponse(f) THEN "terminal"
                                       ELSE IF f.kind = "garbage" THEN "readerror" ELSE "message", f)
          PROVE  KindFits(rhold') /\ rhold'.kind # "none"
      BY <3>1 DEF Event, KindFits
    <3>2. CASE rhold' = Event("eof", NoFrame)
      BY <3>2 DEF Event, KindFits
    <3> QED
      BY <2>1, <3>1, <3>2
  <2>3. KindsFit'
    BY <2>1, <2>2 DEF PlumbingInv, KindsFit, KindFits
  <2>4. LastEvent'
    BY <2>1 DEF PlumbingInv, LastEvent
  <2>5. PlacesInv'
    BY <2>1, <2>2 DEF PlumbingInv, PlacesInv, Reading
  <2> QED
    BY <2>3, <2>4, <2>5 DEF PlumbingInv
<1>2. CASE SendEvent
  <2>1. /\ rpc = "send" /\ rhold' = NoEvent /\ chan' = Append(chan, rhold)
        /\ rpc' = IF rhold.kind = "message" THEN "read" ELSE "done"
        /\ stdoutAt' = CASE rhold.kind = "message"  -> stdoutAt
                         [] rhold.kind = "terminal" -> "event"
                         [] OTHER                   -> "closed"
        /\ UNCHANGED <<cur, rreq, rx, pc, inflight, state, proc>>
    BY <1>2 DEF SendEvent
  <2>2. chan \in Seq(EventType) /\ rhold \in EventType
    BY DEF TypeOK, ReaderType
  <2>3. /\ Len(chan) \in Nat /\ Len(chan') = Len(chan) + 1
        /\ chan'[Len(chan) + 1] = rhold
        /\ \A i \in 1..Len(chan) : chan'[i] = chan[i]
    BY <2>1, <2>2
  <2>4. rhold.kind # "none"
    BY <2>1 DEF PlumbingInv, PlacesInv
  <2>5. \A i \in 1..Len(chan) : chan[i].kind = "message"
    BY <2>1 DEF PlumbingInv, LastEvent
  <2>6. \A i \in 1..Len(chan') : i \in 1..Len(chan) \/ i = Len(chan) + 1
    BY <2>3
  <2>7. KindsFit'
    <3>1. KindFits(cur)' /\ KindFits(rhold')
      BY <2>1, NoEventFits DEF PlumbingInv, KindsFit, KindFits
    <3>2. \A i \in 1..Len(chan') : KindFits(chan'[i])
      BY <2>3, <2>6 DEF PlumbingInv, KindsFit
    <3> QED
      BY <3>1, <3>2 DEF KindsFit, KindFits
  <2>8. LastEvent'
    <3>1. \A i \in 1..Len(chan') : /\ chan'[i].kind # "none"
                                   /\ chan'[i].kind # "message" => i = Len(chan') /\ rpc' = "done"
      BY <2>1, <2>3, <2>4, <2>5, <2>6
    <3>2. pc' = "event" => cur'.kind = "message"
      BY <2>1 DEF PlumbingInv, LastEvent
    <3> QED
      BY <3>1, <3>2 DEF LastEvent
  <2>9. stdoutAt' # "sup" /\ (rpc' = "read" => stdoutAt' = "reader")
    BY <2>1 DEF PlumbingInv, PlacesInv
  <2>10. PlacesInv'
    BY <2>1, <2>9 DEF PlumbingInv, PlacesInv, Reading
  <2> QED
    BY <2>7, <2>8, <2>10 DEF PlumbingInv
<1>3. CASE SendFails
  <2>1. /\ rpc = "send" /\ rpc' = "done" /\ rhold' = NoEvent /\ stdoutAt' = "closed"
        /\ ~rx
        /\ UNCHANGED <<cur, chan, rreq, rx, pc, inflight, state, proc>>
    BY <1>3 DEF SendFails
  <2>2. KindsFit'
    BY <2>1, NoEventFits DEF PlumbingInv, KindsFit, KindFits
  <2>3. LastEvent'
    BY <2>1 DEF PlumbingInv, LastEvent
  <2>4. PlacesInv'
    BY <2>1 DEF PlumbingInv, PlacesInv, Reading
  <2> QED
    BY <2>2, <2>3, <2>4 DEF PlumbingInv
<1> QED
  BY <1>1, <1>2, <1>3 DEF ReaderStep

\* The child, the OS, the token, the deadline and the clock.
OutsideStep == ChildStep \/ KillLands \/ Cancel \/ DeadlineComes \/ Tick \/ UNCHANGED vars

\* Nothing outside the parent's threads touches its state, its reader or its
\* channel; a child that does not run does not come back.
LEMMA OutsideSteps ==
  ASSUME OutsideStep
  PROVE  /\ UNCHANGED <<cur, chan, rpc, rhold, rreq, rx, stdoutAt, gen, nextReq,
                        inflight, state, handle, pc, job, delivered, result>>
         /\ proc # "running" => proc' # "running"
         /\ proc' = "running" => proc = "running"
         /\ proc' = "killed" => proc = "killed"
         /\ proc \in {"killed", "zombie"} => proc' \in {"killed", "zombie"}
         /\ UNCHANGED <<inbox, pipe, work>> \/ ChildTakes \/ ChildTerminates
            \/ ChildClosesStdout
            \/ (\E kind \in EventKinds : ChildEmits(kind))
            \/ (\E kind \in {"response", "error"} : ChildResponds(kind))
<1> USE DEF supVars, callVars, childVars, readerVars, histVars
<1>1. CASE ChildTakes
  BY <1>1 DEF ChildTakes
<1>2. ASSUME NEW kind \in EventKinds, ChildEmits(kind)
      PROVE  UNCHANGED <<supVars, callVars, proc, stdoutAt, readerVars, histVars>>
  BY <1>2 DEF ChildEmits
<1>3. ASSUME NEW kind \in {"response", "error"}, ChildResponds(kind)
      PROVE  UNCHANGED <<supVars, callVars, proc, stdoutAt, readerVars, histVars>>
  BY <1>3 DEF ChildResponds
<1>4. CASE ChildTerminates
  BY <1>4 DEF ChildTerminates
<1>5. CASE ChildReturns \/ ChildLosesPipe \/ ChildCrashes \/ KillLands
  BY <1>5 DEF ChildReturns, ChildLosesPipe, ChildCrashes, KillLands, ChildExits
<1>6. CASE Cancel \/ DeadlineComes \/ Tick
  BY <1>6 DEF Cancel, DeadlineComes, Tick
<1>7. CASE UNCHANGED vars
  BY <1>7 DEF vars
<1>8. CASE ChildClosesStdout
  BY <1>8 DEF ChildClosesStdout
<1> QED
  BY <1>1, <1>2, <1>3, <1>4, <1>5, <1>6, <1>7, <1>8 DEF OutsideStep, ChildStep

\* Every step preserves PlumbingInv.
LEMMA PlumbingStep ==
  TypeOK /\ LifecycleInv /\ PlumbingInv /\ [Next]_vars => PlumbingInv'
<1> SUFFICES ASSUME TypeOK, LifecycleInv, PlumbingInv, [Next]_vars PROVE PlumbingInv'
  OBVIOUS
<1>1. CASE PublicCall
  BY <1>1, PublicPlumbing
<1>2. CASE CallStep
  BY <1>2, ReadLoopPlumbing, WaitPlumbing, AfterStopPlumbing DEF CallStep
<1>3. CASE ReaderStep
  BY <1>3, ReaderPlumbing
<1>4. CASE OutsideStep
  <2>1. /\ UNCHANGED <<cur, chan, rpc, rhold, rreq, rx, stdoutAt, inflight, state, pc>>
        /\ proc # "running" => proc' # "running"
        /\ proc' = "killed" => proc = "killed"
        /\ proc \in {"killed", "zombie"} => proc' \in {"killed", "zombie"}
    BY <1>4, OutsideSteps
  <2>2. KindsFit' /\ LastEvent'
    BY <2>1, SameChannel
  <2>3. PlacesInv'
    BY <2>1 DEF PlumbingInv, PlacesInv, Reading
  <2> QED
    BY <2>2, <2>3 DEF PlumbingInv
<1> QED
  BY <1>1, <1>2, <1>3, <1>4 DEF Next, OutsideStep

\* PlumbingInv holds in every reachable state.
THEOREM PlumbingSafe == Spec => []PlumbingInv
BY TypeCorrect, LifecycleSafe, PlumbingInit, PlumbingStep, PTL DEF Spec

-----------------------------------------------------------------------------
(* The frames of the request in flight                                     *)

\* The p-th frame of request r; a response counts those before it.
Numbered(f, r, p) == f.req = r /\ f.seq = IF IsResponse(f) THEN p - 1 ELSE p

\* How many frames of the request the caller took, the reader sent and the
\* reader read.
Taken == Len(delivered) + (IF pc = "event" THEN 1 ELSE 0)
Sent  == Taken + Len(chan)
Read  == Sent + (IF rpc = "send" THEN 1 ELSE 0)

\* Frames travel in order, none lost and none doubled.
Numbers ==
  /\ pc = "event" /\ cur.kind # "eof" => Numbered(cur.frame, inflight, Taken)
  /\ \A i \in 1..Len(chan) :
       chan[i].kind # "eof" => Numbered(chan[i].frame, inflight, Taken + i)
  /\ rpc = "send" /\ rhold.kind # "eof" => Numbered(rhold.frame, inflight, Sent + 1)

Current(e) == e.kind # "none" => e.gen = gen /\ e.req = inflight
AllCurrent == Current(cur) /\ Current(rhold) /\ \A i \in 1..Len(chan) : Current(chan[i])

TerminalSeen ==
  \/ cur.kind = "terminal"
  \/ rhold.kind = "terminal"
  \/ \E i \in 1..Len(chan) : chan[i].kind = "terminal"

\* A child with nothing left to read, to do or to be read.
Quiet == inbox = <<>> /\ pipe = <<>> /\ work \in {NoWork, Mute}

\* The child with request r, after n of its frames left the pipe: it has not
\* taken the request yet, it serves it, or its response is the pipe's last frame;
\* or it closed stdout at some point of that.
ToTake(r, n)  == inbox = <<r>> /\ work = NoWork /\ pipe = <<>> /\ n = 0
Serving(r, n) ==
  /\ inbox = <<>> /\ work.what = "serving" /\ work.req = r /\ work.sent = n + Len(pipe)
  /\ \A i \in 1..Len(pipe) : ~IsResponse(pipe[i])
Served(r, n) ==
  /\ inbox = <<>> /\ work = NoWork /\ Len(pipe) > 0 /\ IsResponse(pipe[Len(pipe)])
  /\ \A i \in 1..Len(pipe) : IsResponse(pipe[i]) => i = Len(pipe)
Muted ==
  /\ work = Mute
  /\ \A i \in 1..Len(pipe) : IsResponse(pipe[i]) => i = Len(pipe) /\ inbox = <<>>
Serves(r, n) ==
  /\ \A i \in 1..Len(pipe) : Numbered(pipe[i], r, n + i)
  /\ ToTake(r, n) \/ Serving(r, n) \/ Served(r, n) \/ Muted

StreamBody ==
  /\ Numbers
  /\ TerminalSeen => Quiet
  /\ rpc = "read" \/ (rpc = "send" /\ rhold.kind = "message") => Serves(inflight, Read)
  /\ AllCurrent

\* While a request is in flight, all that is on its way belongs to it.
StreamInv == pc \in Reading => StreamBody

\* The inductive invariant behind NothingLeftOver and ImplementsService.
SoundStream == PlumbingInv /\ StreamInv /\ QuietBetweenCalls

\* A fresh supervisor has nothing on its way.
LEMMA SoundInit == Init => SoundStream
BY PlumbingInit DEF Init, SoundStream, StreamInv, QuietBetweenCalls, Reading

\* The lengths in question are numbers.
LEMMA Lengths ==
  ASSUME TypeOK
  PROVE  /\ Len(delivered) \in Nat /\ Len(chan) \in Nat /\ Len(pipe) \in Nat
         /\ Taken \in Nat /\ Sent \in Nat /\ Read \in Nat
         /\ inflight \in Nat /\ gen \in Nat
<1>1. Len(delivered) \in Nat /\ Len(chan) \in Nat /\ Len(pipe) \in Nat /\ inflight \in Nat /\ gen \in Nat
  BY DEF TypeOK, HistType, ReaderType, ChildType, SupType
<1>2. Taken \in Nat
  BY <1>1 DEF Taken
<1>3. Sent \in Nat
  BY <1>1, <1>2 DEF Sent
<1>4. Read \in Nat
  BY <1>3 DEF Read
<1> QED
  BY <1>1, <1>2, <1>3, <1>4

\* A step that touches none of it.
LEMMA SameStream ==
  ASSUME StreamInv, pc \in Reading, pc' = "event" <=> pc = "event",
         UNCHANGED <<gen, inflight, cur, chan, rpc, rhold, delivered, inbox, pipe, work>>
  PROVE  StreamBody'
<1>1. Taken' = Taken /\ Sent' = Sent /\ Read' = Read
  BY DEF Taken, Sent, Read
<1>2. Numbers'
  BY <1>1 DEF StreamInv, StreamBody, Numbers, Numbered, IsResponse
<1>3. (TerminalSeen => Quiet)'
  BY DEF StreamInv, StreamBody, TerminalSeen, Quiet
<1>4. (rpc = "read" \/ (rpc = "send" /\ rhold.kind = "message") => Serves(inflight, Read))'
  BY <1>1
     DEF StreamInv, StreamBody, Serves, ToTake, Serving, Served, Muted, Numbered, IsResponse
<1>5. AllCurrent'
  BY DEF StreamInv, StreamBody, AllCurrent, Current
<1> QED
  BY <1>2, <1>3, <1>4, <1>5 DEF StreamBody

\* A request starts on a quiet child.
LEMMA RequestStream ==
  ASSUME TypeOK, LifecycleInv, SoundStream, NEW rec \in BOOLEAN, BeginRequest(rec)
  PROVE  StreamBody'
<1>1. /\ pc = "ready" /\ handle /\ proc # "zombie" /\ stdoutAt = "sup"
      /\ ~rejects_new_requests
      /\ inbox' = Append(inbox, nextReq) /\ inflight' = nextReq
      /\ rpc' = "read" /\ rhold' = NoEvent /\ chan' = <<>> /\ cur' = cur /\ pc' = "loop"
      /\ delivered' = <<>> /\ pipe' = pipe /\ work' = work
  BY DEF BeginRequest, SpawnReader
<1>2. proc = "running"
  BY <1>1 DEF rejects_new_requests, SoundStream, PlumbingInv, PlacesInv, LifecycleInv,
     HandleInv, TypeOK, ChildType
<1>3. inbox = <<>> /\ pipe = <<>> /\ work \in {NoWork, Mute}
  BY <1>1, <1>2 DEF SoundStream, QuietBetweenCalls
<1>4. inbox' = <<nextReq>>
  BY <1>1, <1>3
<1>5. cur = NoEvent
  BY <1>1 DEF SoundStream, PlumbingInv, PlacesInv
<1>6. Read' = 0 /\ Len(pipe') = 0
  BY <1>1, <1>3 DEF Read, Sent, Taken
<1>7. Serves(inflight, Read)'
  BY <1>1, <1>3, <1>4, <1>6 DEF Serves, ToTake, Muted
<1>8. Numbers'
  BY <1>1 DEF Numbers
<1>9. AllCurrent' /\ ~TerminalSeen'
  BY <1>1, <1>5 DEF AllCurrent, Current, TerminalSeen, NoEvent
<1> QED
  BY <1>7, <1>8, <1>9 DEF StreamBody

\* The caller takes the first event of the channel.
LEMMA ReceiveStream ==
  ASSUME TypeOK, LifecycleInv, SoundStream, Receive
  PROVE  StreamBody'
<1>1. chan \in Seq(EventType) /\ chan # <<>>
  BY DEF Receive, TypeOK, ReaderType
<1>2. /\ cur' = chan[1] /\ Len(chan) \in Nat \ {0} /\ chan' = Tail(chan)
      /\ Len(chan') = Len(chan) - 1 /\ \A i \in 1..Len(chan') : chan'[i] = chan[i + 1]
  BY <1>1 DEF Receive
<1>3. /\ pc \in Reading /\ pc # "event" /\ pc' = "event"
      /\ UNCHANGED <<gen, inflight, rpc, rhold, delivered, inbox, pipe, work>>
  BY DEF Receive, Reading, supVars, childVars, histVars
<1>4. StreamBody
  BY <1>3 DEF SoundStream, StreamInv
<1>5. Taken' = Taken + 1 /\ Sent' = Sent /\ Read' = Read
      /\ Taken \in Nat /\ Sent \in Nat
  <2>1. Len(delivered) \in Nat
    BY Lengths
  <2> QED
    BY <1>2, <1>3, <2>1 DEF Taken, Sent, Read
<1>6. \A i \in 1..Len(chan) : chan[i].kind # "eof" => Numbered(chan[i].frame, inflight, Taken + i)
  BY <1>4 DEF StreamBody, Numbers
<1>7. 1 \in 1..Len(chan) /\ \A i \in 1..Len(chan') : i + 1 \in 1..Len(chan) /\ Taken + (i + 1) = Taken' + i
  BY <1>2, <1>5
<1>8. Numbers'
  <2>1. cur'.kind # "eof" => Numbered(cur'.frame, inflight', Taken')
    BY <1>2, <1>3, <1>5, <1>6, <1>7
  <2>2. \A i \in 1..Len(chan') :
          chan'[i].kind # "eof" => Numbered(chan'[i].frame, inflight', Taken' + i)
    BY <1>2, <1>3, <1>6, <1>7
  <2>3. rpc' = "send" /\ rhold'.kind # "eof" => Numbered(rhold'.frame, inflight', Sent' + 1)
    BY <1>3, <1>4, <1>5 DEF StreamBody, Numbers
  <2> QED
    BY <2>1, <2>2, <2>3 DEF Numbers, Numbered, IsResponse
<1>9. (TerminalSeen => Quiet)'
  <2>1. TerminalSeen' => TerminalSeen
    BY <1>2, <1>3, <1>7 DEF TerminalSeen
  <2> QED
    BY <1>3, <1>4, <2>1 DEF StreamBody, Quiet
<1>10. (rpc = "read" \/ (rpc = "send" /\ rhold.kind = "message") => Serves(inflight, Read))'
  BY <1>3, <1>4, <1>5
     DEF StreamBody, Serves, ToTake, Serving, Served, Muted, Numbered, IsResponse
<1>11. AllCurrent'
  BY <1>2, <1>3, <1>4, <1>7 DEF StreamBody, AllCurrent, Current
<1> QED
  BY <1>8, <1>9, <1>10, <1>11 DEF StreamBody

\* The frame at hand becomes the last one delivered.
LEMMA DeliverStream ==
  ASSUME TypeOK, LifecycleInv, SoundStream, DeliverEvent, pc' \in Reading
  PROVE  StreamBody'
<1>1. ~BeginRestart("kill", "cancelled", TRUE)
  <2> SUFFICES ASSUME BeginRestart("kill", "cancelled", TRUE) PROVE FALSE
    OBVIOUS
  <2>1. pc' \in {"stopped", "grace", "stopfailed", "killwait"}
    BY DEF BeginRestart, StopAlreadyExited, StopGraceful, StopWriteFails, StopKill
  <2> QED
    BY <2>1 DEF Reading
<1>2. /\ pc = "event" /\ pc \in Reading /\ pc' = "loop" /\ cur' = NoEvent
      /\ delivered' = Append(delivered, cur.frame)
      /\ UNCHANGED <<gen, inflight, chan, rpc, rhold, inbox, pipe, work>>
  BY <1>1 DEF DeliverEvent, Reading, childVars, readerVars
<1>3. StreamBody
  BY <1>2 DEF SoundStream, StreamInv
<1>4. Taken' = Taken /\ Sent' = Sent /\ Read' = Read
  <2>1. delivered \in Seq(FrameType) /\ cur.frame \in FrameType
    BY CurFrame DEF TypeOK, HistType
  <2>2. Len(delivered') = Len(delivered) + 1 /\ Len(delivered) \in Nat
    BY <1>2, <2>1
  <2> QED
    BY <1>2, <2>2 DEF Taken, Sent, Read
<1>5. Numbers'
  BY <1>2, <1>3, <1>4 DEF StreamBody, Numbers, Numbered, IsResponse
<1>6. (TerminalSeen => Quiet)'
  BY <1>2, <1>3 DEF StreamBody, TerminalSeen, Quiet, NoEvent
<1>7. (rpc = "read" \/ (rpc = "send" /\ rhold.kind = "message") => Serves(inflight, Read))'
  BY <1>2, <1>3, <1>4
     DEF StreamBody, Serves, ToTake, Serving, Served, Muted, Numbered, IsResponse
<1>8. AllCurrent'
  BY <1>2, <1>3 DEF StreamBody, AllCurrent, Current, NoEvent
<1> QED
  BY <1>5, <1>6, <1>7, <1>8 DEF StreamBody

\* The reader takes the pipe's first frame, or finds its end.
LEMMA ReadStream ==
  ASSUME TypeOK, LifecycleInv, SoundStream, ReadFrame, pc \in Reading
  PROVE  StreamBody'
<1>1. /\ rpc = "read" /\ rpc' = "send"
      /\ UNCHANGED <<pc, gen, inflight, cur, chan, delivered, inbox, work>>
  BY DEF ReadFrame, supVars, callVars, histVars
<1>2. StreamBody /\ rhold = NoEvent
  BY <1>1 DEF SoundStream, StreamInv, PlumbingInv, PlacesInv
<1>3. Serves(inflight, Read) /\ Numbers /\ AllCurrent /\ (TerminalSeen => Quiet)
  BY <1>1, <1>2 DEF StreamBody
<1>4. /\ Read = Sent /\ Taken' = Taken /\ Sent' = Sent /\ Read' = Sent + 1
      /\ Sent \in Nat /\ Len(pipe) \in Nat
  BY <1>1, Lengths DEF Read, Sent, Taken
<1>5. rreq = inflight
  BY DEF SoundStream, PlumbingInv, PlacesInv
<1>6. CASE pipe = <<>>
  <2>1. rhold' = Event("eof", NoFrame) /\ pipe' = pipe
    BY <1>6 DEF ReadFrame
  <2>2. rhold'.kind = "eof" /\ rhold'.gen = gen /\ rhold'.req = inflight
    BY <1>5, <2>1 DEF Event
  <2>3. Numbers'
    BY <1>1, <1>3, <1>4, <2>2 DEF Numbers, Numbered, IsResponse
  <2>4. AllCurrent'
    BY <1>1, <1>3, <2>2 DEF AllCurrent, Current
  <2>5. (TerminalSeen => Quiet)'
    BY <1>1, <1>3, <2>1, <2>2 DEF TerminalSeen, Quiet
  <2> QED
    BY <1>1, <2>2, <2>3, <2>4, <2>5 DEF StreamBody
<1>7. CASE pipe # <<>>
  <2> DEFINE f == pipe[1]
             k == IF IsResponse(f) THEN "terminal" ELSE IF f.kind = "garbage" THEN "readerror" ELSE "message"
  <2>1. pipe \in Seq(FrameType)
    BY DEF TypeOK, ChildType
  <2>2. /\ rhold' = Event(k, f) /\ pipe' = Tail(pipe) /\ Len(pipe) \in Nat \ {0}
        /\ Len(pipe') = Len(pipe) - 1 /\ \A i \in 1..Len(pipe') : pipe'[i] = pipe[i + 1]
    BY <1>7, <2>1 DEF ReadFrame
  <2>3. /\ rhold'.kind = k /\ rhold'.gen = gen /\ rhold'.req = inflight
        /\ rhold'.frame = f
    BY <1>5, <2>2 DEF Event
  <2>4. 1 \in 1..Len(pipe) /\ Numbered(f, inflight, Sent + 1)
    BY <1>3, <1>4, <2>2 DEF Serves
  <2>5. Numbers'
    BY <1>1, <1>3, <1>4, <2>3, <2>4 DEF Numbers, Numbered, IsResponse
  <2>6. AllCurrent'
    BY <1>1, <1>3, <2>3 DEF AllCurrent, Current
  <2>7. ~TerminalSeen
    <3> SUFFICES ASSUME TerminalSeen PROVE FALSE
      OBVIOUS
    <3>1. Quiet
      BY <1>3
    <3> QED
      BY <1>7, <3>1 DEF Quiet
  <2>8. (TerminalSeen => Quiet)'
    <3> SUFFICES ASSUME rhold'.kind = "terminal" PROVE Quiet'
      BY <1>1, <2>7 DEF TerminalSeen
    <3>1. IsResponse(f)
      BY <2>3
    <3>2. ~ToTake(inflight, Read)
      BY <1>7 DEF ToTake
    <3>3. ~Serving(inflight, Read)
      BY <2>4, <3>1 DEF Serving
    <3>4. Served(inflight, Read) \/ Muted
      BY <1>3, <3>2, <3>3 DEF Serves
    <3>5. Len(pipe) = 1 /\ inbox = <<>>
      BY <2>4, <3>1, <3>4 DEF Served, Muted
    <3>6. pipe' = <<>>
      BY <2>1, <2>2, <3>5
    <3> QED
      BY <1>1, <3>4, <3>5, <3>6 DEF Served, Muted, Quiet
  <2>9. rhold'.kind = "message" => Serves(inflight, Sent + 1)'
    <3> SUFFICES ASSUME ~IsResponse(f) PROVE Serves(inflight, Sent + 1)'
      BY <2>3
    <3>1. \A i \in 1..Len(pipe') : /\ i + 1 \in 1..Len(pipe) /\ pipe'[i] = pipe[i + 1]
                                   /\ Sent + (i + 1) = (Sent + 1) + i
      BY <1>4, <2>2
    <3>2. \A i \in 1..Len(pipe) : Numbered(pipe[i], inflight, Sent + i)
      BY <1>3, <1>4 DEF Serves
    <3>3. \A i \in 1..Len(pipe') : Numbered(pipe'[i], inflight, (Sent + 1) + i)
      BY <3>1, <3>2
    <3>4. CASE Serving(inflight, Sent)
      <4>1. /\ inbox' = <<>> /\ work'.what = "serving" /\ work'.req = inflight
            /\ work.sent = Sent + Len(pipe) /\ work'.sent = work.sent
        BY <1>1, <3>4 DEF Serving
      <4>2. Sent + Len(pipe) = (Sent + 1) + Len(pipe')
        BY <1>4, <2>2
      <4>3. \A i \in 1..Len(pipe') : ~IsResponse(pipe'[i])
        BY <3>1, <3>4 DEF Serving
      <4> QED
        BY <1>1, <1>4, <3>3, <4>1, <4>2, <4>3 DEF Serves, Serving, Numbered, IsResponse
    <3>5. CASE Served(inflight, Sent)
      <4>1. Len(pipe) # 1
        BY <3>5 DEF Served
      <4>2. Len(pipe') > 0 /\ Len(pipe') \in 1..Len(pipe') /\ Len(pipe') + 1 = Len(pipe)
        BY <2>2, <4>1
      <4>3. IsResponse(pipe'[Len(pipe')])
        BY <3>1, <3>5, <4>2 DEF Served
      <4>4. \A i \in 1..Len(pipe') : IsResponse(pipe'[i]) => i + 1 = Len(pipe)
        BY <3>1, <3>5 DEF Served
      <4>5. \A i \in 1..Len(pipe') : IsResponse(pipe'[i]) => i = Len(pipe')
        <5>1. Len(pipe') = Len(pipe) - 1 /\ Len(pipe) \in Nat
          BY <2>2
        <5>2. \A i \in 1..Len(pipe') : i + 1 = Len(pipe) => i = Len(pipe')
          BY <5>1
        <5> QED
          BY <4>4, <5>2
      <4>6. inbox' = <<>> /\ work' = NoWork
        BY <1>1, <3>5 DEF Served
      <4> QED
        BY <1>1, <1>4, <3>3, <4>2, <4>3, <4>5, <4>6
           DEF Serves, Served, Numbered, IsResponse
    <3>6. CASE Muted
      <4>1. work' = Mute
        BY <1>1, <3>6 DEF Muted
      <4>2. \A i \in 1..Len(pipe') : IsResponse(pipe'[i]) => i + 1 = Len(pipe) /\ inbox = <<>>
        BY <3>1, <3>6 DEF Muted
      <4>3. Len(pipe') = Len(pipe) - 1 /\ Len(pipe) \in Nat
        BY <2>2
      <4>4. \A i \in 1..Len(pipe') : i + 1 = Len(pipe) => i = Len(pipe')
        BY <4>3
      <4>5. \A i \in 1..Len(pipe') : IsResponse(pipe'[i]) => i = Len(pipe') /\ inbox' = <<>>
        BY <1>1, <4>2, <4>4
      <4> QED
        BY <1>1, <1>4, <3>3, <4>1, <4>5 DEF Serves, Muted, Numbered, IsResponse
    <3> QED
      BY <1>3, <1>4, <1>7, <3>4, <3>5, <3>6 DEF Serves, ToTake
  <2> QED
    BY <1>1, <1>4, <2>5, <2>6, <2>8, <2>9 DEF StreamBody
<1> QED
  BY <1>6, <1>7

\* The reader hands its event over; the last one ends its reading.
LEMMA SendStream ==
  ASSUME TypeOK, LifecycleInv, SoundStream, SendEvent, pc \in Reading
  PROVE  StreamBody'
<1>1. /\ rpc = "send" /\ rhold' = NoEvent /\ chan' = Append(chan, rhold)
      /\ rpc' = IF rhold.kind = "message" THEN "read" ELSE "done"
      /\ UNCHANGED <<pc, gen, inflight, cur, delivered, inbox, pipe, work>>
  BY DEF SendEvent, supVars, callVars, childVars, histVars
<1>2. StreamBody
  BY DEF SoundStream, StreamInv
<1>3. chan \in Seq(EventType) /\ rhold \in EventType
  BY DEF TypeOK, ReaderType
<1>4. /\ Len(chan) \in Nat /\ Len(chan') = Len(chan) + 1 /\ chan'[Len(chan) + 1] = rhold
      /\ \A i \in 1..Len(chan) : chan'[i] = chan[i]
  BY <1>1, <1>3
<1>5. \A i \in 1..Len(chan') : i \in 1..Len(chan) \/ i = Len(chan) + 1
  BY <1>4
<1>6. Taken' = Taken /\ Sent = Taken + Len(chan) /\ Sent' = Sent + 1 /\ Read = Sent + 1
      /\ Taken \in Nat /\ Sent \in Nat
  <2>1. Taken' = Taken /\ Taken \in Nat /\ Sent \in Nat
    BY <1>1, Lengths DEF Taken
  <2>2. Sent' = Sent + 1
    BY <1>4, <2>1 DEF Sent
  <2> QED
    BY <1>1, <2>1, <2>2 DEF Sent, Read
<1>7. Numbers'
  <2>1. \A i \in 1..Len(chan') : chan'[i].kind # "eof" => Numbered(chan'[i].frame, inflight, Taken + i)
    <3> SUFFICES ASSUME NEW i \in 1..Len(chan'), chan'[i].kind # "eof"
                 PROVE  Numbered(chan'[i].frame, inflight, Taken + i)
      OBVIOUS
    <3>1. CASE i \in 1..Len(chan)
      BY <1>2, <1>4, <3>1 DEF StreamBody, Numbers
    <3>2. CASE i = Len(chan) + 1
      <4>1. Taken + i = Sent + 1 /\ chan'[i] = rhold
        BY <1>4, <1>6, <3>2
      <4> QED
        BY <1>1, <1>2, <4>1 DEF StreamBody, Numbers
    <3> QED
      BY <1>5, <3>1, <3>2
  <2>2. pc' = "event" /\ cur'.kind # "eof" => Numbered(cur'.frame, inflight, Taken)
    BY <1>1, <1>2 DEF StreamBody, Numbers
  <2> QED
    BY <1>1, <1>6, <2>1, <2>2 DEF Numbers, Numbered, IsResponse
<1>8. (TerminalSeen => Quiet)'
  <2>1. TerminalSeen' => TerminalSeen
    BY <1>1, <1>4, <1>5 DEF TerminalSeen, NoEvent
  <2> QED
    BY <1>1, <1>2, <2>1 DEF StreamBody, Quiet
<1>9. (rpc = "read" \/ (rpc = "send" /\ rhold.kind = "message") => Serves(inflight, Read))'
  <2> SUFFICES ASSUME rpc' # "done" PROVE Serves(inflight, Read)'
    BY <1>1
  <2>1. rhold.kind = "message" /\ rpc' = "read"
    BY <1>1
  <2>2. Serves(inflight, Read) /\ Read' = Read
    BY <1>1, <1>2, <1>6, <2>1 DEF StreamBody, Read
  <2> QED
    BY <1>1, <2>2 DEF Serves, ToTake, Serving, Served, Muted, Numbered, IsResponse
<1>10. AllCurrent'
  <2>1. Current(cur)' /\ Current(rhold)'
    BY <1>1, <1>2 DEF StreamBody, AllCurrent, Current, NoEvent
  <2>2. \A i \in 1..Len(chan') : chan'[i].kind # "none" => chan'[i].gen = gen /\ chan'[i].req = inflight
    BY <1>2, <1>4, <1>5 DEF StreamBody, AllCurrent, Current
  <2> QED
    BY <1>1, <2>1, <2>2 DEF AllCurrent, Current
<1> QED
  BY <1>7, <1>8, <1>9, <1>10 DEF StreamBody

\* The child takes the request, writes a frame, or answers.
LEMMA ChildStream ==
  ASSUME TypeOK, LifecycleInv, SoundStream, OutsideStep, pc \in Reading
  PROVE  StreamBody'
<1>1. UNCHANGED <<pc, gen, inflight, cur, chan, rpc, rhold, delivered>>
  BY OutsideSteps
<1>2. StreamBody
  BY DEF SoundStream, StreamInv
<1>3. Taken' = Taken /\ Sent' = Sent /\ Read' = Read /\ Read \in Nat /\ Len(pipe) \in Nat
  BY <1>1, Lengths DEF Taken, Sent, Read
<1>4. pipe \in Seq(FrameType) /\ inbox \in Seq(Nat) /\ inflight \in Nat /\ inflight # NoReq
  BY DEF TypeOK, ChildType, SupType, SoundStream, PlumbingInv, PlacesInv
<1>5. Numbers' /\ AllCurrent' /\ (TerminalSeen' <=> TerminalSeen)
  <2>1. Numbers'
    BY <1>1, <1>2, <1>3 DEF StreamBody, Numbers, Numbered, IsResponse
  <2>2. AllCurrent'
    BY <1>1, <1>2 DEF StreamBody, AllCurrent, Current
  <2> QED
    BY <1>1, <2>1, <2>2 DEF TerminalSeen
<1>6. CASE UNCHANGED <<inbox, pipe, work>>
  BY <1>1, <1>6, SameStream DEF SoundStream
<1>8. CASE ChildClosesStdout
  <2>1. inbox' = inbox /\ pipe' = pipe /\ work' = Mute
    BY <1>8 DEF ChildClosesStdout
  <2>2. Quiet => Quiet'
    BY <2>1 DEF Quiet
  <2>3. ASSUME Serves(inflight, Read) PROVE Serves(inflight, Read)'
    <3>1. \A i \in 1..Len(pipe) : IsResponse(pipe[i]) => i = Len(pipe) /\ inbox = <<>>
      BY <2>3 DEF Serves, ToTake, Serving, Served, Muted
    <3> QED
      BY <1>1, <1>3, <2>1, <2>3, <3>1 DEF Serves, Muted, Numbered, IsResponse
  <2> QED
    BY <1>1, <1>2, <1>3, <1>5, <2>2, <2>3 DEF StreamBody
<1>7. CASE ~UNCHANGED <<inbox, pipe, work>> /\ ~ChildClosesStdout
  <2>1. \/ ChildTakes \/ ChildTerminates
        \/ \E kind \in EventKinds : ChildEmits(kind)
        \/ \E kind \in {"response", "error"} : ChildResponds(kind)
    BY <1>7, OutsideSteps
  <2>2. ~Quiet
    BY <2>1 DEF Quiet, ChildTakes, ChildTerminates, ChildEmits, ChildResponds, NoWork, Mute
  <2>3. ~TerminalSeen'
    BY <1>2, <1>5, <2>2 DEF StreamBody
  <2>4. ASSUME Serves(inflight, Read) PROVE Serves(inflight, Read)'
    <3>1. work.what # "terminating"
      BY <2>4 DEF Serves, ToTake, Serving, Served, Muted, NoWork, Mute
    <3>2. CASE ChildTakes
      <4>1. inbox # <<>> /\ work.what = "idle" /\ pipe' = pipe /\ inbox' = Tail(inbox)
            /\ work' = [what |-> IF Head(inbox) = Terminate THEN "terminating" ELSE "serving",
                        req |-> Head(inbox), sent |-> 0]
        BY <3>2 DEF ChildTakes
      <4>2. inbox = <<inflight>> /\ pipe = <<>> /\ Read = 0
        BY <2>4, <4>1 DEF Serves, ToTake, Serving, Served, Muted, NoWork, Mute
      <4>3. Head(inbox) = inflight /\ Tail(inbox) = <<>> /\ Head(inbox) # Terminate
        BY <1>4, <4>2 DEF Terminate, NoReq
      <4>4. inbox' = <<>> /\ work'.what = "serving" /\ work'.req = inflight /\ work'.sent = 0
            /\ pipe' = <<>> /\ Len(pipe') = 0
        BY <4>1, <4>2, <4>3
      <4> QED
        BY <1>1, <1>3, <4>2, <4>4 DEF Serves, Serving
    <3>3. ASSUME NEW kind \in EventKinds, ChildEmits(kind) PROVE Serves(inflight, Read)'
      <4> DEFINE f == Frame(kind, work.req, work.sent + 1)
      <4>1. work.what = "serving" /\ inbox' = inbox /\ pipe' = Append(pipe, f)
            /\ work' = [work EXCEPT !.sent = @ + 1]
        BY <3>3 DEF ChildEmits
      <4>2. Serving(inflight, Read)
        BY <2>4, <4>1 DEF Serves, ToTake, Served, Muted, NoWork, Mute
      <4>3. inbox = <<>> /\ work.req = inflight /\ work.sent = Read + Len(pipe)
        BY <4>2 DEF Serving
      <4>4. ~IsResponse(f) /\ f.req = inflight /\ f.seq = Read + (Len(pipe) + 1)
        BY <1>3, <3>3, <4>3, SwitchAssumption DEF Frame, IsResponse
      <4>5. work \in WorkType
        BY DEF TypeOK, ChildType
      <4>6. work'.what = "serving" /\ work'.req = inflight /\ work'.sent = Read + (Len(pipe) + 1)
        BY <1>3, <4>1, <4>3, <4>5 DEF WorkType
      <4>7. f \in FrameType
        BY <3>3, <4>5, FrameInType DEF WorkType
      <4> HIDE DEF f
      <4>8. /\ Len(pipe') = Len(pipe) + 1 /\ pipe'[Len(pipe) + 1] = f
            /\ \A i \in 1..Len(pipe) : pipe'[i] = pipe[i]
            /\ \A i \in 1..Len(pipe') : i \in 1..Len(pipe) \/ i = Len(pipe) + 1
        BY <1>4, <4>1, <4>7
      <4>9. Numbered(f, inflight, Read + (Len(pipe) + 1))
        BY <4>4 DEF Numbered
      <4>10. \A i \in 1..Len(pipe') : Numbered(pipe'[i], inflight, Read + i)
        BY <2>4, <4>8, <4>9 DEF Serves
      <4>11. \A i \in 1..Len(pipe') : ~IsResponse(pipe'[i])
        BY <4>2, <4>4, <4>8 DEF Serving
      <4> QED
        BY <1>1, <1>3, <4>1, <4>3, <4>6, <4>8, <4>10, <4>11
           DEF Serves, Serving, Numbered, IsResponse
    <3>4. ASSUME NEW kind \in {"response", "error"}, ChildResponds(kind) PROVE Serves(inflight, Read)'
      <4> DEFINE f == Frame(kind, work.req, work.sent)
      <4>1. work.what = "serving" /\ inbox' = inbox /\ pipe' = Append(pipe, f) /\ work' = NoWork
        BY <3>4 DEF ChildResponds
      <4>2. Serving(inflight, Read)
        BY <2>4, <4>1 DEF Serves, ToTake, Served, Muted, NoWork, Mute
      <4>3. inbox = <<>> /\ work.req = inflight /\ work.sent = Read + Len(pipe)
        BY <4>2 DEF Serving
      <4>4. IsResponse(f) /\ f.req = inflight /\ f.seq = (Read + (Len(pipe) + 1)) - 1
        BY <1>3, <3>4, <4>3 DEF Frame, IsResponse
      <4>5. work \in WorkType
        BY DEF TypeOK, ChildType
      <4>7. f \in FrameType
        BY <3>4, <4>5, FrameInType DEF WorkType
      <4> HIDE DEF f
      <4>8. /\ Len(pipe') = Len(pipe) + 1 /\ pipe'[Len(pipe) + 1] = f
            /\ \A i \in 1..Len(pipe) : pipe'[i] = pipe[i]
            /\ \A i \in 1..Len(pipe') : i \in 1..Len(pipe) \/ i = Len(pipe) + 1
        BY <1>4, <4>1, <4>7
      <4>9. Numbered(f, inflight, Read + (Len(pipe) + 1))
        BY <4>4 DEF Numbered
      <4>10. \A i \in 1..Len(pipe') : Numbered(pipe'[i], inflight, Read + i)
        BY <2>4, <4>8, <4>9 DEF Serves
      <4>11. \A i \in 1..Len(pipe') : IsResponse(pipe'[i]) => i = Len(pipe')
        BY <4>2, <4>8 DEF Serving
      <4>12. Len(pipe') > 0 /\ IsResponse(pipe'[Len(pipe')])
        BY <1>3, <4>4, <4>8
      <4> QED
        BY <1>1, <1>3, <4>1, <4>3, <4>10, <4>11, <4>12
           DEF Serves, Served, Numbered, IsResponse
    <3>5. ~ChildTerminates
      BY <3>1 DEF ChildTerminates
    <3> QED
      BY <2>1, <3>2, <3>3, <3>4, <3>5
  <2> QED
    BY <1>1, <1>2, <1>3, <1>5, <2>3, <2>4 DEF StreamBody
<1> QED
  BY <1>6, <1>7, <1>8

-----------------------------------------------------------------------------

\* Ways into shutdown_child leave the read loop.
LEMMA StopsLeaveLoop ==
  ASSUME NEW j, StopAlreadyExited(j) \/ StopGraceful(j) \/ StopWriteFails(j) \/ StopKill(j)
  PROVE  pc' \in {"stopped", "grace", "stopfailed", "killwait"} /\ inflight' = NoReq
BY DEF StopAlreadyExited, StopGraceful, StopWriteFails, StopKill, ObserveExit,
       FinalizeChildExit

\* A restart leaves the read loop.
LEMMA RestartsLeaveLoop ==
  ASSUME NEW intent, NEW ret, NEW reading, BeginRestart(intent, ret, reading)
  PROVE  /\ pc' \in {"stopped", "grace", "stopfailed", "killwait"} /\ inflight' = NoReq
         /\ UNCHANGED <<gen, nextReq>>
<1> DEFINE j == Job("restart", ret, reading)
<1>1. /\ StopAlreadyExited(j) \/ StopGraceful(j) \/ StopWriteFails(j) \/ StopKill(j)
      /\ UNCHANGED <<gen, nextReq>>
  BY DEF BeginRestart
<1> HIDE DEF j
<1> QED
  BY <1>1, StopsLeaveLoop

\* So do shutdown() and Drop.
LEMMA EndsLeaveLoop ==
  ASSUME NEW after, Stop(after)
  PROVE  /\ pc' \in {"stopped", "grace", "stopfailed", "killwait"} /\ inflight' = NoReq
         /\ UNCHANGED <<gen, nextReq, delivered, result>>
<1> DEFINE j == Job(after, "stopped", FALSE)
<1>1. /\ StopAlreadyExited(j) \/ StopGraceful(j) \/ StopWriteFails(j)
      /\ UNCHANGED <<gen, nextReq, delivered, result>>
  BY DEF Stop, histVars
<1> HIDE DEF j
<1> QED
  BY <1>1, StopsLeaveLoop

\* The calls that stay in, or enter, the read loop.
LoopStep == AwaitEvent \/ AwaitEventUnbounded \/ RssSampleDue

\* Only these steps leave the caller in the read loop.
LEMMA WhoReads ==
  ASSUME [Next]_vars, pc' \in Reading
  PROVE  \/ \E rec \in BOOLEAN : BeginRequest(rec)
         \/ pc \in Reading /\ (LoopStep \/ Receive \/ DeliverEvent \/ ReaderStep \/ OutsideStep)
<1>1. pc' \in {"loop", "recv", "recvForever", "event"}
  BY DEF Reading
<1>2. \A intent, ret, reading : ~BeginRestart(intent, ret, reading)
  BY <1>1, RestartsLeaveLoop
<1>3. \A after : ~Stop(after)
  BY <1>1, EndsLeaveLoop
<1>4. CASE PublicCall
  <2>1. ~Status /\ ~RequestWriteFails
    BY <1>1 DEF Status, RequestWriteFails, callVars
  <2>2. \A rec \in BOOLEAN : ~RequestWithoutStdout(rec)
    BY <1>1, <1>2 DEF RequestWithoutStdout, callVars
  <2>3. ~Cycle /\ ~Shutdown /\ ~(pc = "ready" /\ Drop)
    BY <1>2, <1>3 DEF Cycle, Shutdown, Drop
  <2> QED
    BY <1>4, <2>1, <2>2, <2>3 DEF PublicCall
<1>5. CASE CallStep
  <2>1. ~HardRssKill /\ ~RequestTimeout /\ ~(pc = "dropping" /\ Drop)
    BY <1>2, <1>3 DEF HardRssKill, RequestTimeout, Drop
  <2>2. ~(SinkPanic \/ TerminalResponse \/ ReadError \/ ReadEof \/ Reap)
    BY <1>1 DEF SinkPanic, TerminalResponse, ReadError, ReadEof, Reap
  <2>3. ~(GraceChildExited \/ GraceTimeout \/ GraceJoin \/ GraceEvent)
    BY <1>1 DEF GraceChildExited, GraceTimeout, GraceJoin, GraceEvent
  <2>4. ~(ExitSeen \/ ExitWaitTimeout \/ KillWaitTimeout \/ RestartStopFailed \/ BeforeSpawn)
    BY <1>1
       DEF ExitSeen, ExitWaitTimeout, KillWaitTimeout, RestartStopFailed, BeforeSpawn
  <2>5. ~(RestartRefused \/ RestartSpawnFailed \/ RestartSpawned \/ Dropped \/ ShutdownReturns)
    BY <1>1
       DEF RestartRefused, RestartSpawnFailed, RestartSpawned, Dropped, ShutdownReturns
  <2>6. LoopStep \/ Receive \/ DeliverEvent
    BY <1>5, <2>1, <2>2, <2>3, <2>4, <2>5 DEF CallStep, LoopStep
  <2> QED
    BY <2>6
       DEF LoopStep, AwaitEvent, AwaitEventUnbounded, RssSampleDue, Receive,
           DeliverEvent, Reading
<1>6. CASE ReaderStep
  BY <1>6 DEF ReaderStep, ReadFrame, SendEvent, SendFails, callVars
<1>7. CASE OutsideStep
  BY <1>7, OutsideSteps
<1> QED
  BY <1>4, <1>5, <1>6, <1>7 DEF Next, OutsideStep

\* Every step preserves StreamInv.
LEMMA StreamStep ==
  TypeOK /\ LifecycleInv /\ SoundStream /\ [Next]_vars => StreamInv'
<1> SUFFICES ASSUME TypeOK, LifecycleInv, SoundStream, [Next]_vars, pc' \in Reading
             PROVE  StreamBody'
  BY DEF StreamInv
<1>1. CASE \E rec \in BOOLEAN : BeginRequest(rec)
  BY <1>1, RequestStream
<1>2. CASE pc \in Reading /\ LoopStep
  <2>1. StreamInv
    BY DEF SoundStream
  <2>2. /\ pc # "event" /\ pc' # "event"
        /\ UNCHANGED <<gen, inflight, cur, chan, rpc, rhold, delivered, inbox, pipe, work>>
    BY <1>2 DEF LoopStep, AwaitEvent, AwaitEventUnbounded, RssSampleDue, supVars,
       childVars, readerVars, histVars
  <2> QED
    BY <1>2, <2>1, <2>2, SameStream
<1>3. CASE Receive
  BY <1>3, ReceiveStream
<1>4. CASE DeliverEvent
  BY <1>4, DeliverStream
<1>5. CASE pc \in Reading /\ ReaderStep
  <2>1. ~SendFails
    BY <1>5 DEF SendFails, SoundStream, PlumbingInv, PlacesInv
  <2> QED
    BY <1>5, <2>1, ReadStream, SendStream DEF ReaderStep
<1>6. CASE pc \in Reading /\ OutsideStep
  BY <1>6, ChildStream
<1> QED
  BY <1>1, <1>2, <1>3, <1>4, <1>5, <1>6, WhoReads

\* When a call returns with stdout in hand and a running child, the child is
\* quiet: the answer that came back was its last frame, or it is a new child.
LEMMA QuietStep ==
  TypeOK /\ LifecycleInv /\ SoundStream /\ [Next]_vars => QuietBetweenCalls'
<1> SUFFICES ASSUME TypeOK, LifecycleInv, SoundStream, [Next]_vars,
                    pc' \in {"ready", "dropping"}, stdoutAt' = "sup", proc' = "running"
             PROVE  inbox' = <<>> /\ pipe' = <<>> /\ work' \in {NoWork, Mute}
  BY DEF QuietBetweenCalls
<1> USE DEF supVars, callVars, childVars, readerVars, histVars
<1>1. pc \in {"ready", "dropping"} /\ stdoutAt = "sup" /\ proc = "running" => Quiet
  BY DEF SoundStream, QuietBetweenCalls, Quiet
<1>2. \A intent, ret, reading : ~BeginRestart(intent, ret, reading)
  BY RestartsLeaveLoop
<1>3. \A after : ~Stop(after)
  BY EndsLeaveLoop
<1>4. handle <=> proc # "reaped"
  BY DEF LifecycleInv, HandleInv
<1>5. CASE PublicCall
  <2>1. ~Status
    BY <1>4 DEF Status, ObserveExit, FinalizeChildExit
  <2>2. \A rec \in BOOLEAN : ~BeginRequest(rec) /\ ~RequestWithoutStdout(rec)
    BY <1>2 DEF BeginRequest, RequestWithoutStdout
  <2>3. ~RequestWriteFails
    BY DEF RequestWriteFails
  <2>4. ~Cycle /\ ~Shutdown /\ ~(pc = "ready" /\ Drop)
    BY <1>2, <1>3 DEF Cycle, Shutdown, Drop
  <2> QED
    BY <1>5, <2>1, <2>2, <2>3, <2>4 DEF PublicCall
<1>6. CASE CallStep
  <2>1. CASE TerminalResponse
    <3>1. pc \in Reading /\ cur.kind = "terminal" /\ UNCHANGED <<inbox, pipe, work>>
      BY <2>1 DEF TerminalResponse, Reading
    <3>2. Quiet
      BY <3>1 DEF SoundStream, StreamInv, StreamBody, TerminalSeen
    <3> QED
      BY <3>1, <3>2 DEF Quiet
  <2>2. CASE RestartSpawned
    BY <2>2 DEF RestartSpawned
  <2>3. CASE SinkPanic \/ ReadError
    <3>1. pc \in Reading /\ stdoutAt' \in {stdoutAt, "closed"}
      BY <2>3 DEF SinkPanic, ReadError, DropReceiver, Reading
    <3> QED
      BY <3>1 DEF SoundStream, PlumbingInv, PlacesInv
  <2>4. CASE RestartStopFailed \/ ShutdownReturns
    <3>1. /\ pc \in {"stopped", "stopfailed"} /\ proc' = proc
          /\ stdoutAt' \in {stdoutAt, "closed"}
      BY <2>4 DEF RestartStopFailed, ShutdownReturns, DropReceiver
    <3>2. pc = "stopped" => proc = "reaped"
      BY <1>4 DEF LifecycleInv, HandleInv
    <3> QED
      BY <3>1, <3>2 DEF SoundStream, PlumbingInv, PlacesInv
  <2>5. ~Reap
    BY DEF Reap, FinalizeChildExit
  <2>6. ~RestartRefused /\ ~RestartSpawnFailed
    BY ReadyMeansReaped DEF RestartRefused, RestartSpawnFailed, AdmitRestart
  <2>7. ~HardRssKill /\ ~RequestTimeout /\ ~(pc = "dropping" /\ Drop)
    BY <1>2, <1>3 DEF HardRssKill, RequestTimeout, Drop
  <2>8. ~DeliverEvent
    BY <1>2 DEF DeliverEvent
  <2>9. ~(AwaitEvent \/ AwaitEventUnbounded \/ RssSampleDue \/ Receive \/ ReadEof)
    BY DEF AwaitEvent, AwaitEventUnbounded, RssSampleDue, Receive, ReadEof
  <2>10. ~(GraceChildExited \/ GraceTimeout \/ GraceJoin \/ GraceEvent)
    BY DEF GraceChildExited, GraceTimeout, GraceJoin, GraceEvent
  <2>11. ~(ExitSeen \/ ExitWaitTimeout \/ KillWaitTimeout \/ BeforeSpawn \/ Dropped)
    BY DEF ExitSeen, ExitWaitTimeout, KillWaitTimeout, BeforeSpawn, Dropped
  <2> QED
    BY <1>6, <2>1, <2>2, <2>3, <2>4, <2>5, <2>6, <2>7, <2>8, <2>9, <2>10, <2>11
       DEF CallStep
<1>7. CASE ReaderStep
  <2>1. ~SendEvent /\ ~SendFails
    BY DEF SendEvent, SendFails, SoundStream, PlumbingInv, PlacesInv
  <2>2. ~ReadFrame
    BY DEF ReadFrame, SoundStream, PlumbingInv, PlacesInv
  <2> QED
    BY <1>7, <2>1, <2>2 DEF ReaderStep
<1>8. CASE OutsideStep
  <2>1. /\ pc \in {"ready", "dropping"} /\ stdoutAt = "sup" /\ proc = "running"
        /\ \/ UNCHANGED <<inbox, pipe, work>> \/ ChildTakes \/ ChildTerminates
           \/ ChildClosesStdout
           \/ \E kind \in EventKinds : ChildEmits(kind)
           \/ \E kind \in {"response", "error"} : ChildResponds(kind)
    BY <1>8, OutsideSteps
  <2>2. Quiet
    BY <1>1, <2>1
  <2>3. ~(ChildTakes \/ ChildTerminates)
    BY <2>2 DEF Quiet, NoWork, Mute, ChildTakes, ChildTerminates
  <2>4. \A kind : ~ChildEmits(kind) /\ ~ChildResponds(kind)
    BY <2>2 DEF Quiet, NoWork, Mute, ChildEmits, ChildResponds
  <2>5. CASE ChildClosesStdout
    BY <2>2, <2>5 DEF Quiet, ChildClosesStdout
  <2> QED
    BY <2>1, <2>2, <2>3, <2>4, <2>5 DEF Quiet
<1> QED
  BY <1>5, <1>6, <1>7, <1>8 DEF Next, OutsideStep

\* SoundStream holds in every reachable state: nothing of a request is lost,
\* doubled, reordered or left over on its way through pipe, reader and channel.
THEOREM StreamSafe == Spec => []SoundStream
<1>1. TypeOK /\ LifecycleInv /\ SoundStream /\ [Next]_vars => SoundStream'
  <2> SUFFICES ASSUME TypeOK, LifecycleInv, SoundStream, [Next]_vars PROVE SoundStream'
    OBVIOUS
  <2>1. PlumbingInv'
    BY PlumbingStep DEF SoundStream
  <2>2. StreamInv'
    BY StreamStep
  <2>3. QuietBetweenCalls'
    BY QuietStep
  <2> QED
    BY <2>1, <2>2, <2>3 DEF SoundStream
<1> QED
  BY <1>1, SoundInit, TypeCorrect, LifecycleSafe, PTL DEF Spec

\* No request ever meets what an earlier one left: between two calls a child
\* whose stdout is in hand is quiet, and what the read loop can receive was
\* read for the request in flight, from the child of the current generation.
THEOREM NothingLeft == Spec => []NothingLeftOver
<1>1. SoundStream => NothingLeftOver
  <2> SUFFICES ASSUME SoundStream PROVE EventsAreCurrent
    BY DEF SoundStream, NothingLeftOver
  <2> SUFFICES ASSUME pc \in Reading,
                      NEW e \in {chan[i] : i \in 1..Len(chan)} \cup {cur, rhold},
                      e.kind # "none"
               PROVE  e.gen = gen /\ e.req = inflight
    BY DEF EventsAreCurrent
  <2>1. AllCurrent
    BY DEF SoundStream, StreamInv, StreamBody
  <2>2. e = cur \/ e = rhold \/ \E i \in 1..Len(chan) : e = chan[i]
    OBVIOUS
  <2> QED
    BY <2>1, <2>2 DEF AllCurrent, Current
<1> QED
  BY <1>1, StreamSafe, PTL

-----------------------------------------------------------------------------
(* The supervisor implements the service                                   *)

\* The service's rows, and its answer.
RowsOf(d) == [i \in 1..Len(d) |-> <<d[i].req, d[i].seq>>]
AnswerOf(r) == IF r.kind \in {"ok", "worker_error"} THEN <<r.frame.req, r.frame.seq>> ELSE <<>>

\* There is a row for each frame.
LEMMA RowsLength ==
  ASSUME NEW d \in Seq(FrameType)
  PROVE  RowsOf(d) \in Seq(Nat \X Nat) /\ Len(RowsOf(d)) = Len(d)
<1>1. Len(d) \in Nat /\ \A i \in 1..Len(d) : d[i] \in FrameType
  OBVIOUS
<1> QED
  BY <1>1 DEF RowsOf, FrameType

\* One more frame is one more row.
LEMMA OneMoreRow ==
  ASSUME NEW d \in Seq(FrameType), NEW f \in FrameType
  PROVE  RowsOf(Append(d, f)) = Append(RowsOf(d), <<f.req, f.seq>>)
<1>1. Len(d) \in Nat /\ Len(Append(d, f)) = Len(d) + 1
  OBVIOUS
<1>3. RowsOf(d) \in Seq(Nat \X Nat) /\ Len(RowsOf(d)) = Len(d)
  BY RowsLength
<1>4. <<f.req, f.seq>> \in Nat \X Nat
  BY DEF FrameType
<1> DEFINE a == Append(RowsOf(d), <<f.req, f.seq>>)
           b == RowsOf(Append(d, f))
<1>5. a \in Seq(Nat \X Nat) /\ Len(a) = Len(d) + 1
  BY <1>3, <1>4
<1>6. DOMAIN a = 1..Len(d) + 1 /\ DOMAIN b = 1..Len(d) + 1
  BY <1>1, <1>5 DEF RowsOf
<1>7. ASSUME NEW i \in 1..Len(d) + 1 PROVE a[i] = b[i]
  <2>1. CASE i \in 1..Len(d)
    <3>1. Append(d, f)[i] = d[i] /\ a[i] = RowsOf(d)[i]
      BY <1>1, <1>3, <1>4, <2>1
    <3> QED
      BY <1>1, <2>1, <3>1 DEF RowsOf
  <2>2. CASE i = Len(d) + 1
    <3>1. Append(d, f)[i] = f /\ a[i] = <<f.req, f.seq>>
      BY <1>1, <1>3, <1>4, <2>2
    <3> QED
      BY <1>1, <3>1 DEF RowsOf
  <2> QED
    <3>1. i \in 1..Len(d) \/ i = Len(d) + 1
      BY <1>1, <1>7
    <3> QED
      BY <2>1, <2>2, <3>1
<1>8. a = [i \in 1..Len(d) + 1 |-> a[i]] /\ b = [i \in 1..Len(d) + 1 |-> b[i]]
  BY <1>5, <1>6 DEF RowsOf
<1> HIDE DEF a, b
<1>9. a = b
  BY <1>7, <1>8
<1> QED
  BY <1>9 DEF a, b

\* The service's variables, as the supervisor's.
LEMMA SeenAsService ==
  Service!svcVars = <<pc # "gone", gen, nextReq - 1, inflight, RowsOf(delivered), AnswerOf(result)>>
BY DEF Service!svcVars, RowsOf, AnswerOf

\* A fresh supervisor is a fresh service.
LEMMA ServiceInit == Init => Service!Init
BY DEF Init, Service!Init, Service!NoRequest, Service!NoAnswer, NoReq, NoResult

\* A step the caller does not see.
LEMMA Unseen ==
  ASSUME UNCHANGED <<gen, nextReq, inflight, delivered, result>>, (pc' = "gone") <=> (pc = "gone")
  PROVE  UNCHANGED Service!svcVars
BY DEF Service!svcVars

\* A request or a stop that ends without the child's answer.
LEMMA Abandoned ==
  ASSUME UNCHANGED <<gen, nextReq, delivered>>, inflight' = NoReq,
         result' = result \/ result'.kind \notin {"ok", "worker_error"},
         pc # "gone", pc' # "gone"
  PROVE  Service!Abandon
BY DEF Service!Abandon, Service!NoRequest, Service!NoAnswer, NoReq

\* A call that is refused.
LEMMA Refused ==
  ASSUME UNCHANGED <<gen, nextReq>>, delivered' = <<>>, inflight = NoReq, inflight' = NoReq,
         result' = result \/ result'.kind \notin {"ok", "worker_error"},
         pc # "gone", pc' # "gone"
  PROVE  Service!Refuse
BY DEF Service!Refuse, Service!NoRequest, Service!NoAnswer, NoReq

\* Each step of the public calls is a step of the service.
LEMMA PublicServes ==
  ASSUME TypeOK, LifecycleInv, SoundStream, PublicCall
  PROVE  [Service!Next]_(Service!svcVars)
<1> USE DEF supVars, callVars, childVars, readerVars, histVars
<1>1. pc \notin Reading => inflight = NoReq
  BY DEF SoundStream, PlumbingInv, PlacesInv
<1>2. CASE Status
  <2>1. UNCHANGED <<gen, nextReq, inflight, delivered, result, pc>>
    BY <1>1, <1>2 DEF Status, ObserveExit, FinalizeChildExit, Reading
  <2> QED
    BY <2>1, Unseen
<1>3. ASSUME NEW rec \in BOOLEAN, BeginRequest(rec) PROVE Service!Submit
  <2>1. /\ pc = "ready" /\ pc' = "loop" /\ inflight' = nextReq /\ nextReq' = nextReq + 1
        /\ delivered' = <<>> /\ UNCHANGED <<gen, result>>
    BY <1>3 DEF BeginRequest, NextRequestId
  <2>2. inflight = 0
    BY <1>1, <2>1 DEF Reading, NoReq
  <2>3. nextReq \in Nat /\ nextReq' - 1 = (nextReq - 1) + 1 /\ inflight' = nextReq' - 1
    BY <2>1 DEF TypeOK, SupType
  <2> QED
    BY <2>1, <2>2, <2>3 DEF Service!Submit, Service!NoRequest
<1>4. ASSUME NEW rec \in BOOLEAN, RequestWithoutStdout(rec) PROVE Service!Refuse
  <2>1. pc = "ready" /\ delivered' = <<>> /\ inflight = NoReq
    BY <1>1, <1>4 DEF RequestWithoutStdout, Reading
  <2>2. CASE rec
    <3>1. BeginRestart("kill", "degraded", FALSE) /\ result' = result
      BY <1>4, <2>2 DEF RequestWithoutStdout
    <3>2. pc' # "gone" /\ inflight' = NoReq /\ UNCHANGED <<gen, nextReq>>
      BY <3>1, RestartsLeaveLoop
    <3> QED
      BY <2>1, <3>1, <3>2, Refused
  <2>3. CASE ~rec
    <3>1. UNCHANGED <<supVars, callVars>> /\ Return("dead", NoReq, NoFrame, 0)
      BY <1>4, <2>3 DEF RequestWithoutStdout
    <3>2. UNCHANGED <<gen, nextReq, inflight, pc>> /\ result'.kind = "dead"
      BY <3>1 DEF Return
    <3> QED
      BY <2>1, <3>2, Refused
  <2> QED
    BY <2>2, <2>3
<1>5. CASE RequestWriteFails
  <2>1. /\ pc = "ready" /\ delivered' = <<>> /\ UNCHANGED <<gen, nextReq, inflight, pc>>
        /\ result'.kind = "protocol"
    BY <1>5 DEF RequestWriteFails, Return
  <2>2. Service!Refuse
    BY <1>1, <2>1, Refused DEF Reading
  <2> QED
    BY <2>2 DEF Service!Next
<1>6. CASE Cycle
  <2>1. pc = "ready" /\ UNCHANGED <<delivered, result>> /\ BeginRestart("graceful", "cycled", FALSE)
    BY <1>6 DEF Cycle
  <2>2. UNCHANGED <<gen, nextReq, inflight>> /\ pc' # "gone"
    BY <1>1, <2>1, RestartsLeaveLoop DEF Reading
  <2> QED
    BY <2>1, <2>2, Unseen
<1>7. CASE Shutdown \/ (pc = "ready" /\ Drop)
  <2>1. pc = "ready" /\ UNCHANGED <<gen, nextReq, inflight, delivered, result>> /\ pc' # "gone"
    BY <1>1, <1>7, EndsLeaveLoop DEF Shutdown, Drop, Reading
  <2> QED
    BY <2>1, Unseen
<1> QED
  BY <1>2, <1>3, <1>4, <1>5, <1>6, <1>7 DEF PublicCall, Service!Next

\* A row's frame is the next of the request in flight.
LEMMA DeliverServes ==
  ASSUME TypeOK, LifecycleInv, SoundStream, DeliverEvent
  PROVE  Service!Row
<1>1. /\ pc = "event" /\ cur.kind = "message"
      /\ delivered' = Append(delivered, cur.frame)
      /\ result' = result
  BY DEF DeliverEvent
<1>2. delivered \in Seq(FrameType) /\ cur.frame \in FrameType
  BY CurFrame DEF TypeOK, HistType
<1>3. StreamBody /\ inflight # NoReq /\ ~IsResponse(cur.frame)
  BY <1>1
     DEF SoundStream, StreamInv, PlumbingInv, PlacesInv, KindsFit, KindFits, Reading
<1>4. Numbered(cur.frame, inflight, Len(delivered) + 1)
  BY <1>1, <1>3 DEF StreamBody, Numbers, Taken
<1>5. cur.frame.req = inflight /\ cur.frame.seq = Len(delivered) + 1
  BY <1>3, <1>4 DEF Numbered
<1>6. RowsOf(delivered') = Append(RowsOf(delivered), <<inflight, Len(delivered) + 1>>)
  BY <1>1, <1>2, <1>5, OneMoreRow
<1>7. Len(RowsOf(delivered)) = Len(delivered)
  BY <1>2, RowsLength
<1>8. pc' # "gone" /\ UNCHANGED <<gen, nextReq>> /\ inflight' \in {inflight, NoReq}
  <2>1. CASE BeginRestart("kill", "cancelled", TRUE)
    BY <2>1, RestartsLeaveLoop
  <2>2. CASE ~BeginRestart("kill", "cancelled", TRUE)
    BY <2>2 DEF DeliverEvent
  <2> QED
    BY <2>1, <2>2
<1> QED
  BY <1>1, <1>3, <1>6, <1>7, <1>8 DEF Service!Row, Service!NoRequest, NoReq, RowsOf

\* The answer names the request in flight and counts the rows it was given.
LEMMA TerminalServes ==
  ASSUME TypeOK, LifecycleInv, SoundStream, TerminalResponse
  PROVE  Service!Answer
<1>1. /\ pc = "event" /\ cur.kind = "terminal" /\ pc' = "ready" /\ inflight' = NoReq
      /\ UNCHANGED <<gen, nextReq, delivered>>
      /\ result'.kind \in {"ok", "worker_error"} /\ result'.frame = cur.frame
  BY DEF TerminalResponse, Return
<1>2. StreamBody /\ inflight # NoReq /\ IsResponse(cur.frame)
  BY <1>1
     DEF SoundStream, StreamInv, PlumbingInv, PlacesInv, KindsFit, KindFits, Reading
<1>3. Numbered(cur.frame, inflight, Len(delivered) + 1)
  BY <1>1, <1>2 DEF StreamBody, Numbers, Taken
<1>4. Len(delivered) \in Nat /\ delivered \in Seq(FrameType)
  BY DEF TypeOK, HistType
<1>5. cur.frame.req = inflight /\ cur.frame.seq = Len(delivered)
  BY <1>2, <1>3, <1>4 DEF Numbered
<1>6. Len(RowsOf(delivered)) = Len(delivered)
  BY <1>4, RowsLength
<1> QED
  BY <1>1, <1>2, <1>5, <1>6 DEF Service!Answer, Service!NoRequest, NoReq, RowsOf

\* The other steps of the read loop give the request up, or are not seen.
LEMMA ReadLoopServes ==
  ASSUME TypeOK, LifecycleInv, SoundStream,
         \/ HardRssKill \/ RequestTimeout \/ LoopStep \/ Receive \/ SinkPanic
         \/ ReadError \/ ReadEof \/ Reap
  PROVE  [Service!Next]_(Service!svcVars)
<1> USE DEF supVars, callVars, childVars, readerVars, histVars
<1>1. CASE HardRssKill \/ RequestTimeout
  <2>1. pc # "gone" /\ UNCHANGED <<delivered, result>>
    BY <1>1 DEF HardRssKill, RequestTimeout
  <2>2. inflight' = NoReq /\ UNCHANGED <<gen, nextReq>> /\ pc' # "gone"
    BY <1>1, RestartsLeaveLoop DEF HardRssKill, RequestTimeout
  <2>3. Service!Abandon
    BY <2>1, <2>2, Abandoned
  <2> QED
    BY <2>3 DEF Service!Next
<1>2. CASE LoopStep \/ Receive
  <2>1. UNCHANGED <<gen, nextReq, inflight, delivered, result>> /\ pc # "gone" /\ pc' # "gone"
    BY <1>2 DEF LoopStep, AwaitEvent, AwaitEventUnbounded, RssSampleDue, Receive
  <2> QED
    BY <2>1, Unseen
<1>3. CASE SinkPanic \/ ReadError \/ ReadEof
  <2>1. /\ pc = "event" /\ pc' \in {"ready", "reap"} /\ inflight' = NoReq
        /\ UNCHANGED <<gen, nextReq, delivered>>
    BY <1>3 DEF SinkPanic, ReadError, ReadEof
  <2>2. result'.kind \in {"sink_panic", "protocol", "child_exit"}
    BY <1>3 DEF SinkPanic, ReadError, ReadEof, Return
  <2>3. Service!Abandon
    BY <2>1, <2>2, Abandoned
  <2> QED
    BY <2>3 DEF Service!Next
<1>4. CASE Reap
  <2>1. /\ pc = "reap" /\ pc' \in {"ready", "stopped"} /\ inflight' = NoReq
        /\ UNCHANGED <<gen, nextReq, delivered, result>>
    BY <1>4 DEF Reap, FinalizeChildExit
  <2>2. inflight = NoReq
    BY <2>1 DEF SoundStream, PlumbingInv, PlacesInv, Reading
  <2> QED
    BY <2>1, <2>2, Unseen
<1> QED
  BY <1>1, <1>2, <1>3, <1>4

\* The waits of a stop are not seen.
LEMMA WaitServes ==
  ASSUME TypeOK, LifecycleInv, SoundStream,
         \/ GraceChildExited \/ GraceTimeout \/ GraceJoin \/ GraceEvent
         \/ ExitSeen \/ ExitWaitTimeout \/ KillWaitTimeout \/ BeforeSpawn
  PROVE  UNCHANGED Service!svcVars
<1> USE DEF supVars, callVars, childVars, readerVars, histVars
<1>1. /\ pc \notin Reading /\ pc # "gone" /\ pc' # "gone"
      /\ UNCHANGED <<gen, nextReq, delivered, result>>
      /\ inflight' \in {inflight, NoReq}
  <2>1. CASE GraceChildExited \/ GraceTimeout \/ BeforeSpawn
    BY <2>1 DEF GraceChildExited, GraceTimeout, BeforeSpawn, Reading
  <2>2. CASE GraceJoin
    BY <2>2 DEF GraceJoin, FinalizeChildExit, Reading
  <2>3. CASE GraceEvent
    BY <2>3 DEF GraceEvent, Reading
  <2>4. CASE ExitSeen \/ ExitWaitTimeout \/ KillWaitTimeout
    BY <2>4 DEF ExitSeen, ExitWaitTimeout, KillWaitTimeout, FinalizeChildExit, Reading
  <2> QED
    BY <2>1, <2>2, <2>3, <2>4
<1>2. inflight = NoReq
  BY <1>1 DEF SoundStream, PlumbingInv, PlacesInv
<1> QED
  BY <1>1, <1>2, Unseen

\* After the stop a call ends without an answer, a new child takes over, or
\* the supervisor is gone.
LEMMA AfterStopServes ==
  ASSUME TypeOK, LifecycleInv, SoundStream,
         \/ RestartStopFailed \/ RestartRefused \/ RestartSpawnFailed
         \/ RestartSpawned \/ Dropped \/ ShutdownReturns \/ (pc = "dropping" /\ Drop)
  PROVE  [Service!Next]_(Service!svcVars)
<1> USE DEF supVars, callVars, childVars, readerVars, histVars
<1>1. pc \notin Reading => inflight = NoReq
  BY DEF SoundStream, PlumbingInv, PlacesInv
<1>2. CASE RestartStopFailed \/ RestartRefused \/ RestartSpawnFailed
  <2>1. /\ pc \in {"stopped", "stopfailed", "join"} /\ pc' = "ready"
        /\ inflight' \in {inflight, NoReq} /\ UNCHANGED <<gen, nextReq, delivered>>
    BY <1>2
       DEF RestartStopFailed, RestartRefused, RestartSpawnFailed, AdmitRestart,
           ReadyToAdmit
  <2>2. result'.kind \in {"stop_failed", "restart_limit", "spawn_failed"}
    BY <1>2 DEF RestartStopFailed, RestartRefused, RestartSpawnFailed, Return
  <2>3. inflight' = NoReq
    BY <1>1, <2>1 DEF Reading
  <2>4. Service!Abandon
    BY <2>1, <2>2, <2>3, Abandoned
  <2> QED
    BY <2>4 DEF Service!Next
<1>3. CASE RestartSpawned
  <2>1. /\ pc \in {"stopped", "join"} /\ pc' = "ready" /\ inflight' = NoReq
        /\ gen' = gen + 1
        /\ UNCHANGED <<nextReq, delivered>> /\ result'.kind = job.ret
    BY <1>3 DEF RestartSpawned, AdmitRestart, ReadyToAdmit, Return
  <2>2. job.ret \notin {"ok", "worker_error"}
    BY DEF TypeOK, CallType, JobType
  <2>3. inflight = NoReq
    BY <1>1, <2>1 DEF Reading
  <2>4. Service!Replace
    BY <2>1, <2>2, <2>3 DEF Service!Replace, Service!NoRequest, Service!NoAnswer, NoReq
  <2> QED
    BY <2>4 DEF Service!Next
<1>4. CASE Dropped
  <2>1. /\ pc \in {"stopped", "stopfailed"} /\ pc' = "gone"
        /\ UNCHANGED <<gen, nextReq, inflight, delivered, result>>
    BY <1>4 DEF Dropped
  <2>2. inflight = NoReq
    BY <1>1, <2>1 DEF Reading
  <2>3. Service!Close
    BY <2>1, <2>2 DEF Service!Close, Service!NoRequest, NoReq
  <2> QED
    BY <2>3 DEF Service!Next
<1>5. CASE ShutdownReturns
  <2>1. UNCHANGED <<gen, nextReq, inflight, delivered, result>> /\ pc # "gone" /\ pc' # "gone"
    BY <1>5 DEF ShutdownReturns
  <2> QED
    BY <2>1, Unseen
<1>6. CASE pc = "dropping" /\ Drop
  <2>1. UNCHANGED <<gen, nextReq, inflight, delivered, result>> /\ pc' # "gone"
    BY <1>1, <1>6, EndsLeaveLoop DEF Drop, Reading
  <2> QED
    BY <1>6, <2>1, Unseen
<1> QED
  BY <1>2, <1>3, <1>4, <1>5, <1>6

\* Every step of the supervisor is a step of the service or is not seen.
LEMMA ServiceStep ==
  TypeOK /\ LifecycleInv /\ SoundStream /\ [Next]_vars => [Service!Next]_(Service!svcVars)
<1> SUFFICES ASSUME TypeOK, LifecycleInv, SoundStream, [Next]_vars
             PROVE  [Service!Next]_(Service!svcVars)
  OBVIOUS
<1>1. CASE PublicCall
  BY <1>1, PublicServes
<1>2. CASE CallStep
  <2>1. CASE DeliverEvent
    BY <2>1, DeliverServes DEF Service!Next
  <2>2. CASE TerminalResponse
    BY <2>2, TerminalServes DEF Service!Next
  <2> QED
    BY <1>2, <2>1, <2>2, ReadLoopServes, WaitServes, AfterStopServes
       DEF CallStep, LoopStep
<1>3. CASE ReaderStep
  <2>1. UNCHANGED <<gen, nextReq, inflight, delivered, result, pc>>
    BY <1>3 DEF ReaderStep, ReadFrame, SendEvent, SendFails, supVars, callVars, histVars
  <2> QED
    BY <2>1, Unseen
<1>4. CASE OutsideStep
  <2>1. UNCHANGED <<gen, nextReq, inflight, delivered, result, pc>>
    BY <1>4, OutsideSteps
  <2> QED
    BY <2>1, Unseen
<1> QED
  BY <1>1, <1>2, <1>3, <1>4 DEF Next, OutsideStep

\* The supervisor with its child, reader, channel and pipes implements the
\* service its caller is promised: one request at a time under a fresh id, its
\* rows in order without loss or repetition, an answer that names the request
\* and counts the rows, and replacements between requests only.
THEOREM Implements == Spec => ImplementsService
<1>1. Init => Service!Init
  BY ServiceInit
<1>2. TypeOK /\ LifecycleInv /\ SoundStream /\ [Next]_vars => [Service!Next]_(Service!svcVars)
  BY ServiceStep
<1> QED
  BY <1>1, <1>2, TypeCorrect, LifecycleSafe, StreamSafe, PTL
     DEF Spec, ImplementsService, Service!Spec

-----------------------------------------------------------------------------
(* What the status says                                                    *)

\* No sink panics, every frame decodes, and a killed child dies in time.
NoFaults == ~SinkPanics /\ ~KillMayStall /\ "garbage" \notin EventKinds

\* Without faults no stop fails and no call loses the child's stdout.
UsableInv ==
  /\ pc # "stopfailed"
  /\ pc \in {"ready", "dropping"} => ~handle \/ stdoutAt = "sup"
  /\ pc = "ready" /\ state = "idle" => handle
  /\ pc = "gone" => proc = "reaped"

\* A fresh supervisor is usable.
LEMMA UsableInit == Init => UsableInv
BY DEF Init, UsableInv

\* A stop that finds stdout in hand, or nothing to stop, does not fail.
LEMMA StopUsable ==
  ASSUME NEW j, ~handle \/ stdoutAt = "sup",
         StopAlreadyExited(j) \/ StopGraceful(j) \/ StopWriteFails(j)
  PROVE  pc' \in {"stopped", "grace", "killwait"}
BY DEF StopAlreadyExited, StopGraceful, StopWriteFails

\* Neither does one that kills.
LEMMA RestartUsable ==
  ASSUME NEW intent, NEW ret, NEW reading, BeginRestart(intent, ret, reading),
         intent = "kill" \/ ~handle \/ stdoutAt = "sup"
  PROVE  UsableInv'
<1> DEFINE j == Job("restart", ret, reading)
<1>1. StopKill(j) => pc' = "killwait"
  BY DEF StopKill
<1>2. StopAlreadyExited(j) => pc' = "stopped"
  BY DEF StopAlreadyExited
<1>3. ~handle \/ stdoutAt = "sup" => (StopGraceful(j) \/ StopWriteFails(j) => pc' \in {"grace", "killwait"})
  BY DEF StopGraceful, StopWriteFails
<1>4. \/ StopAlreadyExited(j)
      \/ intent = "graceful" /\ (StopGraceful(j) \/ StopWriteFails(j))
      \/ intent = "kill" /\ StopKill(j)
  BY DEF BeginRestart
<1> HIDE DEF j
<1> QED
  BY <1>1, <1>2, <1>3, <1>4 DEF UsableInv

\* Neither do shutdown() and Drop.
LEMMA EndUsable ==
  ASSUME NEW after, Stop(after), ~handle \/ stdoutAt = "sup"
  PROVE  UsableInv'
<1> DEFINE j == Job(after, "stopped", FALSE)
<1>1. StopAlreadyExited(j) \/ StopGraceful(j) \/ StopWriteFails(j)
  BY DEF Stop
<1> HIDE DEF j
<1> QED
  BY <1>1, StopUsable DEF UsableInv

\* An unreadable frame is garbage the child wrote.
LEMMA NoReadError ==
  ASSUME NoFaults, TypeOK, SoundStream PROVE ~ReadError
<1> SUFFICES ASSUME ReadError PROVE FALSE
  OBVIOUS
<1>1. cur.frame.kind = "garbage"
  BY DEF ReadError, SoundStream, PlumbingInv, KindsFit, KindFits
<1>2. cur.frame.kind \in EventKinds \cup {"none", "response", "error", "terminating"}
  BY CurFrame DEF TypeOK, FrameType
<1> QED
  BY <1>1, <1>2 DEF NoFaults

\* Every step preserves UsableInv, without faults.
LEMMA UsableStep ==
  ASSUME NoFaults, TypeOK, LifecycleInv, SoundStream, UsableInv, [Next]_vars
  PROVE  UsableInv'
<1> USE DEF supVars, callVars, childVars, readerVars, histVars
<1>1. handle <=> proc # "reaped"
  BY DEF LifecycleInv, HandleInv
<1>2. CASE PublicCall
  <2>1. CASE Status
    BY <1>1, <2>1 DEF Status, ObserveExit, FinalizeChildExit, UsableInv
  <2>2. ASSUME NEW rec \in BOOLEAN, BeginRequest(rec) PROVE UsableInv'
    BY <2>2 DEF BeginRequest, UsableInv
  <2>3. \A rec \in BOOLEAN : ~RequestWithoutStdout(rec)
    BY DEF RequestWithoutStdout, UsableInv
  <2>4. CASE RequestWriteFails
    BY <2>4 DEF RequestWriteFails, UsableInv
  <2>5. CASE Cycle
    BY <2>5, RestartUsable DEF Cycle, UsableInv
  <2>6. CASE Shutdown \/ (pc = "ready" /\ Drop)
    BY <2>6, EndUsable DEF Shutdown, Drop, UsableInv
  <2> QED
    BY <1>2, <2>1, <2>2, <2>3, <2>4, <2>5, <2>6 DEF PublicCall
<1>3. CASE CallStep
  <2>1. CASE HardRssKill \/ RequestTimeout
    BY <2>1, RestartUsable DEF HardRssKill, RequestTimeout
  <2>2. CASE AwaitEvent \/ AwaitEventUnbounded \/ RssSampleDue \/ Receive
    BY <2>2 DEF AwaitEvent, AwaitEventUnbounded, RssSampleDue, Receive, UsableInv
  <2>3. CASE DeliverEvent
    <3>1. CASE BeginRestart("kill", "cancelled", TRUE)
      BY <3>1, RestartUsable
    <3>2. CASE ~BeginRestart("kill", "cancelled", TRUE)
      BY <2>3, <3>2 DEF DeliverEvent, UsableInv
    <3> QED
      BY <3>1, <3>2
  <2>4. ~SinkPanic /\ ~ReadError /\ ~KillWaitTimeout /\ ~RestartStopFailed
    BY NoReadError
       DEF SinkPanic, KillWaitTimeout, RestartStopFailed, NoFaults, UsableInv
  <2>5. CASE TerminalResponse
    <3>1. handle
      BY <2>5 DEF TerminalResponse, LifecycleInv, HandleInv, Reading
    <3> QED
      BY <2>5, <3>1 DEF TerminalResponse, UsableInv
  <2>6. CASE ReadEof
    BY <2>6 DEF ReadEof, UsableInv
  <2>7. CASE Reap
    BY <2>7 DEF Reap, FinalizeChildExit, UsableInv
  <2>8. CASE GraceChildExited \/ GraceTimeout \/ GraceJoin \/ GraceEvent
    <3>1. pc' \in {"grace", "gracejoin", "stopped", "killwait", "exitwait"}
      BY <2>8 DEF GraceChildExited, GraceTimeout, GraceJoin, GraceEvent
    <3> QED
      BY <3>1 DEF UsableInv
  <2>9. CASE ExitSeen \/ ExitWaitTimeout \/ BeforeSpawn
    BY <2>9 DEF ExitSeen, ExitWaitTimeout, BeforeSpawn, UsableInv
  <2>10. CASE RestartRefused
    BY <2>10, ReadyMeansReaped DEF RestartRefused, UsableInv
  <2>11. CASE RestartSpawnFailed
    <3>1. ~handle /\ state = "exited"
      BY <2>11, ReadyMeansReaped DEF RestartSpawnFailed, AdmitRestart, ReadyToAdmit,
         SoundStream, PlumbingInv, PlacesInv
    <3> QED
      BY <2>11, <3>1 DEF RestartSpawnFailed, UsableInv
  <2>12. CASE RestartSpawned
    BY <2>12 DEF RestartSpawned, UsableInv
  <2>13. CASE Dropped \/ ShutdownReturns
    <3>1. pc = "stopped" /\ ~handle /\ pc' \in {"gone", "dropping"} /\ UNCHANGED <<handle, proc>>
      BY <2>13 DEF Dropped, ShutdownReturns, UsableInv, LifecycleInv, HandleInv
    <3> QED
      BY <1>1, <3>1 DEF UsableInv
  <2>14. CASE pc = "dropping" /\ Drop
    BY <2>14, EndUsable DEF Drop, UsableInv
  <2> QED
    BY <1>3, <2>1, <2>2, <2>3, <2>4, <2>5, <2>6, <2>7, <2>8, <2>9, <2>10, <2>11,
       <2>12, <2>13, <2>14 DEF CallStep
<1>4. CASE ReaderStep
  <2>1. UNCHANGED <<pc, handle, state, proc>>
    BY <1>4 DEF ReaderStep, ReadFrame, SendEvent, SendFails
  <2>2. stdoutAt = "sup" => stdoutAt' = "sup"
    BY <1>4
       DEF ReaderStep, ReadFrame, SendEvent, SendFails, SoundStream, PlumbingInv,
           PlacesInv
  <2> QED
    BY <2>1, <2>2 DEF UsableInv
<1>5. CASE OutsideStep
  <2>1. UNCHANGED <<pc, handle, state, stdoutAt>>
    BY <1>5, OutsideSteps
  <2>2. proc' = "reaped" <=> proc = "reaped"
    <3>1. CASE UNCHANGED vars
      BY <3>1 DEF vars
    <3>2. CASE ~UNCHANGED vars
      BY <1>5, <3>2, BystanderSteps DEF OutsideStep, Bystander
    <3> QED
      BY <3>1, <3>2
  <2> QED
    BY <2>1, <2>2 DEF UsableInv
<1> QED
  BY <1>2, <1>3, <1>4, <1>5 DEF Next, OutsideStep

\* As long as no sink panics, every frame decodes and a killed child dies in
\* time, a supervisor that says Idle holds a child it can serve a request with,
\* and one that was dropped has reaped its child.
THEOREM StatusHolds ==
  ASSUME NoFaults
  PROVE  Spec => []StatusIsTrue
<1>1. Init => UsableInv
  BY UsableInit
<1>2. TypeOK /\ LifecycleInv /\ SoundStream /\ UsableInv /\ [Next]_vars => UsableInv'
  BY UsableStep
<1>3. UsableInv => StatusIsTrue
  BY DEF UsableInv, StatusIsTrue, IdleIsUsable, DroppedMeansReaped
<1> QED
  BY <1>1, <1>2, <1>3, TypeCorrect, LifecycleSafe, StreamSafe, PTL DEF Spec
=============================================================================
