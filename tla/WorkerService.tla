---------------------------- MODULE WorkerService ----------------------------
(***************************************************************************)
(* What a caller is promised of one supervised worker, without children,   *)
(* pipes, threads or timeouts: one request at a time, its rows in order,   *)
(* an answer that acknowledges every row, and replacements only between    *)
(* requests.  WorkerSupervisor implements it (ImplementsService).          *)
(***************************************************************************)
EXTENDS Naturals, Sequences

VARIABLES
  open,        \* the supervisor was not dropped yet
  generation,  \* which child serves
  lastId,      \* the request ids handed out so far
  current,     \* the request in flight, or NoRequest
  rows,        \* what the sinks saw of the last request: <<request, number>>
  answer       \* the last call's answer, or NoAnswer

svcVars == <<open, generation, lastId, current, rows, answer>>

NoRequest == 0
NoAnswer  == <<>>

Init ==
  /\ open = TRUE /\ generation = 0 /\ lastId = 0
  /\ current = NoRequest /\ rows = <<>> /\ answer = NoAnswer

\* A new request, under an id never used before.
Submit ==
  /\ open /\ current = NoRequest
  /\ lastId' = lastId + 1 /\ current' = lastId'
  /\ rows' = <<>>
  /\ UNCHANGED <<open, generation, answer>>

\* The next row of the request in flight, which may end with it: the
\* caller's cancellation token is looked at after a row.
Row ==
  /\ current # NoRequest
  /\ rows' = Append(rows, <<current, Len(rows) + 1>>)
  /\ current' \in {current, NoRequest}
  /\ UNCHANGED <<open, generation, lastId, answer>>

\* Success, or the worker's own error: it names the request and the number of
\* rows sent, and the sinks saw exactly these.
Answer ==
  /\ current # NoRequest
  /\ current' = NoRequest
  /\ answer' = <<current, Len(rows)>>
  /\ UNCHANGED <<open, generation, lastId, rows>>

\* The request ends without an answer, now or after the child was stopped.
Abandon ==
  /\ current' = NoRequest
  /\ answer' \in {answer, NoAnswer}
  /\ UNCHANGED <<open, generation, lastId, rows>>

\* A call that is refused, or that only replaces the child.
Refuse ==
  /\ current = NoRequest
  /\ rows' = <<>> /\ answer' \in {answer, NoAnswer}
  /\ UNCHANGED <<open, generation, lastId, current>>

\* A new child takes over: nothing is in flight, and no answer of the old one
\* is reported for the call that replaced it.
Replace ==
  /\ open /\ current = NoRequest
  /\ generation' = generation + 1
  /\ answer' = NoAnswer
  /\ UNCHANGED <<open, lastId, current, rows>>

Close ==
  /\ open /\ current = NoRequest
  /\ open' = FALSE
  /\ UNCHANGED <<generation, lastId, current, rows, answer>>

Next == Submit \/ Row \/ Answer \/ Abandon \/ Refuse \/ Replace \/ Close

Spec == Init /\ [][Next]_svcVars
=============================================================================
